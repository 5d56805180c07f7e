SPECIFICATION Spec
\* A page that has been left, or has used up its bounds, stands still.
CHECK_DEADLOCK FALSE
CONSTANTS
  Parts = {"session", "signup", "conversations", "flows", "campaigns", "templates", "channels", "crm", "contacts"}
  MaxInFlight = 2
  MaxActs = 3
  MaxLost = 1
  MaxSessionActs = 4
  MaxExpiries = 1
  MaxAttempts = 2
  Convs = {"v1", "v2"}
  Official = {"v2"}
  Shifts <- MCShifts
  MaxMessages = 2
  MaxFaults = 1
  MaxVisits = 2
  Names = {"n1", "n2", "n3", "start"}
  StoredDefs <- MCStoredDefs
  StepTypes = {"condition", "end"}
  Budgets <- MCBudgets
  OfficialChannels = {"c1", "c2"}
  MaxCampaigns = 2
  MetaChannels = {"c1", "c2"}
  Sessions = {"s1", "s2"}
  FirstCards = 1
  Searches = {"", "ana"}
  MaxPages = 2
INVARIANTS
  TypeOK LogoutHolds ThreadShowsItsConversation CanvasStaysLegible SavedLabelIsTrue WizardSendsOnce
  FormsKeepTheirAnswers PagesShowWhatWasAsked
