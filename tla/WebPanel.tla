------------------------------ MODULE WebPanel ------------------------------
(***************************************************************************)
(* The web panel (web/src).  App shows one page at a time, and the pages   *)
(* share nothing in the browser but the API client, so a behaviour is      *)
(* about one part of the panel, chosen at the start; the pages of the      *)
(* other parts are closed and stand still.                                 *)
(***************************************************************************)
EXTENDS WebSession, MetaSignup, InboxPage, FlowEditorPage, CampaignsPage, TemplatesPage,
        ChannelsPage, CrmPage, ContactsPage

CONSTANT Parts   \* the parts a run is about

ASSUME WebPanelAssumption ==
  Parts \subseteq {"session", "signup", "conversations", "flows", "campaigns", "templates",
                   "channels", "crm", "contacts"}

VARIABLE part

webVars == <<part, sessionVars, signupVars, inboxVars, editorVars, campaignVars, templateVars,
             channelVars, crmVars, peopleVars>>

-----------------------------------------------------------------------------
(* Parts nobody looks at *)

SignedOut == SessionInit /\ store = NoTokens

InboxClosed ==
  /\ inbox = [InboxStart(TRUE, {}) EXCEPT !.mounted = FALSE] /\ inboxCalls = {}
  /\ inboxDb = [messages |-> <<>>, mine |-> [c \in Convs |-> FALSE], status |-> [c \in Convs |-> "open"]]
  /\ inboxLine = [open |-> FALSE, events |-> <<>>, faults |-> 0]

EditorClosed ==
  /\ editor = ListView(<<>>, FALSE, [edits |-> 0, puts |-> 0, visits |-> 0]) /\ editorCalls = {}
  /\ flowRow = [def |-> CHOOSE def \in StoredDefs : TRUE, status |-> "draft", gone |-> FALSE]

CampaignsClosed ==
  /\ wizard = [PageOpened(0) EXCEPT !.mounted = FALSE] /\ campaignCalls = {}
  /\ campaignDb = [channels |-> {}, rows |-> <<>>, lost |-> 0]

TemplatesClosed ==
  /\ builder = [TemplatesOpened(0) EXCEPT !.mounted = FALSE] /\ templateCalls = {}
  /\ templateDb = [channels |-> {}, rows |-> {}, synced |-> FALSE, lost |-> 0]

ChannelsClosed ==
  /\ connect = [ChannelsOpened EXCEPT !.mounted = FALSE] /\ channelCalls = {}
  /\ channelDb = [sessions |-> {}, states |-> [s \in Sessions |-> "STOPPED"], others |-> {}, lost |-> 0]

CrmClosed ==
  /\ crm = [CrmOpened EXCEPT !.mounted = FALSE] /\ crmCalls = {}
  /\ crmDb = Company({}, {}, 0)

ContactsClosed ==
  /\ people = [ContactsOpened EXCEPT !.mounted = FALSE] /\ peopleCalls = {}
  /\ peopleDb = [changes |-> 0, fields |-> 0, lost |-> 0]

-----------------------------------------------------------------------------
Init ==
  /\ part \in Parts
  /\ IF part = "session" THEN SessionInit ELSE SignedOut
  /\ SignupInit
  /\ IF part = "conversations" THEN InboxInit ELSE InboxClosed
  /\ IF part = "flows" THEN EditorInit ELSE EditorClosed
  /\ IF part = "campaigns" THEN CampaignsInit ELSE CampaignsClosed
  /\ IF part = "templates" THEN TemplatesInit ELSE TemplatesClosed
  /\ IF part = "channels" THEN ChannelsInit ELSE ChannelsClosed
  /\ IF part = "crm" THEN CrmInit ELSE CrmClosed
  /\ IF part = "contacts" THEN ContactsInit ELSE ContactsClosed

(* Every part but the one the behaviour is about.                          *)
OthersStandStill ==
  /\ UNCHANGED part
  /\ part # "session" => UNCHANGED sessionVars
  /\ part # "signup" => UNCHANGED signupVars
  /\ part # "conversations" => UNCHANGED inboxVars
  /\ part # "flows" => UNCHANGED editorVars
  /\ part # "campaigns" => UNCHANGED campaignVars
  /\ part # "templates" => UNCHANGED templateVars
  /\ part # "channels" => UNCHANGED channelVars
  /\ part # "crm" => UNCHANGED crmVars
  /\ part # "contacts" => UNCHANGED peopleVars

Next ==
  \/ part = "session" /\ SessionNext /\ OthersStandStill
  \/ part = "signup" /\ SignupNext /\ OthersStandStill
  \/ part = "conversations" /\ InboxNext /\ OthersStandStill
  \/ part = "flows" /\ EditorNext /\ OthersStandStill
  \/ part = "campaigns" /\ CampaignsNext /\ OthersStandStill
  \/ part = "templates" /\ TemplatesNext /\ OthersStandStill
  \/ part = "channels" /\ ChannelsNext /\ OthersStandStill
  \/ part = "crm" /\ CrmNext /\ OthersStandStill
  \/ part = "contacts" /\ ContactsNext /\ OthersStandStill

Spec == Init /\ [][Next]_webVars

(* What goes on by itself: timers, and the answers of the servers.         *)
FairSpec == Spec /\ SessionFair /\ SignupFair /\ CampaignsFair /\ ChannelsFair

-----------------------------------------------------------------------------
TypeOK ==
  /\ part \in Parts
  /\ part = "session" => SessionTypeOK
  /\ part = "signup" => SignupTypeOK
  /\ part = "conversations" => InboxTypeOK
  /\ part = "flows" => EditorTypeOK
  /\ part = "campaigns" => CampaignsTypeOK
  /\ part = "templates" => TemplatesTypeOK
  /\ part = "channels" => ChannelsTypeOK
  /\ part = "crm" => CrmTypeOK
  /\ part = "contacts" => ContactsTypeOK

(* Whatever is in flight when a dialog is closed and another one opened,   *)
(* submitted again or given up: an answer ends the form it belongs to and  *)
(* no other, and of the attempts to connect an official channel only the   *)
(* one in progress has not ended, and none posts twice.                    *)
FormsKeepTheirAnswers == CrmFormsHeld /\ ContactFormsHeld /\ OneSignupAtATime

(* What a page shows is what it was asked for: the board and the list that *)
(* are selected, as the server has them; the QR code of the session being  *)
(* scanned; and what is sent to Meta has a sample for its header.  Where   *)
(* calls crossed the code keeps no such promise: "muddled", "crossed" and  *)
(* "behind" say where.                                                     *)
PagesShowWhatWasAsked == BoardIsTrue /\ ListIsOfTheSearch /\ QrIsOfTheScan /\ SampleIsOfTheHeader

(* The panel catches up with what goes on without it: its websocket comes  *)
(* back, a signup ends whether or not Meta answers and gives its button    *)
(* back, a campaign that has ended is not shown as sending for ever, nor a *)
(* session that works as waiting to be scanned.                            *)
PanelCatchesUp ==
  SocketComesBack /\ SignupEnds /\ ButtonComesBack /\ SendingIsFollowed /\ ScanIsNoticed
=============================================================================
