SPECIFICATION Spec
CONSTANTS
  Flows = {1}
  Names = {"t", "q", "f", "z", "w", "c", "a", "h", "m"}
  Definitions <- TriageOnly
  Editors = {}
  Requests = {}
  Catalogs <- TriageOn
  Convs = {c1}
  Texts <- Chat
  Users = {}
  Execs = {x1, x2}
  Handlers = {h1, h2}
  Timers = {s1}
  c1 = c1 x1 = x1 x2 = x2 h1 = h1 h2 = h2 s1 = s1 e1 = e1 e2 = e2 u1 = u1
  NoDefinition = NoDefinition NoConv = NoConv NoEvent = NoEvent NoUser = NoUser NoExec = NoExec
  MaxSteps = 3
  MaxFaults = 1
INVARIANTS TypeOK OneBotPerConversation OneRunnerPerRun
PROPERTIES EndedRunsStayEnded ImplementsSlot
SYMMETRY Interchangeable
