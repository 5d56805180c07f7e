SPECIFICATION FairSpec
CONSTANTS
  r1 = r1
  r2 = r2
  j1 = j1
  s1 = s1
  s2 = s2
  Conns = {k1}
  Companies = {c1, c2}
  NoCompany = NoCompany
  NoConn = NoConn
  Requests = {r1, r2}
  Jobs = {j1}
  Sockets = {s1, s2}
  RoleEnabled = TRUE
  MaxFaults = 2
  QueueSize = 1
  Workloads <- MCWorkloads
INVARIANTS
  TypeOK
  ScopedConnections
  ConnectionsAccounted
  WritesStayInCompany
  LiveClientsMissNothing
PROPERTIES
  EverybodyIsServed
