SPECIFICATION FairSpec
CHECK_DEADLOCK FALSE
CONSTANTS
  Phones = {p1}
  Inbound = {i1, i2}
  Outbound = {o1}
  People = {k1}
  Chats = {v1}
  Desks = {d1}
  Pipelines = {l1, l2}
  None = None
  p1 = p1 i1 = i1 i2 = i2 o1 = o1 k1 = k1 v1 = v1 d1 = d1 l1 = l1 l2 = l2
  Crowds <- Together
INVARIANTS TypeOK DuplicatesHaveACause InboundIsNoticed
PROPERTIES ImplementsDelivery RepliesSettle
