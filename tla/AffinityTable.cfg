SPECIFICATION Spec
CONSTANTS
  n1 = n1
  n2 = n2
  Targets = {n1, n2}
  Buckets = {"rs", "ch"}
  Endpoints = {"e1", "e2"}
  ResponseKeys = {"response"}
  ConversationKeys = {}
  SessionKeys = {"session"}
  KindOf <- MCKindOf
  Identities <- AllIdentities
  Memberships <- TwoMemberships
  Ttl = 0
  MaxBindings = 2
  MaxBucket = 2
  MaxScan = 1
  MaxInc = 3
  MaxTime = 1
  MaxRev = 1
INVARIANTS
  IndexSound
  RepeatFindsItsBinding
PROPERTIES
  RouteChangesAreForced
  NamedResponseIsNeverMoved
CHECK_DEADLOCK FALSE
