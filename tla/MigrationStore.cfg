SPECIFICATION Spec
CONSTANTS
  k1 = k1
  k2 = k2
  k3 = k3
  NoKey = NoKey
  Keys <- MCKeys
  MaxRecords = 2
  Retention = 1
  MaxOps = 4
  MaxTime = 2
SYMMETRY KeySymmetry
INVARIANTS
  LiveIntentAnswerHeld
  ReceiptFollowsRecord
PROPERTIES
  KeepsItsPromise
CHECK_DEADLOCK FALSE
