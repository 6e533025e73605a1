SPECIFICATION Spec
CONSTANTS
  r1 = r1
  r2 = r2
  t1 = t1
  p1 = p1
  s1 = s1
  NoMsg = NoMsg
  Recovery = Recovery
  Message <- mcMessage
  Session <- mcSession
  Worker <- mcWorker
  SessionOf <- mcSessionOf
  Origin <- mcOrigin
  MaxRetry = 1
  MaxCrash = 1
SYMMETRY mcSymmetry
INVARIANTS
  AtMostOnce
  HistoryTruthful
PROPERTIES
  ImplementsDelivery
