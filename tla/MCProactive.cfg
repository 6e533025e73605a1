SPECIFICATION Spec
CONSTANTS
  c1 = c1
  c2 = c2
  Candidate = {c1}
  NoCandidate = NoCandidate
  NoMsg = NoMsg
  Holder = Holder
  Message <- mcTwoRuns
  Worker <- mcWorker
  MaxUser = 1
  MaxManual = 1
  MaxCrash = 1
INVARIANTS
  CandidateOnce
  MemoryReconciled
PROPERTIES
  AnsweredFirst
CHECK_DEADLOCK FALSE
