SPECIFICATION Spec
CONSTANTS
  s1 = s1
  s2 = s2
  e1 = e1
  e2 = e2
  Schedule = {s1}
  NoSchedule = NoSchedule
  NoMsg = NoMsg
  Holder = Holder
  Message <- mcMessage
  Worker <- mcWorker
  Rule <- mcRule
  Editor = {e1}
  Op = {"create", "edit", "pause", "resume", "delete", "run"}
  MaxActive = 1
  MaxTime = 2
  MaxManual = 1
  MaxEdit = 2
  MaxCrash = 1
INVARIANTS
  
  SpawnedOnce
  UnfinishedSpawned
CHECK_DEADLOCK FALSE
