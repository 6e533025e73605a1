SPECIFICATION FairSpec
CONSTANTS
  s1 = s1
  s2 = s2
  e1 = e1
  e2 = e2
  Schedule = {s1}
  NoSchedule = NoSchedule
  NoMsg = NoMsg
  Holder = Holder
  Message <- mcMessage
  Worker <- mcWorker
  Rule <- mcRule
  Editor = {e1}
  Op = {"create"}
  MaxActive = 1
  MaxTime = 2
  MaxManual = 0
  MaxEdit = 1
  MaxCrash = 0
PROPERTIES
  DueDispatched
CHECK_DEADLOCK FALSE
