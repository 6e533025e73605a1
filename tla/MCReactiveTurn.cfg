SPECIFICATION Spec
CONSTANTS
  a = a
  b = b
  Inbound = {a, b}
  NoInbound = NoInbound
  Absent = Absent
  Waiting = Waiting
  NoMsg = NoMsg
  Holder = Holder
  Message <- mcMessage
  Worker <- mcWorker
  MaxTurn = 2
  MaxBubble = 2
  MaxRetry = 1
  MaxStop = 1
  MaxClear = 1
  MaxRepeat = 1
  MaxCrash = 1
SYMMETRY mcSymmetry
INVARIANTS
  OfferHonoured
  NobodyForgotten
  BubbleOrder
  
CONSTRAINT mcApart
CHECK_DEADLOCK FALSE
