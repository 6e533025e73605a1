SPECIFICATION LiveSpec
CONSTANTS
    Parts = {"sends", "turns", "filter"}
    NoMsg = NoMsg
    r1 = r1
    t1 = t1
    p1 = p1
    s1 = s1
    Recovery = Recovery
    MaxRetry = 1
    MaxCrash = 2
    Inbound = {a}
    NoInbound = NoInbound
    Absent = Absent
    Waiting = Waiting
    Holder = Holder
    MaxTurn = 1
    MaxBubble = 2
    MaxStop = 1
    MaxClear = 1
    MaxRepeat = 0
    Route = {u1, u2}
    Id = {i1}
    NoId = NoId
    MessageDelay = 1
    TypingDelay = 2
    MaxArrivals = 3
    MaxRaises = 1
PROPERTIES
    SendResolved
    
    Submitted
CHECK_DEADLOCK FALSE
