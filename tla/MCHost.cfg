SPECIFICATION Spec
CONSTANTS
    Parts = {"host", "events"}
    Plugins <- TwoPlugins
    Kinds <- AnyKind
    MaxGen = 3
    MaxFaults = 3
    Op = {o1, o2}
    Call = {c1}
    Runtime = Runtime
    History = 1
    Queue = 1
    Wire = 1
    MaxChanges = 2
    MaxDrops = 1
    MaxRestarts = 1
PROPERTIES
    RetiredCloses
    ComesToRest
CHECK_DEADLOCK FALSE
