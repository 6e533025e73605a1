SPECIFICATION Spec
CONSTANTS
    Parts = {"social", "drift", "feeds", "behaviour", "index", "filter"}
    Msg = {m1, m2}
    Jargon = {j1}
    Expression = {}
    Behavior = {b1}
    Run = {r1}
    Turn = {1, 2}
    Task = {f1}
    Limit = 2
    MaxAttempts = 1
    MaxLevel = 2
    Enough = 1
    MaxDays = 1
    MaxLife = 1
    MaxFaults = 1
    MaxAsks = 1
    MaxActs = 2
    Items = 1
    Fact = {}
    MaxResumes = 1
    Window = 10
    MaxRuns = 3
    MaxMessages = 2
    MaxClears = 1
    MaxDriftFaults = 2
    MaxOdd = 2
    Feed = {1, 2}
    Poll = {p1, p2}
    Url = {1, 2}
    MaxEntries = 2
    Untitled = {21}
    MaxVersions = 2
    MaxEdits = 2
    MaxFailures = 1
    Pattern = {q1, q2}
    Domain = {d1, d2}
    Need = {n1}
    Key = {1, 2, 3}
    Scene = {c1, c2}
    Null = Null
    MaxDepth = 1
    MaxSaves = 3
    MaxStarts = 1
    Expr = {e1, e2}
    User = {u1, u2}
    Address = {"a"}
    Marker = {"m", "n"}
    MaxGen = 2
    MaxEras = 1
    Route = {w1, w2}
    Id = {i1}
    NoId = NoId
    MessageDelay = 1
    TypingDelay = 2
    MaxArrivals = 3
    MaxRaises = 1
CONSTRAINT Within
SYMMETRY Alike
INVARIANTS
    ReadStillTrue
    LearnedFromKept
    Unstuck
    BudgetKept
    NothingMissed
    Recalled
    WaitBounded
PROPERTIES
    WholeIndex
CHECK_DEADLOCK FALSE
