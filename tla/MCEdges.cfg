SPECIFICATION Spec
CONSTANTS
    Parts = {"channel", "sending", "tools", "group", "library", "disk", "model", "service", "foundry"}
    User = {u1, u2}
    Resumes = TRUE
    MaxAttempts = 1
    MaxEvents = 2
    MaxDrops = 2
    MaxForms = 1
    MaxLineFaults = 1
    Platform = {"qq", "wechat", "onebot"}
    Outgoing = {m1, m2, m3}
    Null = Null
    MaxRetries = 1
    MaxGaps = 2
    MaxLosses = 1
    MaxRounds = 3
    MaxCalls = 3
    Repetitions = 2
    MaxCycle = 2
    Failures = 2
    Outcome = {1, 2}
    MaxRoleChanges = 1
    MaxLoops = 2
    Cooldown = {1}
    QuietTime = 2
    Bubbles = 1
    Lag = 1
    MaxTime = 2
    MaxDecisions = 3
    MaxChanges = 1
    MaxManual = 1
    MaxFaults = 1
    MaxOdd = 1
    Picture = {1, 2}
    Session = {s1, s2}
    Name = {1}
    Capacity = 3
    MaxUploads = 2
    MaxEdits = 2
    MaxTurns = 1
    MaxClears = 1
    MaxLooks = 1
    MaxCrashes = 1
    MaxOps = 5
    Secret = {k1, k2}
    MaxWrites = 3
    MaxRestores = 1
    MaxFailures = 1
    MaxStops = 1
    Call = {c1, c2}
    Kinds = {"stream", "other"}
    Generation = {1, 2}
    MaxTries = 2
    MaxConcurrency = 1
    Gap = 1
    MaxCool = 2
    MaxModelFaults = 1
    Request = {r1, r2}
    MaxPending = 2
    MaxAbandoned = 1
    Hangs = TRUE
    Job = {j1, j2}
    Part = Part
    Foreign = Foreign
    Same = FALSE
    MaxScripts = 1
    MaxDeaths = 1
    MaxTouches = 2
CONSTRAINT Within
INVARIANTS
    SharedRefresh
    OnceALoop
    RowHasFile
    InboundKept
    ReferencesResolve
    SaidOnce
    NeverMisjudged
    RunsReviewed
PROPERTIES
    OthersKept
    PauseKept
    RestoredOrKept
CHECK_DEADLOCK FALSE
