SPECIFICATION QueueSpec
CONSTANTS
    a = a
    b = b
    r1 = r1
    r2 = r2
    r3 = r3
    q1 = q1
    q2 = q2
    c1 = c1
    c2 = c2
    c3 = c3
    NoRun = NoRun
    Tasks = {a, b}
    Deps <- MCPair
    InitialTasks = {a, b}
    Runs = {r1, r2}
    Calls = {}
    Requests = {}
    Overrides = {}
    MaxWaves = 4
    WaveConcurrency = 2
    TaskMaxRetries = 0
    MissionMaxRetries = 1
    WorkersReliable = TRUE
    Clients = {c1}
    Intents = {"run"}
    JobAttempts = 3
    MaxStalls = 1
    MaxCrashes = 1
    MaxLost = 0
SYMMETRY MCSymmetry
INVARIANT NeverStuckRunning
CHECK_DEADLOCK FALSE
