SPECIFICATION Spec
CONSTANTS
    a = a
    b = b
    c = c
    r1 = r1
    r2 = r2
    q1 = q1
    q2 = q2
    Tasks = {a, b, c}
    Deps <- MCDeps
    InitialTasks = {a, b}
    Runs = {r1}
    Calls = {q1, q2}
    Requests = {"plan", "start", "pause", "cancel", "cancelAndSkip", "retry", "archive",
                "remove", "addTask", "updateTask"}
    Overrides = {"COMPLETED", "FAILED", "PENDING"}
    MaxWaves = 6
    WaveConcurrency = 2
    TaskMaxRetries = 1
    MissionMaxRetries = 1
    WorkersReliable = FALSE
SYMMETRY MCSymmetry
INVARIANT TypeOK
INVARIANT CompletedMeansDone
INVARIANT NotStranded
PROPERTY ImplementsTaskGraph
CHECK_DEADLOCK FALSE
