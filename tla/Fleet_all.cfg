SPECIFICATION Spec
CONSTANTS
    t1 = t1
    t2 = t2
    n1 = n1
    n2 = n2
    d1 = d1
    d2 = d2
    s1 = s1
    c1 = c1
    c2 = c2
    NoTask = NoTask
    NoNode = NoNode
    Tasks = {t1}
    Nodes = {n1, n2}
    Drivers = {d1}
    Sweepers = {s1}
    Calls = {c1}
    Ops = {"migrate", "requeue", "cancel", "recover", "rebalance", "heartbeat"}
    Keyed = FALSE
    SilentNodes = {n1, n2}
    MaxAttempts = 2
    MaxConcurrency = 1
    QuarantineAfter = 9
    DriversTimely = TRUE
    MaxCrashes = 0
SYMMETRY MCSymmetry
INVARIANT TypeOK
 
INVARIANT NobodyForgotten
CHECK_DEADLOCK FALSE
