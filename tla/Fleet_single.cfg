SPECIFICATION FairSpec
CONSTANTS
    t1 = t1
    t2 = t2
    n1 = n1
    n2 = n2
    d1 = d1
    d2 = d2
    s1 = s1
    c1 = c1
    c2 = c2
    NoTask = NoTask
    NoNode = NoNode
    Tasks = {t1}
    Nodes = {n1, n2}
    Drivers = {d1}
    Sweepers = {s1}
    Calls = {c1}
    Ops = {"drain", "resume", "decommission"}
    Keyed = FALSE
    SilentNodes = {}
    MaxAttempts = 3
    MaxConcurrency = 1
    QuarantineAfter = 1
    DriversTimely = TRUE
    MaxCrashes = 1
 
PROPERTY InFlightIsResolved
CHECK_DEADLOCK FALSE
