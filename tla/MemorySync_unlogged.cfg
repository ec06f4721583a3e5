SPECIFICATION MsSpec
CONSTANTS
    MsNodes = {mn1}
    ControlPlane = ControlPlane
    MaxMsCalls = 2
    MaxClock = 2
    PULL_BATCH = 1
CHECK_DEADLOCK FALSE
INVARIANT EveryWriteLogged
