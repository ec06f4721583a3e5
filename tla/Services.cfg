SPECIFICATION SvSpec
CONSTANTS
    NoKey = NoKey
    WfLength = 5
    Kind <- MCKind
    OnError <- MCOnError
    Conditional = {3, 5}
    Children = {"adapter", "approval"}
    WfRetries = 0
    WfMaxRetries = 1
    MaxConcurrent = 1
    MaxWfRuns = 2
    Keys = {k1}
    MaxApprovals = 2
    MaxWfCalls = 3
    WfOps = {"start", "resume", "retry", "cancelRun", "approve", "reject", "delegate",
             "requestChanges", "cancelApproval", "expireStale"}
    Provs = {p1, p2}
    Completions = {c1, c2}
    MAX_ATTEMPTS = 2
    FAILURES_BEFORE_COOLDOWN = 2
    RateLimitRpm = 1
    MaxElapses = 1
    Orgs = {o1, o2}
    Resources = {r1}
    FdCalls = {f1, f2, f3}
    MaxVersion = 3
    NkCalls = {n1, n2, n3}
    Instances = {i1, i2}
    Schedules = {s1}
    Ticks = {t1, t2}
    MaxDue = 2
    Changes = {m1, m2}
    Original = Original
    Candidates = {cA}
    KindOf <- MCKindOf
    NeedsConsent = {cA}
    MinTrials = 1
    MaxTrials = 1
    MaxExperiments = 1
    MaxRows = 3
    MaxDpCalls = 3
    MaxAdded = 4
    Tenants = {"odd", "even"}
    TenantOf <- MCTenantOf
    MaxBatch = 2
    Capacity = 3
    MaxFlushes = 4
    MsNodes = {mn1}
    ControlPlane = ControlPlane
    MaxMsCalls = 3
    MaxClock = 2
    PULL_BATCH = 1
    Endpoints = {e1}
    MaxDeliveries = 1
    MaxWhCalls = 3
    MaxRetries = 2
    MAX_STREAK = 2
    Hosts = {h1, h2}
    MaxExVersion = 3
    Breaking = {3}
    Migrating = {2}
    MaxUpgrades = 2
    MaxExCalls = 3
    ExOps = {"install", "approve", "enable", "disable", "quarantine", "uninstall", "invoke",
             "upgrade", "rollback"}
    BkHosts = {h1, h2}
    MaxBackups = 2
    MaxBkCalls = 3
    BodySizes = {1, 3}
    ARTEFACT_CACHE_BYTES = 2
    Tenancies = {g1, g2}
    MaxPeriods = 3
    MaxBlCalls = 4
    MaxSweeps = 2
    MaxRelease = 3
    Reviewed = {2}
    MaxCtCalls = 3
CONSTRAINT OneUpset
CONSTRAINT CallsAboutExtension
CONSTRAINT NamedFirst
VIEW Moving
CHECK_DEADLOCK FALSE
INVARIANT ServicesTypeOK
INVARIANT ApprovedFirst
INVARIANT RunningIsDriven
INVARIANT NothingRepeated
INVARIANT ApprovedIsResumed
INVARIANT BenchedAfterFailures
 
INVARIANT OnlyGrantedIsLent
INVARIANT RevokedNeverVerifies
 
 
INVARIANT OncePerDue
INVARIANT EveryChangeRecorded
INVARIANT ConsentGiven
 
INVARIANT NothingStranded
 
 
INVARIANT NothingDropped
INVARIANT DeliveredIsOver
INVARIANT OneVersion
INVARIANT ModuleFollowsRow
 
INVARIANT BilledAsAgreed
 
PROPERTY RowsWrittenOnce
