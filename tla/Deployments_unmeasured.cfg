SPECIFICATION DpSpec
CONSTANTS
    Changes = {m1, m2}
    Original = Original
    Candidates = {cA}
    KindOf <- MCKindOf
    NeedsConsent = {}
    MinTrials = 1
    MaxTrials = 1
    MaxExperiments = 1
    MaxRows = 1
    MaxDpCalls = 1
CHECK_DEADLOCK FALSE
INVARIANT MeasuredIsDeployed
