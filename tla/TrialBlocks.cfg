CONSTANTS
    root = root coder = coder mid = mid integ = integ reviewer = reviewer sub = sub none = none
    None = none
    Node = {root, coder, mid, integ, reviewer, sub}
    Root = root
    Base <- FlatGenome
    Candidate <- RetiredGenome
    Modes = {"direct"}
    Directives <- FlatDirectives
    Inputs <- NoInputs
    Expected <- MCExpected
    DefaultWrite = TRUE
    MayFail <- MCMayFail
    Failure <- MCFailure
    MaxRuns = 1
    MaxTasks = 13
    FaultyRun = 2
    MaxFaults = 0
SPECIFICATION Spec
INVARIANTS FallsBack
CHECK_DEADLOCK FALSE
