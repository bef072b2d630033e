CONSTANTS
    root = root coder = coder mid = mid integ = integ reviewer = reviewer sub = sub none = none
    None = none
    Node = {root, coder, mid, integ, reviewer, sub}
    Root = root
    Base <- BaseGenome
    Candidate <- CandidateGenome
    Modes = {"shadow", "direct"}
    Directives <- MCDirectives
    Inputs <- MCInputs
    Expected <- MCExpected
    DefaultWrite = TRUE
    MayFail <- MCMayFail
    Failure <- MCFailure
    MaxRuns = 2
    MaxTasks = 13
    FaultyRun = 2
    MaxFaults = 1
SPECIFICATION Spec
INVARIANTS NeverStuck ResultsAreDistinct ResultsAreCurrent RevisionsAreBounded ChosenLeafAccepts
PROPERTIES DependenciesFirst PriorityNeverDrops
CHECK_DEADLOCK FALSE
