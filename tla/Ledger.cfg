CONSTANTS
    root = root mid = mid
    Id = {1, 2}
    Genome = {"g1", "g2"}
    Node = {root, mid}
    Kind = {"TaskRouted"}
    Finished = {"Promoted", "Frozen"}
    Archived = {"Dominated", "ParetoFrontier"}
    Generations = {1, 2}
    Above <- MCAbove
    Times = {1, 2, 3}
    MaxCalls = 4
    Limits = {1, 2}
    DefaultLimit = 2
SPECIFICATION Spec
INVARIANTS SameContent AnswersAgree WritesAreOrdered
PROPERTY SqliteImplements
CHECK_DEADLOCK FALSE
