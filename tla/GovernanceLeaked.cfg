CONSTANTS
    root = root mid = mid leaf = leaf sub = sub none = none
    rootLoop = rootLoop leaked = leaked midLoop = midLoop
    Node = {root, mid, leaf, sub}
    Children <- Tree
    Root = root
    None = none
    Loop = {rootLoop, leaked}
    Serves <- Served
    MayAllocate = {root, mid}
    TokenBudget = 3
    MessageBudget = 2
    Caps = {3}
    Inputs <- LeakedInputs
    Windowed = FALSE
    Window = 0
    MaxSent = 3
    MaxEpoch = 1
    MaxFailures = 1
SPECIFICATION Spec
INVARIANT OverspendIsBounded
SYMMETRY LoopSymmetry
CHECK_DEADLOCK FALSE
