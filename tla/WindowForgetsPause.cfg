CONSTANTS
    root = root mid = mid leaf = leaf sub = sub none = none
    rootLoop = rootLoop leaked = leaked midLoop = midLoop
    Node = {root, mid, leaf, sub}
    Children <- Tree
    Root = root
    None = none
    Loop = {rootLoop, midLoop}
    Serves <- Served
    MayAllocate = {root, mid}
    TokenBudget = 3
    MessageBudget = 2
    Caps = {2}
    Inputs <- WindowInputs
    Windowed = TRUE
    Window = 3
    MaxSent = 4
    MaxEpoch = 1
    MaxFailures = 0
SPECIFICATION Spec
PROPERTY NoWorkWhilePaused
CHECK_DEADLOCK FALSE
