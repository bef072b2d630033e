CONSTANTS
    root = root mid = mid leaf = leaf sub = sub none = none
    rootLoop = rootLoop leaked = leaked midLoop = midLoop
    Node = {root, mid, leaf, sub}
    Children <- Tree
    Root = root
    None = none
    Loop = {rootLoop, midLoop}
    Serves <- Served
    MayAllocate = {root, mid}
    TokenBudget = 3
    MessageBudget = 2
    Caps = {2}
    Inputs <- OverrideInputs
    Windowed = FALSE
    Window = 0
    MaxSent = 3
    MaxEpoch = 2
    MaxFailures = 0
SPECIFICATION FairSpec
INVARIANTS GrantIsNeverBlocked BudgetKept
PROPERTIES NoWorkWhilePaused RefinesLatch GrantedWorkIsPublished
CHECK_DEADLOCK FALSE
