CONSTANTS
    r = r a = a b = b c = c none = none tool = tool comp = comp extra = extra
    NodeId = {r, a, b}
    Root = r
    None = none
    Tool = {tool}
    Component = {comp}
    Status = {"active", "retired"}
    Operation = {"coding"}
    ExtraChannel = {extra}
    MaxMissing = 0
    MaxBatched = 1
SPECIFICATION Spec
SYMMETRY NodeSymmetry
INVARIANTS TypeOK TreeShape BundlesFollowLinks PromotedNeverWrites WalksAgree
