SPECIFICATION Spec
CONSTANTS
    VertexTypes = {"A"}
    EdgeTypes <- MCLoops
    Props = {"p", "q"}
    FirstProp = "p"
    BaseLog <- MCLoopLog
    MaxOps = 2
    MaxTxnOps = 1
    MaxCompactions = 1
    MaxTimestamp = 3
    IgnoreErrors = FALSE
    AbortNewLabels = FALSE
    RenameOnto = FALSE
    ReplayUnordered = FALSE
INVARIANT NoDanglingEdges
CHECK_DEADLOCK FALSE
