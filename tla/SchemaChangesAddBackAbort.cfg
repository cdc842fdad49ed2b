SPECIFICATION Spec
CONSTANTS
    VertexTypes = {"A", "B"}
    EdgeTypes <- MCBetween
    Props = {"p", "q"}
    FirstProp = "p"
    BaseLog <- MCBaseLog
    MaxOps = 2
    MaxTxnOps = 2
    MaxCompactions = 1
    MaxTimestamp = 3
    IgnoreErrors = FALSE
    AbortNewLabels = FALSE
    RenameOnto = FALSE
    ReplayUnordered = FALSE
PROPERTY AbortRestores
CHECK_DEADLOCK FALSE
