SPECIFICATION Spec
CONSTANTS
    VertexTypes = {"A", "B", "C", "D"}
    EdgeTypes <- MCBetween
    Props = {"p", "q"}
    FirstProp = "p"
    BaseLog <- MCBaseLog
    MaxOps = 3
    MaxTxnOps = 1
    MaxCompactions = 1
    MaxTimestamp = 4
    IgnoreErrors = FALSE
    AbortNewLabels = TRUE
    RenameOnto = FALSE
    ReplayUnordered = FALSE
INVARIANT RecoveryAgrees
CHECK_DEADLOCK FALSE
