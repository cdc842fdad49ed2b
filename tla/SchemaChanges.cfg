SPECIFICATION Spec
CONSTANTS
    VertexTypes = {"A", "B"}
    EdgeTypes <- MCBetween
    Props = {"p", "q"}
    FirstProp = "p"
    BaseLog <- MCBaseLog
    MaxOps = 3
    MaxTxnOps = 1
    MaxCompactions = 1
    MaxTimestamp = 4
    IgnoreErrors = FALSE
    AbortNewLabels = FALSE
    RenameOnto = FALSE
    ReplayUnordered = FALSE
INVARIANTS
    RecoveryAgrees
    TablesMatch
    NoDanglingEdges
PROPERTY
    AbortRestores
CHECK_DEADLOCK FALSE
