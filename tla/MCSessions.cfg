\* Every kind of call, three sessions, deaths of the process at every step.
SPECIFICATION FairSpec
CONSTANTS
    BlockSize = 40
    HeadSize = 4
    DataSize = 2
    CellBlockSize = 4
    CellStep = 4
    FixTypes = {"CELL_OBJECT", "CELL_INT32"}
    FixSize <- SmallFixSize
    DynTypes = {"CELL_STRING"}
    StrHeadSize = 2
    RootType = "CELL_OBJECT"
    StrLens = {1, 40}
    Vals = {v1}
    NoVal = NoVal
    Handles = {h1}
    MaxCand = 20
    UIntMax = 256
    MaxBlocks = 4
    MaxSessions = 3
    MaxOps = 2
    MaxDeletes = 1
INVARIANTS
    TypeOK AllocationSound MetaAgrees CandidatesSound FreeAccounting CloseLosesNothing
PROPERTIES
    StableAllocation CallReturns
CHECK_DEADLOCK FALSE
