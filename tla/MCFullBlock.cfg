\* A block is filled: the root cell fills the block of objects.
SPECIFICATION Spec
CONSTANTS
    BlockSize = 40
    HeadSize = 4
    DataSize = 2
    CellBlockSize = 4
    CellStep = 4
    FixTypes = {"CELL_OBJECT", "CELL_INT32"}
    FixSize <- SmallFixSize
    DynTypes = {"CELL_STRING"}
    StrHeadSize = 2
    RootType = "CELL_OBJECT"
    StrLens = {1}
    Vals = {v1}
    NoVal = NoVal
    Handles = {h1}
    MaxCand = 20
    UIntMax = 256
    MaxBlocks = 4
    MaxSessions = 1
    MaxOps = 1
    MaxDeletes = 0
INVARIANT CandidateHasSpace
CHECK_DEADLOCK FALSE
