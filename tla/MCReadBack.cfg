\* One place at a time and no deletes: what is stored can be read back.
SPECIFICATION Spec
CONSTANTS
    BlockSize = 40
    HeadSize = 4
    DataSize = 2
    CellBlockSize = 4
    CellStep = 4
    FixTypes = {"CELL_OBJECT", "CELL_INT32"}
    FixSize <- SmallFixSize
    DynTypes = {"CELL_STRING"}
    StrHeadSize = 2
    RootType = "CELL_OBJECT"
    StrLens = {1, 6}
    Vals = {v1, v2}
    NoVal = NoVal
    Handles = {h1}
    MaxCand = 20
    UIntMax = 256
    MaxBlocks = 4
    MaxSessions = 2
    MaxOps = 3
    MaxDeletes = 0
INVARIANT ReadBack
PROPERTY ImplementsCellMap
CHECK_DEADLOCK FALSE
