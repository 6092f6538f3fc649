\* The sizes of the 64-bit build, one object after another.
SPECIFICATION Spec
CONSTANTS
    BlockSize = 4096
    HeadSize = 42
    DataSize = 16
    CellBlockSize = 24
    CellStep = 4
    FixTypes = {"CELL_OBJECT"}
    FixSize <- BuildFixSize
    DynTypes = {}
    StrHeadSize = 8
    RootType = "CELL_OBJECT"
    StrLens = {}
    Vals = {v1}
    NoVal = NoVal
    Handles = {h1}
    MaxCand = 20
    UIntMax = 1000000
    MaxBlocks = 3
    MaxSessions = 1
    MaxOps = 12
    MaxDeletes = 0
INVARIANT CellsInsideBlock
CHECK_DEADLOCK FALSE
