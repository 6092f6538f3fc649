\* A query for all children.
SPECIFICATION Spec
CONSTANTS
    Nodes = {0, 1, 2, 3}
    Root = 0
    None = None
    IntMax = 3
    FloatUnit = 2
    NoCell = NoCell
    NameOf <- Names
    ValueOf <- Data
    KeysOf <- Keys
    CondOps <- Graphs
    DepthOf <- Depths
    Queries <- OnlyAll
INVARIANT AllChildrenReturned
CHECK_DEADLOCK FALSE
