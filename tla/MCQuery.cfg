\* Queries over a tree that grows between two moves.
SPECIFICATION FairSpec
CONSTANTS
    Nodes = {0, 1, 2, 3}
    Root = 0
    None = None
    IntMax = 3
    FloatUnit = 2
    NoCell = NoCell
    NameOf <- Names
    ValueOf <- Data
    KeysOf <- Keys
    CondOps <- Graphs
    DepthOf <- Depths
    Queries <- MyQueries
INVARIANTS
    TypeOK
    NoMisuse
    CopiesOwned
    ConditionsRight
    ResultsRight
PROPERTY MoveReturns
CHECK_DEADLOCK FALSE
