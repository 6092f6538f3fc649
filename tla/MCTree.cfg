SPECIFICATION FairSpec
CONSTANTS
    Words = {w1}
    NoWord = NoWord
    NoValue = NoValue
    OtherValue = OtherValue
    ValueChoices = {NoValue}
    Readers = {r1}
    MaxNodes = 3
    MaxAttrs = 0
    MaxTexts = 4
INVARIANTS
    TreeIsKids
    ReadersInOrder
PROPERTIES
    LinksStay
    AddReturns
    ImplementsTree
CHECK_DEADLOCK FALSE
