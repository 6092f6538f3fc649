SPECIFICATION Spec
CONSTANTS
    Words = {w1, w2}
    NoWord = NoWord
    NoValue = NoValue
    OtherValue = OtherValue
    ValueChoices = {NoValue, OtherValue, w2}
    Readers = {}
    MaxNodes = 1
    MaxAttrs = 3
    MaxTexts = 4
INVARIANTS
    TypeOK
    AttrLists
    TextsStay
CHECK_DEADLOCK FALSE
