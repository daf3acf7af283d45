CONSTANTS
    MAX_BUFFER_SIZE = 20
    Chars = {97, 98}
    MaxLen = 4
    Numbers <- MCNumbers
    Pieces <- MCPieces
    MaxPieces = 3
    Fields <- MCFields
    MaxFields = 3
    Separators <- MCSeparators
SPECIFICATION Spec
INVARIANTS
    SearchFindsFirst
    CompareOrders
    MoveKeepsSource
    TokensAreWords
    NumbersReadBack
    PrintsFormat
    ScansBack
