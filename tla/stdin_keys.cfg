CONSTANTS
    Reader = {r1, r2}
    MAX_KEYBUFFER_SIZE = 2
    Letter = {a}
    Repeats = FALSE
    NoChar = NoChar
SPECIFICATION Spec
INVARIANTS
    TypeOK
    TableInStep
PROPERTIES
    InputInOrder
