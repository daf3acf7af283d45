CONSTANTS
    SCR_WIDTH = 5
    SCR_HEIGHT = 3
    Letters = {97, 99, 120}
    MaxLine = 2
    MaxKeys = 7
SPECIFICATION Spec
INVARIANTS TypeOK ShowsText WordsArrive
PROPERTIES PromptComes SessionEnds
CHECK_DEADLOCK FALSE
