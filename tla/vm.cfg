CONSTANTS
    MAX_PCB_NUM = 4
    Frames = 20
    StackPages = 1
    Images = {1, 3}
    MaxPage = 3
    MaxMade = 5
    Careless = {}
SPECIFICATION Spec
INVARIANTS
    OwnFrames
    NoLeak
    NeverStopped
PROPERTIES
    PagesStay
CHECK_DEADLOCK FALSE
