CONSTANTS
    MAX_PCB_NUM = 4
    MAX_TIME_COUNT = 1
    SleepTimes = {1}
    Calls = {"fork", "sleep", "exit", "wait"}
    MAX_SEMAPHORE = 2
    InitValues = {0, 1}
    MaxValue = 1
    SemCalls = {"init", "P", "V", "destroy"}
    Careless = {}
SPECIFICATION KSpec
INVARIANTS
    KInv
    ValueCounts
PROPERTIES
    AbsSpec
