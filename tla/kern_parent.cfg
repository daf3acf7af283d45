CONSTANTS
    MAX_PCB_NUM = 4
    MAX_TIME_COUNT = 1
    SleepTimes = {1}
    Calls = {"fork", "exit"}
    MAX_SEMAPHORE = 1
    InitValues = {0}
    MaxValue = 1
    SemCalls = {"init", "P", "V"}
    Careless = {"parentWaits"}
SPECIFICATION KSpec
INVARIANTS
    PoolInv
