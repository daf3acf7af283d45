CONSTANTS
    MAX_PCB_NUM = 4
    MAX_TIME_COUNT = 1
    SleepTimes = {2}
    Calls = {"sleep", "fork", "exit", "wait"}
SPECIFICATION FairSpec
INVARIANTS
    TypeOK
    PoolInv
    NeverHalted
    RunningIsHead
    ExitIsFinal
    WaitIsWoken
PROPERTIES
    SleepKept
    ReadyRuns
    SleepEnds
    WaitReturns
