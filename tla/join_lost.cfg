CONSTANTS
    MAX_PCB_NUM = 4
    MAX_TIME_COUNT = 1
    SleepTimes = {1}
    Calls = {"fork", "thread", "start", "join", "exit"}
SPECIFICATION Spec
INVARIANTS
    JoinIsWoken
