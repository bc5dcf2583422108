SPECIFICATION Spec
CONSTANTS
    a = a
    b = b
    c = c
    Threads = {a, b, c}
    Main = Main
    NoThread = NoThread
    JoinPairs <- AllPairs
    Parkers = {a, b, c}
    SleepTimes = {0, 1, 2}
    MaxTick = 4
    MaxCreates = 4
    TickModulus = 3
    CounterModulus = 1
SYMMETRY ThreadSymmetry
INVARIANTS TypeOK OnePlace NoThreadLost CountMatches SleepQueueSorted
PROPERTIES NoEarlyWake JoinOnlyAfterExit
CHECK_DEADLOCK FALSE
