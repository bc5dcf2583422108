SPECIFICATION Spec
CONSTANTS
    a = a
    b = b
    c = c
    Threads = {a, b, c}
    Main = Main
    NoThread = NoThread
    JoinPairs <- DoublePairs
    Parkers = {}
    SleepTimes = {}
    MaxTick = 0
    MaxCreates = 3
    TickModulus = 100
    CounterModulus = 1
INVARIANT RunEndsClean
CHECK_DEADLOCK FALSE
