SPECIFICATION FairSpec
CONSTANTS
    a = a
    b = b
    c = c
    Threads = {a, b, c}
    Main = Main
    NoThread = NoThread
    JoinPairs <- ChainPairs
    Parkers = {}
    SleepTimes = {0, 1}
    MaxTick = 3
    MaxCreates = 4
    TickModulus = 2
    CounterModulus = 1
INVARIANTS RunEndsClean
PROPERTIES ReadyThreadRuns SleeperRuns JoinerRuns UtRunReturns
CHECK_DEADLOCK FALSE
