SPECIFICATION FairSpec
CONSTANTS
    c1 = c1
    c2 = c2
    c3 = c3
    Connections = {c1, c2, c3}
    NoConnection = NoConnection
    Requests <- ThreeClients
    Waits <- OneWaits
    MIN_WORKINGTHREADS = 1
    MAX_WORKINGTHREADS = 2
INVARIANTS PoolCounted WorkersCounted AnsweredInOrder
PROPERTIES ConnectionServed PoolShrinks
