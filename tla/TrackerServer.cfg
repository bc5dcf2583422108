SPECIFICATION Spec
CONSTANTS
    c1 = c1
    c2 = c2
    file1 = "file1"
    Connections = {c1, c2}
    Threads = {t1, t2, t3, t4, t5}
    Requests <- TwoClients
    AnyCut = FALSE
    BUFFERSIZE = 7
    MAX_THREADS = 3
    MIN_THREADS = 2
    MaxResets = 1
SYMMETRY ThreadSymmetry
INVARIANTS PoolCounted OneOperation UnservedKept AnsweredInOrder
