SPECIFICATION Spec
CONSTANTS
    c1 = c1
    c2 = c2
    file1 = "file1"
    Connections = {c1}
    Threads = {t1, t2, t3, t4}
    Requests <- OneClient
    AnyCut = TRUE
    BUFFERSIZE = 8
    MAX_THREADS = 3
    MIN_THREADS = 2
    MaxResets = 0
SYMMETRY ThreadSymmetry
INVARIANTS AnsweredInOrder
