SPECIFICATION FairSpec
CONSTANTS
    p1 = p1
    p2 = p2
    q = q
    name = name
    other = other
    folder1 = folder1
    folder2 = folder2
    Paths = {p1, p2, q}
    Names = {name, other}
    NameOf <- TwoNames
    FolderOf <- TwoFolders
    QueryName <- SameQuery
    Existing = {q}
    Early <- FirstFile
    MaxChanges = 2
    Effort = 3
    Threads = {t1, t2}
    Server = Server
    NoThread = NoThread
    MAXELEMENTS = 1
    Rounds = 2
    Stopper = TRUE
    MapFailures = 1
INVARIANTS AnswerIsCurrent AnswerIsWhole AnswerKept IndexConsistent
PROPERTIES QueryReturns StopWithQueryEnds IndexCatchesUp
\* The clients stop after Rounds queries and the server waits for more.
CHECK_DEADLOCK FALSE
