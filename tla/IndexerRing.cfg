SPECIFICATION FairSpec
CONSTANTS
    Clients = {c1, c2, c3}
    Server = Server
    NoQuery = NoQuery
    NoProcess = NoProcess
    MAXELEMENTS = 2
    EarlyClients = FALSE
    Rounds = 2
    Crashes = 2
INVARIANTS PlacesConserved
PROPERTIES IsBoundedBuffer AllQueriesRead
\* The clients stop after Rounds queries and the server waits for more.
CHECK_DEADLOCK FALSE
