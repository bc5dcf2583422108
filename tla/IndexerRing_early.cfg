SPECIFICATION Spec
CONSTANTS
    Clients = {c1, c2}
    Server = Server
    NoQuery = NoQuery
    NoProcess = NoProcess
    MAXELEMENTS = 2
    EarlyClients = TRUE
    Rounds = 2
    Crashes = 0
PROPERTIES IsBoundedBuffer
\* The clients stop after Rounds queries and the server waits for more.
CHECK_DEADLOCK FALSE
