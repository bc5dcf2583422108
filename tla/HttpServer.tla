----------------------------- MODULE HttpServer -----------------------------
(***************************************************************************)
(* The HTTP server (HttpServer_2.cpp, Connection.cpp): main accepts        *)
(* connections, adds a thread to the pool when it thinks that all are      *)
(* working, and posts each connection to a completion port.  A thread      *)
(* takes one, serves its requests one after the other with one buffer for  *)
(* input and output, closes it and comes back; a thread that waits too     *)
(* long ends, unless it is one of the last MIN_WORKINGTHREADS.             *)
(* threadsCounter is changed under a critical section; workersCounter is   *)
(* not, so that its changes are a load and a store.                        *)
(*                                                                         *)
(* A request is two pieces, its first line and its headers with the empty  *)
(* line; a chunk read from the socket ends after any of them.  Clients     *)
(* send whole requests, a GET with a Connection header unless one of its   *)
(* headers is malformed, and close without reset.  The completion port     *)
(* does not fail: main closes it only when it ends the program, and then   *)
(* the waits of all threads do (HttpServer_2.cpp:135-140).                 *)
(***************************************************************************)
EXTENDS Integers, Sequences, FiniteSets, SequencesExt, FiniteSetsExt

CONSTANTS
    Connections,
    Requests,           \* what each client asks for, in order
    Waits,              \* does the client wait for each answer before it asks again?
    NoConnection,
    MIN_WORKINGTHREADS, \* 1 in httpserver.h
    MAX_WORKINGTHREADS  \* 16 in httpserver.h

Files == {"full", "empty", "missing"}
Request == [get : BOOLEAN, wellFormed : BOOLEAN, file : Files, keepAlive : BOOLEAN]

ASSUME HttpAssumption ==
    /\ IsFiniteSet(Connections) /\ NoConnection \notin Connections
    /\ Requests \in [Connections -> Seq(Request)]
    /\ Waits \in [Connections -> BOOLEAN]
    /\ MIN_WORKINGTHREADS \in Nat \ {0}
    /\ MAX_WORKINGTHREADS \in Nat /\ MIN_WORKINGTHREADS <= MAX_WORKINGTHREADS

Threads == 1 .. MAX_WORKINGTHREADS

VARIABLES
    main,           \* where main is in its loop
    connectSock,    \* the connection main has accepted
    port,           \* the connections in the completion port
    threadsCounter,
    workersCounter,
    thread,         \* where each thread is in ProcessConnection
    connection,     \* whose connection it serves
    loaded,         \* the value of workersCounter that it is about to change
    buffer,         \* what it has read of bufferComm and not yet used
    current,        \* the request it is at
    socket,         \* the pieces on the way from each client
    asked,          \* how many requests each client has made
    sent,           \* the answers sent to each client
    closing,        \* the clients that have closed their side
    closed,         \* the connections that the server has closed
    lost,           \* history: requests of each client that get no answer
    overwritten     \* history: changes of workersCounter that a store undid

pool == <<main, connectSock, port, threadsCounter>>
counting == <<workersCounter, loaded, overwritten>>
work == <<connection, buffer, current>>
clients == <<socket, asked, closing>>
outcome == <<sent, closed, lost>>
vars == <<pool, counting, thread, work, clients, outcome>>

Alive == {t \in Threads : thread[t] # "gone"}

Init ==
    /\ main = "accept" /\ connectSock = NoConnection
    /\ port = <<>>
    /\ threadsCounter = MIN_WORKINGTHREADS
    /\ workersCounter = 0
    /\ thread = [t \in Threads |-> IF t <= MIN_WORKINGTHREADS THEN "idle" ELSE "gone"]
    /\ connection = [t \in Threads |-> NoConnection]
    /\ loaded = [t \in Threads |-> 0]
    /\ buffer = [t \in Threads |-> <<>>]
    /\ current = [t \in Threads |-> 0]
    /\ socket = [c \in Connections |-> <<>>]
    /\ asked = [c \in Connections |-> 0]
    /\ sent = [c \in Connections |-> <<>>]
    /\ closing = {} /\ closed = {}
    /\ lost = [c \in Connections |-> {}]
    /\ overwritten = 0

(***************************************************************************)
(* The clients.                                                            *)
(***************************************************************************)
Piece(part, n) == [part |-> part, number |-> n]

Connected(c) == c = connectSock \/ c \in ToSet(port) \/ \E t \in Threads : connection[t] = c

\* A client that waits asks again when it has its answer; another one at any time.
MayAsk(c) == asked[c] < Len(Requests[c]) /\ (Waits[c] => Len(sent[c]) = asked[c])

Ask(c) ==
    /\ Connected(c) /\ c \notin closing
    /\ MayAsk(c)
    /\ asked' = [asked EXCEPT ![c] = @ + 1]
    /\ socket' = [socket EXCEPT ![c] = @ \o <<Piece("line", asked'[c]), Piece("headers", asked'[c])>>]
    /\ UNCHANGED <<pool, counting, thread, work, closing, outcome>>

\* It has all it wanted, or is tired of waiting.
CloseClient(c) ==
    /\ Connected(c) /\ c \notin closing
    /\ ~MayAsk(c)
    /\ closing' = closing \cup {c}
    /\ UNCHANGED <<pool, counting, thread, work, socket, asked, outcome>>

Client(c) == Ask(c) \/ CloseClient(c)

(***************************************************************************)
(* main                                                                    *)
(***************************************************************************)
Accept ==
    /\ main = "accept"
    /\ \E c \in Connections \ closed : ~Connected(c) /\ connectSock' = c
    /\ main' = "check"
    /\ UNCHANGED <<port, threadsCounter, counting, thread, work, clients, outcome>>

\* In the critical section: a new thread if all of them seem to be working.
CheckPool ==
    /\ main = "check"
    /\ IF threadsCounter < MAX_WORKINGTHREADS /\ threadsCounter = workersCounter
       THEN /\ threadsCounter' = threadsCounter + 1
            /\ thread' = [thread EXCEPT ![CHOOSE t \in Threads : t \notin Alive] = "idle"]
       ELSE UNCHANGED <<threadsCounter, thread>>
    /\ main' = "post"
    /\ UNCHANGED <<connectSock, port, counting, work, clients, outcome>>

PostQueuedCompletionStatus ==
    /\ main = "post"
    /\ port' = Append(port, connectSock)
    /\ connectSock' = NoConnection
    /\ main' = "accept"
    /\ UNCHANGED <<threadsCounter, counting, thread, work, clients, outcome>>

Main == Accept \/ CheckPool \/ PostQueuedCompletionStatus

(***************************************************************************)
(* ProcessConnection                                                       *)
(***************************************************************************)
Goto(t, place) == thread' = [thread EXCEPT ![t] = place]

GetQueuedCompletionStatus(t) ==
    /\ thread[t] = "idle" /\ port # <<>>
    /\ connection' = [connection EXCEPT ![t] = Head(port)]
    /\ port' = Tail(port)
    /\ Goto(t, "enter")
    /\ UNCHANGED <<main, connectSock, threadsCounter, counting, buffer, current, clients, outcome>>

\* No connection within the time that the thread waits for one.
TimeOut(t) ==
    /\ thread[t] = "idle" /\ port = <<>>
    /\ Goto(t, "timed out")
    /\ UNCHANGED <<pool, counting, work, clients, outcome>>

\* Slip: the counter is not looked at in the critical section.
SlipEndOrStay(t) ==
    /\ thread[t] = "timed out"
    /\ threadsCounter' = threadsCounter - 1 /\ Goto(t, "gone")
    /\ UNCHANGED <<main, connectSock, port, counting, work, clients, outcome>>

\* Slip: off by one.
SlipEndOrStayLate(t) ==
    /\ thread[t] = "timed out"
    /\ IF threadsCounter > MIN_WORKINGTHREADS + 1
       THEN threadsCounter' = threadsCounter - 1 /\ Goto(t, "gone")
       ELSE Goto(t, "idle") /\ UNCHANGED threadsCounter
    /\ UNCHANGED <<main, connectSock, port, counting, work, clients, outcome>>

\* In the critical section: the last threads go back to wait.
EndOrStay(t) ==
    /\ thread[t] = "timed out"
    /\ IF threadsCounter > MIN_WORKINGTHREADS
       THEN threadsCounter' = threadsCounter - 1 /\ Goto(t, "gone")
       ELSE Goto(t, "idle") /\ UNCHANGED threadsCounter
    /\ UNCHANGED <<main, connectSock, port, counting, work, clients, outcome>>

\* Slip: a thread that is done is counted once more.
SlipCountBy(t) == 1

CountBy(t) == IF thread[t] = "entering" THEN 1 ELSE -1

\* ++workersCounter and --workersCounter: a load, then a store.
LoadWorkers(t) ==
    /\ thread[t] \in {"enter", "leave"}
    /\ loaded' = [loaded EXCEPT ![t] = workersCounter]
    /\ Goto(t, IF thread[t] = "enter" THEN "entering" ELSE "leaving")
    /\ UNCHANGED <<pool, workersCounter, overwritten, work, clients, outcome>>

StoreWorkers(t) ==
    /\ thread[t] \in {"entering", "leaving"}
    /\ workersCounter' = loaded[t] + CountBy(t)
    /\ overwritten' = overwritten + Max({workersCounter - loaded[t], loaded[t] - workersCounter})
    /\ loaded' = [loaded EXCEPT ![t] = 0]
    /\ Goto(t, IF thread[t] = "entering" THEN "init" ELSE "idle")
    /\ UNCHANGED <<pool, work, clients, outcome>>

\* The buffer is cleared, with what it may hold of later requests.
ContextInit(t) ==
    /\ thread[t] = "init"
    /\ lost' = [lost EXCEPT ![connection[t]] = @ \cup {piece.number : piece \in ToSet(buffer[t])}]
    /\ buffer' = [buffer EXCEPT ![t] = <<>>]
    /\ current' = [current EXCEPT ![t] = 0]
    /\ Goto(t, "line")
    /\ UNCHANGED <<pool, counting, connection, clients, sent, closed>>

\* recv returns a part of what has arrived.
FillBuffer(t) ==
    /\ thread[t] \in {"line", "headers"} /\ buffer[t] = <<>>
    /\ \E n \in 1 .. Len(socket[connection[t]]) :
          /\ buffer' = [buffer EXCEPT ![t] = SubSeq(socket[connection[t]], 1, n)]
          /\ socket' = [socket EXCEPT ![connection[t]] = SubSeq(@, n + 1, Len(@))]
    /\ UNCHANGED <<pool, counting, thread, connection, current, asked, closing, outcome>>

\* Slip: the end is not told from an input that is late.
SlipEndOfInput(t) ==
    /\ thread[t] = "line" /\ buffer[t] = <<>>
    /\ socket[connection[t]] = <<>> /\ connection[t] \in closing
    /\ UNCHANGED vars

\* recv returns 0: there is no request.
EndOfInput(t) ==
    /\ thread[t] = "line" /\ buffer[t] = <<>>
    /\ socket[connection[t]] = <<>> /\ connection[t] \in closing
    /\ Goto(t, "close")
    /\ UNCHANGED <<pool, counting, work, clients, outcome>>

\* Only a GET is gone on with; the rest of a request whose start was lost is none.
RequestLine(t) ==
    /\ thread[t] = "line" /\ buffer[t] # <<>>
    /\ LET piece == Head(buffer[t])
           ok == piece.part = "line" /\ Requests[connection[t]][piece.number].get
       IN  /\ current' = [current EXCEPT ![t] = piece.number]
           /\ buffer' = [buffer EXCEPT ![t] = Tail(@)]
           /\ Goto(t, IF ok THEN "headers" ELSE "close")
    /\ UNCHANGED <<pool, counting, connection, clients, outcome>>

Asked(t) == Requests[connection[t]][current[t]]

\* At a header without a colon the request is given up.
Headers(t) ==
    /\ thread[t] = "headers" /\ buffer[t] # <<>>
    /\ buffer' = [buffer EXCEPT ![t] = Tail(@)]
    /\ Goto(t, IF Asked(t).wellFormed THEN "process" ELSE "close")
    /\ UNCHANGED <<pool, counting, connection, current, clients, outcome>>

Answer(t, status) ==
    sent' = [sent EXCEPT ![connection[t]] = Append(@, [number |-> current[t], status |-> status])]

\* The value of the request's Connection header decides how the loop goes on.
KeepAlive(t) == Goto(t, IF Asked(t).keepAlive THEN "init" ELSE "close")

\* GetFileAttributesEx: is there such a file?
ProcessRequest(t) ==
    /\ thread[t] = "process"
    /\ IF Asked(t).file = "missing"
       THEN Answer(t, 404) /\ KeepAlive(t)
       ELSE Goto(t, "send") /\ UNCHANGED sent
    /\ UNCHANGED <<pool, counting, work, clients, closed, lost>>

\* Slip: no return after the answer that the file cannot be opened.
SlipSendResponseFile(t) ==
    /\ thread[t] = "send"
    /\ \/ /\ sent' = [sent EXCEPT ![connection[t]] =
                @ \o <<[number |-> current[t], status |-> 404], [number |-> current[t], status |-> 200]>>]
          /\ UNCHANGED lost
       \/ Asked(t).file = "full" /\ Answer(t, 200) /\ UNCHANGED lost
       \/ /\ lost' = [lost EXCEPT ![connection[t]] = @ \cup {current[t]}]
          /\ UNCHANGED sent
    /\ KeepAlive(t)
    /\ UNCHANGED <<pool, counting, work, clients, closed>>

\* The file may be gone by now, be open in another thread (CreateFile does not share
\* it), or be shorter than it was.  A mapping of an empty file,
\* or beyond the end of one, cannot be made: the headers stay in the buffer.
SendResponseFile(t) ==
    /\ thread[t] = "send"
    /\ \/ Answer(t, 404) /\ UNCHANGED lost
       \/ Asked(t).file = "full" /\ Answer(t, 200) /\ UNCHANGED lost
       \/ /\ lost' = [lost EXCEPT ![connection[t]] = @ \cup {current[t]}]
          /\ UNCHANGED sent
    /\ KeepAlive(t)
    /\ UNCHANGED <<pool, counting, work, clients, closed>>

\* The connection is over, and what is known of it forgotten.
CloseSocket(t) ==
    /\ thread[t] = "close"
    /\ LET c == connection[t]
       IN  /\ closed' = closed \cup {c}
           /\ closing' = closing \ {c}
           /\ socket' = [socket EXCEPT ![c] = <<>>]
           /\ asked' = [asked EXCEPT ![c] = 0]
           /\ sent' = [sent EXCEPT ![c] = <<>>]
           /\ lost' = [lost EXCEPT ![c] = {}]
    /\ connection' = [connection EXCEPT ![t] = NoConnection]
    /\ buffer' = [buffer EXCEPT ![t] = <<>>]
    /\ current' = [current EXCEPT ![t] = 0]
    /\ Goto(t, "leave")
    /\ UNCHANGED <<pool, counting>>

ProcessConnection(t) ==
    \/ GetQueuedCompletionStatus(t) \/ TimeOut(t) \/ EndOrStay(t)
    \/ LoadWorkers(t) \/ StoreWorkers(t)
    \/ ContextInit(t) \/ FillBuffer(t) \/ EndOfInput(t) \/ RequestLine(t) \/ Headers(t)
    \/ ProcessRequest(t) \/ SendResponseFile(t) \/ CloseSocket(t)

Next ==
    \/ Main
    \/ \E t \in Threads : ProcessConnection(t)
    \/ \E c \in Connections : Client(c)

Spec == Init /\ [][Next]_vars

\* Main and the threads run, and so do the clients: one that gets no answer gives up.
FairSpec ==
    /\ Spec
    /\ WF_vars(Main)
    /\ \A t \in Threads : WF_vars(ProcessConnection(t))
    /\ WF_vars(\E c \in Connections : Client(c))

(***************************************************************************)
(* Properties.                                                             *)
(***************************************************************************)
\* threadsCounter, which decides who may end and whether one is added, is the number
\* of threads that are there, and stays within its bounds: the threads that time out
\* together do not all end.
PoolCounted ==
    /\ threadsCounter = Cardinality(Alive)
    /\ threadsCounter \in MIN_WORKINGTHREADS .. MAX_WORKINGTHREADS

Working == {t \in Threads : thread[t] \notin {"gone", "idle", "timed out", "enter", "entering"}}

\* workersCounter, which main compares with threadsCounter, is off by no more than the
\* updates that other threads' stores have undone: exact as long as none overlapped.
WorkersCounted ==
    Max({workersCounter - Cardinality(Working), Cardinality(Working) - workersCounter})
        <= overwritten

Numbers(answers) == {answers[i].number : i \in DOMAIN answers}
OnTheWay(c) ==
    {piece.number : piece \in ToSet(socket[c])}
        \cup UNION {{current[t]} \cup {piece.number : piece \in ToSet(buffer[t])} :
                    t \in {u \in Threads : connection[u] = c}}

\* A client's answers come in the order of its requests, each at most once and none to
\* a request that was dropped, and say 404 if the file does not exist; until the
\* server closes, every request is answered, on its way or dropped.
AnsweredInOrder ==
    \A c \in Connections :
        /\ \A i, j \in DOMAIN sent[c] : i < j => sent[c][i].number < sent[c][j].number
        /\ Numbers(sent[c]) \cap lost[c] = {}
        /\ \A i \in DOMAIN sent[c] :
              Requests[c][sent[c][i].number].file = "missing" => sent[c][i].status = 404
        /\ c \notin closed => 1 .. asked[c] \subseteq Numbers(sent[c]) \cup lost[c] \cup OnTheWay(c)

\* Every connection that main has accepted is served to its end, whether or not a
\* thread was added for it and although the thread that main counted on may time out.
ConnectionServed == (\E c \in Connections : Connected(c)) ~> (\A c \in Connections : ~Connected(c))

\* When the connections are over, the threads that were added for them end.
PoolShrinks == <>[](threadsCounter = MIN_WORKINGTHREADS)
=============================================================================
