--------------------------- MODULE TrackerServer ---------------------------
(***************************************************************************)
(* The tracker (Server/Server.cpp, Connection.cpp, Handler.cpp): a pool of *)
(* threads takes I/O completions of all connections from one completion    *)
(* port; a connection goes through its reads and its requests by asking    *)
(* for one more operation at the end of each.  The bytes of a stream are   *)
(* abstracted to tokens: a request's type, its argument, CR and LF.        *)
(***************************************************************************)
EXTENDS Integers, Sequences, SequencesExt, FiniteSets, FiniteSetsExt

CONSTANTS
    Threads,       \* bound: identities that threads of the pool can have
    Connections,
    Requests,      \* what the client of each connection sends: fields type, arg
    AnyCut,        \* FALSE: no chunk ends between CR and LF, or after a request
                   \* with another one to come
    BUFFERSIZE,
    MAX_THREADS, MIN_THREADS,
    MaxResets      \* bound: connections that are reset

ASSUME ServerAssumption ==
    /\ MIN_THREADS \in Nat /\ MAX_THREADS \in Nat /\ BUFFERSIZE \in Nat
    /\ MIN_THREADS < MAX_THREADS /\ MAX_THREADS <= Cardinality(Threads)
    /\ MaxResets \in Nat /\ AnyCut \in BOOLEAN
    /\ IsFiniteSet(Threads) /\ IsFiniteSet(Connections) /\ "none" \notin Connections

WithArgument == {"REGISTER", "UNREGISTER", "LIST_LOCATIONS"}
MessageTypes == WithArgument \cup {"LIST_FILES"}

Tokens(req) ==
    <<req.type, "CR", "LF">>
    \o (IF req.type \in WithArgument THEN <<req.arg, "CR", "LF">> ELSE <<>>)

Stream(reqs) == FlattenSeq([i \in DOMAIN reqs |-> Tokens(reqs[i])])

Arguments == UNION {{Requests[c][i].arg : i \in DOMAIN Requests[c]} : c \in Connections}
Request == [type : MessageTypes, arg : Arguments]

\* Requests whose names are no line ends and which fit the buffer.
Plain(reqs) ==
    /\ reqs \in Seq(Request)
    /\ \A i \in 1 .. Len(reqs) :
          /\ IF reqs[i].type \in WithArgument THEN reqs[i].arg \notin {"CR", "LF", "none"}
                                              ELSE reqs[i].arg = "none"
          /\ Len(Tokens(reqs[i])) <= BUFFERSIZE

\* Somebody takes his location of a file back.
Withdrawn(file) ==
    \E c \in Connections : \E i \in 1 .. Len(Requests[c]) :
        Requests[c][i] = [type |-> "UNREGISTER", arg |-> file]

\* A client asks for the locations of a file only when it has registered one itself and
\* nobody takes it back; and requests arrive in the chunks that AnyCut = FALSE leaves.
PlainClients ==
    /\ \A c \in Connections : Plain(Requests[c])
    /\ \A c \in Connections : \A i \in 1 .. Len(Requests[c]) :
          LET r == Requests[c][i] IN
          r.type = "LIST_LOCATIONS" =>
             /\ \E j \in 1 .. i - 1 : Requests[c][j] = [type |-> "REGISTER", arg |-> r.arg]
             /\ ~ Withdrawn(r.arg)
    /\ AnyCut = FALSE

VARIABLES
    conn,       \* Connection records; ops: operations asked for, not yet taken
    input,      \* what each client sends and no thread has yet worked on
    answers,    \* history: requests carried out for each connection
    store,      \* files with a location
    pc, work, seen,  \* of each thread: place, completion in hand, loaded count
    threadsCounter, activeThreadsCounter,
    killed      \* history: threads ended by a failed completion

vars == <<conn, input, answers, store, pc, work, seen, threadsCounter,
          activeThreadsCounter, killed>>

ConnectionInit ==
    [socket |-> "none", broken |-> FALSE, ops |-> <<>>, key |-> "START_OPER",
     buf |-> [i \in 1 .. BUFFERSIZE |-> "?"],
     rPos |-> 0, len |-> 0, lastReq |-> 0, requestType |-> <<>>]

NoWork == [cn |-> "none", op |-> "none", bytes |-> 0]

\* CreateThreadPool and CreateLoggerThread: the latter starts a pool thread too.
Init ==
    /\ conn = [c \in Connections |-> ConnectionInit]
    /\ input = [c \in Connections |-> Stream(Requests[c])]
    /\ answers = [c \in Connections |-> <<>>]
    /\ store = {}
    /\ \E created \in kSubset(MIN_THREADS + 1, Threads) :
           pc = [t \in Threads |-> IF t \in created THEN "waiting" ELSE "none"]
    /\ work = [t \in Threads |-> NoWork]
    /\ seen = [t \in Threads |-> 0]
    /\ threadsCounter = MAX_THREADS
    /\ activeThreadsCounter = 0
    /\ killed = 0

pool == <<pc, work, seen, threadsCounter, activeThreadsCounter, killed>>

(***************************************************************************)
(* Connection.cpp and Handler.cpp: functions of a connection.              *)
(***************************************************************************)
PostCompletionPort(cn, key) == [cn EXCEPT !.key = key, !.ops = Append(@, "post")]

\* WSARecv; on a connection that is gone it fails at once, and that is only logged.
Receive(cn, buffer) == IF cn.broken THEN cn ELSE [cn EXCEPT !.ops = Append(@, buffer)]

\* Slip: the bytes of requests already carried out stay in front.
SlipAdaptBufferIn(cn) == Receive([cn EXCEPT !.rPos = 0, !.key = "RECV_PARTIAL"], "streamBuf")

\* The unserved bytes move to the front; the next ones go behind them.
AdaptBufferIn(cn) ==
    LET kept == SubSeq(cn.buf, cn.lastReq + 1, cn.len)
    IN  Receive([cn EXCEPT !.buf = kept \o SubSeq(@, Len(kept) + 1, BUFFERSIZE),
                           !.len = Len(kept), !.lastReq = 0, !.rPos = 0,
                           !.key = "RECV_PARTIAL"], "streamBuf")

\* rPos is not set back when bufferIn is filled anew.
ReadFromSocket(cn) ==
    IF cn.len = 0 \/ cn.lastReq = cn.rPos
    THEN Receive([cn EXCEPT !.key = "SEND_OPER"], "bufferIn")
    ELSE AdaptBufferIn(cn)

\* The line at rPos: all of it up to a CR, with the LF if that is there.  size is
\* -1 if no CR has come.  Past len there is only what the buffer held before.
GetLine(cn) ==
    LET crs == {p \in cn.rPos + 1 .. cn.len : cn.buf[p] = "CR"}
        cr == Min(crs)
        line == SubSeq(cn.buf, cn.rPos + 1, cr - 1)
    IN  IF cn.rPos > cn.len THEN [size |-> 1, line |-> <<"?">>, rPos |-> cn.rPos]
        ELSE IF crs = {} THEN [size |-> -1, line |-> <<>>, rPos |-> cn.len]
        ELSE [size |-> Len(line), line |-> line, rPos |-> Min({cr + 1, cn.len})]

\* An empty line (size 0) asks for nothing: the connection is left as it is.
ProcessInputRequest(cn) ==
    LET g == GetLine(cn)
        read == [cn EXCEPT !.rPos = g.rPos]
    IN  CASE g.size > 0 -> PostCompletionPort([read EXCEPT !.requestType = g.line], "RECV_OPER")
          [] g.size = -1 -> ReadFromSocket(read)
          [] OTHER -> read

VerifyRequestPartial(cn, data) ==
    ProcessInputRequest(
        [cn EXCEPT !.buf = SubSeq(@, 1, cn.len) \o data
                               \o SubSeq(@, cn.len + Len(data) + 1, BUFFERSIZE),
                   !.len = @ + Len(data)])

\* The four processors: the connection after its payload is read, the request
\* carried out (none if the payload is not complete) and the result.  The
\* locations of an unknown file are answered, with the result -1 nevertheless.
Processor(cn) ==
    LET type == cn.requestType[1]
        g == GetLine(cn)
        arg == IF g.size > 0 THEN g.line[1] ELSE "none"
        read == [cn EXCEPT !.rPos = g.rPos]
    IN  IF type = "LIST_FILES"
        THEN [cn |-> cn, done |-> <<[type |-> type, arg |-> "none"]>>, result |-> 0]
        ELSE IF g.size = -1 THEN [cn |-> read, done |-> <<>>, result |-> -1]
        ELSE [cn |-> read, done |-> <<[type |-> type, arg |-> arg]>>,
              result |-> IF type # "LIST_LOCATIONS" THEN g.size
                         ELSE IF arg \in store THEN 1 ELSE -1]

\* What the store may be then.  A file of which somebody takes his location back stays
\* while it has another one.
Stored(done) ==
    LET files == {r.arg : r \in ToSet(done)} \ {"none"}
    IN  CASE \E r \in ToSet(done) : r.type = "REGISTER" -> {store \cup files}
          [] \E r \in ToSet(done) : r.type = "UNREGISTER" -> {store, store \ files}
          [] OTHER -> {store}

\* Slip: no return after the read that waits for the rest of the request.
SlipAfterProcessor(p) ==
    LET after == IF p.result = -1 THEN ReadFromSocket(p.cn) ELSE p.cn
    IN  PostCompletionPort([after EXCEPT !.lastReq = after.rPos], "SEND_OPER")

\* Slip: lastReq is not moved behind the request.
SlipAfterProcessorKept(p) ==
    IF p.result = -1 THEN ReadFromSocket(p.cn) ELSE PostCompletionPort(p.cn, "SEND_OPER")

AfterProcessor(p) ==
    IF p.result = -1
    THEN ReadFromSocket(p.cn)
    ELSE PostCompletionPort([p.cn EXCEPT !.lastReq = p.cn.rPos], "SEND_OPER")

ConnectionEnd(cn) == [cn EXCEPT !.socket = "closed"]

(***************************************************************************)
(* Clients and the network.                                                *)
(***************************************************************************)
\* StartConnection.
Accept(c) ==
    /\ conn[c].socket = "none"
    /\ conn' = [conn EXCEPT ![c].socket = "open", ![c].ops = <<"post">>]
    /\ UNCHANGED <<input, answers, store, pool>>

\* The socket cannot be associated with the port: it stays open and unserved.
AcceptFails(c) ==
    /\ conn[c].socket = "none"
    /\ conn' = [conn EXCEPT ![c].socket = "open", ![c].broken = TRUE]
    /\ UNCHANGED <<input, answers, store, pool>>

Reset(c) ==
    /\ conn[c].socket = "open" /\ ~ conn[c].broken
    /\ Cardinality({d \in Connections : conn[d].broken}) < MaxResets
    /\ conn' = [conn EXCEPT ![c].broken = TRUE]
    /\ UNCHANGED <<input, answers, store, pool>>

\* Numbers of tokens that a read of connection c may return; 0 is the end of the
\* stream, or a read into no room.
Chunks(c, op) ==
    LET room == IF op = "bufferIn" THEN BUFFERSIZE ELSE BUFFERSIZE - conn[c].len
        most == Min({room, Len(input[c])})
        ends == {Len(Stream(SubSeq(Requests[c], 1, i))) : i \in 0 .. Len(Requests[c])}
        Sent(n) == Len(Stream(Requests[c])) - Len(input[c]) + n
        Whole(n) ==
            \/ n = Len(input[c])
            \/ Sent(n) \notin ends /\ input[c][n] # "CR"
    IN  IF most = 0 THEN {0} ELSE {n \in 1 .. most : AnyCut \/ Whole(n)}

(***************************************************************************)
(* RunOperation                                                            *)
(***************************************************************************)
Dequeue(t, c) ==
    /\ pc[t] = "waiting"
    /\ conn[c].ops # <<>>
    /\ LET op == Head(conn[c].ops)
       IN  /\ op = "post" \/ ~ conn[c].broken
           /\ \E n \in IF op = "post" THEN {-1} ELSE Chunks(c, op) :
                  work' = [work EXCEPT ![t] = [cn |-> c, op |-> op, bytes |-> n]]
    /\ conn' = [conn EXCEPT ![c].ops = Tail(@)]
    /\ pc' = [pc EXCEPT ![t] = "got"]
    /\ UNCHANGED <<input, answers, store, seen, threadsCounter, activeThreadsCounter, killed>>

\* The completion of a failed read ends the thread that gets it; threadsCounter
\* still counts the thread, and the connection is not ended.
DequeueFails(t, c) ==
    /\ pc[t] = "waiting"
    /\ conn[c].ops # <<>> /\ Head(conn[c].ops) # "post" /\ conn[c].broken
    /\ conn' = [conn EXCEPT ![c].ops = Tail(@)]
    /\ pc' = [pc EXCEPT ![t] = "none"]
    /\ killed' = killed + 1
    /\ UNCHANGED <<input, answers, store, work, seen, threadsCounter, activeThreadsCounter>>

\* Nobody holds the critical section: only the thread that leaves it in two steps is
\* ever seen inside it.
Unlocked == \A t \in Threads : pc[t] # "leaving"

\* MAX_INACTIVE_TIME without a completion: the pool loses a thread.
Shrink(t) ==
    /\ pc' = [pc EXCEPT ![t] = "none"]
    /\ threadsCounter' = threadsCounter - 1
    /\ UNCHANGED <<conn, input, answers, store, work, seen, activeThreadsCounter, killed>>

Timeout(t) ==
    /\ pc[t] = "waiting" /\ Unlocked
    /\ \/ threadsCounter > MIN_THREADS /\ Shrink(t)
       \/ threadsCounter <= MIN_THREADS /\ UNCHANGED vars

CountActive(t) ==
    /\ pc[t] = "got" /\ Unlocked
    /\ activeThreadsCounter' = activeThreadsCounter + 1
    /\ pc' = [pc EXCEPT ![t] = "counted"]
    /\ UNCHANGED <<conn, input, answers, store, work, seen, threadsCounter, killed>>

\* The two counters are read one after the other and without the lock.
LoadThreads(t) ==
    /\ pc[t] = "counted"
    /\ seen' = [seen EXCEPT ![t] = threadsCounter]
    /\ pc' = [pc EXCEPT ![t] = "loaded"]
    /\ UNCHANGED <<conn, input, answers, store, work, threadsCounter, activeThreadsCounter, killed>>

Compare(t) ==
    /\ pc[t] = "loaded"
    /\ pc' = [pc EXCEPT ![t] = IF seen[t] = activeThreadsCounter THEN "adding" ELSE "ready"]
    /\ seen' = [seen EXCEPT ![t] = 0]
    /\ UNCHANGED <<conn, input, answers, store, work, threadsCounter, activeThreadsCounter, killed>>

AddThread(t) ==
    /\ pc[t] = "adding"
    /\ \E new \in Threads :
           /\ pc[new] = "none"
           /\ pc' = [pc EXCEPT ![t] = "added", ![new] = "waiting"]
    /\ UNCHANGED <<conn, input, answers, store, work, seen, threadsCounter, activeThreadsCounter,
                   killed>>

CountThread(t) ==
    /\ pc[t] = "added" /\ Unlocked
    /\ threadsCounter' = threadsCounter + 1
    /\ pc' = [pc EXCEPT ![t] = "ready"]
    /\ UNCHANGED <<conn, input, answers, store, work, seen, activeThreadsCounter, killed>>

\* What the switch does with connection c; data is what a read has brought.
Handled(cn, bytes, data) ==
    LET filled == [cn EXCEPT !.buf = data \o SubSeq(@, Len(data) + 1, BUFFERSIZE),
                             !.len = Len(data)]
        known == Len(cn.requestType) = 1 /\ cn.requestType[1] \in MessageTypes
        p == Processor(cn)
        Only(after) == [cn |-> after, done |-> <<>>]
    IN  IF cn.key = "RECV_OPER"
        THEN IF known THEN [cn |-> AfterProcessor(p), done |-> p.done]
                      ELSE Only(PostCompletionPort(cn, "SEND_OPER"))
        ELSE IF cn.key = "START_OPER" THEN Only(ReadFromSocket(cn))
        ELSE IF bytes = 0 THEN Only(ConnectionEnd(cn))
        ELSE IF cn.key = "SEND_OPER"
        THEN Only(ProcessInputRequest(IF bytes = -1 THEN cn ELSE filled))
        ELSE Only(VerifyRequestPartial(cn, data))

\* Slip: the thread is counted out only if it stays.
SlipLeave(t) ==
    IF threadsCounter > MAX_THREADS
    THEN /\ threadsCounter' = threadsCounter - 1
         /\ pc' = [pc EXCEPT ![t] = "none"]
         /\ UNCHANGED activeThreadsCounter
    ELSE /\ activeThreadsCounter' = activeThreadsCounter - 1
         /\ pc' = [pc EXCEPT ![t] = "waiting"]
         /\ UNCHANGED threadsCounter

\* The end of the loop.  A thread that ends takes itself from the two counters one after
\* the other; whoever compares them does not wait for the lock.
Leave(t) ==
    IF threadsCounter > MAX_THREADS
    THEN /\ threadsCounter' = threadsCounter - 1
         /\ pc' = [pc EXCEPT ![t] = "leaving"]
         /\ UNCHANGED activeThreadsCounter
    ELSE /\ activeThreadsCounter' = activeThreadsCounter - 1
         /\ pc' = [pc EXCEPT ![t] = "waiting"]
         /\ UNCHANGED threadsCounter

\* The locked part.
Process(t) ==
    LET c == work[t].cn
        taken == Max({work[t].bytes, 0})
        h == Handled(conn[c], work[t].bytes, SubSeq(input[c], 1, taken))
    IN  /\ pc[t] = "ready" /\ Unlocked
        /\ conn' = [conn EXCEPT ![c] = h.cn]
        /\ input' = [input EXCEPT ![c] = SubSeq(@, taken + 1, Len(@))]
        /\ answers' = [answers EXCEPT ![c] = @ \o h.done]
        /\ store' \in Stored(h.done)
        /\ work' = [work EXCEPT ![t] = NoWork]
        /\ Leave(t)
        /\ UNCHANGED <<seen, killed>>

ThreadEnds(t) ==
    /\ pc[t] = "leaving"
    /\ activeThreadsCounter' = activeThreadsCounter - 1
    /\ pc' = [pc EXCEPT ![t] = "none"]
    /\ UNCHANGED <<conn, input, answers, store, work, seen, threadsCounter, killed>>

Serve(t) ==
    \/ CountActive(t) \/ LoadThreads(t) \/ Compare(t) \/ AddThread(t) \/ CountThread(t)
    \/ Process(t) \/ ThreadEnds(t)

Next ==
    \/ \E c \in Connections : Accept(c) \/ AcceptFails(c) \/ Reset(c)
    \/ \E t \in Threads, c \in Connections : Dequeue(t, c) \/ DequeueFails(t, c)
    \/ \E t \in Threads : Timeout(t) \/ Serve(t)

Spec == Init /\ [][Next]_vars

(***************************************************************************)
(* Properties.                                                             *)
(***************************************************************************)
Alive == {t \in Threads : pc[t] # "none"}
Counted ==
    {t \in Threads : pc[t] \in {"counted", "loaded", "adding", "added", "ready", "leaving"}}

\* The two counters agree with the threads there are: threadsCounter runs behind
\* by the threads that have been added and not yet counted, or are about to end, and
\* stays ahead by those that a failed completion has ended, which nothing gives back
\* to it; but for these MIN_THREADS remain.
\* MAX_THREADS is no bound, since busy threads that see each other all add one: but
\* they only see as many as there are connections, and no more than that many can be
\* about to add one.
PoolCounted ==
    /\ threadsCounter + Cardinality({t \in Threads : pc[t] \in {"added", "leaving"}})
           = Cardinality(Alive) + killed
    /\ activeThreadsCounter = Cardinality(Counted)
    /\ Cardinality(Alive) + killed >= MIN_THREADS
    /\ Cardinality(Alive) <= Max({MAX_THREADS, 2 * Cardinality(Connections)})

\* An open connection has one operation, asked for or in a thread's hands: never two,
\* which would use its fields and its memory at the same time, and never none, unless
\* its socket is broken.  After ConnectionEnd has freed the memory there is none.
OneOperation ==
    \A c \in Connections :
        LET operations == Len(conn[c].ops) + Cardinality({t \in Threads : work[t].cn = c})
        IN  IF conn[c].socket # "open" THEN operations = 0
            ELSE operations = 1 \/ (conn[c].broken /\ operations = 0)

\* What lies in the buffer behind the last request carried out and what is still to come
\* are the requests not carried out, wherever requests are cut but for the places that
\* AnyCut = FALSE leaves out, where it is false: behind a chunk that ends with a request
\* ReadFromSocket fills the buffer anew and rPos stays, so that the next request is read
\* from its middle (Handler.cpp:239-242, Connection.cpp:20), and a LF that comes without
\* its CR begins the next line.
UnservedKept ==
    \A c \in Connections :
        conn[c].socket = "open" =>
            SubSeq(conn[c].buf, conn[c].lastReq + 1, conn[c].len) \o input[c]
                = Stream(SubSeq(Requests[c], Len(answers[c]) + 1, Len(Requests[c])))

\* Requests are carried out once each and in the order in which they were sent, and
\* a connection that the server ends has had all of them carried out.  It holds for the
\* chunks of AnyCut = FALSE; with those this leaves out, requests are lost.
AnsweredInOrder ==
    \A c \in Connections :
        /\ IsPrefix(answers[c], Requests[c])
        /\ conn[c].socket = "closed" => answers[c] = Requests[c]
=============================================================================
