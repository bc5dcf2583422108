--------------------------- MODULE HttpServerProofs ---------------------------
(***************************************************************************)
(* Theorems about HttpServer for any clients and any bounds of the pool:   *)
(* threadsCounter is the number of threads and stays within its bounds,    *)
(* and workersCounter is off by no more than overlapping updates explain;  *)
(* every client's answers are complete, fit its requests and keep their    *)
(* order.                                                                  *)
(***************************************************************************)
EXTENDS HttpServer, DataLemmas

Places == {"gone", "idle", "timed out", "enter", "entering", "init", "line", "headers",
           "process", "send", "close", "leave", "leaving"}

CountersTyped ==
    /\ thread \in [Threads -> Places]
    /\ workersCounter \in Int /\ overwritten \in Nat
    /\ loaded \in [Threads -> Int]

\* How far workersCounter is off, without the help of Max.
Drift ==
    /\ workersCounter - Cardinality(Working) <= overwritten
    /\ Cardinality(Working) - workersCounter <= overwritten

IInv == CountersTyped /\ PoolCounted /\ Drift

(***************************************************************************)
(* Sets of threads and their sizes.                                        *)
(***************************************************************************)

\* The larger of a number and its opposite is above both, and is one of them.
LEMMA AbsoluteValue ==
    ASSUME NEW a \in Int, NEW b \in Int
    PROVE  LET m == Max({a - b, b - a})
           IN  /\ m \in Nat /\ a - b <= m /\ b - a <= m
               /\ m = a - b \/ m = b - a
<1> DEFINE S == {a - b, b - a}
           big == IF a >= b THEN a - b ELSE b - a
<1>1. \E x \in S : \A y \in S : x >= y
  <2>1. big \in S /\ \A y \in S : big >= y
    OBVIOUS
  <2>2. QED
    BY <2>1
<1>2. Max(S) \in S /\ \A y \in S : Max(S) >= y
  BY <1>1, Zenon DEF Max
<1>3. Max(S) = a - b \/ Max(S) = b - a
  BY <1>2
<1>4. Max(S) >= a - b /\ Max(S) >= b - a
  BY <1>2
<1>5. QED
  BY <1>3, <1>4

\* The bounds of the pool.
LEMMA Bounds ==
    /\ MIN_WORKINGTHREADS \in Nat /\ MAX_WORKINGTHREADS \in Nat
    /\ MIN_WORKINGTHREADS <= MAX_WORKINGTHREADS
    /\ Cardinality(Threads) = MAX_WORKINGTHREADS
<1>1. /\ MIN_WORKINGTHREADS \in Nat /\ MAX_WORKINGTHREADS \in Nat
      /\ MIN_WORKINGTHREADS <= MAX_WORKINGTHREADS
  BY HttpAssumption
<1>2. Cardinality(Threads) = MAX_WORKINGTHREADS
  BY <1>1, FS_Interval DEF Threads
<1>3. QED
  BY <1>1, <1>2

\* A set of threads is finite, and has no more of them than the pool's maximum.
LEMMA SomeThreads ==
    ASSUME NEW S \in SUBSET Threads
    PROVE  /\ IsFiniteSet(S) /\ Cardinality(S) \in Nat
           /\ Cardinality(S) <= MAX_WORKINGTHREADS
           /\ Cardinality(S) = MAX_WORKINGTHREADS => S = Threads
<1>2. IsFiniteSet(Threads) /\ Cardinality(Threads) = MAX_WORKINGTHREADS
  BY Bounds, FS_Interval DEF Threads
<1>3. /\ IsFiniteSet(S) /\ Cardinality(S) <= Cardinality(Threads)
      /\ Cardinality(S) = Cardinality(Threads) => S = Threads
  BY <1>2, FS_Subset
<1>4. QED
  BY <1>2, <1>3, FS_CardinalityType

\* One thread that moves changes a count by one or not at all.
LEMMA OneThreadMoves ==
    ASSUME NEW S \in SUBSET Threads, NEW T \in SUBSET Threads, NEW t \in Threads,
           S \ {t} = T \ {t}
    PROVE  /\ t \in S /\ t \notin T => Cardinality(T) = Cardinality(S) - 1
           /\ t \notin S /\ t \in T => Cardinality(T) = Cardinality(S) + 1
           /\ (t \in S <=> t \in T) => T = S
<1>1. IsFiniteSet(Threads) /\ Cardinality(S) \in Nat
  BY SomeThreads
<1>2. Cardinality(T) = Cardinality(S) + (IF t \in T THEN 1 ELSE 0) - (IF t \in S THEN 1 ELSE 0)
  BY <1>1, CountMove
<1>3. (t \in S <=> t \in T) => T = S
  OBVIOUS
<1>4. QED
  BY <1>1, <1>2, <1>3

\* The counts that a step of one thread changes.
LEMMA Moved ==
    ASSUME CountersTyped, NEW t \in Threads, NEW place \in Places,
           thread' = [thread EXCEPT ![t] = place]
    PROVE  /\ thread' \in [Threads -> Places]
           /\ Alive \ {t} = Alive' \ {t} /\ Working \ {t} = Working' \ {t}
           /\ t \in Alive <=> thread[t] # "gone"
           /\ t \in Alive' <=> place # "gone"
           /\ t \in Working <=> thread[t] \notin {"gone", "idle", "timed out", "enter", "entering"}
           /\ t \in Working' <=> place \notin {"gone", "idle", "timed out", "enter", "entering"}
           /\ Alive \in SUBSET Threads /\ Alive' \in SUBSET Threads
           /\ Working \in SUBSET Threads /\ Working' \in SUBSET Threads
BY DEF CountersTyped, Alive, Working

\* A step that starts and ends among the working threads, or outside, changes no count.
LEMMA SameCounts ==
    ASSUME IInv, NEW t \in Threads, NEW place \in Places \ {"gone"},
           thread' = [thread EXCEPT ![t] = place], thread[t] # "gone",
           thread[t] \in {"idle", "timed out", "enter", "entering"}
               <=> place \in {"idle", "timed out", "enter", "entering"},
           UNCHANGED <<threadsCounter, workersCounter, overwritten>>,
           loaded' \in [Threads -> Int]
    PROVE  IInv'
<1>1. CountersTyped
  BY DEF IInv
<1>2. place \in Places
  OBVIOUS
<1>3. Alive' = Alive /\ Working' = Working
  <2>1. /\ Alive \in SUBSET Threads /\ Alive' \in SUBSET Threads
        /\ Working \in SUBSET Threads /\ Working' \in SUBSET Threads
        /\ Alive \ {t} = Alive' \ {t} /\ Working \ {t} = Working' \ {t}
        /\ t \in Alive /\ t \in Alive'
        /\ t \in Working <=> t \in Working'
    BY <1>1, <1>2, Moved
  <2>2. QED
    BY <2>1, OneThreadMoves
<1>4. thread' \in [Threads -> Places]
  BY <1>1, <1>2, Moved
<1>5. QED
  BY <1>3, <1>4 DEF IInv, CountersTyped, PoolCounted, Drift

\* A step that leaves the threads and the counters alone.
LEMMA Untouched ==
    ASSUME IInv, UNCHANGED <<thread, threadsCounter, counting>>
    PROVE  IInv'
BY DEF IInv, CountersTyped, PoolCounted, Drift, Alive, Working, counting

(***************************************************************************)
(* The inductive invariant.                                                *)
(***************************************************************************)

\* Only the first MIN_WORKINGTHREADS are there, and none of them works.
LEMMA InitIInv == Init => IInv
<1> SUFFICES ASSUME Init PROVE IInv
  OBVIOUS
<1>1. MIN_WORKINGTHREADS \in Nat /\ MAX_WORKINGTHREADS \in Nat
      /\ MIN_WORKINGTHREADS <= MAX_WORKINGTHREADS
  BY HttpAssumption
<1>2. CountersTyped
  BY DEF Init, CountersTyped, Places
<1>3. Alive = 1 .. MIN_WORKINGTHREADS
  BY <1>1 DEF Init, Alive, Threads
<1>4. Cardinality(Alive) = MIN_WORKINGTHREADS
  <2>1. Cardinality(1 .. MIN_WORKINGTHREADS) = MIN_WORKINGTHREADS
    BY <1>1, FS_Interval
  <2>2. QED
    BY <1>3, <2>1
<1>5. PoolCounted
  BY <1>1, <1>4 DEF Init, PoolCounted
<1>6. Working = {}
  BY DEF Init, Working
<1>7. Cardinality(Working) = 0
  BY <1>6, FS_EmptySet
<1>8. Drift
  BY <1>7 DEF Init, Drift
<1>9. QED
  BY <1>2, <1>5, <1>8 DEF IInv

\* The thread that is added was not there: there is one that is not, since the
\* counter is below its maximum.
LEMMA CheckPoolIInv == IInv /\ CheckPool => IInv'
<1> SUFFICES ASSUME IInv, CheckPool PROVE IInv'
  OBVIOUS
<1>1. CASE threadsCounter < MAX_WORKINGTHREADS /\ threadsCounter = workersCounter
  <2> DEFINE new == CHOOSE t \in Threads : t \notin Alive
  <2>1. /\ threadsCounter' = threadsCounter + 1
        /\ thread' = [thread EXCEPT ![new] = "idle"]
        /\ UNCHANGED counting
    BY <1>1 DEF CheckPool
  <2>2. Alive # Threads
    <3>1. Cardinality(Alive) < MAX_WORKINGTHREADS
      BY <1>1 DEF IInv, PoolCounted
    <3>2. QED
      BY <3>1, Bounds
  <2>3. new \in Threads /\ new \notin Alive
    BY <2>2 DEF Alive
  <2> HIDE DEF new
  <2>4. CountersTyped /\ "idle" \in Places
    BY DEF IInv, Places
  <2>5. /\ Alive \in SUBSET Threads /\ Alive' \in SUBSET Threads
        /\ Alive \ {new} = Alive' \ {new} /\ new \in Alive'
        /\ thread' \in [Threads -> Places]
    BY <2>1, <2>3, <2>4, Moved
  <2>6. Cardinality(Alive') = Cardinality(Alive) + 1
    BY <2>3, <2>5, OneThreadMoves
  <2>7. Working' = Working
    <3>1. thread[new] = "gone"
      BY <2>3 DEF Alive
    <3>2. /\ Working \in SUBSET Threads /\ Working' \in SUBSET Threads
          /\ Working \ {new} = Working' \ {new}
          /\ new \notin Working /\ new \notin Working'
      BY <2>1, <2>3, <2>4, <3>1, Moved
    <3>3. QED
      BY <3>2
  <2>8. PoolCounted'
    <3>1. /\ threadsCounter = Cardinality(Alive)
          /\ threadsCounter \in MIN_WORKINGTHREADS .. MAX_WORKINGTHREADS
      BY DEF IInv, PoolCounted
    <3>2. threadsCounter' = Cardinality(Alive')
      BY <2>1, <2>6, <3>1
    <3>3. threadsCounter' \in MIN_WORKINGTHREADS .. MAX_WORKINGTHREADS
      BY <1>1, <2>1, <3>1, Bounds
    <3>4. QED
      BY <3>2, <3>3 DEF PoolCounted
  <2>9. CountersTyped' /\ Drift'
    BY <2>1, <2>4, <2>5, <2>7 DEF IInv, CountersTyped, Drift, counting
  <2>10. QED
    BY <2>8, <2>9 DEF IInv
<1>2. CASE ~(threadsCounter < MAX_WORKINGTHREADS /\ threadsCounter = workersCounter)
  BY <1>2, Untouched DEF CheckPool
<1>3. QED
  BY <1>1, <1>2

\* A thread ends in the critical section that counts it, and only above the minimum.
LEMMA EndOrStayIInv ==
    ASSUME IInv, NEW t \in Threads, EndOrStay(t)
    PROVE  IInv'
<1>1. CASE threadsCounter > MIN_WORKINGTHREADS
  <2>1. /\ threadsCounter' = threadsCounter - 1 /\ thread[t] = "timed out"
        /\ thread' = [thread EXCEPT ![t] = "gone"]
        /\ UNCHANGED counting
    BY <1>1 DEF EndOrStay, Goto
  <2>2. CountersTyped /\ "gone" \in Places
    BY DEF IInv, Places
  <2>3. /\ Alive \in SUBSET Threads /\ Alive' \in SUBSET Threads
        /\ Alive \ {t} = Alive' \ {t} /\ t \in Alive /\ t \notin Alive'
        /\ thread' \in [Threads -> Places]
    BY <2>1, <2>2, Moved
  <2>4. Cardinality(Alive') = Cardinality(Alive) - 1
    BY <2>3, OneThreadMoves
  <2>5. Working' = Working
    <3>1. /\ Working \in SUBSET Threads /\ Working' \in SUBSET Threads
          /\ Working \ {t} = Working' \ {t} /\ t \notin Working /\ t \notin Working'
      BY <2>1, <2>2, Moved
    <3>2. QED
      BY <3>1
  <2>6. PoolCounted'
    <3>1. /\ threadsCounter = Cardinality(Alive)
          /\ threadsCounter \in MIN_WORKINGTHREADS .. MAX_WORKINGTHREADS
      BY DEF IInv, PoolCounted
    <3>2. threadsCounter' = Cardinality(Alive')
      BY <2>1, <2>4, <3>1
    <3>3. threadsCounter' \in MIN_WORKINGTHREADS .. MAX_WORKINGTHREADS
      <4>1. threadsCounter' = threadsCounter - 1
        BY <2>1
      <4>2. threadsCounter \in MIN_WORKINGTHREADS + 1 .. MAX_WORKINGTHREADS
        BY <1>1, <3>1, Bounds
      <4>3. QED
        BY <4>1, <4>2, Bounds
    <3>4. QED
      BY <3>2, <3>3 DEF PoolCounted
  <2>7. CountersTyped' /\ Drift'
    BY <2>1, <2>2, <2>3, <2>5 DEF IInv, CountersTyped, Drift, counting
  <2>8. QED
    BY <2>6, <2>7 DEF IInv
<1>2. CASE ~(threadsCounter > MIN_WORKINGTHREADS)
  <2>1. /\ thread[t] = "timed out" /\ thread' = [thread EXCEPT ![t] = "idle"]
        /\ UNCHANGED <<threadsCounter, workersCounter, overwritten, loaded>>
    BY <1>2 DEF EndOrStay, Goto, counting
  <2>2. loaded' \in [Threads -> Int] /\ "idle" \in Places \ {"gone"}
    BY <2>1 DEF IInv, CountersTyped, Places
  <2>3. QED
    BY <2>1, <2>2, SameCounts
<1>3. QED
  BY <1>1, <1>2

\* What the store undoes is what others have stored since the load.
LEMMA StoreWorkersIInv ==
    ASSUME IInv, NEW t \in Threads, StoreWorkers(t)
    PROVE  IInv'
<1> DEFINE undone == Max({workersCounter - loaded[t], loaded[t] - workersCounter})
           place == IF thread[t] = "entering" THEN "init" ELSE "idle"
<1>1. /\ thread[t] \in {"entering", "leaving"}
      /\ workersCounter' = loaded[t] + CountBy(t)
      /\ overwritten' = overwritten + undone
      /\ loaded' = [loaded EXCEPT ![t] = 0]
      /\ thread' = [thread EXCEPT ![t] = place]
      /\ threadsCounter' = threadsCounter
  BY DEF StoreWorkers, Goto, pool
<1>2. CountersTyped /\ place \in Places /\ workersCounter \in Int /\ loaded[t] \in Int
      /\ overwritten \in Nat
  BY DEF IInv, CountersTyped, Places
<1>3. /\ undone \in Nat
      /\ workersCounter - loaded[t] <= undone /\ loaded[t] - workersCounter <= undone
  BY <1>2, AbsoluteValue
<1>4. /\ Alive \in SUBSET Threads /\ Alive' \in SUBSET Threads
      /\ Alive \ {t} = Alive' \ {t} /\ t \in Alive /\ t \in Alive'
      /\ Working \in SUBSET Threads /\ Working' \in SUBSET Threads
      /\ Working \ {t} = Working' \ {t}
      /\ t \in Working <=> thread[t] = "leaving"
      /\ t \in Working' <=> thread[t] = "entering"
      /\ thread' \in [Threads -> Places]
  BY <1>1, <1>2, Moved
<1>5. Alive' = Alive
  BY <1>4
<1>6. CountBy(t) \in Int /\ Cardinality(Working') = Cardinality(Working) + CountBy(t)
  <2>1. Cardinality(Working) \in Nat
    BY <1>4, SomeThreads
  <2>2. CASE thread[t] = "entering"
    BY <1>4, <2>1, <2>2, OneThreadMoves DEF CountBy
  <2>3. CASE thread[t] = "leaving"
    BY <1>4, <2>1, <2>3, OneThreadMoves DEF CountBy
  <2>4. QED
    BY <1>1, <2>2, <2>3
<1>7. CountersTyped'
  BY <1>1, <1>2, <1>3, <1>4, <1>6 DEF CountersTyped
<1>8. PoolCounted'
  BY <1>1, <1>5 DEF IInv, PoolCounted
<1>9. Drift'
  <2>1. Cardinality(Working) \in Nat
    BY <1>4, SomeThreads
  <2> HIDE DEF undone
  <2>2. QED
    BY <1>1, <1>2, <1>3, <1>6, <2>1 DEF IInv, Drift
<1>10. QED
  BY <1>7, <1>8, <1>9 DEF IInv

\* The steps of a thread that change neither the pool nor workersCounter.
LEMMA OtherStepsIInv ==
    ASSUME IInv, NEW t \in Threads,
           \/ GetQueuedCompletionStatus(t) \/ TimeOut(t) \/ LoadWorkers(t)
           \/ ContextInit(t) \/ FillBuffer(t) \/ EndOfInput(t) \/ RequestLine(t) \/ Headers(t)
           \/ ProcessRequest(t) \/ SendResponseFile(t) \/ CloseSocket(t)
    PROVE  IInv'
<1>1. CASE FillBuffer(t)
  BY <1>1, Untouched DEF FillBuffer, pool
<1>2. CASE ProcessRequest(t) \/ SendResponseFile(t)
  <2>1. PICK place \in {"send", "init", "close"} :
            thread' = [thread EXCEPT ![t] = place]
    BY <1>2 DEF ProcessRequest, SendResponseFile, KeepAlive, Goto
  <2>2. thread[t] \in {"process", "send"} /\ UNCHANGED <<pool, counting>>
    BY <1>2 DEF ProcessRequest, SendResponseFile
  <2>3. loaded' \in [Threads -> Int] /\ place \in Places \ {"gone"}
    BY <2>1, <2>2 DEF IInv, CountersTyped, Places, counting
  <2>4. QED
    BY <2>1, <2>2, <2>3, SameCounts DEF pool, counting
<1>3. CASE LoadWorkers(t)
  <2>1. PICK place \in {"entering", "leaving"} :
            /\ thread' = [thread EXCEPT ![t] = place]
            /\ \/ thread[t] = "enter" /\ place = "entering"
               \/ thread[t] = "leave" /\ place = "leaving"
    BY <1>3 DEF LoadWorkers, Goto
  <2>2. loaded' \in [Threads -> Int] /\ place \in Places \ {"gone"}
    BY <1>3, <2>1 DEF LoadWorkers, IInv, CountersTyped, Places
  <2>3. UNCHANGED <<threadsCounter, workersCounter, overwritten>>
    BY <1>3 DEF LoadWorkers, pool
  <2>4. QED
    BY <2>1, <2>2, <2>3, SameCounts
<1>4. CASE GetQueuedCompletionStatus(t) \/ TimeOut(t)
  <2>1. PICK place \in {"enter", "timed out"} : thread' = [thread EXCEPT ![t] = place]
    BY <1>4 DEF GetQueuedCompletionStatus, TimeOut, Goto
  <2>2. thread[t] = "idle" /\ UNCHANGED <<threadsCounter, counting>>
    BY <1>4 DEF GetQueuedCompletionStatus, TimeOut, pool
  <2>3. loaded' \in [Threads -> Int] /\ place \in Places \ {"gone"}
    BY <2>1, <2>2 DEF IInv, CountersTyped, Places, counting
  <2>4. QED
    BY <2>1, <2>2, <2>3, SameCounts DEF counting
<1>5. CASE ContextInit(t) \/ EndOfInput(t) \/ RequestLine(t) \/ Headers(t) \/ CloseSocket(t)
  <2>1. PICK place \in {"line", "close", "headers", "process", "leave"} :
            thread' = [thread EXCEPT ![t] = place]
    BY <1>5 DEF ContextInit, EndOfInput, RequestLine, Headers, CloseSocket, Goto
  <2>2. thread[t] \in {"init", "line", "headers", "close"} /\ UNCHANGED <<pool, counting>>
    BY <1>5 DEF ContextInit, EndOfInput, RequestLine, Headers, CloseSocket
  <2>3. loaded' \in [Threads -> Int] /\ place \in Places \ {"gone"}
    BY <2>1, <2>2 DEF IInv, CountersTyped, Places, counting
  <2>4. QED
    BY <2>1, <2>2, <2>3, SameCounts DEF pool, counting
<1>6. QED
  BY <1>1, <1>2, <1>3, <1>4, <1>5

\* Every step keeps the invariant.
LEMMA NextIInv == IInv /\ [Next]_vars => IInv'
<1> SUFFICES ASSUME IInv, [Next]_vars PROVE IInv'
  OBVIOUS
<1>1. CASE Main
  <2>1. CASE Accept
    BY <2>1, Untouched DEF Accept
  <2>2. CASE CheckPool
    BY <2>2, CheckPoolIInv
  <2>3. CASE PostQueuedCompletionStatus
    BY <2>3, Untouched DEF PostQueuedCompletionStatus
  <2>4. QED
    BY <1>1, <2>1, <2>2, <2>3 DEF Main
<1>2. ASSUME NEW t \in Threads, ProcessConnection(t) PROVE IInv'
  <2>1. CASE EndOrStay(t)
    BY <2>1, EndOrStayIInv
  <2>2. CASE StoreWorkers(t)
    BY <2>2, StoreWorkersIInv
  <2>3. QED
    BY <1>2, <2>1, <2>2, OtherStepsIInv DEF ProcessConnection
<1>3. ASSUME NEW c \in Connections, Client(c) PROVE IInv'
  BY <1>3, Untouched DEF Client, Ask, CloseClient, pool
<1>4. CASE UNCHANGED vars
  BY <1>4, Untouched DEF vars, pool
<1>5. QED
  BY <1>1, <1>2, <1>3, <1>4 DEF Next

(***************************************************************************)
(* Theorems.                                                               *)
(***************************************************************************)

\* The strengthened invariant holds in every reachable state.
THEOREM IInvHolds == Spec => []IInv
BY InitIInv, NextIInv, PTL DEF Spec

\* threadsCounter is the number of threads that exist, never below the minimum nor
\* above the maximum, however many threads time out at once.
THEOREM PoolCountedAlways == Spec => []PoolCounted
<1>1. IInv => PoolCounted
  BY DEF IInv
<1>2. QED
  BY <1>1, IInvHolds, PTL

\* workersCounter differs from the number of threads at work by at most the sum of the
\* updates that overlapping stores have undone.
THEOREM WorkersCountedAlways == Spec => []WorkersCounted
<1>1. IInv => WorkersCounted
  <2> SUFFICES ASSUME IInv PROVE WorkersCounted
    OBVIOUS
  <2>1. workersCounter \in Int /\ Cardinality(Working) \in Int
    <3>1. Working \in SUBSET Threads
      BY DEF Working
    <3>2. QED
      BY <3>1, SomeThreads DEF IInv, CountersTyped
  <2>2. QED
    BY <2>1, AbsoluteValue DEF IInv, Drift, WorkersCounted
<1>2. QED
  BY <1>1, IInvHolds, PTL

(***************************************************************************)
(* What is on the way, and how far each thread is with it.                 *)
(***************************************************************************)
Pieces == [part : {"line", "headers"}, number : Nat]
Answers == [number : Nat, status : {200, 404}]
Serving == {"enter", "entering", "init", "line", "headers", "process", "send", "close"}

\* The k-th piece that a client sends, and the pieces after the k-th.
IsPiece(piece, k) == k = 2 * piece.number - (IF piece.part = "line" THEN 1 ELSE 0)
Follow(s, k) == \A i \in 1 .. Len(s) : IsPiece(s[i], k + i)

\* A client whose connection nobody serves: all that it asked for is on the way.
Untaken(input, n, answers, dropped) ==
    /\ Len(input) = 2 * n /\ Follow(input, 0)
    /\ answers = <<>> /\ dropped = {}

\* A file that does not exist is answered so.
Fits(answer, requests) == requests[answer.number].file = "missing" => answer.status = 404

\* The answers are in order, none is to a request that was dropped, and each is the
\* answer to its request.
Ordered(answers, dropped, requests) ==
    /\ \A i, j \in 1 .. Len(answers) : i < j => answers[i].number < answers[j].number
    /\ Numbers(answers) \cap dropped = {}
    /\ \A i \in 1 .. Len(answers) : Fits(answers[i], requests)

\* The pieces that a thread at place has used of those of the n requests asked: what is
\* left follows them, the requests before are answered or dropped, but for the one
\* that the thread is at, which is neither.
Progress(place, left, cur, input, n, answers, dropped, requests) ==
    LET used == 2 * n - Len(input) - Len(left)
        over == Numbers(answers) \cup dropped
    IN  /\ used >= 0 /\ Follow(left, used) /\ Follow(input, used + Len(left))
        /\ \A k \in Numbers(answers) : 2 * k <= used
        /\ \A k \in dropped : 2 * k - 1 <= used
        /\ \A k \in 1 .. n : 2 * k <= used => k \in over \cup {cur}
        /\ place \in {"init", "line"} => \A k \in 1 .. n : 2 * k <= used => k \in over
        /\ place \in {"headers", "process", "send"} =>
              /\ \A k \in over : k < cur
              /\ used = 2 * cur - (IF place = "headers" THEN 1 ELSE 0)
        /\ place = "send" => requests[cur].file # "missing"

TrafficTyped ==
    /\ main \in {"accept", "check", "post"}
    /\ connectSock \in Connections \cup {NoConnection}
    /\ main = "accept" <=> connectSock = NoConnection
    /\ port \in Seq(Connections)
    /\ thread \in [Threads -> Places]
    /\ connection \in [Threads -> Connections \cup {NoConnection}]
    /\ buffer \in [Threads -> Seq(Pieces)] /\ current \in [Threads -> Nat]
    /\ socket \in [Connections -> Seq(Pieces)] /\ asked \in [Connections -> Nat]
    /\ sent \in [Connections -> Seq(Answers)] /\ lost \in [Connections -> SUBSET Nat]

\* A connection is in one place: with main, in the port or with a thread.
OneHand ==
    /\ IsInjective(port) /\ connectSock \notin ToSet(port)
    /\ \A t \in Threads :
          /\ thread[t] \in Serving <=> connection[t] # NoConnection
          /\ thread[t] \notin Serving \ {"enter", "entering"} => buffer[t] = <<>>
          /\ connection[t] # NoConnection =>
                /\ connection[t] # connectSock /\ connection[t] \notin ToSet(port)
                /\ \A u \in Threads : connection[u] = connection[t] => u = t

InHand(c) == \E t \in Threads : connection[t] = c /\ thread[t] \notin {"enter", "entering"}

Service ==
    /\ \A c \in Connections : Ordered(sent[c], lost[c], Requests[c])
    /\ \A c \in Connections :
          ~InHand(c) => Untaken(socket[c], asked[c], sent[c], lost[c])
    /\ \A t \in Threads :
          thread[t] \in Serving \ {"enter", "entering"} =>
              LET c == connection[t]
              IN  Progress(thread[t], buffer[t], current[t], socket[c], asked[c], sent[c],
                           lost[c], Requests[c])

Traffic == TrafficTyped /\ OneHand /\ Service

(***************************************************************************)
(* How a connection's progress follows each step, state apart.             *)
(***************************************************************************)

\* The numbers of answers.
LEMMA AnswerNumbers ==
    ASSUME NEW answers \in Seq(Answers)
    PROVE  /\ Numbers(answers) = {answers[i].number : i \in 1 .. Len(answers)}
           /\ \A i \in 1 .. Len(answers) : answers[i].number \in Nat
           /\ Numbers(answers) \subseteq Nat
<1>1. DOMAIN answers = 1 .. Len(answers)
  OBVIOUS
<1>2. Numbers(answers) = {answers[i].number : i \in 1 .. Len(answers)}
  BY <1>1 DEF Numbers
<1>3. ASSUME NEW i \in 1 .. Len(answers) PROVE answers[i].number \in Nat
  <2>1. answers[i] \in Answers
    OBVIOUS
  <2>2. QED
    BY <2>1 DEF Answers
<1>4. QED
  BY <1>2, <1>3

\* The numbers of pieces.
LEMMA PieceNumbers ==
    ASSUME NEW s \in Seq(Pieces)
    PROVE  \A i \in 1 .. Len(s) : s[i] \in Pieces /\ s[i].number \in Nat
<1>1. ASSUME NEW i \in 1 .. Len(s) PROVE s[i] \in Pieces /\ s[i].number \in Nat
  <2>1. s[i] \in Pieces
    OBVIOUS
  <2>2. QED
    BY <2>1 DEF Pieces
<1>2. QED
  BY <1>1

\* A thread that begins has used nothing.
LEMMA ProgressBegins ==
    ASSUME NEW cur \in Nat, NEW input \in Seq(Pieces), NEW n \in Nat, NEW answers, NEW dropped,
           NEW requests, Untaken(input, n, answers, dropped)
    PROVE  Progress("init", <<>>, cur, input, n, answers, dropped, requests)
<1>1. Len(input) = 2 * n /\ Follow(input, 0) /\ answers = <<>> /\ dropped = {}
  BY DEF Untaken
<1>2. Numbers(answers) = {}
  BY <1>1 DEF Numbers
<1>3. Len(<<>>) = 0 /\ 2 * n - Len(input) - Len(<<>>) = 0
  <2>1. Len(<<>>) = 0
    OBVIOUS
  <2>2. 2 * n - 2 * n - 0 = 0
    OBVIOUS
  <2>3. QED
    BY <1>1, <2>1, <2>2, Zenon
<1>4. Follow(<<>>, 0) /\ Follow(input, 0 + Len(<<>>))
  BY <1>1, <1>3 DEF Follow
<1>5. QED
  BY <1>1, <1>2, <1>3, <1>4 DEF Progress

\* Another request comes after all the others.
LEMMA ProgressAsked ==
    ASSUME NEW place, NEW left \in Seq(Pieces), NEW cur \in Nat, NEW input \in Seq(Pieces),
           NEW n \in Nat, NEW answers, NEW dropped, NEW requests,
           Progress(place, left, cur, input, n, answers, dropped, requests)
    PROVE  Progress(place, left, cur,
                    input \o <<Piece("line", n + 1), Piece("headers", n + 1)>>,
                    n + 1, answers, dropped, requests)
<1> DEFINE more == input \o <<Piece("line", n + 1), Piece("headers", n + 1)>>
           used == 2 * n - Len(input) - Len(left)
           over == Numbers(answers) \cup dropped
<1>1. /\ Len(more) = Len(input) + 2
      /\ \A i \in 1 .. Len(input) : more[i] = input[i]
      /\ more[Len(input) + 1] = Piece("line", n + 1)
      /\ more[Len(input) + 2] = Piece("headers", n + 1)
  OBVIOUS
<1>2. Len(input) \in Nat /\ Len(left) \in Nat /\ used \in Nat
      /\ used = 2 * (n + 1) - Len(more) - Len(left)
  BY <1>1 DEF Progress
<1>3. /\ Follow(left, used) /\ Follow(input, used + Len(left))
      /\ \A k \in Numbers(answers) : 2 * k <= used
      /\ \A k \in dropped : 2 * k - 1 <= used
      /\ \A k \in 1 .. n : 2 * k <= used => k \in over \cup {cur}
      /\ place \in {"init", "line"} => \A k \in 1 .. n : 2 * k <= used => k \in over
      /\ place \in {"headers", "process", "send"} =>
              /\ \A k \in over : k < cur
              /\ used = 2 * cur - (IF place = "headers" THEN 1 ELSE 0)
      /\ place = "send" => requests[cur].file # "missing"
  BY DEF Progress
<1>4. /\ IsPiece(Piece("line", n + 1), used + Len(left) + Len(input) + 1)
      /\ IsPiece(Piece("headers", n + 1), used + Len(left) + Len(input) + 2)
  BY <1>2 DEF IsPiece, Piece
<1>5. Follow(more, used + Len(left))
  <2> SUFFICES ASSUME NEW i \in 1 .. Len(more) PROVE IsPiece(more[i], used + Len(left) + i)
    BY DEF Follow
  <2> HIDE DEF more, used
  <2>1. CASE i <= Len(input)
    BY <1>1, <1>2, <1>3, <2>1 DEF Follow
  <2>2. CASE i > Len(input)
    <3>1. i = Len(input) + 1 \/ i = Len(input) + 2
      <4>1. Len(input) \in Nat /\ Len(more) = Len(input) + 2
        BY <1>1, <1>2
      <4>2. i \in Int /\ i > Len(input) /\ i <= Len(input) + 2
        BY <2>2, <4>1
      <4>3. QED
        BY <4>1, <4>2
    <3>2. used + Len(left) + (Len(input) + 1) = used + Len(left) + Len(input) + 1
          /\ used + Len(left) + (Len(input) + 2) = used + Len(left) + Len(input) + 2
      BY <1>2
    <3>3. QED
      BY <1>1, <1>4, <3>1, <3>2
  <2>3. QED
    BY <1>2, <2>1, <2>2
<1>6. \A k \in 1 .. n + 1 : 2 * k <= used => k \in 1 .. n
  BY <1>2
<1> HIDE DEF more, used, over
<1>7. QED
  BY <1>2, <1>3, <1>5, <1>6 DEF Progress, used, over, more

\* recv: pieces that were on the way are in the buffer.
LEMMA ProgressFilled ==
    ASSUME NEW place, NEW cur \in Nat, NEW input \in Seq(Pieces), NEW n \in Nat, NEW answers,
           NEW dropped, NEW requests, NEW m \in 1 .. Len(input),
           Progress(place, <<>>, cur, input, n, answers, dropped, requests)
    PROVE  Progress(place, SubSeq(input, 1, m), cur, SubSeq(input, m + 1, Len(input)),
                    n, answers, dropped, requests)
<1> DEFINE left == SubSeq(input, 1, m)
           rest == SubSeq(input, m + 1, Len(input))
           used == 2 * n - Len(input) - Len(<<>>)
<1>1. /\ Len(left) = m /\ Len(rest) = Len(input) - m
      /\ \A i \in 1 .. m : left[i] = input[i]
      /\ \A i \in 1 .. Len(rest) : rest[i] = input[m + i]
  OBVIOUS
<1>2. used \in Nat /\ used = 2 * n - Len(rest) - Len(left) /\ used + Len(<<>>) = used
  <2>1. Len(<<>>) = 0
    OBVIOUS
  <2>2. Len(input) \in Nat
    OBVIOUS
  <2>3. used >= 0
    BY DEF Progress
  <2> HIDE DEF left, rest
  <2>4. QED
    BY <1>1, <2>1, <2>2, <2>3
<1>3. Follow(input, used)
  BY <1>2 DEF Progress
<1>4. Follow(left, used)
  BY <1>1, <1>3 DEF Follow
<1>5. Follow(rest, used + Len(left))
  <2> SUFFICES ASSUME NEW i \in 1 .. Len(rest) PROVE IsPiece(rest[i], used + Len(left) + i)
    BY DEF Follow
  <2>1. m + i \in 1 .. Len(input) /\ used + Len(left) + i = used + (m + i)
    BY <1>1, <1>2
  <2>2. QED
    BY <1>1, <1>3, <2>1 DEF Follow
<1>6. /\ \A k \in Numbers(answers) : 2 * k <= used
      /\ \A k \in dropped : 2 * k - 1 <= used
      /\ \A k \in 1 .. n : 2 * k <= used => k \in Numbers(answers) \cup dropped \cup {cur}
      /\ place \in {"init", "line"} =>
              \A k \in 1 .. n : 2 * k <= used => k \in Numbers(answers) \cup dropped
      /\ place \in {"headers", "process", "send"} =>
              /\ \A k \in Numbers(answers) \cup dropped : k < cur
              /\ used = 2 * cur - (IF place = "headers" THEN 1 ELSE 0)
      /\ place = "send" => requests[cur].file # "missing"
  BY DEF Progress
<1> HIDE DEF left, rest, used
<1>7. used >= 0
  BY <1>2
<1>8. QED
  BY <1>2, <1>4, <1>5, <1>6, <1>7 DEF Progress, left, rest

\* The end of the input: the loop is over.
LEMMA ProgressEnds ==
    ASSUME NEW left, NEW cur, NEW input, NEW n, NEW answers, NEW dropped, NEW requests,
           Progress("line", left, cur, input, n, answers, dropped, requests)
    PROVE  Progress("close", left, cur, input, n, answers, dropped, requests)
BY DEF Progress

\* The first piece of the buffer is used: it is the next one.
LEMMA ProgressUses ==
    ASSUME NEW place, NEW left \in Seq(Pieces), left # <<>>, NEW cur, NEW input \in Seq(Pieces),
           NEW n \in Nat, NEW answers, NEW dropped, NEW requests,
           Progress(place, left, cur, input, n, answers, dropped, requests)
    PROVE  LET used == 2 * n - Len(input) - Len(left)
           IN  /\ used \in Nat /\ Head(left) \in Pieces /\ Tail(left) \in Seq(Pieces)
               /\ IsPiece(Head(left), used + 1)
               /\ 2 * n - Len(input) - Len(Tail(left)) = used + 1
               /\ Follow(Tail(left), used + 1)
               /\ Follow(input, used + 1 + Len(Tail(left)))
<1> DEFINE used == 2 * n - Len(input) - Len(left)
           rest == Tail(left)
<1>1. /\ Head(left) = left[1] /\ left[1] \in Pieces /\ rest \in Seq(Pieces)
      /\ Len(left) \in Nat \ {0} /\ Len(rest) = Len(left) - 1
      /\ \A i \in 1 .. Len(rest) : rest[i] = left[i + 1]
  OBVIOUS
<1>2. used \in Nat /\ Len(input) \in Nat /\ 2 * n - Len(input) - Len(rest) = used + 1
      /\ used + 1 + Len(rest) = used + Len(left)
  <2>1. Len(input) \in Nat /\ used >= 0
    BY DEF Progress
  <2> HIDE DEF rest
  <2>2. QED
    BY <1>1, <2>1
<1>3. Follow(left, used) /\ Follow(input, used + Len(left))
  BY DEF Progress
<1>4. IsPiece(Head(left), used + 1)
  BY <1>1, <1>3 DEF Follow
<1>5. Follow(rest, used + 1)
  <2> SUFFICES ASSUME NEW i \in 1 .. Len(rest) PROVE IsPiece(rest[i], used + 1 + i)
    BY DEF Follow
  <2>1. i + 1 \in 1 .. Len(left) /\ used + 1 + i = used + (i + 1)
    BY <1>1, <1>2
  <2>2. QED
    BY <1>1, <1>3, <2>1 DEF Follow
<1> HIDE DEF used, rest
<1>6. QED
  BY <1>1, <1>2, <1>3, <1>4, <1>5 DEF used, rest

\* What a Progress says of the outcome.
LEMMA ProgressOver ==
    ASSUME NEW place, NEW left, NEW cur, NEW input, NEW n, NEW answers, NEW dropped,
           NEW requests, Progress(place, left, cur, input, n, answers, dropped, requests)
    PROVE  LET used == 2 * n - Len(input) - Len(left)
               over == Numbers(answers) \cup dropped
           IN  /\ \A k \in Numbers(answers) : 2 * k <= used
               /\ \A k \in dropped : 2 * k - 1 <= used
               /\ \A k \in 1 .. n : 2 * k <= used => k \in over \cup {cur}
               /\ place \in {"init", "line"} => \A k \in 1 .. n : 2 * k <= used => k \in over
               /\ place \in {"headers", "process", "send"} =>
                     /\ \A k \in over : k < cur
                     /\ used = 2 * cur - (IF place = "headers" THEN 1 ELSE 0)
               /\ place = "send" => requests[cur].file # "missing"
BY DEF Progress

\* A first line: the thread is at its request.  Something else than the first line of a
\* GET is the last thing that it looks at.
LEMMA ProgressLine ==
    ASSUME NEW left \in Seq(Pieces), left # <<>>, NEW cur, NEW input \in Seq(Pieces),
           NEW n \in Nat, NEW answers \in Seq(Answers), NEW dropped \in SUBSET Nat, NEW requests,
           Progress("line", left, cur, input, n, answers, dropped, requests),
           NEW place \in {"headers", "close"}, place = "headers" => Head(left).part = "line"
    PROVE  Progress(place, Tail(left), Head(left).number, input, n, answers, dropped, requests)
<1> DEFINE used == 2 * n - Len(input) - Len(left)
           m == Head(left).number
           over == Numbers(answers) \cup dropped
<1>1. /\ used \in Nat /\ Head(left) \in Pieces
      /\ IsPiece(Head(left), used + 1)
      /\ 2 * n - Len(input) - Len(Tail(left)) = used + 1
      /\ Follow(Tail(left), used + 1)
      /\ Follow(input, used + 1 + Len(Tail(left)))
  BY ProgressUses
<1>2. /\ \A k \in Numbers(answers) : 2 * k <= used
      /\ \A k \in dropped : 2 * k - 1 <= used
      /\ \A k \in 1 .. n : 2 * k <= used => k \in over
  BY ProgressOver
<1>3. m \in Nat /\ Numbers(answers) \subseteq Nat
  <2>1. m \in Nat
    BY <1>1 DEF Pieces
  <2>2. QED
    BY <2>1, AnswerNumbers
<1> HIDE DEF used, m
<1>4. /\ used + 1 = 2 * m - 1 \/ used + 1 = 2 * m
      /\ place = "headers" => used + 1 = 2 * m - 1
  BY <1>1, <1>3 DEF IsPiece, m
<1>5. \A k \in 1 .. n : 2 * k <= used + 1 => k \in over \cup {m}
  BY <1>1, <1>2, <1>3, <1>4
<1>6. place = "headers" => \A k \in over : k < m
  <2>1. ASSUME place = "headers", NEW k \in Numbers(answers) PROVE k < m
    BY <1>1, <1>2, <1>3, <1>4, <2>1
  <2>2. ASSUME place = "headers", NEW k \in dropped PROVE k < m
    BY <1>1, <1>2, <1>3, <1>4, <2>2
  <2>3. QED
    BY <2>1, <2>2
<1>7. /\ \A k \in Numbers(answers) : 2 * k <= used + 1
      /\ \A k \in dropped : 2 * k - 1 <= used + 1
  BY <1>1, <1>2, <1>3, SMTT(30)
<1>8. QED
  BY <1>1, <1>4, <1>5, <1>6, <1>7, SMTT(30) DEF Progress, m

\* The headers are those of the request, which is given up if one is malformed.
LEMMA ProgressHeaders ==
    ASSUME NEW left \in Seq(Pieces), left # <<>>, NEW cur \in Nat, NEW input \in Seq(Pieces),
           NEW n \in Nat, NEW answers \in Seq(Answers), NEW dropped \in SUBSET Nat, NEW requests,
           Progress("headers", left, cur, input, n, answers, dropped, requests),
           NEW place \in {"process", "close"}
    PROVE  Progress(place, Tail(left), cur, input, n, answers, dropped, requests)
<1> DEFINE used == 2 * n - Len(input) - Len(left)
           over == Numbers(answers) \cup dropped
<1>1. /\ used \in Nat
      /\ 2 * n - Len(input) - Len(Tail(left)) = used + 1
      /\ Follow(Tail(left), used + 1)
      /\ Follow(input, used + 1 + Len(Tail(left)))
  BY ProgressUses
<1>2. /\ \A k \in Numbers(answers) : 2 * k <= used
      /\ \A k \in dropped : 2 * k - 1 <= used
      /\ \A k \in 1 .. n : 2 * k <= used => k \in over \cup {cur}
      /\ \A k \in over : k < cur
      /\ used = 2 * cur - 1
  BY DEF Progress
<1>3. Numbers(answers) \subseteq Nat
  BY AnswerNumbers
<1> HIDE DEF used
<1>4. \A k \in 1 .. n : 2 * k <= used + 1 => k \in over \cup {cur}
  BY <1>1, <1>2
<1>5. /\ \A k \in Numbers(answers) : 2 * k <= used + 1
      /\ \A k \in dropped : 2 * k - 1 <= used + 1
  BY <1>1, <1>2, <1>3
<1>6. used + 1 = 2 * cur - 0 /\ used + 1 >= 0
  BY <1>1, <1>2
<1> HIDE DEF over
<1> DEFINE now == 2 * n - Len(input) - Len(Tail(left))
<1>7. now = used + 1
  BY <1>1
<1> HIDE DEF now
<1>8. /\ now >= 0 /\ Follow(Tail(left), now) /\ Follow(input, now + Len(Tail(left)))
      /\ \A k \in Numbers(answers) : 2 * k <= now
      /\ \A k \in dropped : 2 * k - 1 <= now
      /\ \A k \in 1 .. n : 2 * k <= now => k \in over \cup {cur}
      /\ \A k \in over : k < cur
      /\ now = 2 * cur - 0
  BY <1>1, <1>2, <1>4, <1>5, <1>6, <1>7
<1>9. QED
  BY <1>8 DEF Progress, now, over

\* There is such a file.
LEMMA ProgressSends ==
    ASSUME NEW left, NEW cur, NEW input, NEW n, NEW answers, NEW dropped, NEW requests,
           Progress("process", left, cur, input, n, answers, dropped, requests),
           requests[cur].file # "missing"
    PROVE  Progress("send", left, cur, input, n, answers, dropped, requests)
BY DEF Progress

\* One more request is over.
Settles(answers, dropped, cur, moreAnswers, moreDropped) ==
    Numbers(moreAnswers) \cup moreDropped = Numbers(answers) \cup dropped \cup {cur}

\* The thread's request gets its answer, or is dropped: either way it is over.
LEMMA ProgressSettles ==
    ASSUME NEW place \in {"process", "send"}, NEW left, NEW cur \in Nat, NEW input,
           NEW n \in Nat, NEW answers, NEW dropped, NEW requests,
           Progress(place, left, cur, input, n, answers, dropped, requests),
           Numbers(answers) \cup dropped \subseteq Nat,
           NEW after \in {"init", "close"}, NEW moreAnswers, NEW moreDropped,
           Settles(answers, dropped, cur, moreAnswers, moreDropped)
    PROVE  /\ Progress(after, left, cur, input, n, moreAnswers, moreDropped, requests)
           /\ \A k \in Numbers(answers) \cup dropped : k < cur
<1> DEFINE used == 2 * n - Len(input) - Len(left)
           over == Numbers(answers) \cup dropped
<1>1. /\ used >= 0 /\ Follow(left, used) /\ Follow(input, used + Len(left))
      /\ \A k \in Numbers(answers) : 2 * k <= used
      /\ \A k \in dropped : 2 * k - 1 <= used
      /\ \A k \in 1 .. n : 2 * k <= used => k \in over \cup {cur}
      /\ \A k \in over : k < cur
      /\ used = 2 * cur
  BY DEF Progress
<1> HIDE DEF used
<1>2. \A k \in Numbers(moreAnswers) : 2 * k <= used
  BY <1>1 DEF Settles
<1>3. \A k \in moreDropped : 2 * k - 1 <= used
  BY <1>1 DEF Settles
<1>4. \A k \in 1 .. n : 2 * k <= used => k \in Numbers(moreAnswers) \cup moreDropped
  BY <1>1 DEF Settles
<1>5. QED
  BY <1>1, <1>2, <1>3, <1>4 DEF Progress, used

\* An answer with a larger number than all the others.
LEMMA OrderedAppends ==
    ASSUME NEW answers \in Seq(Answers), NEW dropped \in SUBSET Nat, NEW requests,
           Ordered(answers, dropped, requests), NEW answer \in Answers,
           \A k \in Numbers(answers) \cup dropped : k < answer.number,
           Fits(answer, requests)
    PROVE  /\ Ordered(Append(answers, answer), dropped, requests)
           /\ Append(answers, answer) \in Seq(Answers)
           /\ Numbers(Append(answers, answer)) = Numbers(answers) \cup {answer.number}
<1> DEFINE more == Append(answers, answer)
<1>1. /\ Len(answers) \in Nat /\ Len(more) = Len(answers) + 1 /\ more \in Seq(Answers)
      /\ \A i \in 1 .. Len(answers) : more[i] = answers[i]
      /\ more[Len(answers) + 1] = answer
  OBVIOUS
<1> HIDE DEF more
<1>2. \A i \in 1 .. Len(more) : i \in 1 .. Len(answers) \/ i = Len(answers) + 1
  BY <1>1
<1>3. Numbers(more) = Numbers(answers) \cup {answer.number}
  <2>1. /\ Numbers(answers) = {answers[i].number : i \in 1 .. Len(answers)}
        /\ Numbers(more) = {more[i].number : i \in 1 .. Len(more)}
    BY <1>1, AnswerNumbers
  <2>2. \A i \in 1 .. Len(answers) : i \in 1 .. Len(more) /\ more[i].number = answers[i].number
    BY <1>1
  <2>3. Len(answers) + 1 \in 1 .. Len(more) /\ more[Len(answers) + 1].number = answer.number
    BY <1>1
  <2>4. Numbers(more) \subseteq Numbers(answers) \cup {answer.number}
    BY <1>2, <2>1, <2>2, <2>3
  <2>5. Numbers(answers) \subseteq Numbers(more)
    BY <2>1, <2>2
  <2>6. answer.number \in Numbers(more)
    BY <2>1, <2>3
  <2>7. QED
    BY <2>4, <2>5, <2>6
<1>4. /\ \A i, j \in 1 .. Len(answers) : i < j => answers[i].number < answers[j].number
      /\ Numbers(answers) \cap dropped = {}
      /\ \A i \in 1 .. Len(answers) : Fits(answers[i], requests)
  BY DEF Ordered
<1>5. \A i \in 1 .. Len(answers) : answers[i].number < answer.number
  BY AnswerNumbers
<1>6. ASSUME NEW i \in 1 .. Len(more), NEW j \in 1 .. Len(more), i < j
      PROVE  more[i].number < more[j].number
  <2>1. i \in 1 .. Len(answers) /\ more[i] = answers[i]
    BY <1>1, <1>6
  <2>2. CASE j = Len(answers) + 1
    BY <1>1, <1>5, <2>1, <2>2
  <2>3. CASE j # Len(answers) + 1
    <3>1. j \in 1 .. Len(answers) /\ more[j] = answers[j]
      BY <1>1, <1>2, <2>3
    <3>2. QED
      BY <1>4, <1>6, <2>1, <3>1
  <2>4. QED
    BY <2>2, <2>3
<1>7. Numbers(more) \cap dropped = {}
  <2>1. answer.number \notin dropped
    <3>1. answer.number \in Nat
      BY DEF Answers
    <3>2. QED
      BY <3>1
  <2>2. QED
    BY <1>3, <1>4, <2>1
<1>8. ASSUME NEW i \in 1 .. Len(more) PROVE Fits(more[i], requests)
  <2>1. CASE i = Len(answers) + 1
    BY <1>1, <1>8, <2>1
  <2>2. CASE i # Len(answers) + 1
    <3>1. i \in 1 .. Len(answers) /\ more[i] = answers[i]
      BY <1>1, <1>2, <2>2
    <3>2. QED
      BY <1>4, <1>8, <3>1
  <2>3. QED
    BY <2>1, <2>2
<1>9. QED
  BY <1>1, <1>3, <1>6, <1>7, <1>8 DEF Ordered, more

\* A request that is dropped was not answered.
LEMMA OrderedDrops ==
    ASSUME NEW answers, NEW dropped, NEW requests, NEW cur, cur \notin Numbers(answers),
           Ordered(answers, dropped, requests)
    PROVE  Ordered(answers, dropped \cup {cur}, requests)
BY DEF Ordered

\* ContextInit: what is in the buffer is dropped, and the request that the thread was at is
\* forgotten.
LEMMA ProgressClears ==
    ASSUME NEW left \in Seq(Pieces), NEW cur, NEW input \in Seq(Pieces), NEW n \in Nat,
           NEW answers \in Seq(Answers), NEW dropped \in SUBSET Nat, NEW requests,
           Progress("init", left, cur, input, n, answers, dropped, requests),
           Ordered(answers, dropped, requests)
    PROVE  LET more == dropped \cup {piece.number : piece \in ToSet(left)}
           IN  /\ Progress("line", <<>>, 0, input, n, answers, more, requests)
               /\ Ordered(answers, more, requests)
<1> DEFINE used == 2 * n - Len(input) - Len(left)
           all == 2 * n - Len(input)
           over == Numbers(answers) \cup dropped
           gone == {piece.number : piece \in ToSet(left)}
           more == dropped \cup gone
<1>1. /\ used >= 0 /\ Follow(left, used) /\ Follow(input, used + Len(left))
      /\ \A k \in Numbers(answers) : 2 * k <= used
      /\ \A k \in dropped : 2 * k - 1 <= used
      /\ \A k \in 1 .. n : 2 * k <= used => k \in over
  BY DEF Progress
<1>2. Len(left) \in Nat /\ Len(input) \in Nat /\ used \in Nat /\ all = used + Len(left)
      /\ all \in Nat
  BY <1>1
<1>3. gone = {left[i].number : i \in 1 .. Len(left)}
  BY DEF ToSet
<1>4. \A i \in 1 .. Len(left) : left[i] \in Pieces /\ left[i].number \in Nat
  BY PieceNumbers
<1> HIDE DEF gone, used, all
<1>5. ASSUME NEW k \in gone
      PROVE  k \in Nat /\ 2 * k - 1 <= all /\ used < 2 * k
  <2>1. PICK i \in 1 .. Len(left) : k = left[i].number
    BY <1>3
  <2>2. IsPiece(left[i], used + i) /\ k \in Nat
    BY <1>1, <1>4, <2>1 DEF Follow
  <2>3. used + i = 2 * k \/ used + i = 2 * k - 1
    BY <2>1, <2>2 DEF IsPiece
  <2>4. QED
    BY <1>2, <2>2, <2>3
<1>6. Numbers(answers) \subseteq Nat
  BY AnswerNumbers
<1>7. ASSUME NEW k \in 1 .. n, 2 * k <= all
      PROVE  k \in Numbers(answers) \cup more
  <2>1. CASE 2 * k <= used
    BY <1>1, <2>1
  <2>2. CASE 2 * k > used
    <3> DEFINE i == 2 * k - used
    <3>1. i \in 1 .. Len(left) /\ used + i = 2 * k
      BY <1>2, <1>7, <2>2
    <3> HIDE DEF i
    <3>2. IsPiece(left[i], 2 * k) /\ left[i].number \in Nat
      BY <1>1, <1>4, <3>1 DEF Follow
    <3>3. left[i].number = k
      BY <3>2, SMTT(30) DEF IsPiece
    <3>4. QED
      BY <1>3, <3>1, <3>3
  <2>3. QED
    BY <1>2, <2>1, <2>2
<1>8. \A k \in more : 2 * k - 1 <= all
  BY <1>1, <1>2, <1>5
<1>9. \A k \in Numbers(answers) : 2 * k <= all
  BY <1>1, <1>2, <1>6
<1>10. Ordered(answers, more, requests)
  <2>1. Numbers(answers) \cap gone = {}
    BY <1>1, <1>2, <1>5, <1>6
  <2>2. QED
    BY <2>1 DEF Ordered
<1> HIDE DEF more
<1>11. Len(<<>>) = 0
  OBVIOUS
<1>12. 2 * n - Len(input) - Len(<<>>) = all /\ all + Len(<<>>) = all
  BY <1>2, <1>11 DEF all
<1>13. Follow(<<>>, all) /\ Follow(input, all + Len(<<>>))
  BY <1>1, <1>2, <1>11, <1>12 DEF Follow
<1>14. Progress("line", <<>>, 0, input, n, answers, more, requests)
  <2> DEFINE now == 2 * n - Len(input) - Len(<<>>)
  <2>1. now = all
    BY <1>12
  <2> HIDE DEF now
  <2>2. /\ now >= 0 /\ Follow(<<>>, now) /\ Follow(input, now + Len(<<>>))
        /\ \A k \in Numbers(answers) : 2 * k <= now
        /\ \A k \in more : 2 * k - 1 <= now
        /\ \A k \in 1 .. n : 2 * k <= now => k \in Numbers(answers) \cup more
    BY <1>2, <1>7, <1>8, <1>9, <1>13, <2>1
  <2>3. QED
    BY <2>2 DEF Progress, now
<1>15. QED
  BY <1>10, <1>14 DEF more, gone

(***************************************************************************)
(* Traffic is inductive.                                                   *)
(***************************************************************************)
Held == {"init", "line", "headers", "process", "send", "close"}

\* The same, place by place.
LEMMA HeldPlaces == /\ Serving \ {"enter", "entering"} = Held
                    /\ Held \subseteq Serving /\ Serving \subseteq Places
BY DEF Serving, Held, Places

\* Nothing has been asked.
LEMMA TrafficInit == Init => Traffic
<1> SUFFICES ASSUME Init PROVE Traffic
  OBVIOUS
<1>1. NoConnection \notin Connections
  BY HttpAssumption
<1>2. TrafficTyped
  <2>1. thread \in [Threads -> Places]
    BY DEF Init, Places
  <2>2. /\ port \in Seq(Connections)
        /\ connection \in [Threads -> Connections \cup {NoConnection}]
        /\ buffer \in [Threads -> Seq(Pieces)] /\ current \in [Threads -> Nat]
        /\ socket \in [Connections -> Seq(Pieces)] /\ asked \in [Connections -> Nat]
        /\ sent \in [Connections -> Seq(Answers)] /\ lost \in [Connections -> SUBSET Nat]
    BY DEF Init
  <2>3. main = "accept" /\ connectSock = NoConnection
    BY DEF Init
  <2>4. QED
    BY <2>1, <2>2, <2>3 DEF TrafficTyped
<1>3. OneHand
  <2>1. IsInjective(port) /\ ToSet(port) = {}
    BY DEF Init, IsInjective, ToSet
  <2>2. \A t \in Threads : thread[t] \notin Serving /\ connection[t] = NoConnection
                            /\ buffer[t] = <<>>
    BY DEF Init, Serving
  <2>3. QED
    BY <2>1, <2>2 DEF OneHand
<1>4. Service
  <2>1. ASSUME NEW c \in Connections
        PROVE  Ordered(sent[c], lost[c], Requests[c])
               /\ Untaken(socket[c], asked[c], sent[c], lost[c])
    <3>1. socket[c] = <<>> /\ asked[c] = 0 /\ sent[c] = <<>> /\ lost[c] = {}
      BY DEF Init
    <3>2. Len(<<>>) = 0 /\ 2 * 0 = 0
      OBVIOUS
    <3>3. QED
      BY <3>1, <3>2 DEF Ordered, Untaken, Follow
  <2>2. \A t \in Threads : thread[t] \notin Serving
    BY DEF Init, Serving
  <2>3. QED
    BY <2>1, <2>2 DEF Service
<1>5. QED
  BY <1>2, <1>3, <1>4 DEF Traffic

\* A step that only moves threads without a connection.
LEMMA ServiceIdle ==
    ASSUME Traffic, UNCHANGED <<connection, buffer, current, socket, asked, sent, lost>>,
           \A u \in Threads : connection[u] # NoConnection => thread'[u] = thread[u],
           \A u \in Threads : connection[u] = NoConnection => thread'[u] \notin Serving
    PROVE  Service'
<1>1. \A t \in Threads : thread[t] \in Serving <=> connection[t] # NoConnection
  BY DEF Traffic, OneHand
<1>2. ASSUME NEW t \in Threads, thread'[t] \in Held
      PROVE  thread[t] = thread'[t]
  BY <1>1, <1>2, HeldPlaces
<1>3. \A c \in Connections : InHand(c) <=> InHand(c)'
  <2> SUFFICES ASSUME NEW c \in Connections PROVE InHand(c) <=> InHand(c)'
    OBVIOUS
  <2>1. c # NoConnection
    BY HttpAssumption
  <2>2. \A t \in Threads : connection[t] = c => thread'[t] = thread[t]
    BY <2>1
  <2>3. QED
    BY <2>2 DEF InHand
<1>4. QED
  BY <1>2, <1>3, HeldPlaces DEF Traffic, Service

\* A step at one connection, in one thread's hands before and after at most.
LEMMA ServiceAt ==
    ASSUME Traffic, NEW c \in Connections,
           \A d \in Connections \ {c} :
               /\ socket'[d] = socket[d] /\ asked'[d] = asked[d]
               /\ sent'[d] = sent[d] /\ lost'[d] = lost[d],
           \A u \in Threads :
               \/ connection[u] \in {c, NoConnection} /\ connection'[u] \in {c, NoConnection}
               \/ /\ connection'[u] = connection[u] /\ thread'[u] = thread[u]
                  /\ buffer'[u] = buffer[u] /\ current'[u] = current[u],
           \A u \in Threads : connection'[u] = NoConnection => thread'[u] \notin Serving,
           Ordered(sent'[c], lost'[c], Requests[c]),
           ~InHand(c)' => Untaken(socket'[c], asked'[c], sent'[c], lost'[c]),
           \A u \in Threads :
               connection'[u] = c /\ thread'[u] \in Held =>
                   Progress(thread'[u], buffer'[u], current'[u], socket'[c], asked'[c],
                            sent'[c], lost'[c], Requests[c])
    PROVE  Service'
<1>1. NoConnection \notin Connections
  BY HttpAssumption
<1>2. \A d \in Connections : Ordered(sent'[d], lost'[d], Requests[d])
  BY DEF Traffic, Service
<1>3. ASSUME NEW d \in Connections, ~InHand(d)'
      PROVE  Untaken(socket'[d], asked'[d], sent'[d], lost'[d])
  <2>1. CASE d = c
    BY <1>3, <2>1
  <2>2. CASE d # c
    <3>1. ~InHand(d)
      BY <1>1, <1>3, <2>2 DEF InHand
    <3>2. Untaken(socket[d], asked[d], sent[d], lost[d])
      BY <3>1 DEF Traffic, Service
    <3>3. QED
      BY <2>2, <3>2
  <2>3. QED
    BY <2>1, <2>2
<1>4. ASSUME NEW u \in Threads, thread'[u] \in Held
      PROVE  LET d == connection'[u]
             IN  Progress(thread'[u], buffer'[u], current'[u], socket'[d], asked'[d],
                          sent'[d], lost'[d], Requests[d])
  <2>1. connection'[u] # NoConnection
    BY <1>4, HeldPlaces
  <2>2. CASE connection'[u] = c
    BY <1>4, <2>2
  <2>3. CASE connection'[u] # c
    <3>1. /\ connection'[u] = connection[u] /\ thread'[u] = thread[u]
          /\ buffer'[u] = buffer[u] /\ current'[u] = current[u]
      BY <2>1, <2>3
    <3>2. connection[u] \in Connections \ {c}
      BY <2>1, <2>3, <3>1 DEF Traffic, TrafficTyped
    <3>3. LET d == connection[u]
          IN  Progress(thread[u], buffer[u], current[u], socket[d], asked[d], sent[d],
                       lost[d], Requests[d])
      BY <1>4, <3>1, HeldPlaces DEF Traffic, Service
    <3>4. QED
      BY <3>1, <3>2, <3>3
  <2>4. QED
    BY <2>2, <2>3
<1>5. QED
  BY <1>2, <1>3, <1>4, HeldPlaces DEF Service

\* A thread that serves has a connection, and nobody else has it.
LEMMA AtWork ==
    ASSUME Traffic, NEW t \in Threads, thread[t] \in Serving
    PROVE  LET c == connection[t]
           IN  /\ c \in Connections /\ c # NoConnection
               /\ \A u \in Threads : connection[u] = c => u = t
               /\ buffer[t] \in Seq(Pieces) /\ current[t] \in Nat
               /\ socket[c] \in Seq(Pieces) /\ asked[c] \in Nat
               /\ sent[c] \in Seq(Answers) /\ lost[c] \in SUBSET Nat
               /\ Ordered(sent[c], lost[c], Requests[c])
               /\ thread[t] \in Held =>
                     Progress(thread[t], buffer[t], current[t], socket[c], asked[c], sent[c],
                              lost[c], Requests[c])
               /\ thread[t] \notin Held =>
                     buffer[t] = <<>> /\ Untaken(socket[c], asked[c], sent[c], lost[c])
<1> DEFINE c == connection[t]
<1>1. c \in Connections /\ c # NoConnection
  BY DEF Traffic, TrafficTyped, OneHand
<1>2. \A u \in Threads : connection[u] = c => u = t
  BY <1>1 DEF Traffic, OneHand
<1>3. /\ buffer[t] \in Seq(Pieces) /\ current[t] \in Nat
      /\ socket[c] \in Seq(Pieces) /\ asked[c] \in Nat
      /\ sent[c] \in Seq(Answers) /\ lost[c] \in SUBSET Nat
  BY <1>1 DEF Traffic, TrafficTyped
<1>4. Ordered(sent[c], lost[c], Requests[c])
  BY <1>1 DEF Traffic, Service
<1>5. thread[t] \in Held =>
          Progress(thread[t], buffer[t], current[t], socket[c], asked[c], sent[c],
                   lost[c], Requests[c])
  BY HeldPlaces DEF Traffic, Service
<1>6. ASSUME thread[t] \notin Held
      PROVE  buffer[t] = <<>> /\ Untaken(socket[c], asked[c], sent[c], lost[c])
  <2>1. thread[t] \in {"enter", "entering"}
    BY <1>6, HeldPlaces
  <2>2. ~InHand(c)
    BY <1>2, <2>1 DEF InHand
  <2>3. buffer[t] = <<>>
    BY <1>6, HeldPlaces DEF Traffic, OneHand
  <2>4. QED
    BY <1>1, <2>2, <2>3 DEF Traffic, Service
<1>7. QED
  BY <1>1, <1>2, <1>3, <1>4, <1>5, <1>6

\* A step of a thread with its connection in hand.
LEMMA ServingStep ==
    ASSUME Traffic, NEW t \in Threads, NEW c, c = connection[t], thread[t] \in Serving,
           NEW place \in Held, thread' = [thread EXCEPT ![t] = place],
           UNCHANGED <<main, connectSock, port, connection>>,
           NEW left \in Seq(Pieces), buffer' = [buffer EXCEPT ![t] = left],
           NEW cur \in Nat, current' = [current EXCEPT ![t] = cur],
           NEW input \in Seq(Pieces), socket' = [socket EXCEPT ![c] = input],
           asked' = asked,
           NEW answers \in Seq(Answers), sent' = [sent EXCEPT ![c] = answers],
           NEW dropped \in SUBSET Nat, lost' = [lost EXCEPT ![c] = dropped],
           Ordered(answers, dropped, Requests[c]),
           Progress(place, left, cur, input, asked[c], answers, dropped, Requests[c])
    PROVE  Traffic'
<1>1. /\ c \in Connections /\ c # NoConnection
      /\ \A u \in Threads : connection[u] = c => u = t
  BY AtWork
<1>2. TrafficTyped'
  <2>1. /\ thread' \in [Threads -> Places]
        /\ connection' \in [Threads -> Connections \cup {NoConnection}]
    BY HeldPlaces DEF Traffic, TrafficTyped
  <2>2. buffer' \in [Threads -> Seq(Pieces)] /\ current' \in [Threads -> Nat]
    BY DEF Traffic, TrafficTyped
  <2>3. socket' \in [Connections -> Seq(Pieces)] /\ asked' \in [Connections -> Nat]
    BY DEF Traffic, TrafficTyped
  <2>4. sent' \in [Connections -> Seq(Answers)]
    BY DEF Traffic, TrafficTyped
  <2>5. lost' \in [Connections -> SUBSET Nat]
    BY DEF Traffic, TrafficTyped
  <2>6. QED
    BY <2>1, <2>2, <2>3, <2>4, <2>5 DEF Traffic, TrafficTyped
<1>3. /\ \A u \in Threads \ {t} : thread'[u] = thread[u] /\ buffer'[u] = buffer[u]
                                  /\ current'[u] = current[u]
      /\ thread'[t] = place /\ buffer'[t] = left /\ current'[t] = cur
  BY DEF Traffic, TrafficTyped
<1>4. /\ \A d \in Connections \ {c} :
            /\ socket'[d] = socket[d] /\ asked'[d] = asked[d]
            /\ sent'[d] = sent[d] /\ lost'[d] = lost[d]
      /\ socket'[c] = input /\ asked'[c] = asked[c] /\ sent'[c] = answers /\ lost'[c] = dropped
  BY <1>1 DEF Traffic, TrafficTyped
<1>5. OneHand'
  <2>1. \A u \in Threads : thread'[u] \in Serving <=> connection'[u] # NoConnection
    BY <1>1, <1>3, HeldPlaces DEF Traffic, OneHand
  <2>2. \A u \in Threads : thread'[u] \notin Held => buffer'[u] = <<>>
    BY <1>3, HeldPlaces DEF Traffic, OneHand
  <2>3. /\ IsInjective(port) /\ connectSock \notin ToSet(port)
        /\ \A u \in Threads : connection[u] # NoConnection =>
                /\ connection[u] # connectSock /\ connection[u] \notin ToSet(port)
                /\ \A v \in Threads : connection[v] = connection[u] => v = u
    BY DEF Traffic, OneHand
  <2>4. QED
    BY <2>1, <2>2, <2>3, HeldPlaces DEF OneHand
<1>6. Service'
  <2>1. InHand(c)'
    BY <1>3, HeldPlaces DEF InHand
  <2>2. \A u \in Threads : connection'[u] = NoConnection => thread'[u] \notin Serving
    BY <1>5 DEF OneHand
  <2>3. \A u \in Threads :
            \/ connection[u] \in {c, NoConnection} /\ connection'[u] \in {c, NoConnection}
            \/ /\ connection'[u] = connection[u] /\ thread'[u] = thread[u]
               /\ buffer'[u] = buffer[u] /\ current'[u] = current[u]
    BY <1>3
  <2>4. \A u \in Threads :
            connection'[u] = c /\ thread'[u] \in Held =>
                Progress(thread'[u], buffer'[u], current'[u], socket'[c], asked'[c],
                         sent'[c], lost'[c], Requests[c])
    BY <1>1, <1>3, <1>4
  <2>5. Ordered(sent'[c], lost'[c], Requests[c])
    BY <1>4
  <2>6. QED
    BY <1>1, <1>4, <2>1, <2>2, <2>3, <2>4, <2>5, ServiceAt
<1>7. QED
  BY <1>2, <1>5, <1>6 DEF Traffic

\* A step that only moves threads without a connection, or main, keeps the traffic.
LEMMA TrafficIdle ==
    ASSUME Traffic, UNCHANGED <<connection, buffer, current, socket, asked, sent, lost, port>>,
           main' \in {"accept", "check", "post"},
           connectSock' = connectSock \/ (connectSock' \in Connections /\ ~Connected(connectSock')),
           main' = "accept" <=> connectSock' = NoConnection,
           thread' \in [Threads -> Places],
           \A u \in Threads : connection[u] # NoConnection => thread'[u] = thread[u],
           \A u \in Threads : connection[u] = NoConnection => thread'[u] \notin Serving
    PROVE  Traffic'
<1>1. Service'
  BY ServiceIdle
<1>2. TrafficTyped'
  BY DEF Traffic, TrafficTyped
<1>3. OneHand'
  <2>1. /\ IsInjective(port) /\ connectSock' \notin ToSet(port)
        /\ \A t \in Threads : connection[t] # NoConnection => connection[t] # connectSock'
    BY DEF Traffic, OneHand, Connected
  <2>2. \A t \in Threads :
          /\ thread'[t] \in Serving <=> connection[t] # NoConnection
          /\ thread'[t] \notin Held => buffer[t] = <<>>
    BY HeldPlaces DEF Traffic, OneHand
  <2>3. QED
    BY <2>1, <2>2, HeldPlaces DEF Traffic, OneHand
<1>4. QED
  BY <1>1, <1>2, <1>3 DEF Traffic

\* main's steps but for the last: a connection that nobody has, and a thread more.
LEMMA MainTraffic ==
    ASSUME Traffic, IInv, Accept \/ CheckPool
    PROVE  Traffic'
<1>1. NoConnection \notin Connections
  BY HttpAssumption
<1>2. /\ main \in {"accept", "check", "post"} /\ thread \in [Threads -> Places]
      /\ main = "accept" <=> connectSock = NoConnection
      /\ \A t \in Threads : thread[t] \in Serving <=> connection[t] # NoConnection
  BY DEF Traffic, TrafficTyped, OneHand
<1>3. CASE Accept
  <2>1. /\ UNCHANGED <<connection, buffer, current, socket, asked, sent, lost, port, thread>>
        /\ main' = "check" /\ connectSock' \in Connections /\ ~Connected(connectSock')
    BY <1>3 DEF Accept, work, clients, outcome
  <2>2. QED
    BY <1>1, <1>2, <2>1, TrafficIdle
<1>4. CASE CheckPool
  <2>1. /\ UNCHANGED <<connection, buffer, current, socket, asked, sent, lost, port>>
        /\ main = "check" /\ main' = "post" /\ connectSock' = connectSock
    BY <1>4 DEF CheckPool, work, clients, outcome
  <2>2. /\ thread' \in [Threads -> Places]
        /\ \A u \in Threads : thread'[u] = thread[u] \/ (thread[u] = "gone" /\ thread'[u] = "idle")
    <3>1. CASE thread' = thread
      BY <1>2, <3>1
    <3>2. CASE thread' # thread
      <4> DEFINE new == CHOOSE t \in Threads : t \notin Alive
      <4>1. /\ threadsCounter < MAX_WORKINGTHREADS
            /\ thread' = [thread EXCEPT ![new] = "idle"]
        BY <1>4, <3>2 DEF CheckPool
      <4>2. Alive # Threads
        BY <4>1, Bounds DEF IInv, PoolCounted
      <4>3. new \in Threads /\ new \notin Alive
        BY <4>2 DEF Alive
      <4>4. thread[new] = "gone"
        BY <4>3 DEF Alive
      <4> HIDE DEF new
      <4>5. QED
        BY <1>2, <4>1, <4>3, <4>4 DEF Places
    <3>3. QED
      BY <3>1, <3>2
  <2>3. \A u \in Threads : connection[u] # NoConnection => thread'[u] = thread[u]
    BY <1>2, <2>2 DEF Serving
  <2>4. \A u \in Threads : connection[u] = NoConnection => thread'[u] \notin Serving
    BY <1>2, <2>2 DEF Serving
  <2>5. QED
    BY <1>2, <2>1, <2>2, <2>3, <2>4, TrafficIdle
<1>5. QED
  BY <1>3, <1>4

\* The connection goes from main to the port.
LEMMA PostTraffic == Traffic /\ PostQueuedCompletionStatus => Traffic'
<1> SUFFICES ASSUME Traffic, PostQueuedCompletionStatus PROVE Traffic'
  OBVIOUS
<1>1. /\ main = "post" /\ main' = "accept"
      /\ port' = Append(port, connectSock) /\ connectSock' = NoConnection
      /\ UNCHANGED <<thread, connection, buffer, current, socket, asked, sent, lost>>
  BY DEF PostQueuedCompletionStatus, work, clients, outcome
<1>2. connectSock \in Connections /\ NoConnection \notin Connections /\ port \in Seq(Connections)
  BY <1>1, HttpAssumption DEF Traffic, TrafficTyped
<1>3. connectSock \notin ToSet(port) /\ IsInjective(port)
  BY DEF Traffic, OneHand
<1>4. /\ port' \in Seq(Connections)
      /\ ToSet(port') = ToSet(port) \cup {connectSock}
      /\ IsInjective(port')
  BY <1>1, <1>2, <1>3, AppendElements
<1>5. TrafficTyped'
  BY <1>1, <1>4 DEF Traffic, TrafficTyped
<1>6. OneHand'
  <2>1. NoConnection \notin ToSet(port')
    <3>1. ToSet(port) \subseteq Connections
      BY <1>2 DEF ToSet
    <3>2. QED
      BY <1>2, <1>4, <3>1
  <2>2. \A t \in Threads : connection[t] # NoConnection =>
            connection[t] # connectSock /\ connection[t] \notin ToSet(port)
    BY DEF Traffic, OneHand
  <2>3. QED
    BY <1>1, <1>4, <2>1, <2>2 DEF Traffic, OneHand
<1>7. Service'
  <2>1. \A u \in Threads : connection[u] = NoConnection => thread'[u] \notin Serving
    BY <1>1 DEF Traffic, OneHand
  <2>2. QED
    BY <1>1, <2>1, ServiceIdle
<1>8. QED
  BY <1>5, <1>6, <1>7 DEF Traffic

\* A thread takes the first connection of the port.
LEMMA TakeTraffic ==
    ASSUME Traffic, NEW t \in Threads, GetQueuedCompletionStatus(t)
    PROVE  Traffic'
<1> DEFINE c == Head(port)
<1>1. /\ thread[t] = "idle" /\ port # <<>> /\ port' = Tail(port)
      /\ connection' = [connection EXCEPT ![t] = c]
      /\ thread' = [thread EXCEPT ![t] = "enter"]
      /\ UNCHANGED <<main, connectSock, buffer, current, socket, asked, sent, lost>>
  BY DEF GetQueuedCompletionStatus, Goto, clients, outcome
<1>2. NoConnection \notin Connections /\ port \in Seq(Connections) /\ IsInjective(port)
  BY HttpAssumption DEF Traffic, TrafficTyped, OneHand
<1>3. /\ c \in Connections /\ c \in ToSet(port)
      /\ port' \in Seq(Connections) /\ IsInjective(port')
      /\ ToSet(port') = ToSet(port) \ {c}
  <2>1. /\ c \in Connections /\ c \in ToSet(port)
        /\ Tail(port) \in Seq(Connections) /\ IsInjective(Tail(port))
        /\ ToSet(port) = {c} \cup ToSet(Tail(port)) /\ c \notin ToSet(Tail(port))
    BY <1>1, <1>2, HeadTailElements
  <2>2. QED
    BY <1>1, <2>1
<1>4. thread \in [Threads -> Places] /\ connection \in [Threads -> Connections \cup {NoConnection}]
  BY DEF Traffic, TrafficTyped
<1>5. /\ c # NoConnection /\ c # connectSock
      /\ \A u \in Threads : connection[u] # c
  BY <1>2, <1>3 DEF Traffic, OneHand
<1>6. /\ connection'[t] = c /\ thread'[t] = "enter"
      /\ connection[t] = NoConnection /\ buffer[t] = <<>>
      /\ \A u \in Threads \ {t} : connection'[u] = connection[u] /\ thread'[u] = thread[u]
  <2>1. connection[t] = NoConnection /\ buffer[t] = <<>>
    BY <1>1, HeldPlaces DEF Traffic, OneHand, Serving
  <2>2. QED
    BY <1>1, <1>4, <2>1
<1> HIDE DEF c
<1>7. TrafficTyped'
  <2>1. /\ thread' \in [Threads -> Places]
        /\ connection' \in [Threads -> Connections \cup {NoConnection}]
    BY <1>1, <1>3, <1>4 DEF Places
  <2>2. QED
    BY <1>1, <1>3, <2>1 DEF Traffic, TrafficTyped
<1>8. OneHand'
  <2>1. "enter" \in Serving /\ "enter" \notin Held
    BY DEF Serving, Held
  <2>2. connectSock' \notin ToSet(port')
    BY <1>1, <1>3 DEF Traffic, OneHand
  <2>3. \A u \in Threads :
          /\ thread'[u] \in Serving <=> connection'[u] # NoConnection
          /\ thread'[u] \notin Held => buffer'[u] = <<>>
    BY <1>1, <1>5, <1>6, <2>1, HeldPlaces DEF Traffic, OneHand
  <2>4. ASSUME NEW u \in Threads, connection'[u] # NoConnection
        PROVE  /\ connection'[u] # connectSock' /\ connection'[u] \notin ToSet(port')
               /\ \A v \in Threads : connection'[v] = connection'[u] => v = u
    <3>1. CASE u = t
      BY <1>1, <1>3, <1>5, <1>6, <3>1
    <3>2. CASE u # t
      BY <1>1, <1>3, <1>5, <1>6, <2>4, <3>2 DEF Traffic, OneHand
    <3>3. QED
      BY <3>1, <3>2
  <2>5. QED
    BY <1>3, <2>2, <2>3, <2>4, HeldPlaces DEF OneHand
<1>9. Service'
  <2>1. ~InHand(c)
    BY <1>5 DEF InHand
  <2>2. Ordered(sent[c], lost[c], Requests[c]) /\ Untaken(socket[c], asked[c], sent[c], lost[c])
    BY <1>3, <2>1 DEF Traffic, Service
  <2>3. \A u \in Threads : connection'[u] = NoConnection => thread'[u] \notin Serving
    BY <1>8 DEF OneHand
  <2>4. \A u \in Threads :
          \/ connection[u] \in {c, NoConnection} /\ connection'[u] \in {c, NoConnection}
          \/ /\ connection'[u] = connection[u] /\ thread'[u] = thread[u]
             /\ buffer'[u] = buffer[u] /\ current'[u] = current[u]
    BY <1>1, <1>6
  <2>5. \A u \in Threads : connection'[u] = c => thread'[u] \notin Held
    BY <1>5, <1>6 DEF Held
  <2>6. /\ \A d \in Connections \ {c} :
               /\ socket'[d] = socket[d] /\ asked'[d] = asked[d]
               /\ sent'[d] = sent[d] /\ lost'[d] = lost[d]
        /\ Ordered(sent'[c], lost'[c], Requests[c])
        /\ Untaken(socket'[c], asked'[c], sent'[c], lost'[c])
    BY <1>1, <2>2
  <2>7. QED
    BY <1>3, <2>3, <2>4, <2>5, <2>6, ServiceAt
<1>10. QED
  BY <1>7, <1>8, <1>9 DEF Traffic

\* A value put where it already is.
LEMMA SameValues ==
    ASSUME Traffic, NEW t \in Threads, NEW c \in Connections
    PROVE  /\ thread = [thread EXCEPT ![t] = thread[t]]
           /\ buffer = [buffer EXCEPT ![t] = buffer[t]]
           /\ current = [current EXCEPT ![t] = current[t]]
           /\ socket = [socket EXCEPT ![c] = socket[c]]
           /\ sent = [sent EXCEPT ![c] = sent[c]]
           /\ lost = [lost EXCEPT ![c] = lost[c]]
BY DEF Traffic, TrafficTyped

\* The thread reads: it begins, or clears its buffer, or fills it.
LEMMA InputTraffic ==
    ASSUME Traffic, NEW t \in Threads,
           \/ StoreWorkers(t) /\ thread[t] = "entering"
           \/ ContextInit(t) \/ FillBuffer(t) \/ EndOfInput(t)
    PROVE  Traffic'
<1> DEFINE c == connection[t]
           place == thread[t]
<1>1. thread[t] \in {"entering", "init", "line", "headers"}
  BY DEF ContextInit, FillBuffer, EndOfInput
<1>2. thread[t] \in Serving
  BY <1>1 DEF Serving
<1>3. /\ c \in Connections
      /\ buffer[t] \in Seq(Pieces) /\ current[t] \in Nat
      /\ socket[c] \in Seq(Pieces) /\ asked[c] \in Nat
      /\ sent[c] \in Seq(Answers) /\ lost[c] \in SUBSET Nat
      /\ Ordered(sent[c], lost[c], Requests[c])
  BY <1>2, AtWork
<1>4. thread[t] \in Held =>
          Progress(thread[t], buffer[t], current[t], socket[c], asked[c], sent[c],
                   lost[c], Requests[c])
  BY <1>2, AtWork
<1>5. thread[t] \notin Held => buffer[t] = <<>> /\ Untaken(socket[c], asked[c], sent[c], lost[c])
  BY <1>2, AtWork
<1>6. /\ thread = [thread EXCEPT ![t] = thread[t]]
      /\ buffer = [buffer EXCEPT ![t] = buffer[t]]
      /\ current = [current EXCEPT ![t] = current[t]]
      /\ socket = [socket EXCEPT ![c] = socket[c]]
      /\ sent = [sent EXCEPT ![c] = sent[c]]
      /\ lost = [lost EXCEPT ![c] = lost[c]]
  BY <1>3, SameValues
<1>7. /\ {"init", "line", "headers", "close"} \subseteq Held /\ "entering" \notin Held
      /\ <<>> \in Seq(Pieces) /\ 0 \in Nat
  BY DEF Held
<1> HIDE DEF c
<1>8. CASE StoreWorkers(t) /\ thread[t] = "entering"
  <2>1. /\ thread' = [thread EXCEPT ![t] = "init"]
        /\ UNCHANGED <<main, connectSock, port, connection, buffer, current, socket, asked,
                       sent, lost>>
    BY <1>8 DEF StoreWorkers, Goto, pool, work, clients, outcome
  <2>2. buffer[t] = <<>> /\ Untaken(socket[c], asked[c], sent[c], lost[c])
    BY <1>5, <1>7, <1>8
  <2>3. Progress("init", <<>>, current[t], socket[c], asked[c], sent[c], lost[c], Requests[c])
    BY <1>3, <2>2, ProgressBegins
  <2>4. Progress("init", buffer[t], current[t], socket[c], asked[c], sent[c], lost[c],
                 Requests[c])
    BY <2>2, <2>3
  <2>5. QED
    BY <1>2, <1>3, <1>6, <1>7, <2>1, <2>4, ServingStep DEF c
<1>9. CASE ContextInit(t)
  <2> DEFINE more == lost[c] \cup {piece.number : piece \in ToSet(buffer[t])}
  <2>1. /\ thread[t] = "init" /\ thread' = [thread EXCEPT ![t] = "line"]
        /\ lost' = [lost EXCEPT ![c] = more]
        /\ buffer' = [buffer EXCEPT ![t] = <<>>]
        /\ current' = [current EXCEPT ![t] = 0]
        /\ UNCHANGED <<main, connectSock, port, connection, socket, asked, sent>>
    BY <1>9 DEF ContextInit, Goto, pool, clients, c
  <2>2. Progress("init", buffer[t], current[t], socket[c], asked[c], sent[c], lost[c],
                 Requests[c])
    BY <1>4, <1>7, <2>1
  <2>3. /\ Progress("line", <<>>, 0, socket[c], asked[c], sent[c], more, Requests[c])
        /\ Ordered(sent[c], more, Requests[c])
    BY <1>3, <2>2, ProgressClears
  <2>4. more \in SUBSET Nat
    <3>1. \A piece \in ToSet(buffer[t]) : piece.number \in Nat
      BY <1>3, PieceNumbers DEF ToSet
    <3>2. QED
      BY <1>3, <3>1
  <2> HIDE DEF more
  <2>5. QED
    BY <1>2, <1>3, <1>6, <1>7, <2>1, <2>3, <2>4, ServingStep DEF c
<1>10. CASE FillBuffer(t)
  <2>1. PICK n \in 1 .. Len(socket[c]) :
            /\ buffer' = [buffer EXCEPT ![t] = SubSeq(socket[c], 1, n)]
            /\ socket' = [socket EXCEPT ![c] = SubSeq(socket[c], n + 1, Len(socket[c]))]
    BY <1>10 DEF FillBuffer, c
  <2>2. /\ thread[t] \in {"line", "headers"} /\ buffer[t] = <<>>
        /\ UNCHANGED <<main, connectSock, port, thread, connection, current, asked, sent, lost>>
    BY <1>10 DEF FillBuffer, pool, outcome
  <2>3. thread[t] \in Held
    BY <1>7, <2>2
  <2>4. Progress(place, <<>>, current[t], socket[c], asked[c], sent[c], lost[c], Requests[c])
    BY <1>4, <2>2, <2>3
  <2>5. Progress(place, SubSeq(socket[c], 1, n), current[t],
                 SubSeq(socket[c], n + 1, Len(socket[c])), asked[c], sent[c], lost[c],
                 Requests[c])
    BY <1>3, <2>4, ProgressFilled
  <2>6. /\ SubSeq(socket[c], 1, n) \in Seq(Pieces)
        /\ SubSeq(socket[c], n + 1, Len(socket[c])) \in Seq(Pieces)
    BY <1>3
  <2>7. QED
    BY <1>2, <1>3, <1>6, <2>1, <2>2, <2>3, <2>5, <2>6, ServingStep DEF c
<1>11. CASE EndOfInput(t)
  <2>1. /\ thread[t] = "line" /\ thread' = [thread EXCEPT ![t] = "close"]
        /\ UNCHANGED <<main, connectSock, port, connection, buffer, current, socket, asked,
                       sent, lost>>
    BY <1>11 DEF EndOfInput, Goto, pool, work, clients, outcome
  <2>2. Progress("line", buffer[t], current[t], socket[c], asked[c], sent[c], lost[c],
                 Requests[c])
    BY <1>4, <1>7, <2>1
  <2>3. Progress("close", buffer[t], current[t], socket[c], asked[c], sent[c], lost[c],
                 Requests[c])
    BY <2>2, ProgressEnds
  <2>4. QED
    BY <1>2, <1>3, <1>6, <1>7, <2>1, <2>3, ServingStep DEF c
<1>12. QED
  BY <1>8, <1>9, <1>10, <1>11

\* What the thread's request has come to; the requests before it are over.
LEMMA SettledBefore ==
    ASSUME Traffic, NEW t \in Threads, thread[t] \in {"process", "send"}
    PROVE  LET c == connection[t]
           IN  \A k \in Numbers(sent[c]) \cup lost[c] : k < current[t]
<1> DEFINE c == connection[t]
<1>1. thread[t] \in Held /\ thread[t] \in Serving
  BY DEF Held, Serving
<1>2. /\ Progress(thread[t], buffer[t], current[t], socket[c], asked[c], sent[c], lost[c],
                  Requests[c])
      /\ current[t] \in Nat /\ asked[c] \in Nat
  BY <1>1, AtWork
<1> HIDE DEF c
<1>3. \A k \in Numbers(sent[c]) \cup lost[c] : k < current[t]
  BY <1>2 DEF Progress
<1>4. QED
  BY <1>3 DEF c

\* The thread's request is over, and the thread goes on or closes.
LEMMA SettledTraffic ==
    ASSUME Traffic, NEW t \in Threads, thread[t] \in {"process", "send"}, KeepAlive(t),
           UNCHANGED <<main, connectSock, port, connection, socket, asked, buffer, current>>,
           NEW c, c = connection[t],
           NEW answers \in Seq(Answers), sent' = [sent EXCEPT ![c] = answers],
           NEW dropped \in SUBSET Nat, lost' = [lost EXCEPT ![c] = dropped],
           Ordered(answers, dropped, Requests[c]),
           Settles(sent[c], lost[c], current[t], answers, dropped)
    PROVE  Traffic'
<1> DEFINE next == IF Requests[c][current[t]].keepAlive THEN "init" ELSE "close"
<1>1. thread[t] \in Held /\ thread[t] \in Serving /\ next \in {"init", "close"} /\ next \in Held
  BY DEF Held, Serving
<1>2. /\ c \in Connections
      /\ buffer[t] \in Seq(Pieces) /\ current[t] \in Nat
      /\ socket[c] \in Seq(Pieces) /\ asked[c] \in Nat
      /\ Numbers(sent[c]) \cup lost[c] \subseteq Nat
  <2>1. /\ c \in Connections
        /\ buffer[t] \in Seq(Pieces) /\ current[t] \in Nat
        /\ socket[c] \in Seq(Pieces) /\ asked[c] \in Nat
        /\ sent[c] \in Seq(Answers) /\ lost[c] \in SUBSET Nat
    BY <1>1, AtWork
  <2>2. QED
    BY <2>1, AnswerNumbers
<1>3. Progress(thread[t], buffer[t], current[t], socket[c], asked[c], sent[c], lost[c],
               Requests[c])
  BY <1>1, AtWork
<1>4. /\ buffer = [buffer EXCEPT ![t] = buffer[t]]
      /\ current = [current EXCEPT ![t] = current[t]]
      /\ socket = [socket EXCEPT ![c] = socket[c]]
  BY <1>2, SameValues
<1>5. thread' = [thread EXCEPT ![t] = next]
  BY DEF KeepAlive, Asked, Goto
<1> HIDE DEF next
<1>6. Progress(next, buffer[t], current[t], socket[c], asked[c], answers, dropped, Requests[c])
  BY <1>1, <1>2, <1>3, ProgressSettles, ZenonT(30)
<1>7. QED
  BY <1>1, <1>2, <1>4, <1>5, <1>6, ServingStep

\* The answer goes after the others.
LEMMA AnswerTraffic ==
    ASSUME Traffic, NEW t \in Threads, thread[t] \in {"process", "send"},
           NEW e \in Answers, e.number = current[t], Fits(e, Requests[connection[t]]),
           sent' = [sent EXCEPT ![connection[t]] = Append(@, e)], KeepAlive(t),
           UNCHANGED <<main, connectSock, port, connection, socket, asked, buffer, current, lost>>
    PROVE  Traffic'
<1> DEFINE c == connection[t]
           longer == Append(sent[c], e)
<1>1. thread[t] \in Serving
  BY DEF Serving
<1>2. /\ c \in Connections /\ sent[c] \in Seq(Answers) /\ lost[c] \in SUBSET Nat
      /\ Ordered(sent[c], lost[c], Requests[c])
  BY <1>1, AtWork
<1>3. \A k \in Numbers(sent[c]) \cup lost[c] : k < e.number
  BY SettledBefore
<1> HIDE DEF c
<1>4. sent' = [sent EXCEPT ![c] = longer]
  BY DEF c
<1>9. Fits(e, Requests[c])
  BY DEF c
<1>5. /\ Ordered(longer, lost[c], Requests[c]) /\ longer \in Seq(Answers)
      /\ Numbers(longer) = Numbers(sent[c]) \cup {e.number}
  BY <1>2, <1>3, <1>9, OrderedAppends
<1>6. Settles(sent[c], lost[c], current[t], longer, lost[c])
  BY <1>5 DEF Settles
<1>7. lost' = [lost EXCEPT ![c] = lost[c]]
  BY <1>2, SameValues
<1> HIDE DEF longer
<1>8. QED
  BY <1>2, <1>4, <1>5, <1>6, <1>7, SettledTraffic DEF c

\* The thread uses what it has read, or answers.
LEMMA RequestTraffic ==
    ASSUME Traffic, NEW t \in Threads,
           RequestLine(t) \/ Headers(t) \/ ProcessRequest(t) \/ SendResponseFile(t)
    PROVE  Traffic'
<1> DEFINE c == connection[t]
           at == thread[t]
<1>1. thread[t] \in {"line", "headers", "process", "send"}
  BY DEF RequestLine, Headers, ProcessRequest, SendResponseFile
<1>2. thread[t] \in Held /\ thread[t] \in Serving
  BY <1>1 DEF Held, Serving
<1>3. /\ c \in Connections
      /\ buffer[t] \in Seq(Pieces) /\ current[t] \in Nat
      /\ socket[c] \in Seq(Pieces) /\ asked[c] \in Nat
      /\ sent[c] \in Seq(Answers) /\ lost[c] \in SUBSET Nat
      /\ Ordered(sent[c], lost[c], Requests[c])
  BY <1>2, AtWork
<1>4. Progress(at, buffer[t], current[t], socket[c], asked[c], sent[c], lost[c], Requests[c])
  BY <1>2, AtWork
<1>5. /\ buffer = [buffer EXCEPT ![t] = buffer[t]]
      /\ current = [current EXCEPT ![t] = current[t]]
      /\ socket = [socket EXCEPT ![c] = socket[c]]
      /\ sent = [sent EXCEPT ![c] = sent[c]]
      /\ lost = [lost EXCEPT ![c] = lost[c]]
  BY <1>3, SameValues
<1>6. /\ UNCHANGED <<main, connectSock, port, connection, socket, asked>>
  BY DEF RequestLine, Headers, ProcessRequest, SendResponseFile, pool, work, clients
<1>7. {"headers", "process", "send", "init", "close"} \subseteq Held
  BY DEF Held
<1> HIDE DEF c
<1>8. CASE RequestLine(t)
  <2> DEFINE piece == Head(buffer[t])
             ok == piece.part = "line" /\ Requests[c][piece.number].get
             next == IF ok THEN "headers" ELSE "close"
  <2>1. /\ thread[t] = "line" /\ buffer[t] # <<>>
        /\ current' = [current EXCEPT ![t] = piece.number]
        /\ buffer' = [buffer EXCEPT ![t] = Tail(buffer[t])]
        /\ thread' = [thread EXCEPT ![t] = next]
        /\ UNCHANGED <<sent, lost>>
    BY <1>8 DEF RequestLine, Goto, outcome, c
  <2>2. next \in {"headers", "close"} /\ (next = "headers" => piece.part = "line")
    OBVIOUS
  <2>3. /\ piece \in Pieces /\ Tail(buffer[t]) \in Seq(Pieces)
    BY <1>3, <2>1, TailFacts
  <2>4. piece.number \in Nat
    BY <2>3 DEF Pieces
  <2> HIDE DEF ok, next
  <2>5. Progress("line", buffer[t], current[t], socket[c], asked[c], sent[c], lost[c],
                 Requests[c])
    BY <1>4, <2>1
  <2>6. Progress(next, Tail(buffer[t]), piece.number, socket[c], asked[c], sent[c], lost[c],
                 Requests[c])
    BY <1>3, <2>1, <2>2, <2>5, ProgressLine
  <2>7. next \in Held
    BY <1>7, <2>2
  <2> HIDE DEF piece
  <2>8. QED
    BY <1>2, <1>3, <1>5, <1>6, <2>1, <2>3, <2>4, <2>6, <2>7, ServingStep DEF c
<1>9. CASE Headers(t)
  <2> DEFINE next == IF Asked(t).wellFormed THEN "process" ELSE "close"
  <2>1. /\ thread[t] = "headers" /\ buffer[t] # <<>>
        /\ buffer' = [buffer EXCEPT ![t] = Tail(buffer[t])]
        /\ thread' = [thread EXCEPT ![t] = next]
        /\ UNCHANGED <<current, sent, lost>>
    BY <1>9 DEF Headers, Goto, outcome
  <2>0. next \in {"process", "close"} /\ next \in Held
    BY <1>7
  <2> HIDE DEF next
  <2>2. Progress("headers", buffer[t], current[t], socket[c], asked[c], sent[c], lost[c],
                 Requests[c])
    BY <1>4, <2>1
  <2>3. Progress(next, Tail(buffer[t]), current[t], socket[c], asked[c], sent[c], lost[c],
                 Requests[c])
    BY <1>3, <2>0, <2>1, <2>2, ProgressHeaders
  <2>4. Tail(buffer[t]) \in Seq(Pieces)
    BY <1>3, <2>1, TailFacts
  <2>5. QED
    BY <1>2, <1>3, <1>5, <1>6, <2>0, <2>1, <2>3, <2>4, ServingStep DEF c
<1> DEFINE file == Requests[c][current[t]].file
<1>11. ASSUME NEW s, s \in {200, 404}, file = "missing" => s = 404,
              thread[t] \in {"process", "send"}, Answer(t, s), KeepAlive(t),
              UNCHANGED <<buffer, current, lost>>
       PROVE  Traffic'
  <2> DEFINE e == [number |-> current[t], status |-> s]
  <2>1. /\ e \in Answers /\ e.number = current[t] /\ Fits(e, Requests[c])
    BY <1>3, <1>11 DEF Answers, Fits
  <2>2. /\ sent' = [sent EXCEPT ![c] = Append(@, e)]
    BY <1>11 DEF Answer, c
  <2>3. /\ thread[t] \in {"process", "send"} /\ KeepAlive(t)
        /\ UNCHANGED <<main, connectSock, port, connection, socket, asked, buffer, current, lost>>
    BY <1>6, <1>11
  <2> HIDE DEF e
  <2>4. QED
    BY <2>1, <2>2, <2>3, AnswerTraffic DEF c
<1>12. CASE ProcessRequest(t)
  <2>1. thread[t] = "process" /\ UNCHANGED <<buffer, current, lost>>
    BY <1>12 DEF ProcessRequest, work
  <2>2. CASE file = "missing"
    <3>1. Answer(t, 404) /\ KeepAlive(t)
      BY <1>12, <2>2 DEF ProcessRequest, Asked, c
    <3>2. QED
      BY <1>11, <2>1, <3>1
  <2>3. CASE file # "missing"
    <3>1. thread' = [thread EXCEPT ![t] = "send"] /\ sent' = sent
      BY <1>12, <2>3 DEF ProcessRequest, Asked, Goto, c
    <3>2. Progress("process", buffer[t], current[t], socket[c], asked[c], sent[c], lost[c],
                   Requests[c])
      BY <1>4, <2>1
    <3>3. Progress("send", buffer[t], current[t], socket[c], asked[c], sent[c], lost[c],
                   Requests[c])
      BY <2>3, <3>2, ProgressSends
    <3>4. QED
      BY <1>2, <1>3, <1>5, <1>6, <1>7, <2>1, <3>1, <3>3, ServingStep DEF c
  <2>4. QED
    BY <2>2, <2>3
<1>13. CASE SendResponseFile(t)
  <2>1. thread[t] = "send" /\ UNCHANGED <<buffer, current>> /\ KeepAlive(t)
    BY <1>13 DEF SendResponseFile, work
  <2>2. Progress("send", buffer[t], current[t], socket[c], asked[c], sent[c], lost[c],
                 Requests[c])
    BY <1>4, <2>1
  <2>3. CASE Answer(t, 404) /\ UNCHANGED lost
    BY <1>11, <2>1, <2>3
  <2>4. CASE Asked(t).file = "full" /\ Answer(t, 200) /\ UNCHANGED lost
    <3>1. file # "missing"
      BY <2>4 DEF Asked, c
    <3>2. QED
      BY <1>11, <2>1, <2>4, <3>1
  <2>5. CASE /\ lost' = [lost EXCEPT ![connection[t]] = @ \cup {current[t]}]
             /\ UNCHANGED sent
    <3> DEFINE more == lost[c] \cup {current[t]}
    <3>1. lost' = [lost EXCEPT ![c] = more] /\ more \in SUBSET Nat
      BY <1>3, <2>5 DEF c
    <3>2. Ordered(sent[c], more, Requests[c])
      <4>1. \A k \in Numbers(sent[c]) \cup lost[c] : k < current[t]
        BY <2>1, SettledBefore DEF c
      <4>2. current[t] \notin Numbers(sent[c])
        BY <1>3, <4>1
      <4>3. QED
        BY <1>3, <4>2, OrderedDrops
    <3>3. sent' = [sent EXCEPT ![c] = sent[c]]
      BY <1>5, <2>5
    <3>4. thread[t] \in {"process", "send"} /\ KeepAlive(t)
          /\ UNCHANGED <<main, connectSock, port, connection, socket, asked, buffer, current>>
      BY <1>6, <2>1
    <3>5. Settles(sent[c], lost[c], current[t], sent[c], more)
      BY DEF Settles
    <3> HIDE DEF more
    <3>6. QED
      BY <1>3, <3>1, <3>2, <3>3, <3>4, <3>5, SettledTraffic DEF c
  <2>6. QED
    BY <1>13, <2>3, <2>4, <2>5 DEF SendResponseFile
<1>14. QED
  BY <1>8, <1>9, <1>12, <1>13

\* The connection is over; what is known of it is that of a client that asked nothing.
LEMMA CloseTraffic ==
    ASSUME Traffic, NEW t \in Threads, CloseSocket(t)
    PROVE  Traffic'
<1> DEFINE c == connection[t]
<1>1. /\ thread[t] = "close" /\ thread' = [thread EXCEPT ![t] = "leave"]
      /\ socket' = [socket EXCEPT ![c] = <<>>] /\ asked' = [asked EXCEPT ![c] = 0]
      /\ sent' = [sent EXCEPT ![c] = <<>>] /\ lost' = [lost EXCEPT ![c] = {}]
      /\ connection' = [connection EXCEPT ![t] = NoConnection]
      /\ buffer' = [buffer EXCEPT ![t] = <<>>] /\ current' = [current EXCEPT ![t] = 0]
      /\ UNCHANGED <<main, connectSock, port>>
  BY DEF CloseSocket, Goto, pool
<1>2. thread[t] \in Serving /\ "leave" \in Places /\ "leave" \notin Serving
  BY <1>1 DEF Serving, Places
<1>3. /\ c \in Connections /\ c # NoConnection
      /\ \A u \in Threads : connection[u] = c => u = t
  BY <1>2, AtWork
<1> HIDE DEF c
<1>4. TrafficTyped'
  <2>1. /\ thread' \in [Threads -> Places]
        /\ connection' \in [Threads -> Connections \cup {NoConnection}]
        /\ buffer' \in [Threads -> Seq(Pieces)] /\ current' \in [Threads -> Nat]
    BY <1>1, <1>2 DEF Traffic, TrafficTyped
  <2>2. /\ socket' \in [Connections -> Seq(Pieces)] /\ asked' \in [Connections -> Nat]
        /\ sent' \in [Connections -> Seq(Answers)] /\ lost' \in [Connections -> SUBSET Nat]
    <3>1. <<>> \in Seq(Pieces) /\ <<>> \in Seq(Answers) /\ {} \in SUBSET Nat /\ 0 \in Nat
      OBVIOUS
    <3>2. /\ socket \in [Connections -> Seq(Pieces)] /\ asked \in [Connections -> Nat]
          /\ sent \in [Connections -> Seq(Answers)] /\ lost \in [Connections -> SUBSET Nat]
      BY DEF Traffic, TrafficTyped
    <3>3. socket' \in [Connections -> Seq(Pieces)]
      BY <1>1, <3>1, <3>2
    <3>4. asked' \in [Connections -> Nat]
      BY <1>1, <3>1, <3>2
    <3>5. sent' \in [Connections -> Seq(Answers)]
      BY <1>1, <3>1, <3>2
    <3>6. lost' \in [Connections -> SUBSET Nat]
      BY <1>1, <3>1, <3>2
    <3>7. QED
      BY <3>3, <3>4, <3>5, <3>6
  <2>3. QED
    BY <1>1, <2>1, <2>2 DEF Traffic, TrafficTyped
<1>5. /\ \A u \in Threads \ {t} :
            /\ connection'[u] = connection[u] /\ thread'[u] = thread[u]
            /\ buffer'[u] = buffer[u] /\ current'[u] = current[u]
      /\ connection'[t] = NoConnection /\ thread'[t] = "leave" /\ buffer'[t] = <<>>
      /\ connection[t] = c
  BY <1>1 DEF Traffic, TrafficTyped, c
<1>6. /\ \A d \in Connections \ {c} :
            /\ socket'[d] = socket[d] /\ asked'[d] = asked[d]
            /\ sent'[d] = sent[d] /\ lost'[d] = lost[d]
      /\ socket'[c] = <<>> /\ asked'[c] = 0 /\ sent'[c] = <<>> /\ lost'[c] = {}
  BY <1>1, <1>3 DEF Traffic, TrafficTyped
<1>7. OneHand'
  <2>1. \A u \in Threads :
          /\ thread'[u] \in Serving <=> connection'[u] # NoConnection
          /\ thread'[u] \notin Held => buffer'[u] = <<>>
    BY <1>2, <1>5, HeldPlaces DEF Traffic, OneHand
  <2>2. ASSUME NEW u \in Threads, connection'[u] # NoConnection
        PROVE  /\ connection'[u] # connectSock' /\ connection'[u] \notin ToSet(port')
               /\ \A v \in Threads : connection'[v] = connection'[u] => v = u
    <3>1. u # t /\ connection'[u] = connection[u]
      BY <1>5, <2>2
    <3>2. \A v \in Threads : connection'[v] = connection'[u] => connection[v] = connection[u]
      BY <1>5, <2>2, <3>1
    <3>3. QED
      BY <1>1, <2>2, <3>1, <3>2 DEF Traffic, OneHand
  <2>3. IsInjective(port') /\ connectSock' \notin ToSet(port')
    BY <1>1 DEF Traffic, OneHand
  <2>4. QED
    BY <2>1, <2>2, <2>3, HeldPlaces DEF OneHand
<1>8. Service'
  <2>1. Ordered(sent'[c], lost'[c], Requests[c])
    <3>1. Ordered(<<>>, {}, Requests[c])
      <4>1. Len(<<>>) = 0
        OBVIOUS
      <4>2. QED
        BY <4>1 DEF Ordered
    <3>2. QED
      BY <1>6, <3>1
  <2>2. Untaken(socket'[c], asked'[c], sent'[c], lost'[c])
    <3>1. Untaken(<<>>, 0, <<>>, {})
      <4>1. Len(<<>>) = 0 /\ 2 * 0 = 0
        OBVIOUS
      <4>2. QED
        BY <4>1 DEF Untaken, Follow
    <3>2. QED
      BY <1>6, <3>1
  <2>3. \A u \in Threads : connection'[u] = NoConnection => thread'[u] \notin Serving
    BY <1>7 DEF OneHand
  <2>4. \A u \in Threads :
          \/ connection[u] \in {c, NoConnection} /\ connection'[u] \in {c, NoConnection}
          \/ /\ connection'[u] = connection[u] /\ thread'[u] = thread[u]
             /\ buffer'[u] = buffer[u] /\ current'[u] = current[u]
    BY <1>5
  <2>5. \A u \in Threads : connection'[u] # c
    BY <1>3, <1>5
  <2>6. QED
    BY <1>3, <1>6, <2>1, <2>2, <2>3, <2>4, <2>5, ServiceAt
<1>9. QED
  BY <1>4, <1>7, <1>8 DEF Traffic

\* A thread that has just taken a connection loads the counter.
LEMMA EnterTraffic ==
    ASSUME Traffic, NEW t \in Threads, LoadWorkers(t), thread[t] = "enter"
    PROVE  Traffic'
<1> DEFINE c == connection[t]
<1>1. /\ thread' = [thread EXCEPT ![t] = "entering"]
      /\ UNCHANGED <<main, connectSock, port, connection, buffer, current, socket, asked, sent,
                     lost>>
  BY DEF LoadWorkers, Goto, pool, work, clients, outcome
<1>2. /\ thread[t] \in Serving /\ "entering" \in Places /\ "entering" \in Serving
      /\ thread[t] \notin Held /\ "entering" \notin Held
  BY DEF Serving, Places, Held
<1>3. /\ c \in Connections /\ c # NoConnection
      /\ \A u \in Threads : connection[u] = c => u = t
      /\ buffer[t] = <<>> /\ Untaken(socket[c], asked[c], sent[c], lost[c])
      /\ Ordered(sent[c], lost[c], Requests[c])
  BY <1>2, AtWork
<1> HIDE DEF c
<1>4. TrafficTyped'
  <2>1. thread' \in [Threads -> Places]
    BY <1>1, <1>2 DEF Traffic, TrafficTyped
  <2>2. QED
    BY <1>1, <2>1 DEF Traffic, TrafficTyped
<1>5. /\ \A u \in Threads \ {t} : thread'[u] = thread[u]
      /\ thread'[t] = "entering" /\ connection[t] = c
  BY <1>1 DEF Traffic, TrafficTyped, c
<1>6. OneHand'
  <2>1. \A u \in Threads :
          /\ thread'[u] \in Serving <=> connection'[u] # NoConnection
          /\ thread'[u] \notin Held => buffer'[u] = <<>>
    BY <1>1, <1>2, <1>3, <1>5, HeldPlaces DEF Traffic, OneHand
  <2>2. QED
    BY <1>1, <2>1, HeldPlaces DEF Traffic, OneHand
<1>7. Service'
  <2>1. \A u \in Threads : connection'[u] = NoConnection => thread'[u] \notin Serving
    BY <1>6 DEF OneHand
  <2>2. \A u \in Threads :
          \/ connection[u] \in {c, NoConnection} /\ connection'[u] \in {c, NoConnection}
          \/ /\ connection'[u] = connection[u] /\ thread'[u] = thread[u]
             /\ buffer'[u] = buffer[u] /\ current'[u] = current[u]
    BY <1>1, <1>5
  <2>3. \A u \in Threads : connection'[u] = c => thread'[u] \notin Held
    BY <1>1, <1>2, <1>3, <1>5
  <2>4. QED
    BY <1>1, <1>3, <2>1, <2>2, <2>3, ServiceAt
<1>8. QED
  BY <1>4, <1>6, <1>7 DEF Traffic

\* A thread without a connection waits, ends, or gives up its place among the workers.
LEMMA IdleTraffic ==
    ASSUME Traffic, NEW t \in Threads,
           \/ TimeOut(t)
           \/ EndOrStay(t)
           \/ LoadWorkers(t) /\ thread[t] # "enter"
           \/ StoreWorkers(t) /\ thread[t] # "entering"
    PROVE  Traffic'
<1>1. PICK place \in {"timed out", "gone", "idle", "leaving"} :
          thread' = [thread EXCEPT ![t] = place]
  BY DEF TimeOut, EndOrStay, LoadWorkers, StoreWorkers, Goto
<1>2. thread[t] \in {"idle", "timed out", "leave", "leaving"}
  BY DEF TimeOut, EndOrStay, LoadWorkers, StoreWorkers
<1>3. UNCHANGED <<connection, buffer, current, socket, asked, sent, lost, port, main, connectSock>>
  BY DEF TimeOut, EndOrStay, LoadWorkers, StoreWorkers, pool, work, clients, outcome
<1>4. /\ main \in {"accept", "check", "post"} /\ thread \in [Threads -> Places]
      /\ main = "accept" <=> connectSock = NoConnection
      /\ \A u \in Threads : thread[u] \in Serving <=> connection[u] # NoConnection
  BY DEF Traffic, TrafficTyped, OneHand
<1>5. place \in Places /\ place \notin Serving /\ thread[t] \notin Serving
  BY <1>2 DEF Places, Serving
<1>6. /\ thread' \in [Threads -> Places]
      /\ \A u \in Threads : connection[u] # NoConnection => thread'[u] = thread[u]
      /\ \A u \in Threads : connection[u] = NoConnection => thread'[u] \notin Serving
  BY <1>1, <1>4, <1>5
<1>7. QED
  BY <1>3, <1>4, <1>6, TrafficIdle

\* A client asks, whoever has its connection.
LEMMA AskTraffic ==
    ASSUME Traffic, NEW c \in Connections, Ask(c)
    PROVE  Traffic'
<1> DEFINE n == asked[c] + 1
           more == socket[c] \o <<Piece("line", n), Piece("headers", n)>>
<1>1. /\ asked' = [asked EXCEPT ![c] = n] /\ socket' = [socket EXCEPT ![c] = more]
      /\ UNCHANGED <<main, connectSock, port, thread, connection, buffer, current, sent, lost>>
  <2>1. asked' = [asked EXCEPT ![c] = n]
    BY DEF Ask
  <2>2. asked'[c] = n
    BY <2>1 DEF Traffic, TrafficTyped
  <2>3. socket' = [socket EXCEPT ![c] = more]
    BY <2>2 DEF Ask
  <2>4. QED
    BY <2>1, <2>3 DEF Ask, pool, work, outcome
<1>2. /\ asked[c] \in Nat /\ socket[c] \in Seq(Pieces) /\ n \in Nat
      /\ \A t \in Threads : thread[t] \in Serving <=> connection[t] # NoConnection
  BY DEF Traffic, TrafficTyped, OneHand
<1>3. more \in Seq(Pieces)
  <2>1. Piece("line", n) \in Pieces /\ Piece("headers", n) \in Pieces
    BY <1>2 DEF Piece, Pieces
  <2>2. QED
    BY <1>2, <2>1
<1>4. TrafficTyped'
  <2>1. socket' \in [Connections -> Seq(Pieces)] /\ asked' \in [Connections -> Nat]
    BY <1>1, <1>2, <1>3 DEF Traffic, TrafficTyped
  <2>2. QED
    BY <1>1, <2>1 DEF Traffic, TrafficTyped
<1>5. /\ \A d \in Connections \ {c} : socket'[d] = socket[d] /\ asked'[d] = asked[d]
      /\ socket'[c] = more /\ asked'[c] = n
  BY <1>1 DEF Traffic, TrafficTyped
<1>6. OneHand'
  BY <1>1 DEF Traffic, OneHand
<1>7. Service'
  <2>1. ASSUME ~InHand(c)' PROVE Untaken(socket'[c], asked'[c], sent'[c], lost'[c])
    <3>1. ~InHand(c)
      BY <1>1, <2>1 DEF InHand
    <3>2. Untaken(socket[c], asked[c], sent[c], lost[c])
      BY <3>1 DEF Traffic, Service
    <3>3. Progress("init", <<>>, 0, socket[c], asked[c], sent[c], lost[c], Requests[c])
      BY <1>2, <3>2, ProgressBegins
    <3>4. Progress("init", <<>>, 0, more, n, sent[c], lost[c], Requests[c])
      <4>1. <<>> \in Seq(Pieces) /\ 0 \in Nat
        OBVIOUS
      <4>2. QED
        BY <1>2, <3>3, <4>1, ProgressAsked
    <3>5. Len(more) = Len(socket[c]) + 2
      BY <1>2
    <3> HIDE DEF more
    <3>6. Len(socket[c]) = 2 * asked[c]
      BY <3>2 DEF Untaken
    <3>7. Len(more) = 2 * n
      BY <1>2, <3>5, <3>6
    <3>8. Len(<<>>) = 0
      OBVIOUS
    <3>9. 2 * n - Len(more) - Len(<<>>) + Len(<<>>) = 0
      <4>1. 2 * n - 2 * n - 0 + 0 = 0
        BY <1>2
      <4>2. QED
        BY <3>7, <3>8, <4>1, Zenon
    <3>10. Follow(more, 2 * n - Len(more) - Len(<<>>) + Len(<<>>))
      BY <3>4 DEF Progress
    <3>11. Follow(more, 0)
      BY <3>9, <3>10, Zenon
    <3>12. sent[c] = <<>> /\ lost[c] = {}
      BY <3>2 DEF Untaken
    <3>13. QED
      BY <1>1, <1>5, <3>7, <3>11, <3>12 DEF Untaken
  <2>2. ASSUME NEW u \in Threads, connection'[u] = c, thread'[u] \in Held
        PROVE  Progress(thread'[u], buffer'[u], current'[u], socket'[c], asked'[c],
                        sent'[c], lost'[c], Requests[c])
    <3>1. connection[u] = c /\ thread[u] \in Held /\ thread[u] \in Serving
      BY <1>1, <2>2, HeldPlaces
    <3>2. /\ Progress(thread[u], buffer[u], current[u], socket[c], asked[c], sent[c], lost[c],
                      Requests[c])
          /\ buffer[u] \in Seq(Pieces) /\ current[u] \in Nat
      BY <3>1, AtWork
    <3>3. Progress(thread[u], buffer[u], current[u], more, n, sent[c], lost[c], Requests[c])
      BY <1>2, <3>2, ProgressAsked
    <3>4. QED
      BY <1>1, <1>5, <3>3
  <2>3. \A u \in Threads : connection'[u] = NoConnection => thread'[u] \notin Serving
    BY <1>1, <1>2
  <2>4. Ordered(sent'[c], lost'[c], Requests[c])
    BY <1>1 DEF Traffic, Service
  <2>5. QED
    BY <1>1, <1>5, <2>1, <2>2, <2>3, <2>4, ServiceAt
<1>8. QED
  BY <1>4, <1>6, <1>7 DEF Traffic

\* Every step keeps the traffic.
LEMMA TrafficNext == IInv /\ Traffic /\ [Next]_vars => Traffic'
<1> SUFFICES ASSUME IInv, Traffic, [Next]_vars PROVE Traffic'
  OBVIOUS
<1>0. ASSUME UNCHANGED <<connection, buffer, current, socket, asked, sent, lost, port, main,
                         connectSock, thread>>
      PROVE  Traffic'
  <2>1. /\ main \in {"accept", "check", "post"} /\ thread \in [Threads -> Places]
        /\ main = "accept" <=> connectSock = NoConnection
        /\ \A u \in Threads : thread[u] \in Serving <=> connection[u] # NoConnection
    BY DEF Traffic, TrafficTyped, OneHand
  <2>2. QED
    BY <1>0, <2>1, TrafficIdle
<1>1. CASE Main
  BY <1>1, MainTraffic, PostTraffic DEF Main
<1>2. ASSUME NEW t \in Threads, ProcessConnection(t) PROVE Traffic'
  <2>1. CASE GetQueuedCompletionStatus(t)
    BY <2>1, TakeTraffic
  <2>2. CASE LoadWorkers(t)
    <3>1. CASE thread[t] = "enter"
      BY <2>2, <3>1, EnterTraffic
    <3>2. CASE thread[t] # "enter"
      BY <2>2, <3>2, IdleTraffic
    <3>3. QED
      BY <3>1, <3>2
  <2>3. CASE StoreWorkers(t)
    <3>1. CASE thread[t] = "entering"
      BY <2>3, <3>1, InputTraffic
    <3>2. CASE thread[t] # "entering"
      BY <2>3, <3>2, IdleTraffic
    <3>3. QED
      BY <3>1, <3>2
  <2>4. CASE ContextInit(t) \/ FillBuffer(t) \/ EndOfInput(t)
    BY <2>4, InputTraffic
  <2>5. CASE RequestLine(t) \/ Headers(t) \/ ProcessRequest(t) \/ SendResponseFile(t)
    BY <2>5, RequestTraffic
  <2>6. CASE CloseSocket(t)
    BY <2>6, CloseTraffic
  <2>7. CASE TimeOut(t)
    BY <2>7, IdleTraffic
  <2>8. CASE EndOrStay(t)
    BY <2>8, IdleTraffic
  <2>9. QED
    BY <1>2, <2>1, <2>2, <2>3, <2>4, <2>5, <2>6, <2>7, <2>8 DEF ProcessConnection
<1>3. ASSUME NEW c \in Connections, Client(c) PROVE Traffic'
  <2>1. CASE Ask(c)
    BY <2>1, AskTraffic
  <2>2. CASE CloseClient(c)
    <3>1. UNCHANGED <<connection, buffer, current, socket, asked, sent, lost, port, main,
                      connectSock, thread>>
      BY <2>2 DEF CloseClient, pool, work, outcome
    <3>2. QED
      BY <1>0, <3>1
  <2>3. QED
    BY <1>3, <2>1, <2>2 DEF Client
<1>4. CASE UNCHANGED vars
  <2>1. UNCHANGED <<connection, buffer, current, socket, asked, sent, lost, port, main,
                    connectSock, thread>>
    BY <1>4 DEF vars, pool, work, clients, outcome
  <2>2. QED
    BY <1>0, <2>1
<1>5. QED
  BY <1>1, <1>2, <1>3, <1>4 DEF Next

\* The k-th piece has the number of its request.
LEMMA PieceOfRequest ==
    ASSUME NEW piece \in Pieces, NEW n \in Nat, IsPiece(piece, 2 * n)
    PROVE  piece.number = n
<1>1. piece.part \in {"line", "headers"} /\ piece.number \in Nat
  BY DEF Pieces
<1>2. CASE piece.part = "line"
  <2>1. 2 * n = 2 * piece.number - 1
    BY <1>2 DEF IsPiece
  <2>2. QED
    BY <1>1, <2>1
<1>3. CASE piece.part = "headers"
  <2>1. 2 * n = 2 * piece.number - 0
    BY <1>3 DEF IsPiece
  <2>2. QED
    BY <1>1, <2>1
<1>4. QED
  BY <1>1, <1>2, <1>3

\* What follows the k-th piece holds the later requests, as far as it goes.
LEMMA Following ==
    ASSUME NEW s \in Seq(Pieces), NEW k \in Int, NEW n \in Nat, Follow(s, k),
           k < 2 * n, 2 * n <= k + Len(s)
    PROVE  n \in {piece.number : piece \in ToSet(s)}
<1> DEFINE i == 2 * n - k
<1>1. i \in 1 .. Len(s) /\ k + i = 2 * n
  OBVIOUS
<1> HIDE DEF i
<1>2. s[i] \in Pieces /\ IsPiece(s[i], 2 * n)
  BY <1>1 DEF Follow
<1>3. s[i].number = n
  BY <1>2, PieceOfRequest
<1>4. s[i] \in ToSet(s)
  BY <1>1 DEF ToSet
<1>5. QED
  BY <1>3, <1>4

\* Every request asked is answered, dropped or on the way.
LEMMA NoRequestForgotten ==
    ASSUME Traffic, NEW c \in Connections, NEW n \in 1 .. asked[c]
    PROVE  n \in Numbers(sent[c]) \cup lost[c] \cup OnTheWay(c)
<1>1. /\ socket[c] \in Seq(Pieces) /\ asked[c] \in Nat /\ c # NoConnection
      /\ sent[c] \in Seq(Answers) /\ lost[c] \in SUBSET Nat
  BY HttpAssumption DEF Traffic, TrafficTyped
<1>2. n \in Nat /\ 1 <= n /\ n <= asked[c]
  BY <1>1
<1>3. CASE ~InHand(c)
  <2>1. Len(socket[c]) = 2 * asked[c] /\ Follow(socket[c], 0)
    BY <1>3 DEF Traffic, Service, Untaken
  <2>2. 0 \in Int /\ 0 < 2 * n /\ 2 * n <= 0 + Len(socket[c])
    BY <1>1, <1>2, <2>1
  <2> DEFINE k == 0
  <2>3. k \in Int /\ k < 2 * n /\ 2 * n <= k + Len(socket[c]) /\ Follow(socket[c], k)
    BY <2>1, <2>2
  <2> HIDE DEF k
  <2>4. n \in {piece.number : piece \in ToSet(socket[c])}
    BY <1>1, <1>2, <2>3, Following
  <2>5. QED
    BY <2>4 DEF OnTheWay
<1>4. CASE InHand(c)
  <2>1. PICK t \in Threads : connection[t] = c /\ thread[t] \notin {"enter", "entering"}
    BY <1>4 DEF InHand
  <2>2. thread[t] \in Serving /\ thread[t] \in Held
    BY <1>1, <2>1, HeldPlaces DEF Traffic, OneHand
  <2>3. /\ buffer[t] \in Seq(Pieces) /\ current[t] \in Nat
        /\ Progress(thread[t], buffer[t], current[t], socket[c], asked[c], sent[c], lost[c],
                    Requests[c])
    BY <2>1, <2>2, AtWork
  <2> DEFINE used == 2 * asked[c] - Len(socket[c]) - Len(buffer[t])
  <2>4. /\ Follow(buffer[t], used) /\ Follow(socket[c], used + Len(buffer[t]))
        /\ \A k \in 1 .. asked[c] :
              2 * k <= used => k \in Numbers(sent[c]) \cup lost[c] \cup {current[t]}
    BY <2>3 DEF Progress
  <2>5. /\ used \in Int /\ Len(buffer[t]) \in Nat /\ Len(socket[c]) \in Nat
        /\ used + Len(buffer[t]) + Len(socket[c]) = 2 * asked[c]
    <3>1. Len(buffer[t]) \in Nat /\ Len(socket[c]) \in Nat
      BY <1>1, <2>3
    <3>2. \A a, b, d \in Nat : 2 * d - a - b \in Int /\ (2 * d - a - b) + b + a = 2 * d
      OBVIOUS
    <3>3. QED
      BY <1>1, <3>1, <3>2
  <2> HIDE DEF used
  <2>6. {current[t]} \cup {piece.number : piece \in ToSet(buffer[t])} \subseteq OnTheWay(c)
    BY <2>1 DEF OnTheWay
  <2>7. CASE 2 * n <= used
    BY <2>4, <2>6, <2>7
  <2>8. CASE used < 2 * n /\ 2 * n <= used + Len(buffer[t])
    <3>1. n \in {piece.number : piece \in ToSet(buffer[t])}
      BY <1>2, <2>3, <2>4, <2>5, <2>8, Following
    <3>2. QED
      BY <2>6, <3>1
  <2>9. CASE used + Len(buffer[t]) < 2 * n
    <3> DEFINE k == used + Len(buffer[t])
    <3>1. Follow(socket[c], k)
      BY <2>4
    <3>2. k \in Int /\ k < 2 * n
      BY <1>2, <2>5, <2>9
    <3>3. k + Len(socket[c]) = 2 * asked[c]
      BY <2>5
    <3> HIDE DEF k
    <3>4. 2 * n <= k + Len(socket[c])
      BY <1>1, <1>2, <3>3
    <3>5. n \in {piece.number : piece \in ToSet(socket[c])}
      BY <1>1, <1>2, <3>1, <3>2, <3>4, Following
    <3>6. QED
      BY <3>5 DEF OnTheWay
  <2>10. QED
    BY <1>2, <2>5, <2>7, <2>8, <2>9
<1>5. QED
  BY <1>3, <1>4

\* What the traffic means for the clients.
LEMMA TrafficAnswered == Traffic => AnsweredInOrder
<1> SUFFICES ASSUME Traffic, NEW c \in Connections
             PROVE  /\ \A i, j \in DOMAIN sent[c] : i < j => sent[c][i].number < sent[c][j].number
                    /\ Numbers(sent[c]) \cap lost[c] = {}
                    /\ \A i \in DOMAIN sent[c] :
                          Requests[c][sent[c][i].number].file = "missing" =>
                              sent[c][i].status = 404
                    /\ 1 .. asked[c] \subseteq Numbers(sent[c]) \cup lost[c] \cup OnTheWay(c)
  BY DEF AnsweredInOrder
<1>1. DOMAIN sent[c] = 1 .. Len(sent[c])
  BY DEF Traffic, TrafficTyped
<1>2. Ordered(sent[c], lost[c], Requests[c])
  BY DEF Traffic, Service
<1>3. \A i \in 1 .. Len(sent[c]) : Fits(sent[c][i], Requests[c])
  BY <1>2 DEF Ordered
<1>4. /\ \A i, j \in 1 .. Len(sent[c]) : i < j => sent[c][i].number < sent[c][j].number
      /\ Numbers(sent[c]) \cap lost[c] = {}
  BY <1>2 DEF Ordered
<1>5. \A i \in DOMAIN sent[c] :
          Requests[c][sent[c][i].number].file = "missing" => sent[c][i].status = 404
  BY <1>1, <1>3 DEF Fits
<1>6. \A i, j \in DOMAIN sent[c] : i < j => sent[c][i].number < sent[c][j].number
  BY <1>1, <1>4
<1>7. 1 .. asked[c] \subseteq Numbers(sent[c]) \cup lost[c] \cup OnTheWay(c)
  BY NoRequestForgotten
<1>8. QED
  BY <1>4, <1>5, <1>6, <1>7

\* What is on the way stays in order, whatever threads and clients do: what a thread has
\* not used follows what it has.
THEOREM TrafficHolds == Spec => []Traffic
<1>1. Spec => []IInv
  BY IInvHolds
<1>2. QED
  BY <1>1, TrafficInit, TrafficNext, PTL DEF Spec

\* However the chunks of its input are cut and whichever thread serves it, a client's
\* answers come in the order of its requests and fit them; no request is answered twice,
\* or answered and dropped, and none is forgotten.
THEOREM AnsweredInOrderAlways == Spec => []AnsweredInOrder
<1>1. Traffic => AnsweredInOrder
  BY TrafficAnswered
<1>2. QED
  BY <1>1, TrafficHolds, PTL
=============================================================================
