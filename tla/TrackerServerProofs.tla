------------------------ MODULE TrackerServerProofs ------------------------
(***************************************************************************)
(* Theorems about TrackerServer for any number of connections and resets.  *)
(* For any clients and chunks: what the two counters of the pool count,    *)
(* how small and how large the pool can become, and that no connection is  *)
(* in the hands of two threads.  Under PlainClients, which leaves out the  *)
(* chunks that end where a request ends with more to come, or between CR   *)
(* and LF: what becomes of every request.  Each connection has one         *)
(* operation asked for, its requests are carried out once and in order,    *)
(* and those not yet carried out are kept.                                 *)
(***************************************************************************)
EXTENDS TrackerServer, DataLemmas

Places == {"none", "waiting", "got", "counted", "loaded", "adding", "added", "ready", "leaving"}
\* Places of threads that have no connection in their hands.
Idle == {"none", "waiting", "leaving"}
Fields == {"socket", "broken", "ops", "key", "buf", "rPos", "len", "lastReq", "requestType"}
Operations == {"post", "bufferIn", "streamBuf"}

\* A Connection, whatever its buffer holds.
IsConnection(cn) == cn = [f \in Fields |-> cn[f]]

\* One operation at most has been asked for.
OneAsked(cn) == cn.ops = <<>> \/ \E op \in Operations : cn.ops = <<op>>

Typed ==
    /\ conn = [c \in Connections |-> conn[c]]
    /\ \A c \in Connections : IsConnection(conn[c]) /\ OneAsked(conn[c])
    /\ pc \in [Threads -> Places]
    /\ work = [t \in Threads |-> work[t]]
    /\ seen \in [Threads -> Nat]
    /\ threadsCounter \in Nat /\ activeThreadsCounter \in Nat /\ killed \in Nat

\* A thread has a connection in its hands from the completion to the end of the loop;
\* no other thread has the same, and nothing has been asked for it meanwhile.
InHand ==
    /\ \A t \in Threads :
          IF pc[t] \in Idle
          THEN work[t].cn = "none"
          ELSE /\ work[t].cn \in Connections
               /\ conn[work[t].cn].ops = <<>>
               /\ conn[work[t].cn].socket # "none"
    /\ \A t, u \in Threads :
          work[t].cn = work[u].cn /\ work[t].cn # "none" => t = u
    /\ \A c \in Connections : conn[c].socket = "none" => conn[c].ops = <<>>

\* Threads there are that threadsCounter does not count: not yet, or no longer.
Added == {t \in Threads : pc[t] \in {"added", "leaving"}}

\* Threads that are adding one to the pool, or may come to, and those that leave it: a
\* thread that has seen more threads than there are connections will not find as many of
\* them active.
Growing ==
    {t \in Threads : \/ pc[t] \in {"adding", "added", "leaving"}
                     \/ pc[t] = "loaded" /\ seen[t] <= Cardinality(Connections)}

Largest == Max({MAX_THREADS, 2 * Cardinality(Connections)})

Counters ==
    /\ threadsCounter + Cardinality(Added) = Cardinality(Alive) + killed
    /\ activeThreadsCounter = Cardinality(Counted)
    /\ Cardinality(Counted) <= Cardinality(Connections)
    /\ threadsCounter >= MIN_THREADS
    /\ threadsCounter + Cardinality(Growing) <= Largest

IInv == Typed /\ InHand /\ Counters

(***************************************************************************)
(* Numbers and sets of threads.                                            *)
(***************************************************************************)
LEMMA Numbers ==
    /\ MIN_THREADS \in Nat /\ MAX_THREADS \in Nat /\ MIN_THREADS < MAX_THREADS
    /\ Cardinality(Connections) \in Nat
    /\ Largest \in Nat /\ Largest >= MAX_THREADS
    /\ Largest >= 2 * Cardinality(Connections)
<1>1. /\ MIN_THREADS \in Nat /\ MAX_THREADS \in Nat /\ MIN_THREADS < MAX_THREADS
      /\ Cardinality(Connections) \in Nat
  BY ServerAssumption, FS_CardinalityType
<1> DEFINE m == MAX_THREADS
           d == 2 * Cardinality(Connections)
           S == {m, d}
           big == IF m >= d THEN m ELSE d
<1>2. m \in Nat /\ d \in Nat
  BY <1>1
<1> HIDE DEF m, d
<1>3. \E x \in S : \A y \in S : x >= y
  <2>1. big \in S /\ \A y \in S : big >= y
    BY <1>2
  <2>2. QED
    BY <2>1
<1>4. Max(S) \in S /\ \A y \in S : Max(S) >= y
  BY <1>3, Zenon DEF Max
<1>5. Max(S) \in Nat /\ Max(S) >= m /\ Max(S) >= d
  BY <1>2, <1>4
<1>6. QED
  BY <1>1, <1>5 DEF Largest, m, d

LEMMA Sets ==
    /\ Alive \in SUBSET Threads /\ Counted \in SUBSET Threads
    /\ Added \in SUBSET Threads /\ Growing \in SUBSET Threads
    /\ Alive' \in SUBSET Threads /\ Counted' \in SUBSET Threads
    /\ Added' \in SUBSET Threads /\ Growing' \in SUBSET Threads
BY DEF Alive, Counted, Added, Growing

\* Sizes are numbers, and a subset has no more threads.
LEMMA Sizes ==
    ASSUME NEW A \in SUBSET Threads
    PROVE  /\ IsFiniteSet(A) /\ Cardinality(A) \in Nat
           /\ \A t \in A : Cardinality(A) > 0
           /\ \A B \in SUBSET A : Cardinality(B) <= Cardinality(A)
<1>1. IsFiniteSet(Threads)
  BY ServerAssumption
<1>2. IsFiniteSet(A)
  BY <1>1, FS_Subset
<1>3. \A B \in SUBSET A : Cardinality(B) <= Cardinality(A)
  BY <1>2, FS_Subset
<1>4. QED
  BY <1>1, <1>2, <1>3, CountMembers

\* What one thread's move does to a size.
LEMMA Moves ==
    ASSUME NEW A \in SUBSET Threads, NEW B \in SUBSET Threads, NEW t,
           A \ {t} = B \ {t}
    PROVE  /\ t \in A /\ t \notin B => Cardinality(B) = Cardinality(A) - 1
           /\ t \notin A /\ t \in B => Cardinality(B) = Cardinality(A) + 1
           /\ (t \in A <=> t \in B) => B = A
<1>1. IsFiniteSet(Threads) /\ Cardinality(A) \in Nat
  BY ServerAssumption, Sizes
<1>2. Cardinality(B) = Cardinality(A) + (IF t \in B THEN 1 ELSE 0) - (IF t \in A THEN 1 ELSE 0)
  BY <1>1, CountMove
<1>3. (t \in A <=> t \in B) => B = A
  OBVIOUS
<1>4. QED
  BY <1>1, <1>2, <1>3

\* There are no more threads with a connection in their hands than connections: each
\* has one of its own.
Working == {t \in Threads : pc[t] \notin Idle}

LEMMA BusyBound ==
    ASSUME Typed, InHand
    PROVE  Cardinality(Working) <= Cardinality(Connections)
<1> DEFINE f == [t \in Working |-> work[t].cn]
<1>1. \A t \in Working : f[t] \in Connections
  BY DEF InHand, Working
<1>2. \A t, u \in Working : f[t] = f[u] => t = u
  <2>1. \A t \in Working : t \in Threads /\ f[t] = work[t].cn /\ f[t] # "none"
    BY <1>1, ServerAssumption DEF Working
  <2>2. QED
    BY <2>1 DEF InHand
<1>3. f \in Injection(Working, Connections)
  BY <1>1, <1>2 DEF Injection, IsInjective
<1>4. QED
  BY <1>3, ServerAssumption, FS_Injection

\* Threads that grow the pool are busy.
LEMMA GrowingBusy == Typed => Growing \in SUBSET Counted
BY DEF Growing, Counted

(***************************************************************************)
(* Every path through the handlers asks for one operation at most.         *)
(***************************************************************************)
Fresh(cn) == IsConnection(cn) /\ cn.ops = <<>> /\ cn.socket # "none"
Served(cn) == IsConnection(cn) /\ OneAsked(cn) /\ cn.socket # "none"

LEMMA FreshServed == \A cn : Fresh(cn) => Served(cn)
BY DEF Fresh, Served, OneAsked

LEMMA PostServed == \A cn, key : Fresh(cn) => Served(PostCompletionPort(cn, key))
<1> SUFFICES ASSUME NEW cn, NEW key, Fresh(cn)
             PROVE  Served(PostCompletionPort(cn, key))
  OBVIOUS
<1>1. Append(cn.ops, "post") = <<"post">>
  BY DEF Fresh
<1>2. QED
  BY <1>1 DEF Fresh, Served, OneAsked, IsConnection, Fields, Operations, PostCompletionPort

LEMMA ReceiveServed ==
    \A cn : \A buffer \in Operations : Fresh(cn) => Served(Receive(cn, buffer))
<1> SUFFICES ASSUME NEW cn, NEW buffer \in Operations, Fresh(cn)
             PROVE  Served(Receive(cn, buffer))
  OBVIOUS
<1>1. Append(cn.ops, buffer) = <<buffer>>
  BY DEF Fresh
<1>2. CASE cn.broken
  BY <1>2, FreshServed DEF Receive
<1>3. CASE ~ cn.broken
  BY <1>1, <1>3 DEF Fresh, Served, OneAsked, IsConnection, Fields, Receive
<1>4. QED
  BY <1>2, <1>3

LEMMA ReadServed == \A cn : Fresh(cn) => Served(ReadFromSocket(cn))
<1> SUFFICES ASSUME NEW cn, Fresh(cn) PROVE Served(ReadFromSocket(cn))
  OBVIOUS
<1> DEFINE next == [cn EXCEPT !.key = "SEND_OPER"]
           kept == SubSeq(cn.buf, cn.lastReq + 1, cn.len)
           moved == [cn EXCEPT !.buf = kept \o SubSeq(@, Len(kept) + 1, BUFFERSIZE),
                               !.len = Len(kept), !.lastReq = 0, !.rPos = 0,
                               !.key = "RECV_PARTIAL"]
<1>1. "bufferIn" \in Operations /\ "streamBuf" \in Operations
  BY DEF Operations
<1>2. Fresh(next)
  BY DEF Fresh, IsConnection, Fields
<1>3. Fresh(moved)
  BY DEF Fresh, IsConnection, Fields
<1>4. Served(Receive(next, "bufferIn")) /\ Served(Receive(moved, "streamBuf"))
  <2> HIDE DEF next, moved
  <2> QED BY <1>1, <1>2, <1>3, ReceiveServed
<1>5. QED
  BY <1>4 DEF ReadFromSocket, AdaptBufferIn

LEMMA InputServed == \A cn : Fresh(cn) => Served(ProcessInputRequest(cn))
<1> SUFFICES ASSUME NEW cn, Fresh(cn) PROVE Served(ProcessInputRequest(cn))
  OBVIOUS
<1> DEFINE g == GetLine(cn)
           read == [cn EXCEPT !.rPos = g.rPos]
           typed == [read EXCEPT !.requestType = g.line]
<1> HIDE DEF g
<1>1. Fresh(read) /\ Fresh(typed)
  BY DEF Fresh, IsConnection, Fields
<1> HIDE DEF read, typed
<1>2. /\ Served(PostCompletionPort(typed, "RECV_OPER"))
      /\ Served(ReadFromSocket(read)) /\ Served(read)
  BY <1>1, PostServed, ReadServed, FreshServed
<1>3. ProcessInputRequest(cn) =
         CASE g.size > 0 -> PostCompletionPort(typed, "RECV_OPER")
           [] g.size = -1 -> ReadFromSocket(read)
           [] OTHER -> read
  BY DEF ProcessInputRequest, g, read, typed
<1>4. \/ ProcessInputRequest(cn) = PostCompletionPort(typed, "RECV_OPER")
      \/ ProcessInputRequest(cn) = ReadFromSocket(read)
      \/ ProcessInputRequest(cn) = read
  BY <1>3
<1>5. QED
  BY <1>2, <1>4

LEMMA PartialServed == \A cn, data : Fresh(cn) => Served(VerifyRequestPartial(cn, data))
<1> SUFFICES ASSUME NEW cn, NEW data, Fresh(cn)
             PROVE  Served(VerifyRequestPartial(cn, data))
  OBVIOUS
<1> DEFINE more == [cn EXCEPT !.buf = SubSeq(@, 1, cn.len) \o data
                                          \o SubSeq(@, cn.len + Len(data) + 1, BUFFERSIZE),
                              !.len = @ + Len(data)]
<1>1. Fresh(more)
  BY DEF Fresh, IsConnection, Fields
<1>2. Served(ProcessInputRequest(more))
  BY <1>1, InputServed
<1>3. QED
  BY <1>2 DEF VerifyRequestPartial

\* A processor reads its payload and asks for nothing itself.
LEMMA ProcessorFresh == \A cn : Fresh(cn) => Fresh(Processor(cn).cn)
<1> SUFFICES ASSUME NEW cn, Fresh(cn) PROVE Fresh(Processor(cn).cn)
  OBVIOUS
<1> DEFINE g == GetLine(cn)
           read == [cn EXCEPT !.rPos = g.rPos]
<1> HIDE DEF g
<1>1. Fresh(read)
  BY DEF Fresh, IsConnection, Fields
<1>2. Processor(cn).cn = cn \/ Processor(cn).cn = read
  BY DEF Processor, read, g
<1>3. QED
  BY <1>1, <1>2

LEMMA AfterServed == \A p : Fresh(p.cn) => Served(AfterProcessor(p))
<1> SUFFICES ASSUME NEW p, Fresh(p.cn) PROVE Served(AfterProcessor(p))
  OBVIOUS
<1> DEFINE done == [p.cn EXCEPT !.lastReq = p.cn.rPos]
<1>1. Fresh(done)
  BY DEF Fresh, IsConnection, Fields
<1>2. Served(ReadFromSocket(p.cn)) /\ Served(PostCompletionPort(done, "SEND_OPER"))
  <2> HIDE DEF done
  <2> QED BY <1>1, PostServed, ReadServed
<1>3. QED
  BY <1>2 DEF AfterProcessor

LEMMA HandledServed == \A cn, bytes, data : Fresh(cn) => Served(Handled(cn, bytes, data).cn)
<1> SUFFICES ASSUME NEW cn, NEW bytes, NEW data, Fresh(cn)
             PROVE  Served(Handled(cn, bytes, data).cn)
  OBVIOUS
<1> DEFINE filled == [cn EXCEPT !.buf = data \o SubSeq(@, Len(data) + 1, BUFFERSIZE),
                                !.len = Len(data)]
           after == Handled(cn, bytes, data).cn
<1>1. Fresh(filled)
  BY DEF Fresh, IsConnection, Fields
<1>2. /\ Served(AfterProcessor(Processor(cn)))
      /\ Served(PostCompletionPort(cn, "SEND_OPER"))
      /\ Served(ReadFromSocket(cn))
      /\ Served(ProcessInputRequest(cn))
      /\ Served(VerifyRequestPartial(cn, data))
  BY AfterServed, ProcessorFresh, PostServed, ReadServed, InputServed, PartialServed
<1>3. Served(ProcessInputRequest(filled))
  BY <1>1, InputServed
<1>4. Served(ConnectionEnd(cn))
  BY DEF Fresh, Served, OneAsked, IsConnection, Fields, ConnectionEnd
<1>5. \/ after = AfterProcessor(Processor(cn))
      \/ after = PostCompletionPort(cn, "SEND_OPER")
      \/ after = ReadFromSocket(cn)
      \/ after = ProcessInputRequest(cn)
      \/ after = ProcessInputRequest(filled)
      \/ after = VerifyRequestPartial(cn, data)
      \/ after = ConnectionEnd(cn)
  BY DEF Handled
<1>6. QED
  BY <1>2, <1>3, <1>4, <1>5

(***************************************************************************)
(* The initial state.                                                      *)
(***************************************************************************)
LEMMA InitIInv == ASSUME MAX_THREADS = MIN_THREADS + 1 PROVE Init => IInv
<1> SUFFICES ASSUME Init PROVE IInv
  OBVIOUS
<1>1. PICK created \in kSubset(MIN_THREADS + 1, Threads) :
         pc = [t \in Threads |-> IF t \in created THEN "waiting" ELSE "none"]
  BY DEF Init
<1>2. created \in SUBSET Threads /\ Cardinality(created) = MIN_THREADS + 1
  BY <1>1 DEF kSubset
<1>3. pc \in [Threads -> {"waiting", "none"}]
  BY <1>1
<1>4. Alive = created /\ Counted = {} /\ Added = {} /\ Growing = {}
  BY <1>1, <1>2 DEF Alive, Counted, Added, Growing
<1>5. Cardinality({}) = 0
  BY FS_EmptySet
<1>6. IsConnection(ConnectionInit) /\ ConnectionInit.ops = <<>>
  BY DEF IsConnection, Fields, ConnectionInit
<1>7. Typed
  BY <1>3, <1>6, Numbers DEF Init, Typed, OneAsked, Places
<1>8. \A t \in Threads : work[t].cn = "none"
  BY DEF Init, NoWork
<1>9. InHand
  BY <1>3, <1>6, <1>8 DEF Init, InHand, Idle
<1>10. Counters
  BY <1>2, <1>4, <1>5, Numbers DEF Init, Counters
<1>11. QED
  BY <1>7, <1>9, <1>10 DEF IInv

(***************************************************************************)
(* Steps.                                                                  *)
(***************************************************************************)
\* A step that changes one connection, which nobody works on or keeps its operations.
LEMMA ConnectionStep ==
    ASSUME IInv, NEW c \in Connections, NEW cn, conn' = [conn EXCEPT ![c] = cn],
           Served(cn), cn.ops = conn[c].ops \/ conn[c].socket = "none", UNCHANGED pool
    PROVE  IInv'
<1>1. Typed'
  BY DEF IInv, Typed, Served, pool
<1>2. InHand'
  <2>1. /\ \A d \in Connections : conn'[d] = IF d = c THEN cn ELSE conn[d]
        /\ UNCHANGED <<pc, work>> /\ cn.socket # "none"
    BY DEF IInv, Typed, Served, pool
  <2>2. ASSUME NEW t \in Threads, pc[t] \notin Idle
        PROVE  /\ work[t].cn \in Connections
               /\ conn'[work[t].cn].ops = <<>> /\ conn'[work[t].cn].socket # "none"
    BY <2>1, <2>2 DEF IInv, InHand
  <2>3. QED
    BY <2>1, <2>2 DEF IInv, InHand
<1>3. Counters'
  BY DEF IInv, Counters, pool, Alive, Counted, Added, Growing
<1>4. QED
  BY <1>1, <1>2, <1>3 DEF IInv

LEMMA ClientStep ==
    ASSUME IInv, NEW c \in Connections, Accept(c) \/ AcceptFails(c) \/ Reset(c)
    PROVE  IInv'
<1> DEFINE cn == conn[c]
<1>0. /\ IsConnection(cn) /\ OneAsked(cn)
      /\ conn = [d \in Connections |-> conn[d]]
      /\ cn.socket = "none" => cn.ops = <<>>
  BY DEF IInv, Typed, InHand
<1>1. CASE Accept(c)
  <2> DEFINE new == [cn EXCEPT !.socket = "open", !.ops = <<"post">>]
  <2>1. conn' = [conn EXCEPT ![c] = new] /\ cn.socket = "none" /\ UNCHANGED pool
    BY <1>0, <1>1 DEF Accept
  <2>2. Served(new)
    BY <1>0 DEF Served, OneAsked, IsConnection, Fields, Operations
  <2> HIDE DEF new
  <2>3. QED
    BY <2>1, <2>2, ConnectionStep
<1>2. CASE AcceptFails(c)
  <2> DEFINE new == [cn EXCEPT !.socket = "open", !.broken = TRUE]
  <2>1. conn' = [conn EXCEPT ![c] = new] /\ cn.socket = "none" /\ UNCHANGED pool
    BY <1>0, <1>2 DEF AcceptFails
  <2>2. Served(new)
    BY <1>0 DEF Served, OneAsked, IsConnection, Fields
  <2> HIDE DEF new
  <2>3. QED
    BY <2>1, <2>2, ConnectionStep
<1>3. CASE Reset(c)
  <2> DEFINE new == [cn EXCEPT !.broken = TRUE]
  <2>1. conn' = [conn EXCEPT ![c] = new] /\ cn.socket = "open" /\ UNCHANGED pool
    BY <1>0, <1>3 DEF Reset
  <2>2. Served(new) /\ new.ops = cn.ops
    BY <1>0, <2>1 DEF Served, OneAsked, IsConnection, Fields
  <2> HIDE DEF new
  <2>3. QED
    BY <2>1, <2>2, ConnectionStep
<1>4. QED
  BY <1>1, <1>2, <1>3

\* One thread goes to another place: the sets of threads differ by that thread.
LEMMA OneMoves ==
    ASSUME Typed, NEW t \in Threads, NEW place \in Places,
           pc' = [pc EXCEPT ![t] = place]
    PROVE  /\ pc' \in [Threads -> Places]
           /\ pc'[t] = place /\ \A u \in Threads \ {t} : pc'[u] = pc[u]
           /\ Alive \ {t} = Alive' \ {t} /\ Counted \ {t} = Counted' \ {t}
           /\ Added \ {t} = Added' \ {t}
           /\ t \in Alive <=> pc[t] # "none"
           /\ t \in Alive' <=> place # "none"
           /\ t \in Counted <=> pc[t] \in {"counted", "loaded", "adding", "added", "ready", "leaving"}
           /\ t \in Counted' <=> place \in {"counted", "loaded", "adding", "added", "ready", "leaving"}
           /\ t \in Added <=> pc[t] \in {"added", "leaving"}
           /\ t \in Added' <=> place \in {"added", "leaving"}
BY DEF Typed, Alive, Counted, Added

LEMMA OneGrows ==
    ASSUME Typed, NEW t \in Threads, NEW place \in Places,
           pc' = [pc EXCEPT ![t] = place], seen' \in [Threads -> Nat],
           \A u \in Threads \ {t} : seen'[u] = seen[u]
    PROVE  /\ Growing \ {t} = Growing' \ {t}
           /\ t \in Growing <=> \/ pc[t] \in {"adding", "added", "leaving"}
                                \/ pc[t] = "loaded" /\ seen[t] <= Cardinality(Connections)
           /\ t \in Growing' <=> \/ place \in {"adding", "added", "leaving"}
                                 \/ place = "loaded" /\ seen'[t] <= Cardinality(Connections)
BY DEF Typed, Growing

One(condition) == IF condition THEN 1 ELSE 0

Busy == {"counted", "loaded", "adding", "added", "ready", "leaving"}
Uncounted == {"added", "leaving"}
MayGrow(place, s) ==
    place \in {"adding", "added", "leaving"} \/ (place = "loaded" /\ s <= Cardinality(Connections))

\* What that does to the sizes.
LEMMA Counts ==
    ASSUME Typed, NEW t \in Threads, NEW place \in Places,
           pc' = [pc EXCEPT ![t] = place], seen' \in [Threads -> Nat],
           \A u \in Threads \ {t} : seen'[u] = seen[u]
    PROVE  /\ pc' \in [Threads -> Places] /\ pc'[t] = place
           /\ \A u \in Threads \ {t} : pc'[u] = pc[u]
           /\ Cardinality(Alive') = Cardinality(Alive) + One(place # "none") - One(pc[t] # "none")
           /\ Cardinality(Counted') = Cardinality(Counted) + One(place \in Busy) - One(pc[t] \in Busy)
           /\ Cardinality(Added') = Cardinality(Added) + One(place \in Uncounted) - One(pc[t] \in Uncounted)
           /\ Cardinality(Growing') = Cardinality(Growing) + One(MayGrow(place, seen'[t]))
                                                          - One(MayGrow(pc[t], seen[t]))
<1>0. IsFiniteSet(Threads)
  BY ServerAssumption
<1>1. /\ pc' \in [Threads -> Places] /\ pc'[t] = place
      /\ \A u \in Threads \ {t} : pc'[u] = pc[u]
  BY OneMoves
<1>2. Cardinality(Alive') = Cardinality(Alive) + One(place # "none") - One(pc[t] # "none")
  <2>1. /\ Alive \ {t} = Alive' \ {t} /\ (t \in Alive <=> pc[t] # "none")
        /\ t \in Alive' <=> place # "none"
    BY OneMoves
  <2>2. Cardinality(Alive') = Cardinality(Alive) + (IF t \in Alive' THEN 1 ELSE 0)
                                                - (IF t \in Alive THEN 1 ELSE 0)
    BY <1>0, <2>1, Sets, CountMove
  <2>3. QED
    BY <2>1, <2>2 DEF One
<1>3. Cardinality(Counted') = Cardinality(Counted) + One(place \in Busy) - One(pc[t] \in Busy)
  <2>1. /\ Counted \ {t} = Counted' \ {t} /\ (t \in Counted <=> pc[t] \in Busy)
        /\ t \in Counted' <=> place \in Busy
    BY OneMoves DEF Busy
  <2>2. Cardinality(Counted') = Cardinality(Counted) + (IF t \in Counted' THEN 1 ELSE 0)
                                                    - (IF t \in Counted THEN 1 ELSE 0)
    BY <1>0, <2>1, Sets, CountMove
  <2>3. QED
    BY <2>1, <2>2 DEF One
<1>4. Cardinality(Added') = Cardinality(Added) + One(place \in Uncounted) - One(pc[t] \in Uncounted)
  <2>1. /\ Added \ {t} = Added' \ {t} /\ (t \in Added <=> pc[t] \in Uncounted)
        /\ t \in Added' <=> place \in Uncounted
    BY OneMoves DEF Uncounted
  <2>2. Cardinality(Added') = Cardinality(Added) + (IF t \in Added' THEN 1 ELSE 0)
                                                - (IF t \in Added THEN 1 ELSE 0)
    BY <1>0, <2>1, Sets, CountMove
  <2>3. QED
    BY <2>1, <2>2 DEF One
<1>5. Cardinality(Growing') = Cardinality(Growing) + One(MayGrow(place, seen'[t]))
                                                  - One(MayGrow(pc[t], seen[t]))
  <2>1. /\ Growing \ {t} = Growing' \ {t}
        /\ t \in Growing <=> MayGrow(pc[t], seen[t])
        /\ t \in Growing' <=> MayGrow(place, seen'[t])
    BY OneGrows DEF MayGrow
  <2>2. Cardinality(Growing') = Cardinality(Growing) + (IF t \in Growing' THEN 1 ELSE 0)
                                                    - (IF t \in Growing THEN 1 ELSE 0)
    BY <1>0, <2>1, Sets, CountMove
  <2>3. QED
    BY <2>1, <2>2 DEF One
<1>6. QED
  BY <1>1, <1>2, <1>3, <1>4, <1>5

LEMMA SizesNow ==
    /\ Cardinality(Alive) \in Nat /\ Cardinality(Counted) \in Nat
    /\ Cardinality(Added) \in Nat /\ Cardinality(Growing) \in Nat
BY Sets, Sizes

\* A thread that was waiting and gets a completion, or ends.
LEMMA WaiterCounts ==
    ASSUME Typed, NEW t \in Threads, NEW place \in {"got", "none"},
           pc[t] = "waiting", pc' = [pc EXCEPT ![t] = place], seen' = seen
    PROVE  /\ pc' \in [Threads -> Places] /\ pc'[t] = place
           /\ \A u \in Threads \ {t} : pc'[u] = pc[u]
           /\ Cardinality(Alive') = Cardinality(Alive) - One(place = "none")
           /\ Cardinality(Counted') = Cardinality(Counted)
           /\ Cardinality(Added') = Cardinality(Added)
           /\ Cardinality(Growing') = Cardinality(Growing)
<1>1. /\ place \in Places /\ seen' \in [Threads -> Nat]
      /\ \A u \in Threads \ {t} : seen'[u] = seen[u]
  BY DEF Typed, Places
<1>2. /\ One(place # "none") = 1 - One(place = "none") /\ One(pc[t] # "none") = 1
      /\ One(place \in Busy) = 0 /\ One(pc[t] \in Busy) = 0
      /\ One(place \in Uncounted) = 0 /\ One(pc[t] \in Uncounted) = 0
      /\ One(MayGrow(place, seen'[t])) = 0 /\ One(MayGrow(pc[t], seen[t])) = 0
      /\ One(place = "none") \in Int
  BY DEF One, Busy, Uncounted, MayGrow
<1>3. /\ pc' \in [Threads -> Places] /\ pc'[t] = place
      /\ \A u \in Threads \ {t} : pc'[u] = pc[u]
      /\ Cardinality(Alive') = Cardinality(Alive) + One(place # "none") - One(pc[t] # "none")
      /\ Cardinality(Counted') = Cardinality(Counted) + One(place \in Busy) - One(pc[t] \in Busy)
      /\ Cardinality(Added') = Cardinality(Added) + One(place \in Uncounted) - One(pc[t] \in Uncounted)
      /\ Cardinality(Growing') = Cardinality(Growing) + One(MayGrow(place, seen'[t]))
                                                     - One(MayGrow(pc[t], seen[t]))
  BY <1>1, Counts
<1>4. QED
  BY <1>2, <1>3, SizesNow

\* A busy thread that goes on keeps its connection.
LEMMA HandKept ==
    ASSUME Typed, InHand, UNCHANGED <<conn, work>>,
           \A t \in Threads : pc[t] \in Idle <=> pc'[t] \in Idle
    PROVE  InHand'
BY DEF InHand

LEMMA DequeueStep ==
    ASSUME IInv, NEW t \in Threads, NEW c \in Connections, Dequeue(t, c)
    PROVE  IInv'
<1>1. /\ pc[t] = "waiting" /\ pc' = [pc EXCEPT ![t] = "got"]
      /\ conn[c].ops # <<>> /\ conn' = [conn EXCEPT ![c].ops = Tail(@)]
      /\ UNCHANGED <<seen, threadsCounter, activeThreadsCounter, killed>>
  BY DEF Dequeue
<1>2. PICK op, n : work' = [work EXCEPT ![t] = [cn |-> c, op |-> op, bytes |-> n]]
  BY DEF Dequeue
<1>t. Typed /\ InHand /\ Counters /\ "got" \in Places
  BY DEF IInv, Places
<1>3. Tail(conn[c].ops) = <<>> /\ conn[c].socket # "none"
  <2>1. PICK o \in Operations : conn[c].ops = <<o>>
    BY <1>1, <1>t DEF Typed, OneAsked
  <2>2. conn[c].socket # "none"
    BY <1>1, <1>t DEF InHand
  <2>3. QED
    BY <2>1, <2>2
<1>4. /\ \A d \in Connections \ {c} : conn'[d] = conn[d]
      /\ conn'[c] = [conn[c] EXCEPT !.ops = <<>>]
      /\ conn' = [d \in Connections |-> conn'[d]]
  BY <1>1, <1>3, <1>t DEF Typed
<1>5. IsConnection(conn'[c]) /\ conn'[c].ops = <<>> /\ conn'[c].socket = conn[c].socket
  BY <1>4, <1>t DEF Typed, IsConnection, Fields
<1>6. /\ work' = [u \in Threads |-> work'[u]] /\ work'[t].cn = c
      /\ \A u \in Threads \ {t} : work'[u] = work[u]
  BY <1>2, <1>t DEF Typed
<1>7. \A u \in Threads : work[u].cn # c
  BY <1>1, <1>t, ServerAssumption DEF InHand
<1>8. /\ pc' \in [Threads -> Places]
      /\ pc'[t] = "got" /\ \A u \in Threads \ {t} : pc'[u] = pc[u]
      /\ Cardinality(Alive') = Cardinality(Alive) /\ Cardinality(Counted') = Cardinality(Counted)
      /\ Cardinality(Added') = Cardinality(Added) /\ Cardinality(Growing') = Cardinality(Growing)
  <2>1. One("got" = "none") = 0
    BY DEF One
  <2>2. seen' = seen
    BY <1>1
  <2>3. /\ pc' \in [Threads -> Places]
        /\ pc'[t] = "got" /\ \A u \in Threads \ {t} : pc'[u] = pc[u]
        /\ Cardinality(Alive') = Cardinality(Alive) - One("got" = "none")
        /\ Cardinality(Counted') = Cardinality(Counted)
        /\ Cardinality(Added') = Cardinality(Added) /\ Cardinality(Growing') = Cardinality(Growing)
    BY <1>1, <1>t, <2>2, WaiterCounts
  <2>4. QED
    BY <2>1, <2>3, SizesNow
<1>9. Typed'
  <2>1. \A d \in Connections : IsConnection(conn'[d]) /\ OneAsked(conn'[d])
    BY <1>4, <1>5, <1>t, ZenonT(30) DEF Typed, OneAsked
  <2>2. QED
    BY <1>1, <1>4, <1>6, <1>8, <1>t, <2>1 DEF Typed, IsConnection, OneAsked
<1>10. InHand'
  <2>1. ASSUME NEW u \in Threads
        PROVE  IF pc'[u] \in Idle
               THEN work'[u].cn = "none"
               ELSE /\ work'[u].cn \in Connections
                    /\ conn'[work'[u].cn].ops = <<>>
                    /\ conn'[work'[u].cn].socket # "none"
    <3>1. CASE u = t
      BY <1>3, <1>5, <1>6, <1>8, <3>1 DEF Idle
    <3>2. CASE u # t
      BY <1>4, <1>6, <1>7, <1>8, <1>t, <3>2 DEF InHand
    <3>3. QED
      BY <3>1, <3>2
  <2>2. \A u, v \in Threads : work'[u].cn = work'[v].cn /\ work'[u].cn # "none" => u = v
    BY <1>6, <1>7, <1>t DEF InHand
  <2>3. \A d \in Connections : conn'[d].socket = "none" => conn'[d].ops = <<>>
    BY <1>4, <1>5, <1>t DEF InHand
  <2>4. QED
    BY <2>1, <2>2, <2>3 DEF InHand
<1>11. Counters'
  BY <1>1, <1>8, <1>t DEF Counters
<1>12. QED
  BY <1>9, <1>10, <1>11 DEF IInv

LEMMA DequeueFailsStep ==
    ASSUME IInv, NEW t \in Threads, NEW c \in Connections, DequeueFails(t, c)
    PROVE  IInv'
<1>1. /\ pc[t] = "waiting" /\ pc' = [pc EXCEPT ![t] = "none"]
      /\ conn[c].ops # <<>> /\ conn' = [conn EXCEPT ![c].ops = Tail(@)]
      /\ killed' = killed + 1
      /\ UNCHANGED <<work, seen, threadsCounter, activeThreadsCounter>>
  BY DEF DequeueFails
<1>t. Typed /\ InHand /\ Counters /\ "none" \in Places
  BY DEF IInv, Places
<1>3. Tail(conn[c].ops) = <<>> /\ conn[c].socket # "none"
  <2>1. PICK o \in Operations : conn[c].ops = <<o>>
    BY <1>1, <1>t DEF Typed, OneAsked
  <2>2. conn[c].socket # "none"
    BY <1>1, <1>t DEF InHand
  <2>3. QED
    BY <2>1, <2>2
<1>4. /\ \A d \in Connections \ {c} : conn'[d] = conn[d]
      /\ conn'[c] = [conn[c] EXCEPT !.ops = <<>>]
      /\ conn' = [d \in Connections |-> conn'[d]]
  BY <1>1, <1>3, <1>t DEF Typed
<1>5. IsConnection(conn'[c]) /\ conn'[c].ops = <<>> /\ conn'[c].socket = conn[c].socket
  BY <1>4, <1>t DEF Typed, IsConnection, Fields
<1>6. /\ pc' \in [Threads -> Places]
      /\ pc'[t] = "none" /\ \A u \in Threads \ {t} : pc'[u] = pc[u]
      /\ Cardinality(Alive') = Cardinality(Alive) - 1 /\ Cardinality(Counted') = Cardinality(Counted)
      /\ Cardinality(Added') = Cardinality(Added) /\ Cardinality(Growing') = Cardinality(Growing)
  BY <1>1, <1>t, WaiterCounts, SizesNow DEF One
<1>7. Typed'
  <2>1. \A d \in Connections : IsConnection(conn'[d]) /\ OneAsked(conn'[d])
    BY <1>4, <1>5, <1>t, ZenonT(30) DEF Typed, OneAsked
  <2>2. /\ work = [u \in Threads |-> work[u]] /\ seen \in [Threads -> Nat]
        /\ threadsCounter \in Nat /\ activeThreadsCounter \in Nat /\ killed \in Nat
    BY <1>t DEF Typed
  <2>3. work' = [u \in Threads |-> work'[u]] /\ killed' \in Nat
    BY <1>1, <2>2
  <2>4. QED
    BY <1>1, <1>4, <1>6, <2>1, <2>2, <2>3 DEF Typed, IsConnection, OneAsked
<1>8. InHand'
  BY <1>1, <1>4, <1>5, <1>6, <1>t DEF InHand, Idle
<1>9. Counters'
  BY <1>1, <1>6, <1>t, SizesNow DEF Counters, Typed
<1>10. QED
  BY <1>7, <1>8, <1>9 DEF IInv

LEMMA TimeoutStep ==
    ASSUME IInv, NEW t \in Threads, Timeout(t)
    PROVE  IInv'
<1>t. Typed /\ InHand /\ Counters /\ "none" \in Places
  BY DEF IInv, Places
<1>1. CASE threadsCounter > MIN_THREADS /\ Shrink(t)
  <2>1. /\ pc[t] = "waiting" /\ pc' = [pc EXCEPT ![t] = "none"]
        /\ threadsCounter' = threadsCounter - 1
        /\ UNCHANGED <<conn, work, seen, activeThreadsCounter, killed>>
    BY <1>1 DEF Timeout, Shrink
  <2>3. /\ pc' \in [Threads -> Places]
        /\ pc'[t] = "none" /\ \A u \in Threads \ {t} : pc'[u] = pc[u]
        /\ Cardinality(Alive') = Cardinality(Alive) - 1 /\ Cardinality(Counted') = Cardinality(Counted)
        /\ Cardinality(Added') = Cardinality(Added) /\ Cardinality(Growing') = Cardinality(Growing)
    BY <1>t, <2>1, WaiterCounts, SizesNow DEF One
  <2>4. threadsCounter' \in Nat /\ threadsCounter' >= MIN_THREADS
    BY <1>1, <1>t, <2>1, Numbers DEF Typed
  <2>5. Typed'
    BY <1>t, <2>1, <2>3, <2>4 DEF Typed
  <2>6. InHand'
    BY <1>t, <2>1, <2>3, HandKept DEF Idle
  <2>7. Counters'
    BY <1>t, <2>1, <2>3, <2>4, SizesNow, Numbers DEF Counters, Typed
  <2>8. QED
    BY <2>5, <2>6, <2>7 DEF IInv
<1>2. CASE UNCHANGED vars
  BY <1>2, <1>t DEF vars, IInv, Typed, InHand, Counters, Alive, Counted, Added, Growing
<1>3. QED
  BY <1>1, <1>2 DEF Timeout

\* CountActive: the thread is counted as active.
LEMMA CountActiveStep ==
    ASSUME IInv, NEW t \in Threads, CountActive(t)
    PROVE  IInv'
<1>t. Typed /\ InHand /\ Counters
  BY DEF IInv
<1>1. /\ pc[t] = "got" /\ pc' = [pc EXCEPT ![t] = "counted"]
      /\ activeThreadsCounter' = activeThreadsCounter + 1
      /\ UNCHANGED <<conn, work, seen, threadsCounter, killed>>
  BY DEF CountActive
<1>2. /\ "counted" \in Places /\ seen' \in [Threads -> Nat]
      /\ \A u \in Threads \ {t} : seen'[u] = seen[u]
  BY <1>1, <1>t DEF Typed, Places
<1>3. /\ pc' \in [Threads -> Places] /\ pc'[t] = "counted"
      /\ \A u \in Threads \ {t} : pc'[u] = pc[u]
      /\ Cardinality(Alive') = Cardinality(Alive) + One("counted" # "none") - One(pc[t] # "none")
      /\ Cardinality(Counted') = Cardinality(Counted) + One("counted" \in Busy) - One(pc[t] \in Busy)
      /\ Cardinality(Added') = Cardinality(Added) + One("counted" \in Uncounted) - One(pc[t] \in Uncounted)
      /\ Cardinality(Growing') = Cardinality(Growing) + One(MayGrow("counted", seen'[t]))
                                                     - One(MayGrow(pc[t], seen[t]))
  BY <1>1, <1>2, <1>t, Counts
<1>4. /\ One("counted" # "none") = 1 /\ One(pc[t] # "none") = 1
      /\ One("counted" \in Busy) = 1 /\ One(pc[t] \in Busy) = 0
      /\ One("counted" \in Uncounted) = 0 /\ One(pc[t] \in Uncounted) = 0
      /\ One(MayGrow("counted", seen'[t])) = 0 /\ One(MayGrow(pc[t], seen[t])) = 0
  BY <1>1 DEF One, Busy, Uncounted, MayGrow
<1>5. Typed'
  BY <1>1, <1>2, <1>3, <1>t DEF Typed, IsConnection, OneAsked
<1>6. InHand'
  BY <1>1, <1>3, <1>t, HandKept DEF Idle
<1>7. Cardinality(Counted') <= Cardinality(Connections)
  <2>1. \A u \in Threads : pc[u] # "leaving"
    BY DEF CountActive, Unlocked
  <2>2. Counted' \in SUBSET Working
    BY <1>1, <1>3, <2>1 DEF Counted, Working, Idle
  <2>3. Working \in SUBSET Threads
    BY DEF Working
  <2>4. Cardinality(Counted') <= Cardinality(Working)
    BY <2>2, <2>3, Sizes
  <2>5. Cardinality(Working) <= Cardinality(Connections)
    BY <1>t, BusyBound
  <2>6. Cardinality(Working) \in Nat /\ Cardinality(Counted') \in Nat
    BY <2>3, Sets, Sizes
  <2>7. QED
    BY <2>4, <2>5, <2>6, Numbers
<1>8. Counters'
  BY <1>1, <1>3, <1>4, <1>7, <1>t, SizesNow DEF Counters
<1>9. QED
  BY <1>5, <1>6, <1>8 DEF IInv

\* LoadThreads: what was read counts towards the growth only if it is no more than the
\* connections there are, and then the pool is small.
LEMMA LoadThreadsStep ==
    ASSUME IInv, NEW t \in Threads, LoadThreads(t)
    PROVE  IInv'
<1>t. Typed /\ InHand /\ Counters
  BY DEF IInv
<1>1. /\ pc[t] = "counted" /\ pc' = [pc EXCEPT ![t] = "loaded"]
      /\ seen' = [seen EXCEPT ![t] = threadsCounter]
      /\ UNCHANGED <<conn, work, threadsCounter, activeThreadsCounter, killed>>
  BY DEF LoadThreads
<1>2. /\ "loaded" \in Places /\ seen' \in [Threads -> Nat] /\ seen'[t] = threadsCounter
      /\ \A u \in Threads \ {t} : seen'[u] = seen[u]
  BY <1>1, <1>t DEF Typed, Places
<1>3. /\ pc' \in [Threads -> Places] /\ pc'[t] = "loaded"
      /\ \A u \in Threads \ {t} : pc'[u] = pc[u]
      /\ Cardinality(Alive') = Cardinality(Alive) + One("loaded" # "none") - One(pc[t] # "none")
      /\ Cardinality(Counted') = Cardinality(Counted) + One("loaded" \in Busy) - One(pc[t] \in Busy)
      /\ Cardinality(Added') = Cardinality(Added) + One("loaded" \in Uncounted) - One(pc[t] \in Uncounted)
      /\ Cardinality(Growing') = Cardinality(Growing) + One(MayGrow("loaded", seen'[t]))
                                                     - One(MayGrow(pc[t], seen[t]))
  BY <1>1, <1>2, <1>t, Counts
<1>4. /\ One("loaded" # "none") = 1 /\ One(pc[t] # "none") = 1
      /\ One("loaded" \in Busy) = 1 /\ One(pc[t] \in Busy) = 1
      /\ One("loaded" \in Uncounted) = 0 /\ One(pc[t] \in Uncounted) = 0
      /\ One(MayGrow(pc[t], seen[t])) = 0
  BY <1>1 DEF One, Busy, Uncounted, MayGrow
<1>5. Typed'
  BY <1>1, <1>2, <1>3, <1>t DEF Typed, IsConnection, OneAsked
<1>6. InHand'
  BY <1>1, <1>3, <1>t, HandKept DEF Idle
<1>7. threadsCounter + Cardinality(Growing') <= Largest
  <2>1. CASE threadsCounter <= Cardinality(Connections)
    <3>1. Cardinality(Growing') <= Cardinality(Counted')
      BY <1>5, Sets, Sizes DEF Growing, Counted
    <3>2. Cardinality(Counted') <= Cardinality(Connections)
      <4>1. Cardinality(Counted) <= Cardinality(Connections)
        BY <1>t DEF Counters
      <4>2. QED
        BY <1>3, <1>4, <4>1, SizesNow
    <3>3. /\ Cardinality(Growing') \in Nat /\ Cardinality(Counted') \in Nat
          /\ threadsCounter \in Nat
      BY <1>t, Sets, Sizes DEF Typed
    <3>4. QED
      BY <2>1, <3>1, <3>2, <3>3, Numbers
  <2>2. CASE threadsCounter > Cardinality(Connections)
    <3>1. One(MayGrow("loaded", seen'[t])) = 0
      BY <1>2, <1>t, <2>2, Numbers DEF One, MayGrow, Typed
    <3>2. QED
      BY <1>3, <1>4, <1>t, <3>1, SizesNow DEF Counters
  <2>3. QED
    BY <1>t, <2>1, <2>2, Numbers DEF Typed
<1>8. Counters'
  BY <1>1, <1>3, <1>4, <1>7, <1>t, SizesNow DEF Counters
<1>9. QED
  BY <1>5, <1>6, <1>8 DEF IInv

\* Compare: a thread that goes on to add one has seen no more than the active threads,
\* which are no more than the connections.
LEMMA CompareStep ==
    ASSUME IInv, NEW t \in Threads, Compare(t)
    PROVE  IInv'
<1> DEFINE place == IF seen[t] = activeThreadsCounter THEN "adding" ELSE "ready"
<1>t. Typed /\ InHand /\ Counters
  BY DEF IInv
<1>1. /\ pc[t] = "loaded" /\ pc' = [pc EXCEPT ![t] = place]
      /\ seen' = [seen EXCEPT ![t] = 0]
      /\ UNCHANGED <<conn, work, threadsCounter, activeThreadsCounter, killed>>
  BY DEF Compare
<1>2. /\ place \in Places /\ seen' \in [Threads -> Nat]
      /\ \A u \in Threads \ {t} : seen'[u] = seen[u]
  BY <1>1, <1>t DEF Typed, Places
<1>4. /\ One(place # "none") = 1 /\ One(pc[t] # "none") = 1
      /\ One(place \in Busy) = 1 /\ One(pc[t] \in Busy) = 1
      /\ One(place \in Uncounted) = 0 /\ One(pc[t] \in Uncounted) = 0
  BY <1>1 DEF One, Busy, Uncounted
<1>7. /\ One(MayGrow(place, seen'[t])) <= One(MayGrow(pc[t], seen[t]))
      /\ One(MayGrow(place, seen'[t])) \in Int /\ One(MayGrow(pc[t], seen[t])) \in Int
  <2>1. CASE seen[t] = activeThreadsCounter
    <3>1. seen[t] <= Cardinality(Connections)
      BY <1>t, <2>1 DEF Counters
    <3>2. MayGrow(pc[t], seen[t])
      BY <1>1, <3>1 DEF MayGrow
    <3>3. QED
      BY <3>2 DEF One
  <2>2. CASE seen[t] # activeThreadsCounter
    <3>1. ~ MayGrow(place, seen'[t])
      BY <2>2 DEF MayGrow
    <3>2. QED
      BY <3>1 DEF One
  <2>3. QED
    BY <2>1, <2>2
<1>8. pc[t] \notin Idle /\ place \notin Idle
  BY <1>1 DEF Idle
<1> HIDE DEF place
<1>3. /\ pc' \in [Threads -> Places] /\ pc'[t] = place
      /\ \A u \in Threads \ {t} : pc'[u] = pc[u]
      /\ Cardinality(Alive') = Cardinality(Alive) + One(place # "none") - One(pc[t] # "none")
      /\ Cardinality(Counted') = Cardinality(Counted) + One(place \in Busy) - One(pc[t] \in Busy)
      /\ Cardinality(Added') = Cardinality(Added) + One(place \in Uncounted) - One(pc[t] \in Uncounted)
      /\ Cardinality(Growing') = Cardinality(Growing) + One(MayGrow(place, seen'[t]))
                                                     - One(MayGrow(pc[t], seen[t]))
  BY <1>1, <1>2, <1>t, Counts
<1>5. Typed'
  BY <1>1, <1>2, <1>3, <1>t DEF Typed, IsConnection, OneAsked
<1>6. InHand'
  BY <1>1, <1>3, <1>8, <1>t, HandKept DEF Idle
<1>9. Counters'
  <2>1. threadsCounter \in Nat /\ Largest \in Nat
    BY <1>t, Numbers DEF Typed
  <2>2. QED
    BY <1>1, <1>3, <1>4, <1>7, <1>t, <2>1, SizesNow DEF Counters
<1>10. QED
  BY <1>5, <1>6, <1>9 DEF IInv

\* AddThread: one thread more, which threadsCounter does not count yet.
LEMMA AddThreadStep ==
    ASSUME IInv, NEW t \in Threads, AddThread(t)
    PROVE  IInv'
<1>t. Typed /\ InHand /\ Counters
  BY DEF IInv
<1>1. PICK new \in Threads :
         pc[new] = "none" /\ pc' = [pc EXCEPT ![t] = "added", ![new] = "waiting"]
  BY DEF AddThread
<1>2. /\ pc[t] = "adding"
      /\ UNCHANGED <<conn, work, seen, threadsCounter, activeThreadsCounter, killed>>
  BY DEF AddThread
<1>3. /\ pc' \in [Threads -> Places] /\ t # new
      /\ pc'[t] = "added" /\ pc'[new] = "waiting"
      /\ \A u \in Threads \ {t, new} : pc'[u] = pc[u]
  BY <1>1, <1>2, <1>t DEF Typed, Places
<1>4. Cardinality(Alive') = Cardinality(Alive) + 1
  <2>1. Alive \ {new} = Alive' \ {new} /\ new \notin Alive /\ new \in Alive'
    BY <1>1, <1>2, <1>3 DEF Alive
  <2>2. QED
    BY <2>1, Sets, Moves
<1>5. Cardinality(Added') = Cardinality(Added) + 1
  <2>1. Added \ {t} = Added' \ {t} /\ t \notin Added /\ t \in Added'
    BY <1>1, <1>2, <1>3 DEF Added
  <2>2. QED
    BY <2>1, Sets, Moves
<1>6. Counted' = Counted
  BY <1>1, <1>2, <1>3 DEF Counted
<1>7. Growing' = Growing
  BY <1>1, <1>2, <1>3 DEF Growing
<1>8. Typed'
  BY <1>2, <1>3, <1>t DEF Typed, IsConnection, OneAsked
<1>9. InHand'
  BY <1>1, <1>2, <1>3, <1>t, HandKept DEF Idle
<1>10. Counters'
  BY <1>2, <1>4, <1>5, <1>6, <1>7, <1>t, SizesNow DEF Counters, Typed
<1>11. QED
  BY <1>8, <1>9, <1>10 DEF IInv

\* CountThread: threadsCounter has caught up.
LEMMA CountThreadStep ==
    ASSUME IInv, NEW t \in Threads, CountThread(t)
    PROVE  IInv'
<1>t. Typed /\ InHand /\ Counters
  BY DEF IInv
<1>1. /\ pc[t] = "added" /\ pc' = [pc EXCEPT ![t] = "ready"]
      /\ threadsCounter' = threadsCounter + 1
      /\ UNCHANGED <<conn, work, seen, activeThreadsCounter, killed>>
  BY DEF CountThread
<1>2. /\ "ready" \in Places /\ seen' \in [Threads -> Nat] /\ threadsCounter \in Nat
      /\ \A u \in Threads \ {t} : seen'[u] = seen[u]
  BY <1>1, <1>t DEF Typed, Places
<1>3. /\ pc' \in [Threads -> Places] /\ pc'[t] = "ready"
      /\ \A u \in Threads \ {t} : pc'[u] = pc[u]
      /\ Cardinality(Alive') = Cardinality(Alive) + One("ready" # "none") - One(pc[t] # "none")
      /\ Cardinality(Counted') = Cardinality(Counted) + One("ready" \in Busy) - One(pc[t] \in Busy)
      /\ Cardinality(Added') = Cardinality(Added) + One("ready" \in Uncounted) - One(pc[t] \in Uncounted)
      /\ Cardinality(Growing') = Cardinality(Growing) + One(MayGrow("ready", seen'[t]))
                                                     - One(MayGrow(pc[t], seen[t]))
  BY <1>1, <1>2, <1>t, Counts
<1>4. /\ One("ready" # "none") = 1 /\ One(pc[t] # "none") = 1
      /\ One("ready" \in Busy) = 1 /\ One(pc[t] \in Busy) = 1
      /\ One("ready" \in Uncounted) = 0 /\ One(pc[t] \in Uncounted) = 1
      /\ One(MayGrow("ready", seen'[t])) = 0 /\ One(MayGrow(pc[t], seen[t])) = 1
  BY <1>1 DEF One, Busy, Uncounted, MayGrow
<1>5. Typed'
  BY <1>1, <1>2, <1>3, <1>t DEF Typed, IsConnection, OneAsked
<1>6. InHand'
  BY <1>1, <1>3, <1>t, HandKept DEF Idle
<1>7. Counters'
  <2>1. killed \in Nat /\ Largest \in Nat /\ MIN_THREADS \in Nat
    BY <1>t, Numbers DEF Typed
  <2>2. QED
    BY <1>1, <1>2, <1>3, <1>4, <1>t, <2>1, SizesNow DEF Counters
<1>8. QED
  BY <1>5, <1>6, <1>7 DEF IInv

\* Process: the thread lets go of its connection and waits again, or leaves when the
\* pool has grown beyond MAX_THREADS.
LEMMA ProcessStep ==
    ASSUME IInv, NEW t \in Threads, Process(t)
    PROVE  IInv'
<1> DEFINE c == work[t].cn
           taken == Max({work[t].bytes, 0})
           cn == Handled(conn[c], work[t].bytes, SubSeq(input[c], 1, taken)).cn
           place == pc'[t]
<1>t. Typed /\ InHand /\ Counters
  BY DEF IInv
<1>1. /\ pc[t] = "ready" /\ conn' = [conn EXCEPT ![c] = cn]
      /\ work' = [work EXCEPT ![t] = NoWork] /\ Leave(t)
      /\ UNCHANGED <<seen, killed>>
  BY DEF Process
<1>2. /\ c \in Connections /\ conn[c].ops = <<>> /\ conn[c].socket # "none"
      /\ IsConnection(conn[c])
  <2>1. c \in Connections /\ conn[c].ops = <<>> /\ conn[c].socket # "none"
    BY <1>1, <1>t DEF InHand, Idle
  <2>2. QED
    BY <1>t, <2>1 DEF Typed
<1>3. Served(cn)
  BY <1>2, HandledServed DEF Fresh
<1> HIDE DEF c, cn
<1>4. /\ conn' = [d \in Connections |-> conn'[d]]
      /\ conn'[c] = cn /\ \A d \in Connections \ {c} : conn'[d] = conn[d]
  BY <1>1, <1>2, <1>t DEF Typed
<1>5. /\ work' = [u \in Threads |-> work'[u]] /\ work'[t].cn = "none"
      /\ \A u \in Threads \ {t} : work'[u] = work[u]
  BY <1>1, <1>t DEF Typed, NoWork
<1>6. /\ activeThreadsCounter' = activeThreadsCounter - One(place = "waiting")
      /\ place \in {"leaving", "waiting"} /\ pc' = [pc EXCEPT ![t] = place]
      /\ threadsCounter' = threadsCounter - One(place = "leaving")
      /\ place = "leaving" => threadsCounter > MAX_THREADS
  <2>1. /\ threadsCounter \in Nat /\ activeThreadsCounter \in Nat
        /\ pc[t] = "ready" /\ pc \in [Threads -> Places]
    BY <1>1, <1>t DEF Typed
  <2>2. CASE threadsCounter > MAX_THREADS
    <3>1. /\ threadsCounter' = threadsCounter - 1 /\ pc' = [pc EXCEPT ![t] = "leaving"]
          /\ activeThreadsCounter' = activeThreadsCounter
      BY <1>1, <2>2 DEF Leave
    <3>2. place = "leaving"
      BY <2>1, <3>1
    <3>3. One(place = "leaving") = 1 /\ One(place = "waiting") = 0
      BY <3>2 DEF One
    <3> HIDE DEF place
    <3>4. QED
      BY <2>1, <2>2, <3>1, <3>2, <3>3
  <2>3. CASE ~ threadsCounter > MAX_THREADS
    <3>1. /\ threadsCounter' = threadsCounter /\ pc' = [pc EXCEPT ![t] = "waiting"]
          /\ activeThreadsCounter' = activeThreadsCounter - 1
      BY <1>1, <2>3 DEF Leave
    <3>2. place = "waiting"
      BY <2>1, <3>1
    <3>3. One(place = "leaving") = 0 /\ One(place = "waiting") = 1
      BY <3>2 DEF One
    <3> HIDE DEF place
    <3>4. QED
      BY <2>1, <2>3, <3>1, <3>2, <3>3
  <2>4. QED
    BY <2>2, <2>3
<1> HIDE DEF place
<1>7. /\ place \in Places /\ seen' \in [Threads -> Nat]
      /\ \A u \in Threads \ {t} : seen'[u] = seen[u]
  BY <1>1, <1>6, <1>t DEF Typed, Places
<1>8. /\ pc' \in [Threads -> Places] /\ pc'[t] = place
      /\ \A u \in Threads \ {t} : pc'[u] = pc[u]
      /\ Cardinality(Alive') = Cardinality(Alive) + One(place # "none") - One(pc[t] # "none")
      /\ Cardinality(Counted') = Cardinality(Counted) + One(place \in Busy) - One(pc[t] \in Busy)
      /\ Cardinality(Added') = Cardinality(Added) + One(place \in Uncounted) - One(pc[t] \in Uncounted)
      /\ Cardinality(Growing') = Cardinality(Growing) + One(MayGrow(place, seen'[t]))
                                                     - One(MayGrow(pc[t], seen[t]))
  BY <1>6, <1>7, <1>t, Counts
<1>9. /\ One(place # "none") = 1 /\ One(pc[t] # "none") = 1
      /\ One(place \in Busy) = One(place = "leaving") /\ One(pc[t] \in Busy) = 1
      /\ One(place \in Uncounted) = One(place = "leaving") /\ One(pc[t] \in Uncounted) = 0
      /\ One(MayGrow(place, seen'[t])) = One(place = "leaving")
      /\ One(MayGrow(pc[t], seen[t])) = 0
      /\ One(place = "leaving") \in 0 .. 1 /\ One(place = "waiting") = 1 - One(place = "leaving")
      /\ place # "leaving" => One(place = "leaving") = 0
  BY <1>1, <1>6 DEF One, Busy, Uncounted, MayGrow
<1>10. activeThreadsCounter' \in Nat
  <2>1. t \in Counted
    BY <1>1 DEF Counted
  <2>2. Cardinality(Counted) > 0
    BY <2>1, Sets, Sizes
  <2>3. QED
    BY <1>6, <1>9, <1>t, <2>2, SizesNow DEF Counters
<1>11. /\ threadsCounter \in Nat /\ threadsCounter' \in Nat
       /\ threadsCounter' <= threadsCounter /\ threadsCounter' >= MIN_THREADS
  BY <1>6, <1>9, <1>t, Numbers DEF Typed, Counters
<1>12. Typed'
  <2>1. \A d \in Connections : IsConnection(conn'[d]) /\ OneAsked(conn'[d])
    BY <1>3, <1>4, <1>t DEF Typed, Served
  <2>2. killed' \in Nat
    BY <1>1, <1>t DEF Typed
  <2>3. QED
    BY <1>4, <1>5, <1>7, <1>8, <1>10, <1>11, <2>1, <2>2 DEF Typed, IsConnection, OneAsked
<1>13. InHand'
  <2>1. \A u \in Threads \ {t} : work[u].cn # c
    BY <1>2, <1>t, ServerAssumption DEF InHand, c
  <2>2. ASSUME NEW u \in Threads
        PROVE  IF pc'[u] \in Idle
               THEN work'[u].cn = "none"
               ELSE /\ work'[u].cn \in Connections
                    /\ conn'[work'[u].cn].ops = <<>>
                    /\ conn'[work'[u].cn].socket # "none"
    <3>1. CASE u = t
      BY <1>5, <1>6, <1>8, <3>1 DEF Idle
    <3>2. CASE u # t
      BY <1>4, <1>5, <1>8, <1>t, <2>1, <3>2 DEF InHand
    <3>3. QED
      BY <3>1, <3>2
  <2>3. \A u, v \in Threads : work'[u].cn = work'[v].cn /\ work'[u].cn # "none" => u = v
    BY <1>5, <1>t DEF InHand
  <2>4. \A d \in Connections : conn'[d].socket = "none" => conn'[d].ops = <<>>
    BY <1>3, <1>4, <1>t DEF InHand, Served
  <2>5. QED
    BY <2>2, <2>3, <2>4 DEF InHand
<1>14. Counters'
  <2>1. killed' = killed /\ killed \in Nat /\ Largest \in Nat
    BY <1>1, <1>t, Numbers DEF Typed
  <2>2. QED
    BY <1>6, <1>8, <1>9, <1>11, <1>t, <2>1, SizesNow, Numbers DEF Counters
<1>15. QED
  BY <1>12, <1>13, <1>14 DEF IInv

\* ThreadEnds: the thread that has left is counted out of the active ones too.
LEMMA ThreadEndsStep ==
    ASSUME IInv, NEW t \in Threads, ThreadEnds(t)
    PROVE  IInv'
<1>t. Typed /\ InHand /\ Counters
  BY DEF IInv
<1>1. /\ pc[t] = "leaving" /\ pc' = [pc EXCEPT ![t] = "none"]
      /\ activeThreadsCounter' = activeThreadsCounter - 1
      /\ UNCHANGED <<conn, work, seen, threadsCounter, killed>>
  BY DEF ThreadEnds
<1>2. /\ "none" \in Places /\ seen' \in [Threads -> Nat]
      /\ \A u \in Threads \ {t} : seen'[u] = seen[u]
  BY <1>1, <1>t DEF Typed, Places
<1>3. /\ pc' \in [Threads -> Places] /\ pc'[t] = "none"
      /\ \A u \in Threads \ {t} : pc'[u] = pc[u]
      /\ Cardinality(Alive') = Cardinality(Alive) + One("none" # "none") - One(pc[t] # "none")
      /\ Cardinality(Counted') = Cardinality(Counted) + One("none" \in Busy) - One(pc[t] \in Busy)
      /\ Cardinality(Added') = Cardinality(Added) + One("none" \in Uncounted) - One(pc[t] \in Uncounted)
      /\ Cardinality(Growing') = Cardinality(Growing) + One(MayGrow("none", seen'[t]))
                                                     - One(MayGrow(pc[t], seen[t]))
  BY <1>1, <1>2, <1>t, Counts
<1>4. /\ One("none" # "none") = 0 /\ One(pc[t] # "none") = 1
      /\ One("none" \in Busy) = 0 /\ One(pc[t] \in Busy) = 1
      /\ One("none" \in Uncounted) = 0 /\ One(pc[t] \in Uncounted) = 1
      /\ One(MayGrow("none", seen'[t])) = 0 /\ One(MayGrow(pc[t], seen[t])) = 1
  BY <1>1 DEF One, Busy, Uncounted, MayGrow
<1>5. activeThreadsCounter' \in Nat
  <2>1. t \in Counted
    BY <1>1 DEF Counted
  <2>2. Cardinality(Counted) > 0
    BY <2>1, Sets, Sizes
  <2>3. QED
    BY <1>1, <1>t, <2>2, SizesNow DEF Counters
<1>6. Typed'
  BY <1>1, <1>2, <1>3, <1>5, <1>t DEF Typed, IsConnection, OneAsked
<1>7. InHand'
  BY <1>1, <1>3, <1>t, HandKept DEF Idle
<1>8. Counters'
  <2>1. killed \in Nat /\ threadsCounter \in Nat /\ Largest \in Nat /\ MIN_THREADS \in Nat
    BY <1>t, Numbers DEF Typed
  <2>2. QED
    BY <1>1, <1>3, <1>4, <1>t, <2>1, SizesNow, Numbers DEF Counters
<1>9. QED
  BY <1>6, <1>7, <1>8 DEF IInv

LEMMA NextIInv == IInv /\ [Next]_vars => IInv'
<1> SUFFICES ASSUME IInv, [Next]_vars PROVE IInv'
  OBVIOUS
<1>1. ASSUME NEW c \in Connections, Accept(c) \/ AcceptFails(c) \/ Reset(c)
      PROVE  IInv'
  BY <1>1, ClientStep
<1>2. ASSUME NEW t \in Threads, NEW c \in Connections, Dequeue(t, c) \/ DequeueFails(t, c)
      PROVE  IInv'
  BY <1>2, DequeueStep, DequeueFailsStep
<1>3. ASSUME NEW t \in Threads, Timeout(t) \/ Serve(t)
      PROVE  IInv'
  BY <1>3, TimeoutStep, CountActiveStep, LoadThreadsStep, CompareStep, AddThreadStep,
     CountThreadStep, ProcessStep, ThreadEndsStep DEF Serve
<1>4. CASE UNCHANGED vars
  BY <1>4 DEF vars, IInv, Typed, InHand, Counters, Alive, Counted, Added, Growing
<1>5. QED
  BY <1>1, <1>2, <1>3, <1>4 DEF Next

(***************************************************************************)
(* Streams of requests.                                                    *)
(***************************************************************************)
Token == {"?", "CR", "LF"} \cup MessageTypes \cup Arguments

\* Requests behind the first n ones, and where requests end in a stream.
After(reqs, n) == SubSeq(reqs, n + 1, Len(reqs))
Ends(reqs) == {Len(Stream(SubSeq(reqs, 1, i))) : i \in 0 .. Len(reqs)}

LEMMA TokenConcat ==
    \A x, y \in Seq(Token) :
       /\ x \o y \in Seq(Token) /\ Len(x \o y) = Len(x) + Len(y)
       /\ \A i \in 1 .. Len(x) : (x \o y)[i] = x[i]
       /\ \A i \in 1 .. Len(y) : (x \o y)[Len(x) + i] = y[i]
BY ConcatParts

LEMMA TokenPart ==
    \A s \in Seq(Token) : \A a, b \in Nat :
       a <= b /\ b <= Len(s) =>
          /\ SubSeq(s, a + 1, b) \in Seq(Token) /\ Len(SubSeq(s, a + 1, b)) = b - a
          /\ \A i \in 1 .. b - a : SubSeq(s, a + 1, b)[i] = s[a + i]
BY SubSeqParts

\* A request is three tokens, or six with its argument.
LEMMA TokensFacts ==
    ASSUME NEW r \in Request
    PROVE  /\ Tokens(r) \in Seq(Token)
           /\ Len(Tokens(r)) = IF r.type \in WithArgument THEN 6 ELSE 3
           /\ Tokens(r)[1] = r.type /\ Tokens(r)[2] = "CR" /\ Tokens(r)[3] = "LF"
           /\ r.type \in WithArgument =>
                 Tokens(r)[4] = r.arg /\ Tokens(r)[5] = "CR" /\ Tokens(r)[6] = "LF"
<1>1. /\ r.type \in Token /\ "CR" \in Token /\ "LF" \in Token
      /\ r.arg \in Token
  BY DEF Token, Request
<1> DEFINE a == <<r.type, "CR", "LF">>
           b == <<r.arg, "CR", "LF">>
<1>2. /\ a \in Seq(Token) /\ Len(a) = 3 /\ a[1] = r.type /\ a[2] = "CR" /\ a[3] = "LF"
      /\ b \in Seq(Token) /\ Len(b) = 3 /\ b[1] = r.arg /\ b[2] = "CR" /\ b[3] = "LF"
      /\ <<>> \in Seq(Token) /\ Len(<<>>) = 0
  <2> HIDE DEF Token
  <2> QED BY <1>1
<1>3. Tokens(r) = a \o (IF r.type \in WithArgument THEN b ELSE <<>>)
  BY DEF Tokens
<1> HIDE DEF a, b, Token
<1>4. CASE r.type \in WithArgument
  <2>1. Tokens(r) = a \o b
    BY <1>3, <1>4
  <2>2. /\ a \o b \in Seq(Token) /\ Len(a \o b) = 6
        /\ \A i \in 1 .. 3 : (a \o b)[i] = a[i]
        /\ \A i \in 1 .. 3 : (a \o b)[3 + i] = b[i]
    <3>1. a \in Seq(Token) /\ b \in Seq(Token) /\ Len(a) = 3 /\ Len(b) = 3
      BY <1>2
    <3>2. /\ a \o b \in Seq(Token) /\ Len(a \o b) = Len(a) + Len(b)
          /\ \A i \in 1 .. Len(a) : (a \o b)[i] = a[i]
          /\ \A i \in 1 .. Len(b) : (a \o b)[Len(a) + i] = b[i]
      BY <3>1, TokenConcat, Zenon
    <3>3. QED
      BY <3>1, <3>2
  <2>3. /\ (a \o b)[1] = a[1] /\ (a \o b)[2] = a[2] /\ (a \o b)[3] = a[3]
        /\ (a \o b)[4] = b[1] /\ (a \o b)[5] = b[2] /\ (a \o b)[6] = b[3]
    BY <2>2, SMTT(30)
  <2>4. QED
    BY <1>2, <1>4, <2>1, <2>2, <2>3
<1>5. CASE r.type \notin WithArgument
  <2>1. Tokens(r) = a
    BY <1>2, <1>3, <1>5
  <2>2. QED
    BY <1>2, <1>5, <2>1
<1>6. QED
  BY <1>4, <1>5

\* A stream is that of its first requests followed by that of the others.
LEMMA StreamSplit ==
    ASSUME NEW reqs \in Seq(Request), NEW n \in 0 .. Len(reqs)
    PROVE  /\ Stream(reqs) \in Seq(Token)
           /\ SubSeq(reqs, 1, n) \in Seq(Request) /\ Len(SubSeq(reqs, 1, n)) = n
           /\ After(reqs, n) \in Seq(Request) /\ Len(After(reqs, n)) = Len(reqs) - n
           /\ \A i \in 1 .. Len(reqs) - n : After(reqs, n)[i] = reqs[n + i]
           /\ Stream(reqs) = Stream(SubSeq(reqs, 1, n)) \o Stream(After(reqs, n))
<1> DEFINE parts(s) == [i \in DOMAIN s |-> Tokens(s[i])]
           a == SubSeq(reqs, 1, n)
           b == After(reqs, n)
<1>1. \A r \in Request : Tokens(r) \in Seq(Token)
  BY TokensFacts
<1>2. /\ a \in Seq(Request) /\ Len(a) = n /\ \A i \in 1 .. n : a[i] = reqs[i]
      /\ b \in Seq(Request) /\ Len(b) = Len(reqs) - n
      /\ \A i \in 1 .. Len(reqs) - n : b[i] = reqs[n + i]
      /\ DOMAIN reqs = 1 .. Len(reqs) /\ DOMAIN a = 1 .. n /\ DOMAIN b = 1 .. Len(reqs) - n
      /\ Len(reqs) \in Nat /\ \A i \in 1 .. Len(reqs) : reqs[i] \in Request
  <2>1. /\ Len(reqs) \in Nat /\ DOMAIN reqs = 1 .. Len(reqs)
        /\ \A i \in 1 .. Len(reqs) : reqs[i] \in Request
    OBVIOUS
  <2>2. 0 \in Nat /\ n \in Nat /\ 0 <= n /\ n <= Len(reqs) /\ Len(reqs) <= Len(reqs) /\ n - 0 = n
        /\ 0 + 1 = 1
    BY <2>1
  <2>3. a \in Seq(Request) /\ Len(a) = n /\ \A i \in 1 .. n : a[i] = reqs[0 + i]
    <3>1. /\ SubSeq(reqs, 0 + 1, n) \in Seq(Request) /\ Len(SubSeq(reqs, 0 + 1, n)) = n - 0
          /\ \A i \in 1 .. n - 0 : SubSeq(reqs, 0 + 1, n)[i] = reqs[0 + i]
      BY <2>2, SubSeqParts, Zenon
    <3>2. SubSeq(reqs, 0 + 1, n) = a
      BY <2>2, Zenon
    <3>3. QED
      BY <2>2, <3>1, <3>2, Zenon
  <2>4. /\ b \in Seq(Request) /\ Len(b) = Len(reqs) - n
        /\ \A i \in 1 .. Len(reqs) - n : b[i] = reqs[n + i]
    BY <2>1, <2>2, SubSeqParts, ZenonT(30) DEF After
  <2> HIDE DEF a, b
  <2>5. \A i \in 1 .. n : a[i] = reqs[i]
    BY <2>2, <2>3
  <2>6. DOMAIN a = 1 .. n /\ DOMAIN b = 1 .. Len(reqs) - n
    BY <2>3, <2>4
  <2>7. QED
    BY <2>1, <2>3, <2>4, <2>5, <2>6, Zenon
<1> HIDE DEF a, b
<1>3. /\ parts(reqs) \in Seq(Seq(Token)) /\ Len(parts(reqs)) = Len(reqs)
      /\ \A i \in 1 .. Len(reqs) : parts(reqs)[i] = Tokens(reqs[i])
  BY <1>1, <1>2
<1>4. SubSeq(parts(reqs), 1, n) = parts(a)
  BY <1>2, <1>3
<1>5. SubSeq(parts(reqs), n + 1, Len(reqs)) = parts(b)
  BY <1>2, <1>3, SMTT(30)
<1>6. FlattenSeq(parts(reqs)) =
         FlattenSeq(SubSeq(parts(reqs), 1, n)) \o FlattenSeq(SubSeq(parts(reqs), n + 1, Len(reqs)))
  <2> DEFINE p == parts(reqs)
  <2>1. p \in Seq(Seq(Token)) /\ Len(p) = Len(reqs) /\ n \in 0 .. Len(p)
    BY <1>3
  <2> HIDE DEF p
  <2>2. FlattenSeq(p) = FlattenSeq(SubSeq(p, 1, n)) \o FlattenSeq(SubSeq(p, n + 1, Len(p)))
    BY <2>1, FlattenSplit
  <2>3. QED
    BY <1>3, <2>2 DEF p
<1>7. FlattenSeq(parts(reqs)) \in Seq(Token)
  <2> DEFINE p == parts(reqs)
  <2> HIDE DEF p
  <2>1. p \in Seq(Seq(Token)) => FlattenSeq(p) \in Seq(Token)
    BY FlattenElements
  <2>2. QED
    BY <1>3, <2>1 DEF p
<1>8. Stream(reqs) = FlattenSeq(parts(reqs)) /\ Stream(a) = FlattenSeq(parts(a))
      /\ Stream(b) = FlattenSeq(parts(b))
  BY DEF Stream
<1>9. QED
  BY <1>2, <1>4, <1>5, <1>6, <1>7, <1>8 DEF a, b

LEMMA StreamSmall ==
    ASSUME NEW reqs \in Seq(Request)
    PROVE  /\ Len(reqs) = 0 => Stream(reqs) = <<>>
           /\ Len(reqs) = 1 => Stream(reqs) = Tokens(reqs[1])
<1> DEFINE p == [i \in DOMAIN reqs |-> Tokens(reqs[i])]
<1>1. \A r \in Request : Tokens(r) \in Seq(Token)
  BY TokensFacts
<1>2. /\ p \in Seq(Seq(Token)) /\ Len(p) = Len(reqs)
      /\ Len(reqs) = 1 => p[1] = Tokens(reqs[1])
  <2>1. /\ DOMAIN reqs = 1 .. Len(reqs) /\ Len(reqs) \in Nat
        /\ \A i \in 1 .. Len(reqs) : reqs[i] \in Request
    OBVIOUS
  <2>2. p \in Seq(Seq(Token)) /\ Len(p) = Len(reqs)
    BY <1>1, <2>1
  <2>3. Len(reqs) = 1 => p[1] = Tokens(reqs[1])
    BY <2>1
  <2>4. QED
    BY <2>2, <2>3
<1>3. Stream(reqs) = FlattenSeq(p)
  BY DEF Stream
<1> HIDE DEF p
<1>4. QED
  BY <1>2, <1>3, FlattenSmall

\* The stream of the requests behind the first n ones begins with the next one's tokens.
LEMMA NextTokens ==
    ASSUME NEW reqs \in Seq(Request), NEW n \in 0 .. Len(reqs) - 1
    PROVE  LET s == Stream(After(reqs, n))
               t == Stream(After(reqs, n + 1))
               k == Len(Tokens(reqs[n + 1]))
           IN  /\ reqs[n + 1] \in Request
               /\ s \in Seq(Token) /\ t \in Seq(Token)
               /\ Len(s) = k + Len(t)
               /\ \A i \in 1 .. k : s[i] = Tokens(reqs[n + 1])[i]
               /\ \A i \in 1 .. Len(t) : s[k + i] = t[i]
<1> DEFINE r == After(reqs, n)
           one == SubSeq(r, 1, 1)
           t == Stream(After(reqs, n + 1))
           x == Tokens(reqs[n + 1])
<1>1. /\ r \in Seq(Request) /\ Len(r) = Len(reqs) - n /\ Len(reqs) \in Nat /\ n \in Nat
      /\ \A i \in 1 .. Len(reqs) - n : r[i] = reqs[n + i]
      /\ reqs[n + 1] \in Request /\ n < Len(reqs)
  <2>1. n \in 0 .. Len(reqs) /\ Len(reqs) \in Nat /\ n \in Nat /\ n < Len(reqs)
    OBVIOUS
  <2>2. /\ r \in Seq(Request) /\ Len(r) = Len(reqs) - n
        /\ \A i \in 1 .. Len(reqs) - n : r[i] = reqs[n + i]
    BY <2>1, StreamSplit
  <2>3. reqs[n + 1] \in Request
    BY <2>1
  <2>4. QED
    BY <2>1, <2>2, <2>3
<1>2. After(r, 1) = After(reqs, n + 1)
  BY DEF After
<1>3. one \in Seq(Request) /\ Len(one) = 1 /\ one[1] = reqs[n + 1]
  BY <1>1
<1>4. /\ Stream(r) \in Seq(Token)
      /\ Stream(r) = Stream(one) \o Stream(After(r, 1))
  <2>1. 1 \in 0 .. Len(r)
    BY <1>1
  <2> HIDE DEF r
  <2>2. QED
    BY <1>1, <2>1, StreamSplit
<1>5. Stream(one) = x /\ x \in Seq(Token)
  <2> HIDE DEF one
  <2> QED BY <1>1, <1>3, StreamSmall, TokensFacts
<1>6. t \in Seq(Token)
  <2>1. After(reqs, n + 1) \in Seq(Request)
    BY <1>1 DEF After
  <2>2. 0 \in 0 .. Len(After(reqs, n + 1))
    BY <2>1
  <2>3. QED
    BY <2>1, <2>2, StreamSplit
<1>7. Stream(r) = x \o t
  BY <1>2, <1>4, <1>5
<1> HIDE DEF x, t
<1>8. /\ Len(x \o t) = Len(x) + Len(t)
      /\ \A i \in 1 .. Len(x) : (x \o t)[i] = x[i]
      /\ \A i \in 1 .. Len(t) : (x \o t)[Len(x) + i] = t[i]
  BY <1>5, <1>6
<1>9. QED
  BY <1>1, <1>4, <1>6, <1>7, <1>8 DEF r, x, t

\* The length of what follows n requests tells that a request ends there, and that
\* there is none when it is zero.
LEMMA EndTokens ==
    ASSUME NEW reqs \in Seq(Request), NEW n \in 0 .. Len(reqs)
    PROVE  /\ Stream(After(reqs, n)) \in Seq(Token)
           /\ Len(Stream(reqs)) \in Nat
           /\ Len(Stream(reqs)) - Len(Stream(After(reqs, n))) \in Ends(reqs)
           /\ Len(Stream(After(reqs, n))) = 0 => n = Len(reqs)
<1> DEFINE a == Stream(SubSeq(reqs, 1, n))
           b == Stream(After(reqs, n))
<1>1. /\ Stream(reqs) \in Seq(Token) /\ Stream(reqs) = a \o b
      /\ SubSeq(reqs, 1, n) \in Seq(Request) /\ After(reqs, n) \in Seq(Request)
  BY StreamSplit
<1>2. a \in Seq(Token) /\ b \in Seq(Token)
  <2>1. \A s \in Seq(Request) : 0 \in 0 .. Len(s)
    OBVIOUS
  <2>2. \A s \in Seq(Request) : Stream(s) \in Seq(Token)
    BY <2>1, StreamSplit
  <2>3. QED
    BY <1>1, <2>2
<1>3. Len(a) \in Ends(reqs)
  BY DEF Ends
<1> HIDE DEF a
<1>4. Len(b) = 0 => n = Len(reqs)
  <2> SUFFICES ASSUME n # Len(reqs) PROVE Len(b) # 0
    OBVIOUS
  <2>1. n \in 0 .. Len(reqs) - 1
    OBVIOUS
  <2>2. /\ Len(b) = Len(Tokens(reqs[n + 1])) + Len(Stream(After(reqs, n + 1)))
        /\ Stream(After(reqs, n + 1)) \in Seq(Token) /\ reqs[n + 1] \in Request
    BY <2>1, NextTokens
  <2>3. Len(Tokens(reqs[n + 1])) = IF reqs[n + 1].type \in WithArgument THEN 6 ELSE 3
    BY <2>2, TokensFacts
  <2>4. QED
    BY <2>2, <2>3
<1> HIDE DEF b
<1>5. Len(a \o b) = Len(a) + Len(b) /\ Len(a) \in Nat /\ Len(b) \in Nat
  BY <1>2
<1>6. QED
  BY <1>1, <1>2, <1>3, <1>4, <1>5 DEF b

(***************************************************************************)
(* What a connection's buffer holds.                                       *)
(***************************************************************************)
\* The first of the two arrays, and the positions of Connection in it.
Buffer(cn) ==
    /\ cn.buf \in Seq(Token) /\ Len(cn.buf) = BUFFERSIZE
    /\ cn.lastReq \in Nat /\ cn.rPos \in Nat /\ cn.len \in Nat
    /\ cn.lastReq <= cn.rPos /\ cn.rPos <= cn.len /\ cn.len <= BUFFERSIZE

\* What lies behind the last request carried out, followed by the input, is s.
Match(cn, in, s) ==
    LET u == cn.len - cn.lastReq IN
    /\ u + Len(in) = Len(s)
    /\ \A i \in 1 .. u : cn.buf[cn.lastReq + i] = s[i]
    /\ \A i \in 1 .. Len(in) : in[i] = s[u + i]

\* Nothing is lost: the stream of the requests behind the first n ones is there.
Held(cn, in, reqs, n) ==
    /\ n \in 0 .. Len(reqs) /\ in \in Seq(Token) /\ Buffer(cn)
    /\ Match(cn, in, Stream(After(reqs, n)))

\* The input goes on neither between CR and LF nor with the next request.
Cut(cn, in, reqs) ==
    in = <<>> \/ (cn.len > 0 /\ cn.buf[cn.len] # "CR" /\ Len(Stream(reqs)) - Len(in) \notin Ends(reqs))

\* Where a connection is when an operation has been asked for.
Pending(cn, op, in, reqs, n) ==
    \/ cn.key = "START_OPER" /\ op = "post" /\ cn.len = 0
    \/ cn.key = "SEND_OPER" /\ op = "post" /\ cn.rPos = cn.lastReq /\ Cut(cn, in, reqs)
    \/ /\ cn.key = "RECV_OPER" /\ op = "post" /\ cn.rPos = cn.lastReq + 3 /\ Cut(cn, in, reqs)
       /\ n < Len(reqs) /\ cn.requestType = <<reqs[n + 1].type>>
    \/ /\ cn.key = "SEND_OPER" /\ op = "bufferIn"
       /\ cn.lastReq = cn.len /\ (in = <<>> \/ cn.len = 0)
    \/ /\ cn.key = "RECV_PARTIAL" /\ op = "streamBuf"
       /\ cn.rPos = 0 /\ cn.len \in 1 .. BUFFERSIZE - 1 /\ in # <<>>

\* After a handler, h: the next operation, unless the socket is broken.
Asked(cn, h, in, reqs, n) ==
    /\ h.socket = cn.socket /\ h.broken = cn.broken /\ Held(h, in, reqs, n)
    /\ h.ops = <<>> => h.broken
    /\ h.ops # <<>> => Pending(h, Head(h.ops), in, reqs, n)

\* A complete line is read, and the position goes behind its end.
LEMMA LineRead ==
    ASSUME NEW cn, Buffer(cn), cn.rPos + 3 <= cn.len,
           cn.buf[cn.rPos + 1] # "CR", cn.buf[cn.rPos + 2] = "CR"
    PROVE  GetLine(cn) = [size |-> 1, line |-> <<cn.buf[cn.rPos + 1]>>, rPos |-> cn.rPos + 3]
<1> DEFINE p == cn.rPos
           crs == {q \in p + 1 .. cn.len : cn.buf[q] = "CR"}
           line == SubSeq(cn.buf, p + 1, Min(crs) - 1)
<1>1. /\ p \in Nat /\ cn.len \in Nat /\ p + 3 <= cn.len /\ cn.len <= BUFFERSIZE
      /\ cn.buf \in Seq(Token) /\ Len(cn.buf) = BUFFERSIZE /\ BUFFERSIZE \in Nat
      /\ cn.buf[p + 1] # "CR" /\ cn.buf[p + 2] = "CR"
  BY ServerAssumption DEF Buffer
<1> HIDE DEF p
<1>2. /\ crs \in SUBSET Nat /\ crs # {} /\ p + 2 \in crs
      /\ \A q \in crs : q >= p + 2
  BY <1>1
<1>3. Min(crs) = p + 2
  <2> DEFINE m == Min(crs)
  <2>1. m \in crs /\ \A q \in crs : m <= q
    BY <1>2, MinFacts
  <2> HIDE DEF m, crs
  <2>2. m \in Nat /\ m >= p + 2 /\ m <= p + 2
    BY <1>2, <2>1
  <2>3. m = p + 2
    BY <1>1, <2>2
  <2>4. QED
    BY <2>3 DEF m
<1>4. line = <<cn.buf[p + 1]>>
  <2>1. Min(crs) - 1 = p + 1
    BY <1>1, <1>3
  <2>2. p + 1 \in 1 .. Len(cn.buf)
    BY <1>1
  <2>3. SubSeq(cn.buf, p + 1, p + 1) = <<cn.buf[p + 1]>>
    BY <1>1, <2>2, OneElement
  <2>4. QED
    BY <2>1, <2>3
<1>5. Min({Min(crs) + 1, cn.len}) = p + 3
  <2> DEFINE T == {p + 3, cn.len}
             m == Min(T)
  <2>1. T \in SUBSET Nat /\ T # {} /\ p + 3 \in T /\ \A q \in T : p + 3 <= q
    BY <1>1
  <2>2. m \in T /\ \A q \in T : m <= q
    BY <2>1, MinFacts
  <2> HIDE DEF m, T
  <2>3. m = p + 3
    BY <1>1, <2>1, <2>2
  <2>4. Min(crs) + 1 = p + 3
    BY <1>1, <1>3
  <2>5. QED
    BY <2>3, <2>4 DEF m, T
<1>6. Len(line) = 1
  <2> DEFINE e == cn.buf[p + 1]
  <2> HIDE DEF e, line
  <2>1. line = <<e>>
    BY <1>4 DEF e
  <2>2. QED
    BY <2>1
<1>7. GetLine(cn) =
         IF p > cn.len THEN [size |-> 1, line |-> <<"?">>, rPos |-> p]
         ELSE IF crs = {} THEN [size |-> -1, line |-> <<>>, rPos |-> cn.len]
         ELSE [size |-> Len(line), line |-> line, rPos |-> Min({Min(crs) + 1, cn.len})]
  BY DEF GetLine, p
<1>8. crs # {} /\ ~ (p > cn.len)
  BY <1>1, <1>2
<1> HIDE DEF crs, line
<1>9. GetLine(cn) = [size |-> Len(line), line |-> line, rPos |-> Min({Min(crs) + 1, cn.len})]
  BY <1>7, <1>8, Zenon
<1>10. QED
  BY <1>4, <1>5, <1>6, <1>9, Zenon DEF p

\* Without a CR nothing is read.
LEMMA LineMissing ==
    ASSUME NEW cn, Buffer(cn), \A q \in cn.rPos + 1 .. cn.len : cn.buf[q] # "CR"
    PROVE  GetLine(cn) = [size |-> -1, line |-> <<>>, rPos |-> cn.len]
<1> DEFINE crs == {q \in cn.rPos + 1 .. cn.len : cn.buf[q] = "CR"}
           other == [size |-> Len(SubSeq(cn.buf, cn.rPos + 1, Min(crs) - 1)),
                     line |-> SubSeq(cn.buf, cn.rPos + 1, Min(crs) - 1),
                     rPos |-> Min({Min(crs) + 1, cn.len})]
<1>1. crs = {} /\ ~ (cn.rPos > cn.len)
  BY DEF Buffer
<1>2. GetLine(cn) =
         IF cn.rPos > cn.len THEN [size |-> 1, line |-> <<"?">>, rPos |-> cn.rPos]
         ELSE IF crs = {} THEN [size |-> -1, line |-> <<>>, rPos |-> cn.len]
         ELSE other
  BY DEF GetLine
<1> HIDE DEF crs, other
<1>3. QED
  BY <1>1, <1>2

\* The tokens in the buffer are those of the next request, as far as they have come.
LEMMA InBuffer ==
    ASSUME NEW cn, NEW in, NEW reqs \in Seq(Request), NEW n, Held(cn, in, reqs, n)
    PROVE  /\ n = Len(reqs) => cn.len = cn.lastReq /\ in = <<>>
           /\ n < Len(reqs) =>
                 LET x == Tokens(reqs[n + 1])
                     u == cn.len - cn.lastReq
                 IN  /\ Len(x) \in Nat /\ u \in Nat
                     /\ \A i \in 1 .. Len(x) : i <= u => cn.buf[cn.lastReq + i] = x[i]
                     /\ u < Len(x) => in # <<>>
<1>1. /\ n \in 0 .. Len(reqs) /\ in \in Seq(Token) /\ Len(in) \in Nat
      /\ cn.lastReq \in Nat /\ cn.len \in Nat /\ cn.lastReq <= cn.len
  BY DEF Held, Buffer
<1> DEFINE s == Stream(After(reqs, n))
           u == cn.len - cn.lastReq
<1>2. /\ u + Len(in) = Len(s) /\ u \in Nat
      /\ \A i \in 1 .. u : cn.buf[cn.lastReq + i] = s[i]
  BY <1>1 DEF Held, Match
<1> HIDE DEF u
<1>3. ASSUME n = Len(reqs) PROVE u = 0 /\ in = <<>>
  <2>1. After(reqs, n) \in Seq(Request) /\ Len(After(reqs, n)) = 0
    BY <1>1, <1>3, StreamSplit
  <2>2. s = <<>>
    BY <2>1, StreamSmall
  <2>3. Len(s) = 0
    BY <2>2
  <2> HIDE DEF s
  <2>4. u = 0 /\ Len(in) = 0
    BY <1>1, <1>2, <2>3
  <2>5. QED
    BY <1>1, <2>4
<1>4. ASSUME n < Len(reqs)
      PROVE  LET x == Tokens(reqs[n + 1])
             IN  /\ Len(x) \in Nat
                 /\ \A i \in 1 .. Len(x) : i <= u => cn.buf[cn.lastReq + i] = x[i]
                 /\ u < Len(x) => in # <<>>
  <2> DEFINE x == Tokens(reqs[n + 1])
             t == Stream(After(reqs, n + 1))
  <2>1. n \in 0 .. Len(reqs) - 1
    BY <1>1, <1>4
  <2>2. /\ reqs[n + 1] \in Request /\ Len(s) = Len(x) + Len(t) /\ t \in Seq(Token)
        /\ \A i \in 1 .. Len(x) : s[i] = x[i]
    BY <2>1, NextTokens
  <2>3. x \in Seq(Token) /\ Len(x) \in Nat /\ Len(t) \in Nat
    BY <2>2, TokensFacts
  <2> HIDE DEF x, t, s
  <2>4. \A i \in 1 .. Len(x) : i <= u => cn.buf[cn.lastReq + i] = x[i]
    BY <1>2, <2>2, <2>3
  <2>5. u < Len(x) => Len(in) > 0
    BY <1>1, <1>2, <2>2, <2>3
  <2>6. u < Len(x) => in # <<>>
    BY <2>5
  <2>7. QED
    BY <2>3, <2>4, <2>6 DEF x
<1>5. u = 0 => cn.len = cn.lastReq
  BY <1>1 DEF u
<1>6. QED
  BY <1>2, <1>3, <1>4, <1>5 DEF u

(***************************************************************************)
(* What the handlers leave behind.                                         *)
(***************************************************************************)
SameData(h, cn) ==
    /\ h.socket = cn.socket /\ h.broken = cn.broken /\ h.buf = cn.buf /\ h.rPos = cn.rPos
    /\ h.len = cn.len /\ h.lastReq = cn.lastReq /\ h.requestType = cn.requestType

LEMMA PostFields ==
    ASSUME NEW cn, IsConnection(cn), cn.ops = <<>>, NEW key
    PROVE  LET h == PostCompletionPort(cn, key)
           IN  SameData(h, cn) /\ h.key = key /\ h.ops = <<"post">> /\ Head(h.ops) = "post"
<1>1. Append(cn.ops, "post") = <<"post">> /\ Head(<<"post">>) = "post"
  OBVIOUS
<1>2. QED
  BY <1>1 DEF PostCompletionPort, SameData, IsConnection, Fields

LEMMA ReceiveFields ==
    ASSUME NEW cn, IsConnection(cn), cn.ops = <<>>, NEW op
    PROVE  LET h == Receive(cn, op)
           IN  /\ SameData(h, cn) /\ h.key = cn.key
               /\ h.ops = <<>> => h.broken
               /\ h.ops # <<>> => Head(h.ops) = op
<1>1. Append(cn.ops, op) = <<op>> /\ Head(<<op>>) = op
  OBVIOUS
<1>2. CASE cn.broken
  BY <1>2 DEF Receive, SameData
<1>3. CASE ~ cn.broken
  <2>1. Receive(cn, op) = [cn EXCEPT !.ops = <<op>>]
    BY <1>1, <1>3 DEF Receive
  <2>2. QED
    BY <1>1, <2>1 DEF SameData, IsConnection, Fields
<1>4. QED
  BY <1>2, <1>3

\* What is said of the data does not depend on the operations asked for.
LEMMA HeldSame ==
    ASSUME NEW cn, NEW h, SameData(h, cn), NEW in, NEW reqs, NEW n
    PROVE  /\ Held(h, in, reqs, n) <=> Held(cn, in, reqs, n)
           /\ Cut(h, in, reqs) <=> Cut(cn, in, reqs)
BY DEF SameData, Held, Buffer, Match, Cut

\* AdaptBufferIn: the unserved bytes are in front, and there is room behind them.
LEMMA AdaptAsked ==
    ASSUME NEW cn, IsConnection(cn), cn.ops = <<>>,
           NEW in, NEW reqs, NEW n, Held(cn, in, reqs, n),
           cn.len - cn.lastReq \in 1 .. BUFFERSIZE - 1, in # <<>>
    PROVE  Asked(cn, AdaptBufferIn(cn), in, reqs, n)
<1> DEFINE kept == SubSeq(cn.buf, cn.lastReq + 1, cn.len)
           u == cn.len - cn.lastReq
           behind == SubSeq(cn.buf, Len(kept) + 1, BUFFERSIZE)
           buf == kept \o behind
           next == [cn EXCEPT !.buf = buf, !.len = Len(kept), !.lastReq = 0, !.rPos = 0,
                              !.key = "RECV_PARTIAL"]
<1>1. /\ cn.buf \in Seq(Token) /\ Len(cn.buf) = BUFFERSIZE /\ BUFFERSIZE \in Nat
      /\ cn.lastReq \in Nat /\ cn.len \in Nat /\ cn.lastReq <= cn.len /\ cn.len <= BUFFERSIZE
      /\ u \in Nat /\ u \in 1 .. BUFFERSIZE - 1
  BY ServerAssumption DEF Held, Buffer
<1>2. /\ kept \in Seq(Token) /\ Len(kept) = u
      /\ \A i \in 1 .. u : kept[i] = cn.buf[cn.lastReq + i]
  <2> DEFINE a == cn.lastReq
             b == cn.len
             s == cn.buf
  <2>1. /\ s \in Seq(Token) /\ a \in Nat /\ b \in Nat /\ a <= b /\ b <= Len(s)
    BY <1>1
  <2> HIDE DEF a, b, s
  <2>2. /\ SubSeq(s, a + 1, b) \in Seq(Token) /\ Len(SubSeq(s, a + 1, b)) = b - a
        /\ \A i \in 1 .. b - a : SubSeq(s, a + 1, b)[i] = s[a + i]
    BY <2>1
  <2>3. QED
    BY <2>2 DEF a, b, s
<1> HIDE DEF kept, u
<1>3. behind \in Seq(Token) /\ Len(behind) = BUFFERSIZE - u
  BY <1>1, <1>2
<1> HIDE DEF behind
<1>4. /\ buf \in Seq(Token) /\ Len(buf) = BUFFERSIZE
      /\ \A i \in 1 .. u : buf[i] = cn.buf[cn.lastReq + i]
  BY <1>1, <1>2, <1>3, SMTT(30)
<1>5. AdaptBufferIn(cn) = Receive(next, "streamBuf")
  BY DEF AdaptBufferIn, kept, behind
<1> HIDE DEF buf
<1>6. /\ IsConnection(next) /\ next.ops = <<>> /\ next.socket = cn.socket
      /\ next.broken = cn.broken /\ next.buf = buf /\ next.len = u /\ next.lastReq = 0
      /\ next.rPos = 0 /\ next.key = "RECV_PARTIAL"
  BY <1>2 DEF IsConnection, Fields
<1> HIDE DEF next
<1>7. Held(next, in, reqs, n)
  <2>1. Buffer(next)
    BY <1>1, <1>4, <1>6 DEF Buffer
  <2>2. Match(next, in, Stream(After(reqs, n)))
    <3>1. next.len - next.lastReq = u
      BY <1>1, <1>6
    <3>2. \A i \in 1 .. u : next.buf[next.lastReq + i] = cn.buf[cn.lastReq + i]
      BY <1>1, <1>4, <1>6
    <3>3. QED
      BY <3>1, <3>2 DEF Held, Match, u
  <2>3. QED
    BY <2>1, <2>2 DEF Held
<1> DEFINE h == Receive(next, "streamBuf")
<1>8. /\ SameData(h, next) /\ h.key = next.key
      /\ h.ops = <<>> => h.broken
      /\ h.ops # <<>> => Head(h.ops) = "streamBuf"
  BY <1>6, ReceiveFields
<1> HIDE DEF h
<1>9. Held(h, in, reqs, n)
  BY <1>7, <1>8, HeldSame
<1>10. h.ops # <<>> => Pending(h, Head(h.ops), in, reqs, n)
  BY <1>1, <1>6, <1>8 DEF Pending, SameData
<1>11. QED
  BY <1>5, <1>6, <1>8, <1>9, <1>10 DEF Asked, SameData, h

\* ReadFromSocket with nothing unserved in the buffer.
LEMMA ReadAsked ==
    ASSUME NEW cn, IsConnection(cn), cn.ops = <<>>,
           NEW in, NEW reqs, NEW n, Held(cn, in, reqs, n),
           cn.lastReq = cn.len, in = <<>> \/ cn.len = 0
    PROVE  Asked(cn, ReadFromSocket(cn), in, reqs, n)
<1> DEFINE next == [cn EXCEPT !.key = "SEND_OPER"]
           h == Receive(next, "bufferIn")
<1>1. cn.rPos = cn.lastReq
  BY DEF Held, Buffer
<1>2. ReadFromSocket(cn) = h
  BY <1>1 DEF ReadFromSocket
<1>3. /\ IsConnection(next) /\ next.ops = <<>> /\ SameData(next, cn)
      /\ next.key = "SEND_OPER"
  BY DEF IsConnection, Fields, SameData
<1> HIDE DEF next
<1>4. /\ SameData(h, next) /\ h.key = next.key
      /\ h.ops = <<>> => h.broken
      /\ h.ops # <<>> => Head(h.ops) = "bufferIn"
  BY <1>3, ReceiveFields
<1> HIDE DEF h
<1>5. Held(h, in, reqs, n)
  BY <1>3, <1>4, HeldSame
<1>6. h.ops # <<>> => Pending(h, Head(h.ops), in, reqs, n)
  BY <1>3, <1>4 DEF Pending, SameData
<1>7. QED
  BY <1>2, <1>3, <1>4, <1>5, <1>6 DEF Asked, SameData

\* The position at the end of the buffer changes nothing that is held.
LEMMA EndFields ==
    ASSUME NEW cn, IsConnection(cn), cn.ops = <<>>, cn.len \in Nat
    PROVE  LET read == [cn EXCEPT !.rPos = cn.len]
           IN  /\ IsConnection(read) /\ read.ops = <<>> /\ read.rPos = cn.len
               /\ read.socket = cn.socket /\ read.broken = cn.broken /\ read.buf = cn.buf
               /\ read.len = cn.len /\ read.lastReq = cn.lastReq
BY DEF IsConnection, Fields

\* ReadFromSocket when a part of the next request has come: the rest is read.
LEMMA MoreAsked ==
    ASSUME NEW cn, IsConnection(cn), cn.ops = <<>>,
           NEW in, NEW reqs, Plain(reqs), NEW n, Held(cn, in, reqs, n), n < Len(reqs),
           cn.lastReq < cn.len, cn.len - cn.lastReq < Len(Tokens(reqs[n + 1]))
    PROVE  Asked(cn, ReadFromSocket([cn EXCEPT !.rPos = cn.len]), in, reqs, n)
<1> DEFINE read == [cn EXCEPT !.rPos = cn.len]
           x == Tokens(reqs[n + 1])
<1>1. /\ cn.len \in Nat /\ cn.lastReq \in Nat /\ n \in Nat /\ n + 1 \in 1 .. Len(reqs)
  BY DEF Held, Buffer, Plain
<1>2. reqs \in Seq(Request)
  BY DEF Plain
<1>3. /\ IsConnection(read) /\ read.ops = <<>> /\ read.rPos = cn.len
      /\ read.socket = cn.socket /\ read.broken = cn.broken /\ read.buf = cn.buf
      /\ read.len = cn.len /\ read.lastReq = cn.lastReq
  BY <1>1, EndFields
<1> HIDE DEF read
<1>4. Held(read, in, reqs, n)
  BY <1>1, <1>3 DEF Held, Buffer, Match
<1>5. in # <<>> /\ Len(x) \in Nat /\ Len(x) <= BUFFERSIZE
  BY <1>1, <1>2, InBuffer DEF Plain
<1> HIDE DEF x
<1>6. read.len - read.lastReq \in 1 .. BUFFERSIZE - 1
  BY <1>1, <1>3, <1>5, ServerAssumption DEF x
<1>7. ReadFromSocket(read) = AdaptBufferIn(read)
  BY <1>1, <1>3 DEF ReadFromSocket
<1>8. Asked(read, AdaptBufferIn(read), in, reqs, n)
  BY <1>3, <1>4, <1>5, <1>6, AdaptAsked
<1>9. QED
  BY <1>3, <1>7, <1>8 DEF Asked, read

\* A request's type is no line end.
LEMMA TypeToken == ASSUME NEW r \in Request PROVE r.type # "CR" /\ r.type \in MessageTypes
BY DEF Request, MessageTypes, WithArgument

\* ParseType: the request's type is read, or the rest of it is read from the socket.
LEMMA InputAsked ==
    ASSUME NEW cn, IsConnection(cn), cn.ops = <<>>,
           NEW in, NEW reqs, Plain(reqs), NEW n, Held(cn, in, reqs, n),
           cn.rPos = cn.lastReq, Cut(cn, in, reqs)
    PROVE  Asked(cn, ProcessInputRequest(cn), in, reqs, n)
<1> DEFINE g == GetLine(cn)
           read == [cn EXCEPT !.rPos = g.rPos]
           typed == [read EXCEPT !.requestType = g.line]
           last == [cn EXCEPT !.rPos = cn.len]
           u == cn.len - cn.lastReq
           x == Tokens(reqs[n + 1])
<1>1. /\ Buffer(cn) /\ cn.len \in Nat /\ cn.lastReq \in Nat /\ cn.lastReq <= cn.len
      /\ u \in Nat /\ n \in 0 .. Len(reqs) /\ in \in Seq(Token)
  BY DEF Held, Buffer
<1>2. reqs \in Seq(Request) /\ Len(reqs) \in Nat
  BY DEF Plain
<1>3. ProcessInputRequest(cn) =
         CASE g.size > 0 -> PostCompletionPort(typed, "RECV_OPER")
           [] g.size = -1 -> ReadFromSocket(read)
           [] OTHER -> read
  BY DEF ProcessInputRequest
<1>4. ASSUME \A q \in cn.rPos + 1 .. cn.len : cn.buf[q] # "CR"
      PROVE  ProcessInputRequest(cn) = ReadFromSocket(last)
  <2>1. g = [size |-> -1, line |-> <<>>, rPos |-> cn.len]
    BY <1>1, <1>4, LineMissing
  <2>2. g.size = -1 /\ g.rPos = cn.len
    BY <2>1
  <2>3. read = last
    BY <2>2
  <2>4. ~ (g.size > 0)
    BY <2>2
  <2> HIDE DEF g, read, last, typed
  <2>5. QED
    BY <1>3, <2>2, <2>3, <2>4
<1>5. CASE u = 0
  <2>1. cn.len = cn.lastReq
    BY <1>1, <1>5
  <2>2. \A q \in cn.rPos + 1 .. cn.len : cn.buf[q] # "CR"
    BY <1>1, <2>1
  <2>3. in = <<>> \/ cn.len = 0
    <3>1. SUFFICES ASSUME in # <<>>, cn.len # 0 PROVE FALSE
      OBVIOUS
    <3>2. Len(Stream(reqs)) - Len(in) \notin Ends(reqs)
      BY <3>1 DEF Cut
    <3>3. Len(in) = Len(Stream(After(reqs, n)))
      <4>1. u + Len(in) = Len(Stream(After(reqs, n))) /\ Len(in) \in Nat
        BY <1>1 DEF Held, Match
      <4> HIDE DEF u
      <4>2. QED
        BY <1>5, <4>1
    <3>4. QED
      BY <1>1, <1>2, <3>2, <3>3, EndTokens
  <2>4. /\ IsConnection(last) /\ last.ops = <<>> /\ last.rPos = cn.len
        /\ last.socket = cn.socket /\ last.broken = cn.broken /\ last.buf = cn.buf
        /\ last.len = cn.len /\ last.lastReq = cn.lastReq
    BY <1>1, EndFields
  <2>5. ProcessInputRequest(cn) = ReadFromSocket(last)
    BY <1>4, <2>2
  <2> HIDE DEF last
  <2>6. Held(last, in, reqs, n)
    BY <1>1, <2>4 DEF Held, Buffer, Match
  <2>7. Asked(last, ReadFromSocket(last), in, reqs, n)
    BY <2>1, <2>3, <2>4, <2>6, ReadAsked
  <2>8. QED
    BY <2>4, <2>5, <2>7 DEF Asked
<1>6. CASE u # 0
  <2>1. n < Len(reqs) /\ n \in Nat /\ reqs[n + 1] \in Request
    <3>1. n = Len(reqs) => cn.len = cn.lastReq
      BY <1>2, InBuffer, ZenonT(30)
    <3>2. n # Len(reqs)
      BY <1>1, <1>6, <3>1
    <3>3. QED
      BY <1>1, <1>2, <3>2
  <2>2. /\ Len(x) \in Nat /\ \A i \in 1 .. Len(x) : i <= u => cn.buf[cn.lastReq + i] = x[i]
        /\ u < Len(x) => in # <<>>
    <3>1. LET y == Tokens(reqs[n + 1])
              v == cn.len - cn.lastReq
          IN  /\ Len(y) \in Nat /\ v \in Nat
              /\ \A i \in 1 .. Len(y) : i <= v => cn.buf[cn.lastReq + i] = y[i]
              /\ v < Len(y) => in # <<>>
      BY <1>2, <2>1, InBuffer, Zenon
    <3>2. QED
      BY <3>1
  <2>3. /\ Len(x) >= 3 /\ x[1] = reqs[n + 1].type /\ x[2] = "CR" /\ x[1] # "CR"
    BY <2>1, TokensFacts, TypeToken
  <2> HIDE DEF x, u
  <2>4. CASE u >= 3
    <3>1. cn.buf[cn.lastReq + 1] = x[1] /\ cn.buf[cn.lastReq + 2] = "CR"
      <4>1. 1 \in 1 .. Len(x) /\ 2 \in 1 .. Len(x) /\ 1 <= u /\ 2 <= u
        BY <1>1, <2>2, <2>3, <2>4 DEF u
      <4>2. QED
        BY <2>2, <2>3, <4>1
    <3>2. cn.rPos + 3 <= cn.len
      BY <1>1, <2>4 DEF u
    <3>3. g = [size |-> 1, line |-> <<cn.buf[cn.rPos + 1]>>, rPos |-> cn.rPos + 3]
      BY <1>1, <2>3, <3>1, <3>2, LineRead
    <3>4. g.size = 1 /\ g.line = <<reqs[n + 1].type>> /\ g.rPos = cn.lastReq + 3
      BY <2>3, <3>1, <3>3
    <3>5. g.size > 0
      BY <3>4
    <3> HIDE DEF g
    <3>6. /\ IsConnection(typed) /\ typed.ops = <<>> /\ typed.rPos = cn.lastReq + 3
          /\ typed.socket = cn.socket /\ typed.broken = cn.broken /\ typed.buf = cn.buf
          /\ typed.len = cn.len /\ typed.lastReq = cn.lastReq
          /\ typed.requestType = <<reqs[n + 1].type>>
      BY <3>4 DEF IsConnection, Fields
    <3> HIDE DEF typed, read
    <3> DEFINE h == PostCompletionPort(typed, "RECV_OPER")
    <3>7. ProcessInputRequest(cn) = h
      BY <1>3, <3>5
    <3>8. /\ SameData(h, typed) /\ h.key = "RECV_OPER" /\ h.ops = <<"post">>
          /\ Head(h.ops) = "post"
      BY <3>6, PostFields
    <3> HIDE DEF h
    <3>9. Held(typed, in, reqs, n) /\ Cut(typed, in, reqs)
      <4>1. Buffer(typed)
        <5>1. typed.rPos \in Nat /\ typed.lastReq <= typed.rPos /\ typed.rPos <= typed.len
          BY <1>1, <3>2, <3>6
        <5>2. QED
          BY <1>1, <3>6, <5>1 DEF Buffer
      <4>2. QED
        BY <1>1, <3>6, <4>1 DEF Held, Match, Cut
    <3>10. Held(h, in, reqs, n) /\ Cut(h, in, reqs)
      BY <3>8, <3>9, HeldSame
    <3>11. Pending(h, "post", in, reqs, n)
      BY <2>1, <3>6, <3>8, <3>10 DEF Pending, SameData
    <3>12. h.ops # <<>>
      BY <3>8
    <3>13. QED
      BY <3>6, <3>7, <3>8, <3>10, <3>11, <3>12 DEF Asked, SameData
  <2>5. CASE ~ u >= 3
    <3>1. in # <<>> /\ u < Len(x)
      BY <1>1, <2>2, <2>3, <2>5 DEF u
    <3>2. cn.buf[cn.len] # "CR"
      BY <3>1 DEF Cut
    <3>3. u = 1
      <4>1. u \in Nat /\ cn.len = cn.lastReq + u
        BY <1>1 DEF u
      <4>2. u # 2
        BY <2>2, <2>3, <3>2, <4>1
      <4>3. QED
        BY <1>6, <2>5, <4>1, <4>2
    <3>4. \A q \in cn.rPos + 1 .. cn.len : cn.buf[q] # "CR"
      BY <1>1, <3>2, <3>3 DEF u
    <3>5. ProcessInputRequest(cn) = ReadFromSocket(last)
      BY <1>4, <3>4
    <3>6. cn.lastReq < cn.len
      BY <1>1, <3>3 DEF u
    <3>7. Asked(cn, ReadFromSocket(last), in, reqs, n)
      BY <2>1, <3>1, <3>6, MoreAsked DEF u, x
    <3>8. QED
      BY <3>5, <3>7
  <2>6. QED
    BY <2>4, <2>5
<1>7. QED
  BY <1>5, <1>6

\* A processor that has read the request: lastReq goes behind it.
LEMMA DoneAsked ==
    ASSUME NEW cn, IsConnection(cn), cn.ops = <<>>,
           NEW in, NEW reqs, Plain(reqs), NEW n, Held(cn, in, reqs, n), n < Len(reqs),
           cn.rPos = cn.lastReq + Len(Tokens(reqs[n + 1])), Cut(cn, in, reqs)
    PROVE  Asked(cn, PostCompletionPort([cn EXCEPT !.lastReq = cn.rPos], "SEND_OPER"),
                 in, reqs, n + 1)
<1> DEFINE next == [cn EXCEPT !.lastReq = cn.rPos]
           h == PostCompletionPort(next, "SEND_OPER")
           s == Stream(After(reqs, n))
           t == Stream(After(reqs, n + 1))
           k == Len(Tokens(reqs[n + 1]))
           u == cn.len - cn.lastReq
           v == next.len - next.lastReq
<1>1. /\ cn.len \in Nat /\ cn.lastReq \in Nat /\ cn.rPos \in Nat
      /\ cn.lastReq <= cn.rPos /\ cn.rPos <= cn.len
      /\ n \in 0 .. Len(reqs) /\ in \in Seq(Token) /\ Len(in) \in Nat
      /\ reqs \in Seq(Request) /\ Len(reqs) \in Nat
  BY DEF Held, Buffer, Plain
<1>2. /\ s \in Seq(Token) /\ t \in Seq(Token) /\ Len(s) = k + Len(t)
      /\ \A i \in 1 .. Len(t) : s[k + i] = t[i]
  <2>1. n \in 0 .. Len(reqs) - 1
    BY <1>1
  <2>2. QED
    BY <1>1, <2>1, NextTokens
<1>3. /\ u + Len(in) = Len(s)
      /\ \A i \in 1 .. u : cn.buf[cn.lastReq + i] = s[i]
      /\ \A i \in 1 .. Len(in) : in[i] = s[u + i]
  BY DEF Held, Match
<1>4. /\ IsConnection(next) /\ next.ops = <<>>
      /\ next.socket = cn.socket /\ next.broken = cn.broken /\ next.buf = cn.buf
      /\ next.len = cn.len /\ next.lastReq = cn.rPos /\ next.rPos = cn.rPos
  BY DEF IsConnection, Fields
<1>5. k \in Nat
  <2>1. reqs[n + 1] \in Request
    BY <1>1
  <2>2. QED
    BY <2>1, TokensFacts
<1> HIDE DEF next, s, t, k
<1>6. /\ v = u - k /\ v \in Nat /\ u \in Nat /\ Len(t) \in Nat /\ cn.rPos = cn.lastReq + k
  <2>1. cn.rPos = cn.lastReq + k
    BY DEF k
  <2>2. v = cn.len - cn.rPos
    BY <1>4
  <2>3. Len(t) \in Nat
    BY <1>2
  <2>4. u \in Nat /\ cn.len - cn.rPos \in Nat /\ cn.len - cn.rPos = u - k
    <3> DEFINE a == cn.len
               b == cn.lastReq
               r == cn.rPos
    <3>1. a \in Nat /\ b \in Nat /\ r = b + k /\ k \in Nat /\ r <= a
      BY <1>1, <1>5, <2>1
    <3> HIDE DEF a, b, r
    <3>2. a - b \in Nat /\ a - r \in Nat /\ a - r = (a - b) - k
      BY <3>1
    <3>3. QED
      BY <3>2 DEF a, b, r
  <2> HIDE DEF u, v
  <2>5. QED
    BY <2>1, <2>2, <2>3, <2>4
<1> HIDE DEF u, v
<1>7. Match(next, in, t)
  <2>1. v + Len(in) = Len(t)
    BY <1>1, <1>2, <1>3, <1>5, <1>6
  <2>2. ASSUME NEW i \in 1 .. v PROVE next.buf[next.lastReq + i] = t[i]
    <3>1. k + i \in 1 .. u /\ i \in 1 .. Len(t)
      BY <1>1, <1>5, <1>6, <2>1
    <3>2. cn.buf[cn.lastReq + (k + i)] = s[k + i] /\ s[k + i] = t[i]
      BY <1>2, <1>3, <3>1
    <3>3. cn.lastReq + (k + i) = cn.rPos + i
      BY <1>1, <1>5, <1>6, SMTT(30)
    <3>4. QED
      BY <1>4, <3>2, <3>3
  <2>3. ASSUME NEW i \in 1 .. Len(in) PROVE in[i] = t[v + i]
    <3>1. v + i \in 1 .. Len(t) /\ u + i = k + (v + i)
      BY <1>1, <1>5, <1>6, <2>1
    <3>2. s[k + (v + i)] = t[v + i]
      BY <1>2, <3>1
    <3>3. QED
      BY <1>3, <3>1, <3>2
  <2>4. QED
    BY <2>1, <2>2, <2>3 DEF Match, v
<1>8. Held(next, in, reqs, n + 1)
  <2>1. Buffer(next)
    BY <1>1, <1>4 DEF Held, Buffer
  <2>2. n + 1 \in 0 .. Len(reqs)
    BY <1>1
  <2>3. QED
    BY <1>1, <1>7, <2>1, <2>2 DEF Held, t
<1>9. Cut(next, in, reqs)
  BY <1>4 DEF Cut
<1>10. SameData(h, next) /\ h.key = "SEND_OPER" /\ h.ops = <<"post">> /\ Head(h.ops) = "post"
  BY <1>4, PostFields
<1> HIDE DEF h
<1>11. Held(h, in, reqs, n + 1) /\ Cut(h, in, reqs)
  BY <1>8, <1>9, <1>10, HeldSame
<1>12. Pending(h, "post", in, reqs, n + 1)
  BY <1>4, <1>10, <1>11 DEF Pending, SameData
<1>13. h.ops # <<>>
  BY <1>10
<1>14. QED
  BY <1>4, <1>10, <1>11, <1>12, <1>13 DEF Asked, SameData, h, next

\* A processor carries out the next request, or reads on when its name has not come.
LEMMA OperAsked ==
    ASSUME NEW cn, IsConnection(cn), cn.ops = <<>>,
           NEW in, NEW reqs, Plain(reqs), NEW n, Held(cn, in, reqs, n), n < Len(reqs),
           cn.rPos = cn.lastReq + 3, Cut(cn, in, reqs), cn.requestType = <<reqs[n + 1].type>>,
           reqs[n + 1].type = "LIST_LOCATIONS" => reqs[n + 1].arg \in store
    PROVE  LET p == Processor(cn)
           IN  \/ p.done = <<>> /\ Asked(cn, AfterProcessor(p), in, reqs, n)
               \/ p.done = <<reqs[n + 1]>> /\ Asked(cn, AfterProcessor(p), in, reqs, n + 1)
<1> DEFINE r == reqs[n + 1]
           x == Tokens(r)
           u == cn.len - cn.lastReq
           g == GetLine(cn)
           arg == IF g.size > 0 THEN g.line[1] ELSE "none"
           read == [cn EXCEPT !.rPos = g.rPos]
           last == [cn EXCEPT !.rPos = cn.len]
           p == Processor(cn)
<1>1. /\ Buffer(cn) /\ cn.len \in Nat /\ cn.lastReq \in Nat /\ cn.lastReq + 3 <= cn.len
      /\ n \in Nat /\ in \in Seq(Token)
      /\ reqs \in Seq(Request) /\ Len(reqs) \in Nat /\ n + 1 \in 1 .. Len(reqs)
  BY DEF Held, Buffer, Plain
<1>2. r \in Request /\ cn.requestType[1] = r.type /\ r = [type |-> r.type, arg |-> r.arg]
      /\ r.type \in MessageTypes
  <2>1. r \in Request
    BY <1>1
  <2>2. r = [type |-> r.type, arg |-> r.arg]
    BY <2>1 DEF Request
  <2>3. cn.requestType[1] = r.type
    OBVIOUS
  <2>4. QED
    BY <2>1, <2>2, <2>3, TypeToken
<1>3. /\ Len(x) \in Nat /\ u \in Nat
      /\ \A i \in 1 .. Len(x) : i <= u => cn.buf[cn.lastReq + i] = x[i]
      /\ u < Len(x) => in # <<>>
  BY <1>1, InBuffer, Zenon
<1>4. /\ IF r.type \in WithArgument THEN r.arg \notin {"CR", "LF", "none"} ELSE r.arg = "none"
      /\ Len(x) = IF r.type \in WithArgument THEN 6 ELSE 3
      /\ r.type \in WithArgument => x[4] = r.arg /\ x[5] = "CR"
  BY <1>1, <1>2, TokensFacts DEF Plain
<1>5. p = IF r.type = "LIST_FILES"
          THEN [cn |-> cn, done |-> <<[type |-> r.type, arg |-> "none"]>>, result |-> 0]
          ELSE IF g.size = -1 THEN [cn |-> read, done |-> <<>>, result |-> -1]
          ELSE [cn |-> read, done |-> <<[type |-> r.type, arg |-> arg]>>,
                result |-> IF r.type # "LIST_LOCATIONS" THEN g.size
                           ELSE IF arg \in store THEN 1 ELSE -1]
  BY <1>2 DEF Processor
<1>6. AfterProcessor(p) =
         IF p.result = -1
         THEN ReadFromSocket(p.cn)
         ELSE PostCompletionPort([p.cn EXCEPT !.lastReq = p.cn.rPos], "SEND_OPER")
  BY DEF AfterProcessor
<1> HIDE DEF r, x, u, p
<1>7. CASE r.type = "LIST_FILES"
  <2>1. /\ p.cn = cn /\ p.done = <<[type |-> r.type, arg |-> "none"]>> /\ p.result = 0
    <3> HIDE DEF g, read, arg
    <3> QED BY <1>5, <1>7
  <2>2. r.type \notin WithArgument
    BY <1>7 DEF WithArgument
  <2>3. p.done = <<r>> /\ Len(x) = 3
    BY <1>2, <1>4, <2>1, <2>2
  <2>4. AfterProcessor(p) = PostCompletionPort([cn EXCEPT !.lastReq = cn.rPos], "SEND_OPER")
    BY <1>6, <2>1
  <2>5. Asked(cn, PostCompletionPort([cn EXCEPT !.lastReq = cn.rPos], "SEND_OPER"),
              in, reqs, n + 1)
    BY <2>3, DoneAsked DEF r, x
  <2>6. QED
    BY <2>3, <2>4, <2>5 DEF p, r
<1>8. CASE r.type # "LIST_FILES"
  <2>1. r.type \in WithArgument
    BY <1>2, <1>8 DEF MessageTypes
  <2>2. /\ r.arg \notin {"CR", "LF", "none"} /\ Len(x) = 6 /\ x[4] = r.arg /\ x[5] = "CR"
    BY <1>4, <2>1
  <2>3. CASE u >= 6
    <3>1. cn.buf[cn.rPos + 1] = r.arg /\ cn.buf[cn.rPos + 2] = "CR"
      <4>1. 4 \in 1 .. Len(x) /\ 5 \in 1 .. Len(x) /\ 4 <= u /\ 5 <= u
        BY <1>3, <2>2, <2>3
      <4>2. cn.buf[cn.lastReq + 4] = r.arg /\ cn.buf[cn.lastReq + 5] = "CR"
        BY <1>3, <2>2, <4>1
      <4>3. cn.lastReq + 4 = cn.rPos + 1 /\ cn.lastReq + 5 = cn.rPos + 2
        BY <1>1, SMTT(30)
      <4>4. QED
        BY <4>2, <4>3
    <3>2. cn.rPos + 3 <= cn.len /\ cn.rPos + 3 = cn.lastReq + 6
      BY <1>1, <2>3, SMTT(30) DEF u
    <3>3. g = [size |-> 1, line |-> <<cn.buf[cn.rPos + 1]>>, rPos |-> cn.rPos + 3]
      BY <1>1, <2>2, <3>1, <3>2, LineRead
    <3>4. g.size = 1 /\ g.line = <<r.arg>> /\ g.rPos = cn.lastReq + 6
      BY <3>1, <3>2, <3>3
    <3> HIDE DEF g
    <3>5. arg = r.arg /\ ~ (g.size = -1)
      BY <3>4
    <3>6. /\ IsConnection(read) /\ read.ops = <<>> /\ read.rPos = cn.lastReq + 6
          /\ read.socket = cn.socket /\ read.broken = cn.broken /\ read.buf = cn.buf
          /\ read.len = cn.len /\ read.lastReq = cn.lastReq
      BY <3>4 DEF IsConnection, Fields
    <3> HIDE DEF read, arg
    <3>7. /\ p.cn = read /\ p.done = <<[type |-> r.type, arg |-> r.arg]>> /\ p.result = 1
      <4>1. CASE r.type = "LIST_LOCATIONS"
        <5>1. r.arg \in store
          BY <4>1 DEF r
        <5>2. QED
          BY <1>5, <1>8, <3>5, <4>1, <5>1
      <4>2. CASE r.type # "LIST_LOCATIONS"
        BY <1>5, <1>8, <3>4, <3>5, <4>2
      <4>3. QED
        BY <4>1, <4>2
    <3>8. p.done = <<r>>
      BY <1>2, <3>7
    <3>9. Held(read, in, reqs, n) /\ Cut(read, in, reqs)
      <4>1. Buffer(read)
        <5>1. read.rPos \in Nat /\ read.lastReq <= read.rPos /\ read.rPos <= read.len
          BY <1>1, <3>2, <3>6
        <5>2. QED
          BY <1>1, <3>6, <5>1 DEF Buffer
      <4>2. QED
        BY <3>6, <4>1 DEF Held, Match, Cut
    <3>10. Asked(read, PostCompletionPort([read EXCEPT !.lastReq = read.rPos], "SEND_OPER"),
                 in, reqs, n + 1)
      <4>1. read.rPos = read.lastReq + Len(Tokens(reqs[n + 1]))
        BY <2>2, <3>6 DEF x, r
      <4>2. QED
        BY <3>6, <3>9, <4>1, DoneAsked
    <3>11. AfterProcessor(p) = PostCompletionPort([read EXCEPT !.lastReq = read.rPos], "SEND_OPER")
      BY <1>6, <3>7
    <3>12. Asked(cn, AfterProcessor(p), in, reqs, n + 1)
      BY <3>6, <3>10, <3>11 DEF Asked
    <3>13. QED
      BY <3>8, <3>12 DEF p, r
  <2>4. CASE ~ u >= 6
    <3>1. in # <<>> /\ u \in 3 .. 5
      <4>1. u \in 3 .. 5
        <5>1. /\ cn.len \in Nat /\ cn.lastReq \in Nat /\ cn.lastReq + 3 <= cn.len
              /\ u = cn.len - cn.lastReq
          BY <1>1, Zenon DEF u
        <5> HIDE DEF u
        <5>2. u \in Int /\ u >= 3
          BY <5>1
        <5>3. QED
          BY <2>4, <5>2
      <4>2. QED
        BY <1>3, <2>2, <4>1
    <3>2. cn.buf[cn.len] # "CR"
      BY <3>1 DEF Cut
    <3>3. cn.len = cn.lastReq + u /\ cn.rPos = cn.lastReq + 3
      BY <1>1 DEF u
    <3>4. u # 5
      <4>1. 5 \in 1 .. Len(x)
        BY <2>2
      <4>2. u = 5 => cn.buf[cn.lastReq + 5] = "CR"
        BY <1>3, <2>2, <4>1
      <4>3. QED
        BY <3>2, <3>3, <4>2
    <3>5. \A q \in cn.rPos + 1 .. cn.len : cn.buf[q] # "CR"
      BY <1>1, <3>1, <3>2, <3>3, <3>4
    <3>6. g = [size |-> -1, line |-> <<>>, rPos |-> cn.len]
      BY <1>1, <3>5, LineMissing
    <3>7. g.size = -1 /\ read = last
      BY <3>6
    <3> HIDE DEF g, read, arg, last
    <3>8. p.cn = last /\ p.done = <<>> /\ p.result = -1
      BY <1>5, <1>8, <3>7
    <3>9. AfterProcessor(p) = ReadFromSocket(last)
      BY <1>6, <3>8
    <3>10. cn.lastReq < cn.len /\ cn.len - cn.lastReq < Len(Tokens(reqs[n + 1]))
      BY <1>1, <2>2, <3>1, <3>3, SMTT(30) DEF x, r
    <3>11. Asked(cn, ReadFromSocket(last), in, reqs, n)
      BY <3>10, MoreAsked DEF last
    <3>12. QED
      BY <3>8, <3>9, <3>11 DEF p
  <2>5. QED
    BY <2>3, <2>4
<1>9. QED
  BY <1>7, <1>8

\* What a read has brought when it completes.
Brought(b, cn, op, in, reqs) ==
    IF op = "post" THEN b = -1
    ELSE LET room == IF op = "bufferIn" THEN BUFFERSIZE ELSE BUFFERSIZE - cn.len
         IN  /\ b \in 0 .. Len(in) /\ b <= room
             /\ b = 0 => room <= 0 \/ in = <<>>
             /\ \/ b = 0 \/ b = Len(in)
                \/ in[b] # "CR" /\ Len(Stream(reqs)) - Len(in) + b \notin Ends(reqs)

\* The first b bytes of the input have moved behind those in the buffer.
LEMMA FilledAsked ==
    ASSUME NEW cn, NEW in, NEW reqs, Plain(reqs), NEW n, Held(cn, in, reqs, n), cn.lastReq = 0,
           NEW b \in 1 .. Len(in), b <= BUFFERSIZE - cn.len,
           b = Len(in) \/ (in[b] # "CR" /\ Len(Stream(reqs)) - Len(in) + b \notin Ends(reqs)),
           NEW more, IsConnection(more), more.ops = <<>>,
           more.socket = cn.socket, more.broken = cn.broken, more.lastReq = 0, more.rPos = 0,
           more.len = cn.len + b, more.buf \in Seq(Token), Len(more.buf) = BUFFERSIZE,
           \A i \in 1 .. cn.len : more.buf[i] = cn.buf[i],
           \A i \in 1 .. b : more.buf[cn.len + i] = in[i]
    PROVE  Asked(cn, ProcessInputRequest(more), SubSeq(in, b + 1, Len(in)), reqs, n)
<1> DEFINE rest == SubSeq(in, b + 1, Len(in))
           s == Stream(After(reqs, n))
<1>1. /\ cn.len \in Nat /\ cn.len <= BUFFERSIZE /\ BUFFERSIZE \in Nat
      /\ in \in Seq(Token) /\ Len(in) \in Nat /\ b \in Nat /\ b <= Len(in) /\ b > 0
      /\ n \in 0 .. Len(reqs) /\ reqs \in Seq(Request)
  BY ServerAssumption DEF Held, Buffer, Plain
<1>2. /\ rest \in Seq(Token) /\ Len(rest) = Len(in) - b
      /\ \A i \in 1 .. Len(in) - b : rest[i] = in[b + i]
  BY <1>1, TokenPart
<1> HIDE DEF rest
<1>3. /\ cn.len + Len(in) = Len(s)
      /\ \A i \in 1 .. cn.len : cn.buf[i] = s[i]
      /\ \A i \in 1 .. Len(in) : in[i] = s[cn.len + i]
  <2>1. cn.len - cn.lastReq = cn.len /\ \A i \in 1 .. cn.len : cn.lastReq + i = i
    BY <1>1
  <2>2. /\ (cn.len - cn.lastReq) + Len(in) = Len(s)
        /\ \A i \in 1 .. cn.len - cn.lastReq : cn.buf[cn.lastReq + i] = s[i]
        /\ \A i \in 1 .. Len(in) : in[i] = s[(cn.len - cn.lastReq) + i]
    BY DEF Held, Match
  <2> HIDE DEF s
  <2>3. QED
    BY <2>1, <2>2
<1> HIDE DEF s
<1>4. Buffer(more)
  <2>1. more.len \in Nat /\ more.len <= BUFFERSIZE
    BY <1>1
  <2>2. QED
    BY <1>1, <2>1 DEF Buffer
<1>5. Match(more, rest, s)
  <2>1. more.len - more.lastReq = cn.len + b /\ cn.len + b \in Nat
    BY <1>1
  <2>2. (cn.len + b) + Len(rest) = Len(s)
    <3>1. Len(rest) = Len(in) - b /\ cn.len + Len(in) = Len(s)
      BY <1>2, <1>3
    <3>2. cn.len \in Nat /\ Len(in) \in Nat /\ b \in Nat
      BY <1>1, Zenon
    <3>3. QED
      BY <3>1, <3>2, SMTT(30)
  <2>3. ASSUME NEW i \in 1 .. cn.len + b PROVE more.buf[more.lastReq + i] = s[i]
    <3>1. more.lastReq + i = i
      BY <1>1
    <3>2. CASE i <= cn.len
      BY <1>1, <1>3, <3>1, <3>2
    <3>3. CASE i > cn.len
      <4>1. i - cn.len \in 1 .. b /\ i - cn.len \in 1 .. Len(in) /\ cn.len + (i - cn.len) = i
        BY <1>1, <3>3, SMTT(30)
      <4>2. more.buf[cn.len + (i - cn.len)] = in[i - cn.len]
        BY <4>1
      <4>3. in[i - cn.len] = s[cn.len + (i - cn.len)]
        BY <1>3, <4>1
      <4>4. QED
        BY <3>1, <4>1, <4>2, <4>3
    <3>4. QED
      BY <1>1, <3>2, <3>3
  <2>4. ASSUME NEW i \in 1 .. Len(rest) PROVE rest[i] = s[(cn.len + b) + i]
    <3>1. i \in 1 .. Len(in) - b /\ b + i \in 1 .. Len(in) /\ cn.len + (b + i) = (cn.len + b) + i
      BY <1>1, <1>2
    <3>2. rest[i] = in[b + i] /\ in[b + i] = s[cn.len + (b + i)]
      BY <1>2, <1>3, <3>1
    <3>3. QED
      BY <3>1, <3>2
  <2>5. QED
    BY <2>1, <2>2, <2>3, <2>4 DEF Match
<1>6. Held(more, rest, reqs, n)
  BY <1>1, <1>2, <1>4, <1>5 DEF Held, s
<1>7. Cut(more, rest, reqs)
  <2>1. CASE b = Len(in)
    <3>1. Len(rest) = 0
      BY <1>1, <1>2, <2>1
    <3>2. QED
      BY <1>2, <3>1 DEF Cut
  <2>2. CASE b # Len(in)
    <3>1. /\ in[b] # "CR" /\ Len(Stream(reqs)) - Len(in) + b \notin Ends(reqs)
      BY <2>2
    <3>2. more.buf[more.len] = in[b] /\ more.len > 0
      BY <1>1
    <3>3. Len(Stream(reqs)) - Len(rest) = Len(Stream(reqs)) - Len(in) + b
      <4>1. Len(Stream(reqs)) \in Nat
        BY <1>1, EndTokens
      <4>2. QED
        BY <1>1, <1>2, <4>1
    <3>4. QED
      BY <3>1, <3>2, <3>3 DEF Cut
  <2>3. QED
    BY <2>1, <2>2
<1>8. Asked(more, ProcessInputRequest(more), rest, reqs, n)
  BY <1>6, <1>7, InputAsked
<1>9. QED
  BY <1>8 DEF Asked, rest

\* bufferIn is filled from its start.
LEMMA BufferInAsked ==
    ASSUME NEW cn, IsConnection(cn), cn.ops = <<>>,
           NEW in, NEW reqs, Plain(reqs), NEW n, Held(cn, in, reqs, n), cn.len = 0,
           NEW b \in 1 .. Len(in), b <= BUFFERSIZE,
           b = Len(in) \/ (in[b] # "CR" /\ Len(Stream(reqs)) - Len(in) + b \notin Ends(reqs))
    PROVE  LET data == SubSeq(in, 1, b)
               filled == [cn EXCEPT !.buf = data \o SubSeq(@, Len(data) + 1, BUFFERSIZE),
                                    !.len = Len(data)]
           IN  Asked(cn, ProcessInputRequest(filled), SubSeq(in, b + 1, Len(in)), reqs, n)
<1> DEFINE data == SubSeq(in, 1, b)
           behind == SubSeq(cn.buf, Len(data) + 1, BUFFERSIZE)
           buf == data \o behind
           filled == [cn EXCEPT !.buf = buf, !.len = Len(data)]
<1>1. /\ cn.lastReq = 0 /\ cn.rPos = 0 /\ BUFFERSIZE \in Nat
      /\ cn.buf \in Seq(Token) /\ Len(cn.buf) = BUFFERSIZE
      /\ in \in Seq(Token) /\ Len(in) \in Nat /\ b \in Nat /\ b <= Len(in)
  BY ServerAssumption DEF Held, Buffer
<1>2. data \in Seq(Token) /\ Len(data) = b /\ \A i \in 1 .. b : data[i] = in[i]
  BY <1>1
<1> HIDE DEF data
<1>3. behind \in Seq(Token) /\ Len(behind) = BUFFERSIZE - b
  BY <1>1, <1>2
<1> HIDE DEF behind
<1>4. buf \in Seq(Token) /\ Len(buf) = BUFFERSIZE /\ \A i \in 1 .. b : buf[i] = in[i]
  <2>1. /\ buf \in Seq(Token) /\ Len(buf) = Len(data) + Len(behind)
        /\ \A i \in 1 .. Len(data) : buf[i] = data[i]
    BY <1>2, <1>3, TokenConcat, Zenon
  <2> HIDE DEF buf
  <2>2. Len(data) + Len(behind) = BUFFERSIZE
    BY <1>1, <1>2, <1>3
  <2>3. \A i \in 1 .. b : buf[i] = in[i]
    BY <1>2, <2>1
  <2>4. QED
    BY <2>1, <2>2, <2>3
<1> HIDE DEF buf
<1>5. /\ IsConnection(filled) /\ filled.ops = <<>> /\ filled.socket = cn.socket
      /\ filled.broken = cn.broken /\ filled.lastReq = cn.lastReq /\ filled.rPos = cn.rPos
      /\ filled.len = b /\ filled.buf = buf
  BY <1>2 DEF IsConnection, Fields
<1> HIDE DEF filled
<1>6. /\ b <= BUFFERSIZE - cn.len /\ filled.len = cn.len + b /\ filled.lastReq = 0
      /\ filled.rPos = 0 /\ \A i \in 1 .. b : cn.len + i = i
      /\ \A i \in 1 .. cn.len : filled.buf[i] = cn.buf[i]
  BY <1>1, <1>5
<1>7. /\ filled.buf \in Seq(Token) /\ Len(filled.buf) = BUFFERSIZE
      /\ \A i \in 1 .. b : filled.buf[cn.len + i] = in[i]
  BY <1>4, <1>5, <1>6
<1>8. Asked(cn, ProcessInputRequest(filled), SubSeq(in, b + 1, Len(in)), reqs, n)
  BY <1>1, <1>5, <1>6, <1>7, FilledAsked
<1>9. QED
  BY <1>8 DEF filled, buf, behind, data

\* VerifyRequestPartial: streamBuf is filled behind what lies in front.
LEMMA PartialAsked ==
    ASSUME NEW cn, IsConnection(cn), cn.ops = <<>>,
           NEW in, NEW reqs, Plain(reqs), NEW n, Held(cn, in, reqs, n), cn.rPos = 0,
           NEW b \in 1 .. Len(in), b <= BUFFERSIZE - cn.len,
           b = Len(in) \/ (in[b] # "CR" /\ Len(Stream(reqs)) - Len(in) + b \notin Ends(reqs))
    PROVE  Asked(cn, VerifyRequestPartial(cn, SubSeq(in, 1, b)),
                 SubSeq(in, b + 1, Len(in)), reqs, n)
<1> DEFINE data == SubSeq(in, 1, b)
           front == SubSeq(cn.buf, 1, cn.len)
           both == front \o data
           behind == SubSeq(cn.buf, cn.len + Len(data) + 1, BUFFERSIZE)
           buf == both \o behind
           more == [cn EXCEPT !.buf = buf, !.len = @ + Len(data)]
<1>1. /\ cn.lastReq = 0 /\ cn.rPos = 0 /\ BUFFERSIZE \in Nat
      /\ cn.len \in Nat /\ cn.len <= BUFFERSIZE
      /\ cn.buf \in Seq(Token) /\ Len(cn.buf) = BUFFERSIZE
      /\ in \in Seq(Token) /\ Len(in) \in Nat /\ b \in Nat /\ b <= Len(in)
      /\ b <= BUFFERSIZE - cn.len
  BY ServerAssumption DEF Held, Buffer
<1>2. data \in Seq(Token) /\ Len(data) = b /\ \A i \in 1 .. b : data[i] = in[i]
  BY <1>1
<1> HIDE DEF data
<1>3. front \in Seq(Token) /\ Len(front) = cn.len /\ \A i \in 1 .. cn.len : front[i] = cn.buf[i]
  BY <1>1
<1>4. behind \in Seq(Token) /\ Len(behind) = BUFFERSIZE - (cn.len + b)
  BY <1>1, <1>2
<1> HIDE DEF behind, front
<1>5. /\ both \in Seq(Token) /\ Len(both) = cn.len + b
      /\ \A i \in 1 .. cn.len : both[i] = cn.buf[i]
      /\ \A i \in 1 .. b : both[cn.len + i] = in[i]
  <2>1. /\ front \o data \in Seq(Token) /\ Len(front \o data) = Len(front) + Len(data)
        /\ \A i \in 1 .. Len(front) : (front \o data)[i] = front[i]
        /\ \A i \in 1 .. Len(data) : (front \o data)[Len(front) + i] = data[i]
    BY <1>2, <1>3, TokenConcat, Zenon
  <2>2. QED
    BY <1>1, <1>2, <1>3, <2>1
<1> HIDE DEF both
<1>6. /\ buf \in Seq(Token) /\ Len(buf) = BUFFERSIZE
      /\ \A i \in 1 .. cn.len : buf[i] = cn.buf[i]
      /\ \A i \in 1 .. b : buf[cn.len + i] = in[i]
  <2>1. Len(both) + Len(behind) = BUFFERSIZE
    BY <1>1, <1>4, <1>5
  <2>2. /\ buf \in Seq(Token) /\ Len(buf) = Len(both) + Len(behind)
        /\ \A i \in 1 .. Len(both) : buf[i] = both[i]
    BY <1>4, <1>5, TokenConcat, Zenon
  <2> HIDE DEF buf
  <2>3. ASSUME NEW i \in 1 .. cn.len PROVE buf[i] = cn.buf[i]
    <3>1. i \in 1 .. Len(both)
      BY <1>1, <1>5
    <3>2. QED
      BY <1>5, <2>2, <3>1
  <2>4. ASSUME NEW i \in 1 .. b PROVE buf[cn.len + i] = in[i]
    <3>1. cn.len + i \in 1 .. Len(both)
      BY <1>1, <1>5
    <3>2. QED
      BY <1>5, <2>2, <3>1
  <2>5. QED
    BY <2>1, <2>2, <2>3, <2>4
<1> HIDE DEF buf
<1>7. /\ IsConnection(more) /\ more.ops = <<>> /\ more.socket = cn.socket
      /\ more.broken = cn.broken /\ more.lastReq = cn.lastReq /\ more.rPos = cn.rPos
      /\ more.len = cn.len + b /\ more.buf = buf
  BY <1>2 DEF IsConnection, Fields
<1> HIDE DEF more
<1>8. Asked(cn, ProcessInputRequest(more), SubSeq(in, b + 1, Len(in)), reqs, n)
  BY <1>1, <1>6, <1>7, FilledAsked
<1>9. VerifyRequestPartial(cn, data) = ProcessInputRequest(more)
  BY DEF VerifyRequestPartial, more, buf, both, behind, front
<1>10. QED
  BY <1>8, <1>9 DEF data

\* What a completion has taken from the input.
LEMMA Taken ==
    ASSUME NEW in \in Seq(Token), NEW b \in -1 .. Len(in)
    PROVE  /\ b > 0 => Max({b, 0}) = b
           /\ ~ b > 0 => Max({b, 0}) = 0 /\ SubSeq(in, Max({b, 0}) + 1, Len(in)) = in
<1> DEFINE T == {b, 0}
           big == IF b > 0 THEN b ELSE 0
<1>1. b \in Int
  OBVIOUS
<1>2. big \in T /\ \A y \in T : big >= y
  BY <1>1
<1>3. Max(T) \in T /\ \A y \in T : Max(T) >= y
  BY <1>2, Zenon DEF Max
<1> DEFINE m == Max(T)
<1> HIDE DEF m
<1>4. m \in T /\ (\A y \in T : m >= y)
  BY <1>3 DEF m
<1>5. m = big
  BY <1>1, <1>4
<1>6. ~ b > 0 => SubSeq(in, m + 1, Len(in)) = in
  BY <1>5
<1>7. QED
  BY <1>5, <1>6 DEF m

\* Every path through the switch: the connection is left as it was, with the next
\* operation asked for; or it has carried out the next request; or it has ended, and
\* all requests have been carried out.
LEMMA HandledAsked ==
    ASSUME NEW cn, IsConnection(cn), cn.ops = <<>>,
           NEW in, NEW reqs, Plain(reqs), NEW n, Held(cn, in, reqs, n),
           NEW op, Pending(cn, op, in, reqs, n), NEW b, Brought(b, cn, op, in, reqs),
           n < Len(reqs) /\ reqs[n + 1].type = "LIST_LOCATIONS" => reqs[n + 1].arg \in store
    PROVE  LET taken == Max({b, 0})
               h == Handled(cn, b, SubSeq(in, 1, taken))
               rest == SubSeq(in, taken + 1, Len(in))
           IN  \/ h.done = <<>> /\ Asked(cn, h.cn, rest, reqs, n)
               \/ /\ n < Len(reqs) /\ h.done = <<reqs[n + 1]>>
                  /\ Asked(cn, h.cn, rest, reqs, n + 1)
               \/ h.done = <<>> /\ h.cn = ConnectionEnd(cn) /\ n = Len(reqs) /\ rest \in Seq(Token)
<1> DEFINE taken == Max({b, 0})
           data == SubSeq(in, 1, taken)
           rest == SubSeq(in, taken + 1, Len(in))
           h == Handled(cn, b, data)
           filled == [cn EXCEPT !.buf = data \o SubSeq(@, Len(data) + 1, BUFFERSIZE),
                                !.len = Len(data)]
           known == Len(cn.requestType) = 1 /\ cn.requestType[1] \in MessageTypes
           p == Processor(cn)
           Only(after) == [cn |-> after, done |-> <<>>]
<1>0. h = IF cn.key = "RECV_OPER"
          THEN IF known THEN [cn |-> AfterProcessor(p), done |-> p.done]
                        ELSE Only(PostCompletionPort(cn, "SEND_OPER"))
          ELSE IF cn.key = "START_OPER" THEN Only(ReadFromSocket(cn))
          ELSE IF b = 0 THEN Only(ConnectionEnd(cn))
          ELSE IF cn.key = "SEND_OPER"
          THEN Only(ProcessInputRequest(IF b = -1 THEN cn ELSE filled))
          ELSE Only(VerifyRequestPartial(cn, data))
  BY DEF Handled
<1>1. /\ in \in Seq(Token) /\ Len(in) \in Nat /\ BUFFERSIZE \in Nat
      /\ reqs \in Seq(Request) /\ Len(reqs) \in Nat /\ n \in 0 .. Len(reqs)
      /\ cn.len \in Nat /\ cn.lastReq \in Nat /\ cn.rPos \in Nat
      /\ cn.lastReq <= cn.rPos /\ cn.rPos <= cn.len /\ cn.len <= BUFFERSIZE
  BY ServerAssumption DEF Held, Buffer, Plain
<1>2. b \in -1 .. Len(in)
  BY <1>1 DEF Brought
<1>3. /\ b > 0 => taken = b
      /\ ~ b > 0 => rest = in
  BY <1>1, <1>2, Taken
<1> HIDE DEF h, taken, rest, p
<1>4. CASE cn.key = "START_OPER" /\ op = "post" /\ cn.len = 0
  <2>1. rest = in
    BY <1>3, <1>4 DEF Brought
  <2>2. h = Only(ReadFromSocket(cn))
    BY <1>0, <1>4
  <2>3. Asked(cn, ReadFromSocket(cn), in, reqs, n)
    BY <1>1, <1>4, ReadAsked
  <2>4. h.done = <<>> /\ h.cn = ReadFromSocket(cn)
    BY <2>2
  <2>5. QED
    BY <2>1, <2>3, <2>4 DEF h, rest, taken
<1>5. CASE cn.key = "SEND_OPER" /\ op = "post" /\ cn.rPos = cn.lastReq /\ Cut(cn, in, reqs)
  <2>1. rest = in /\ b = -1
    BY <1>3, <1>5 DEF Brought
  <2>2. h = Only(ProcessInputRequest(cn))
    <3> HIDE DEF filled
    <3> QED BY <1>0, <1>5, <2>1
  <2>3. Asked(cn, ProcessInputRequest(cn), in, reqs, n)
    BY <1>5, InputAsked
  <2>4. h.done = <<>> /\ h.cn = ProcessInputRequest(cn)
    BY <2>2
  <2>5. QED
    BY <2>1, <2>3, <2>4 DEF h, rest, taken
<1>6. CASE /\ cn.key = "RECV_OPER" /\ op = "post" /\ cn.rPos = cn.lastReq + 3
           /\ Cut(cn, in, reqs) /\ n < Len(reqs) /\ cn.requestType = <<reqs[n + 1].type>>
  <2>1. rest = in
    BY <1>3, <1>6 DEF Brought
  <2>2. known
    <3>1. reqs[n + 1] \in Request
      BY <1>1, <1>6
    <3>2. reqs[n + 1].type \in MessageTypes
      BY <3>1, TypeToken
    <3>3. QED
      BY <1>6, <3>2
  <2>3. h = [cn |-> AfterProcessor(p), done |-> p.done]
    <3> HIDE DEF known, filled
    <3> QED BY <1>0, <1>6, <2>2
  <2>4. h.cn = AfterProcessor(p) /\ h.done = p.done
    BY <2>3
  <2>5. \/ p.done = <<>> /\ Asked(cn, AfterProcessor(p), in, reqs, n)
        \/ p.done = <<reqs[n + 1]>> /\ Asked(cn, AfterProcessor(p), in, reqs, n + 1)
    BY <1>6, OperAsked DEF p
  <2>6. QED
    BY <1>6, <2>1, <2>4, <2>5 DEF h, rest, taken
<1>7. CASE /\ cn.key = "SEND_OPER" /\ op = "bufferIn"
           /\ cn.lastReq = cn.len /\ (in = <<>> \/ cn.len = 0)
  <2>1. /\ b \in 0 .. Len(in) /\ b <= BUFFERSIZE
        /\ b = 0 => BUFFERSIZE <= 0 \/ in = <<>>
        /\ \/ b = 0 \/ b = Len(in)
           \/ in[b] # "CR" /\ Len(Stream(reqs)) - Len(in) + b \notin Ends(reqs)
    BY <1>7 DEF Brought
  <2>2. CASE b = 0
    <3>1. h = Only(ConnectionEnd(cn))
      <4> HIDE DEF filled
      <4> QED BY <1>0, <1>7, <2>2
    <3>2. h.done = <<>> /\ h.cn = ConnectionEnd(cn)
      BY <3>1
    <3>3. n = Len(reqs)
      <4>1. SUFFICES ASSUME n < Len(reqs) PROVE FALSE
        BY <1>1
      <4>2. n + 1 \in 1 .. Len(reqs) /\ reqs[n + 1] \in Request
        BY <1>1, <4>1
      <4>3. Len(Tokens(reqs[n + 1])) >= 3 /\ Len(Tokens(reqs[n + 1])) <= BUFFERSIZE
        <5>1. Len(Tokens(reqs[n + 1])) <= BUFFERSIZE
          BY <4>2 DEF Plain
        <5>2. Len(Tokens(reqs[n + 1])) = IF reqs[n + 1].type \in WithArgument THEN 6 ELSE 3
          BY <4>2, TokensFacts
        <5>3. QED
          BY <5>1, <5>2
      <4>4. in = <<>>
        BY <1>1, <2>1, <2>2, <4>3
      <4>5. cn.len - cn.lastReq < Len(Tokens(reqs[n + 1])) => in # <<>>
        BY <1>1, <4>1, InBuffer
      <4>6. QED
        BY <1>1, <1>7, <4>3, <4>4, <4>5
    <3>4. rest \in Seq(Token)
      BY <1>1, <1>3, <2>2
    <3>5. QED
      BY <3>2, <3>3, <3>4 DEF h, rest, taken
  <2>3. CASE b # 0
    <3>1. b \in 1 .. Len(in) /\ b > 0 /\ ~ b = -1 /\ taken = b
      BY <1>1, <1>3, <2>1, <2>3
    <3>2. in # <<>>
      BY <3>1
    <3>3. h = Only(ProcessInputRequest(filled))
      <4> HIDE DEF filled
      <4> QED BY <1>0, <1>7, <2>3, <3>1
    <3>4. h.done = <<>> /\ h.cn = ProcessInputRequest(filled)
      <4> HIDE DEF filled
      <4> QED BY <3>3
    <3>5. Asked(cn, ProcessInputRequest(filled), rest, reqs, n)
      BY <1>7, <2>1, <2>3, <3>1, <3>2, BufferInAsked DEF rest
    <3> HIDE DEF filled
    <3>6. QED
      BY <3>4, <3>5 DEF h, rest, taken
  <2>4. QED
    BY <2>2, <2>3
<1>8. CASE /\ cn.key = "RECV_PARTIAL" /\ op = "streamBuf"
           /\ cn.rPos = 0 /\ cn.len \in 1 .. BUFFERSIZE - 1 /\ in # <<>>
  <2>1. /\ b \in 0 .. Len(in) /\ b <= BUFFERSIZE - cn.len
        /\ b = 0 => BUFFERSIZE - cn.len <= 0
        /\ \/ b = 0 \/ b = Len(in)
           \/ in[b] # "CR" /\ Len(Stream(reqs)) - Len(in) + b \notin Ends(reqs)
    BY <1>8 DEF Brought
  <2>2. b \in 1 .. Len(in) /\ b > 0 /\ b # 0 /\ taken = b
    BY <1>1, <1>3, <1>8, <2>1
  <2>3. h = Only(VerifyRequestPartial(cn, data))
    <3> HIDE DEF filled, data
    <3> QED BY <1>0, <1>8, <2>2
  <2>4. h.done = <<>> /\ h.cn = VerifyRequestPartial(cn, data)
    <3> HIDE DEF data
    <3> QED BY <2>3
  <2>5. Asked(cn, VerifyRequestPartial(cn, data), rest, reqs, n)
    BY <1>8, <2>1, <2>2, PartialAsked DEF rest
  <2>6. QED
    BY <2>4, <2>5 DEF h, rest, taken
<1>9. QED
  BY <1>4, <1>5, <1>6, <1>7, <1>8 DEF Pending

(***************************************************************************)
(* The invariant.                                                          *)
(***************************************************************************)
\* Connection cn, whose client sends reqs, when n of them have been carried out.
Kept(cn, in, reqs, n) ==
    /\ n \in 0 .. Len(reqs) /\ in \in Seq(Token)
    /\ cn.socket \in {"none", "open", "closed"}
    /\ cn.socket = "closed" => n = Len(reqs) /\ cn.ops = <<>>
    /\ cn.socket # "closed" => Held(cn, in, reqs, n)
    /\ cn.socket = "none" => cn.key = "START_OPER" /\ cn.len = 0
    /\ cn.ops # <<>> => cn.socket = "open" /\ Pending(cn, Head(cn.ops), in, reqs, n)

\* A connection that a thread has in its hands.
Carried(cn, op, b, in, reqs, n) ==
    cn.socket = "open" /\ Pending(cn, op, in, reqs, n) /\ Brought(b, cn, op, in, reqs)

\* The answers are the first requests, and what follows has been kept.
Order ==
    /\ input = [c \in Connections |-> input[c]] /\ answers = [c \in Connections |-> answers[c]]
    /\ \A c \in Connections :
          /\ answers[c] = SubSeq(Requests[c], 1, Len(answers[c]))
          /\ Kept(conn[c], input[c], Requests[c], Len(answers[c]))

\* An open connection is waited for or worked on, unless its socket is broken.
Cared ==
    /\ \A c \in Connections :
          conn[c].socket = "open" /\ ~ conn[c].broken =>
             conn[c].ops # <<>> \/ \E t \in Threads : work[t].cn = c
    /\ \A t \in Threads :
          pc[t] \notin Idle =>
             LET c == work[t].cn
             IN  Carried(conn[c], work[t].op, work[t].bytes, input[c], Requests[c], Len(answers[c]))

\* A file that was registered and that nobody takes back has a location.
Located ==
    \A c \in Connections : \A i \in 1 .. Len(answers[c]) :
        answers[c][i].type = "REGISTER" /\ ~ Withdrawn(answers[c][i].arg) =>
            answers[c][i].arg \in store

Streams == Order /\ Cared /\ Located

\* A step about one connection.
LEMMA StreamsStep ==
    ASSUME Streams, NEW c \in Connections,
           \A d \in Connections \ {c} :
              conn'[d] = conn[d] /\ input'[d] = input[d] /\ answers'[d] = answers[d],
           input' = [d \in Connections |-> input'[d]],
           answers' = [d \in Connections |-> answers'[d]],
           \A t \in Threads : work[t].cn \in Connections \ {c} => work'[t] = work[t],
           \A t \in Threads : pc'[t] \notin Idle /\ work'[t].cn # c =>
              pc[t] \notin Idle /\ work'[t] = work[t] /\ work[t].cn \in Connections,
           answers'[c] = SubSeq(Requests[c], 1, Len(answers'[c])),
           Kept(conn'[c], input'[c], Requests[c], Len(answers'[c])),
           conn'[c].socket = "open" /\ ~ conn'[c].broken =>
              conn'[c].ops # <<>> \/ \E t \in Threads : work'[t].cn = c,
           \A t \in Threads : pc'[t] \notin Idle /\ work'[t].cn = c =>
              Carried(conn'[c], work'[t].op, work'[t].bytes, input'[c], Requests[c], Len(answers'[c])),
           Located'
    PROVE  Streams'
<1>1. Order'
  <2>1. ASSUME NEW d \in Connections
        PROVE  /\ answers'[d] = SubSeq(Requests[d], 1, Len(answers'[d]))
               /\ Kept(conn'[d], input'[d], Requests[d], Len(answers'[d]))
    <3>1. CASE d = c
      BY <3>1
    <3>2. CASE d # c
      BY <3>2 DEF Streams, Order
    <3>3. QED
      BY <3>1, <3>2
  <2>2. QED
    BY <2>1 DEF Order
<1>2. Cared'
  <2>1. ASSUME NEW d \in Connections, conn'[d].socket = "open", ~ conn'[d].broken
        PROVE  conn'[d].ops # <<>> \/ \E t \in Threads : work'[t].cn = d
    <3>1. CASE d = c
      BY <2>1, <3>1
    <3>2. CASE d # c
      <4>1. conn[d].ops # <<>> \/ \E t \in Threads : work[t].cn = d
        BY <2>1, <3>2 DEF Streams, Cared
      <4>2. \A t \in Threads : work[t].cn = d => work'[t] = work[t]
        BY <3>2
      <4>3. QED
        BY <3>2, <4>1, <4>2
    <3>3. QED
      BY <3>1, <3>2
  <2>2. ASSUME NEW t \in Threads, pc'[t] \notin Idle
        PROVE  LET d == work'[t].cn
               IN  Carried(conn'[d], work'[t].op, work'[t].bytes, input'[d], Requests[d],
                           Len(answers'[d]))
    <3>1. CASE work'[t].cn = c
      BY <2>2, <3>1
    <3>2. CASE work'[t].cn # c
      <4>1. pc[t] \notin Idle /\ work'[t] = work[t] /\ work[t].cn \in Connections
        BY <2>2, <3>2
      <4> DEFINE d == work[t].cn
      <4>2. d \in Connections \ {c}
        BY <3>2, <4>1
      <4>3. Carried(conn[d], work[t].op, work[t].bytes, input[d], Requests[d], Len(answers[d]))
        BY <4>1 DEF Streams, Cared
      <4> HIDE DEF d
      <4>4. conn'[d] = conn[d] /\ input'[d] = input[d] /\ answers'[d] = answers[d]
        BY <4>2
      <4>5. QED
        BY <4>1, <4>3, <4>4 DEF d
    <3>3. QED
      BY <3>1, <3>2
  <2>3. QED
    BY <2>1, <2>2 DEF Cared
<1>3. QED
  BY <1>1, <1>2 DEF Streams

\* Steps of threads that touch no connection.
LEMMA ThreadsStep ==
    ASSUME Streams, UNCHANGED <<conn, input, answers, store, work>>,
           \A t \in Threads : pc'[t] \notin Idle => pc[t] \notin Idle
    PROVE  Streams'
<1>1. Order' /\ Located'
  BY DEF Streams, Order, Located
<1>2. Cared'
  BY DEF Streams, Cared
<1>3. QED
  BY <1>1, <1>2 DEF Streams

\* What the other parts of the invariant say of a connection and of the threads.
LEMMA Facts ==
    ASSUME IInv, NEW c \in Connections
    PROVE  /\ IsConnection(conn[c]) /\ conn = [d \in Connections |-> conn[d]]
           /\ conn[c].ops = <<>> \/ \E op \in Operations : conn[c].ops = <<op>>
           /\ \A t \in Threads : IF pc[t] \in Idle THEN work[t].cn = "none"
                                 ELSE work[t].cn \in Connections /\ conn[work[t].cn].ops = <<>>
           /\ \A t, u \in Threads : work[t].cn = c /\ work[u].cn = c => t = u
           /\ c # "none" /\ pc \in [Threads -> Places]
BY ServerAssumption DEF IInv, Typed, InHand, OneAsked, Idle

\* Accept, AcceptFails, Reset: nothing has been taken from the client yet, or no more
\* changes than that the socket is broken.
LEMMA ClientStreams ==
    ASSUME IInv, Streams, NEW c \in Connections, Accept(c) \/ AcceptFails(c) \/ Reset(c)
    PROVE  Streams'
<1> DEFINE cn == conn[c]
           new == conn'[c]
           reqs == Requests[c]
           n == Len(answers[c])
<1>1. /\ UNCHANGED <<input, answers, store, pc, work>>
      /\ IsConnection(cn) /\ conn = [d \in Connections |-> conn[d]]
  BY Facts DEF Accept, AcceptFails, Reset, pool
<1>2. /\ Kept(cn, input[c], reqs, n) /\ answers[c] = SubSeq(reqs, 1, n)
      /\ input = [d \in Connections |-> input[d]] /\ answers = [d \in Connections |-> answers[d]]
      /\ Located
  BY DEF Streams, Order
<1>3. /\ \A t \in Threads : pc[t] \notin Idle => work[t].cn \in Connections
      /\ \A t \in Threads : work[t].cn = c => pc[t] \notin Idle
  BY Facts
<1>4. /\ \A d \in Connections \ {c} : conn'[d] = conn[d]
      /\ new.socket = "open" /\ cn.socket # "closed"
      /\ \/ cn.socket = "none" /\ new.ops = <<"post">>
         \/ new.ops = cn.ops /\ new.broken = TRUE
      /\ new.buf = cn.buf /\ new.rPos = cn.rPos /\ new.len = cn.len /\ new.lastReq = cn.lastReq
      /\ new.requestType = cn.requestType /\ new.key = cn.key
  <2>1. CASE Accept(c)
    <3>1. /\ conn' = [conn EXCEPT ![c] = [cn EXCEPT !.socket = "open", !.ops = <<"post">>]]
          /\ cn.socket = "none"
      BY <1>1, <2>1 DEF Accept
    <3>2. /\ \A d \in Connections \ {c} : conn'[d] = conn[d]
          /\ new = [cn EXCEPT !.socket = "open", !.ops = <<"post">>]
      BY <1>1, <3>1
    <3> HIDE DEF cn, new
    <3>3. QED
      BY <1>1, <2>1, <3>1, <3>2 DEF IsConnection, Fields
  <2>2. CASE AcceptFails(c)
    <3>1. /\ conn' = [conn EXCEPT ![c] = [cn EXCEPT !.socket = "open", !.broken = TRUE]]
          /\ cn.socket = "none"
      BY <1>1, <2>2 DEF AcceptFails
    <3>2. /\ \A d \in Connections \ {c} : conn'[d] = conn[d]
          /\ new = [cn EXCEPT !.socket = "open", !.broken = TRUE]
      BY <1>1, <3>1
    <3> HIDE DEF cn, new
    <3>3. QED
      BY <1>1, <2>2, <3>1, <3>2 DEF IsConnection, Fields
  <2>3. CASE Reset(c)
    <3>1. /\ conn' = [conn EXCEPT ![c] = [cn EXCEPT !.broken = TRUE]]
          /\ cn.socket = "open"
      BY <1>1, <2>3 DEF Reset
    <3>2. /\ \A d \in Connections \ {c} : conn'[d] = conn[d]
          /\ new = [cn EXCEPT !.broken = TRUE]
      BY <1>1, <3>1
    <3> HIDE DEF cn, new
    <3>3. QED
      BY <1>1, <2>3, <3>1, <3>2 DEF IsConnection, Fields
  <2>4. QED
    BY <2>1, <2>2, <2>3
<1>5. Kept(new, input[c], reqs, n)
  <2>1. \A op : Pending(new, op, input[c], reqs, n) <=> Pending(cn, op, input[c], reqs, n)
    BY <1>4 DEF Pending, Cut
  <2>2. Held(new, input[c], reqs, n) /\ new.socket = "open"
    <3>1. Held(cn, input[c], reqs, n)
      BY <1>2, <1>4 DEF Kept
    <3> HIDE DEF cn, new
    <3>2. QED
      BY <1>4, <3>1 DEF Held, Buffer, Match
  <2>3. new.ops # <<>> => Pending(new, Head(new.ops), input[c], reqs, n)
    <3>1. CASE cn.socket = "none" /\ new.ops = <<"post">>
      <4>1. new.key = "START_OPER" /\ new.len = 0
        BY <1>2, <1>4, <3>1 DEF Kept
      <4>2. Head(new.ops) = "post"
        BY <3>1
      <4>3. QED
        BY <4>1, <4>2 DEF Pending
    <3>2. CASE new.ops = cn.ops
      BY <1>2, <2>1, <3>2 DEF Kept
    <3>3. QED
      BY <1>4, <3>1, <3>2
  <2>4. QED
    BY <1>2, <2>2, <2>3 DEF Kept
<1>6. new.socket = "open" /\ ~ new.broken => new.ops # <<>>
  <2>1. <<"post">> # <<>>
    OBVIOUS
  <2> HIDE DEF cn, new
  <2>2. QED
    BY <1>4, <2>1
<1>7. ASSUME NEW t \in Threads, pc[t] \notin Idle, work[t].cn = c
      PROVE  Carried(new, work[t].op, work[t].bytes, input[c], reqs, n)
  <2>1. Carried(cn, work[t].op, work[t].bytes, input[c], reqs, n)
    BY <1>7 DEF Streams, Cared
  <2> HIDE DEF cn, new
  <2>2. QED
    BY <1>4, <2>1 DEF Carried, Pending, Cut, Brought
<1>8. Located'
  BY <1>1, <1>2 DEF Located
<1>9. QED
  BY <1>1, <1>2, <1>3, <1>4, <1>5, <1>6, <1>7, <1>8, StreamsStep

\* Chunks: what a read may return is what Brought says.
LEMMA ChunksBrought ==
    ASSUME PlainClients, NEW c \in Connections, NEW op, op # "post",
           conn[c].len \in Nat, conn[c].len <= BUFFERSIZE, input[c] \in Seq(Token),
           NEW b \in Chunks(c, op)
    PROVE  Brought(b, conn[c], op, input[c], Requests[c])
<1> DEFINE room == IF op = "bufferIn" THEN BUFFERSIZE ELSE BUFFERSIZE - conn[c].len
           in == input[c]
           most == Min({room, Len(in)})
           Sent(k) == Len(Stream(Requests[c])) - Len(in) + k
           Whole(k) == k = Len(in) \/ (Sent(k) \notin Ends(Requests[c]) /\ in[k] # "CR")
<1>1. room \in Nat /\ Len(in) \in Nat /\ BUFFERSIZE \in Nat
  BY ServerAssumption
<1>2. most \in Nat /\ most <= room /\ most <= Len(in) /\ (most = room \/ most = Len(in))
  <2> DEFINE T == {room, Len(in)}
             m == Min(T)
  <2>1. T \in SUBSET Nat /\ T # {}
    BY <1>1
  <2>2. m \in T /\ \A k \in T : m <= k
    BY <2>1, MinFacts
  <2> HIDE DEF room, m
  <2>3. m \in Nat /\ m <= room /\ m <= Len(in) /\ (m = room \/ m = Len(in))
    BY <1>1, <2>2
  <2>4. QED
    BY <2>3 DEF m
<1>3. Chunks(c, op) = IF most = 0 THEN {0} ELSE {k \in 1 .. most : AnyCut \/ Whole(k)}
  BY DEF Chunks, Ends
<1>4. AnyCut = FALSE
  BY DEF PlainClients
<1> HIDE DEF most, Whole, room, in
<1>5. CASE most = 0
  <2>1. b = 0
    BY <1>3, <1>5
  <2>2. room <= 0 \/ in = <<>>
    <3>1. room = 0 \/ Len(in) = 0
      BY <1>2, <1>5
    <3>2. Len(in) = 0 => in = <<>>
      BY DEF in
    <3>3. QED
      BY <1>1, <3>1, <3>2
  <2>3. b \in 0 .. Len(in) /\ b <= room
    BY <1>1, <2>1
  <2>4. QED
    BY <2>1, <2>2, <2>3 DEF Brought, room, in
<1>6. CASE most # 0
  <2>1. b \in 1 .. most /\ (AnyCut \/ Whole(b))
    <3> HIDE DEF Chunks
    <3> QED BY <1>3, <1>6
  <2>2. b \in 0 .. Len(in) /\ b <= room /\ b # 0
    BY <1>1, <1>2, <2>1
  <2>3. b = Len(in) \/ (Sent(b) \notin Ends(Requests[c]) /\ in[b] # "CR")
    BY <1>4, <2>1 DEF Whole
  <2>4. QED
    BY <2>2, <2>3 DEF Brought, room, in
<1>7. QED
  BY <1>5, <1>6

\* Dequeue: the operation asked for is in a thread's hands, and no other has been.
LEMMA DequeueStreams ==
    ASSUME PlainClients, IInv, Streams, NEW t \in Threads, NEW c \in Connections, Dequeue(t, c)
    PROVE  Streams'
<1> DEFINE cn == conn[c]
           new == conn'[c]
           op == Head(cn.ops)
           reqs == Requests[c]
           n == Len(answers[c])
<1>1. /\ IsConnection(cn) /\ conn = [d \in Connections |-> conn[d]]
      /\ cn.ops = <<>> \/ \E o \in Operations : cn.ops = <<o>>
      /\ \A u \in Threads : pc[u] \notin Idle => work[u].cn \in Connections
      /\ \A u \in Threads : work[u].cn = c => pc[u] \notin Idle /\ cn.ops = <<>>
      /\ work[t].cn = "none" /\ pc \in [Threads -> Places] /\ c # "none"
      /\ work = [u \in Threads |-> work[u]]
  <2>1. pc[t] \in Idle
    BY DEF Dequeue, Idle
  <2>2. work = [u \in Threads |-> work[u]]
    BY DEF IInv, Typed
  <2>3. QED
    BY <2>1, <2>2, Facts
<1>2. /\ cn.ops # <<>> /\ conn' = [conn EXCEPT ![c].ops = Tail(@)]
      /\ pc[t] = "waiting" /\ pc' = [pc EXCEPT ![t] = "got"]
      /\ UNCHANGED <<input, answers, store>>
  BY DEF Dequeue
<1>3. PICK b \in IF op = "post" THEN {-1} ELSE Chunks(c, op) :
         work' = [work EXCEPT ![t] = [cn |-> c, op |-> op, bytes |-> b]]
  BY DEF Dequeue
<1>4. Tail(cn.ops) = <<>>
  <2>1. PICK o \in Operations : cn.ops = <<o>>
    BY <1>1, <1>2
  <2>2. Tail(<<o>>) = <<>>
    OBVIOUS
  <2>3. QED
    BY <2>1, <2>2
<1>5. /\ \A d \in Connections \ {c} : conn'[d] = conn[d]
      /\ new = [cn EXCEPT !.ops = <<>>]
  BY <1>1, <1>2, <1>4
<1>6. /\ new.ops = <<>> /\ new.socket = cn.socket
      /\ new.buf = cn.buf /\ new.rPos = cn.rPos /\ new.len = cn.len /\ new.lastReq = cn.lastReq
      /\ new.requestType = cn.requestType /\ new.key = cn.key
  <2> HIDE DEF cn, new
  <2> QED BY <1>1, <1>5 DEF IsConnection, Fields
<1>7. /\ Kept(cn, input[c], reqs, n) /\ answers[c] = SubSeq(reqs, 1, n)
      /\ input = [d \in Connections |-> input[d]] /\ answers = [d \in Connections |-> answers[d]]
      /\ Located
  BY DEF Streams, Order
<1>8. /\ cn.socket = "open" /\ Pending(cn, op, input[c], reqs, n)
      /\ Held(cn, input[c], reqs, n) /\ input[c] \in Seq(Token) /\ n \in 0 .. Len(reqs)
  BY <1>2, <1>7 DEF Kept
<1>9. /\ \A u \in Threads \ {t} : work'[u] = work[u] /\ pc'[u] = pc[u]
      /\ work'[t].cn = c /\ work'[t].op = op /\ work'[t].bytes = b
  BY <1>1, <1>2, <1>3
<1>10. Brought(b, cn, op, input[c], reqs)
  <2>1. CASE op = "post"
    <3>1. b = -1
      BY <2>1
    <3>2. QED
      BY <2>1, <3>1 DEF Brought
  <2>2. CASE op # "post"
    <3>1. b \in Chunks(c, op)
      BY <2>2
    <3>2. cn.len \in Nat /\ cn.len <= BUFFERSIZE
      BY <1>8 DEF Held, Buffer
    <3> HIDE DEF op
    <3>3. QED
      BY <1>8, <2>2, <3>1, <3>2, ChunksBrought
  <2>3. QED
    BY <2>1, <2>2
<1> HIDE DEF cn, new, op
<1>11. Kept(new, input[c], reqs, n)
  BY <1>6, <1>8 DEF Kept, Held, Buffer, Match
<1>12. Carried(new, op, b, input[c], reqs, n)
  BY <1>6, <1>8, <1>10 DEF Carried, Pending, Cut, Brought
<1>13. /\ \A u \in Threads : work[u].cn \in Connections \ {c} => work'[u] = work[u]
       /\ \A u \in Threads : pc'[u] \notin Idle /\ work'[u].cn # c =>
             pc[u] \notin Idle /\ work'[u] = work[u] /\ work[u].cn \in Connections
       /\ \A u \in Threads : work'[u].cn = c => u = t
  <2>1. "none" \notin Connections
    BY ServerAssumption
  <2>2. QED
    BY <1>1, <1>2, <1>9, <2>1 DEF cn
<1>14. Located'
  BY <1>2, <1>7 DEF Located
<1>15. ASSUME NEW u \in Threads, pc'[u] \notin Idle, work'[u].cn = c
       PROVE  Carried(new, work'[u].op, work'[u].bytes, input[c], reqs, n)
  BY <1>9, <1>12, <1>13, <1>15
<1>16. QED
  BY <1>2, <1>5, <1>7, <1>9, <1>11, <1>13, <1>14, <1>15, StreamsStep, ZenonT(30) DEF new

\* DequeueFails: only a connection with a broken socket is left without an operation.
LEMMA DequeueFailsStreams ==
    ASSUME IInv, Streams, NEW t \in Threads, NEW c \in Connections, DequeueFails(t, c)
    PROVE  Streams'
<1> DEFINE cn == conn[c]
           new == conn'[c]
           reqs == Requests[c]
           n == Len(answers[c])
<1>1. /\ IsConnection(cn) /\ conn = [d \in Connections |-> conn[d]]
      /\ cn.ops = <<>> \/ \E o \in Operations : cn.ops = <<o>>
      /\ \A u \in Threads : pc[u] \notin Idle => work[u].cn \in Connections
      /\ \A u \in Threads : work[u].cn = c => pc[u] \notin Idle /\ cn.ops = <<>>
      /\ pc \in [Threads -> Places] /\ c # "none"
  BY Facts
<1>2. /\ cn.ops # <<>> /\ conn' = [conn EXCEPT ![c].ops = Tail(@)] /\ cn.broken
      /\ pc[t] = "waiting" /\ pc' = [pc EXCEPT ![t] = "none"]
      /\ UNCHANGED <<input, answers, store, work>>
  BY DEF DequeueFails
<1>3. Tail(cn.ops) = <<>>
  <2>1. PICK o \in Operations : cn.ops = <<o>>
    BY <1>1, <1>2
  <2>2. Tail(<<o>>) = <<>>
    OBVIOUS
  <2>3. QED
    BY <2>1, <2>2
<1>4. /\ \A d \in Connections \ {c} : conn'[d] = conn[d]
      /\ new = [cn EXCEPT !.ops = <<>>]
  BY <1>1, <1>2, <1>3
<1>5. /\ new.ops = <<>> /\ new.socket = cn.socket /\ new.broken = cn.broken
      /\ new.buf = cn.buf /\ new.rPos = cn.rPos /\ new.len = cn.len /\ new.lastReq = cn.lastReq
      /\ new.key = cn.key
  <2> HIDE DEF cn, new
  <2> QED BY <1>1, <1>4 DEF IsConnection, Fields
<1>6. /\ Kept(cn, input[c], reqs, n) /\ answers[c] = SubSeq(reqs, 1, n)
      /\ input = [d \in Connections |-> input[d]] /\ answers = [d \in Connections |-> answers[d]]
      /\ Located
  BY DEF Streams, Order
<1>7. \A u \in Threads : pc'[u] \notin Idle => pc[u] \notin Idle /\ work[u].cn # c
  BY <1>1, <1>2 DEF Idle
<1> HIDE DEF cn, new
<1>8. Kept(new, input[c], reqs, n)
  BY <1>5, <1>6 DEF Kept, Held, Buffer, Match
<1>9. Located'
  BY <1>2, <1>6 DEF Located
<1>10. QED
  BY <1>1, <1>2, <1>4, <1>5, <1>6, <1>7, <1>8, <1>9, StreamsStep, ZenonT(30) DEF new

\* What carrying out nothing, or one request, does to the files with a location.
LEMMA StoredFacts ==
    /\ Stored(<<>>) = {store}
    /\ \A r : \A after \in Stored(<<r>>) :
          /\ r.type = "REGISTER" /\ r.arg # "none" => r.arg \in after
          /\ \A file \in store : file \in after \/ (r.type = "UNREGISTER" /\ r.arg = file)
<1>1. Stored(<<>>) = {store}
  <2>1. ToSet(<<>>) = {}
    BY DEF ToSet
  <2>2. QED
    BY <2>1 DEF Stored
<1>2. ASSUME NEW r, NEW after \in Stored(<<r>>)
      PROVE  /\ r.type = "REGISTER" /\ r.arg # "none" => r.arg \in after
             /\ \A file \in store : file \in after \/ (r.type = "UNREGISTER" /\ r.arg = file)
  <2>1. ToSet(<<r>>) = {r}
    BY DEF ToSet
  <2> DEFINE files == {q.arg : q \in {r}} \ {"none"}
  <2>2. Stored(<<r>>) = CASE \E q \in {r} : q.type = "REGISTER" -> {store \cup files}
                          [] \E q \in {r} : q.type = "UNREGISTER" -> {store, store \ files}
                          [] OTHER -> {store}
    BY <2>1 DEF Stored
  <2>3. files = {r.arg} \ {"none"}
    OBVIOUS
  <2> HIDE DEF files
  <2>4. CASE r.type = "REGISTER"
    <3>1. after = store \cup files
      BY <1>2, <2>2, <2>4
    <3>2. QED
      BY <2>3, <2>4, <3>1
  <2>5. CASE r.type = "UNREGISTER"
    <3>1. after = store \/ after = store \ files
      BY <1>2, <2>2, <2>5
    <3>2. QED
      BY <2>3, <2>5, <3>1
  <2>6. CASE r.type \notin {"REGISTER", "UNREGISTER"}
    <3>1. after = store
      BY <1>2, <2>2, <2>6
    <3>2. QED
      BY <2>6, <3>1
  <2>7. QED
    BY <2>4, <2>5, <2>6
<1>3. QED
  BY <1>1, <1>2

\* One request more has been carried out.
LEMMA OneMore ==
    ASSUME NEW reqs \in Seq(Request), NEW n \in Nat, n < Len(reqs)
    PROVE  /\ SubSeq(reqs, 1, n) \o <<reqs[n + 1]>> = SubSeq(reqs, 1, n + 1)
           /\ Len(SubSeq(reqs, 1, n + 1)) = n + 1
           /\ \A i \in 1 .. n + 1 : SubSeq(reqs, 1, n + 1)[i] = reqs[i]
<1> DEFINE r == reqs[n + 1]
           one == <<r>>
           s == SubSeq(reqs, 1, n)
           t == SubSeq(reqs, 1, n + 1)
<1>1. r \in Request /\ Len(reqs) \in Nat
  OBVIOUS
<1>2. s \in Seq(Request) /\ Len(s) = n /\ \A i \in 1 .. n : s[i] = reqs[i]
  OBVIOUS
<1>3. t \in Seq(Request) /\ Len(t) = n + 1 /\ \A i \in 1 .. n + 1 : t[i] = reqs[i]
  OBVIOUS
<1>4. one \in Seq(Request) /\ Len(one) = 1 /\ one[1] = r
  <2> HIDE DEF r
  <2> QED BY <1>1
<1> HIDE DEF one, s, t
<1>5. /\ s \o one \in Seq(Request) /\ Len(s \o one) = n + 1
      /\ \A i \in 1 .. n : (s \o one)[i] = s[i]
      /\ (s \o one)[n + 1] = one[1]
  <2>1. /\ s \o one \in Seq(Request) /\ Len(s \o one) = Len(s) + Len(one)
        /\ \A i \in 1 .. Len(s) : (s \o one)[i] = s[i]
        /\ \A i \in 1 .. Len(one) : (s \o one)[Len(s) + i] = one[i]
    <3>1. s \in Seq(Request) /\ one \in Seq(Request)
      BY <1>2, <1>4
    <3>2. \A x, y \in Seq(Request) :
             /\ x \o y \in Seq(Request) /\ Len(x \o y) = Len(x) + Len(y)
             /\ \A i \in 1 .. Len(x) : (x \o y)[i] = x[i]
             /\ \A i \in 1 .. Len(y) : (x \o y)[Len(x) + i] = y[i]
      BY ConcatParts
    <3>3. QED
      BY <3>1, <3>2, Zenon
  <2>2. QED
    BY <1>2, <1>4, <2>1
<1> DEFINE w == s \o one
<1> HIDE DEF w
<1>6. /\ w \in Seq(Request) /\ Len(w) = n + 1
      /\ \A i \in 1 .. n : w[i] = s[i]
      /\ w[n + 1] = one[1]
  BY <1>5 DEF w
<1>7. w = t
  <2>1. \A i \in 1 .. n + 1 : w[i] = t[i]
    BY <1>2, <1>3, <1>4, <1>6
  <2>2. QED
    BY <1>3, <1>6, <2>1
<1>8. QED
  BY <1>3, <1>7 DEF one, s, t, w

\* Process: the switch and the end of the loop.
LEMMA ProcessStreams ==
    ASSUME PlainClients, IInv, Streams, NEW t \in Threads, Process(t)
    PROVE  Streams'
<1> DEFINE c == work[t].cn
           cn == conn[c]
           in == input[c]
           reqs == Requests[c]
           n == Len(answers[c])
           op == work[t].op
           b == work[t].bytes
           taken == Max({b, 0})
           h == Handled(cn, b, SubSeq(in, 1, taken))
           rest == SubSeq(in, taken + 1, Len(in))
<1>1. /\ pc[t] = "ready" /\ conn' = [conn EXCEPT ![c] = h.cn]
      /\ input' = [input EXCEPT ![c] = rest]
      /\ answers' = [answers EXCEPT ![c] = @ \o h.done] /\ store' \in Stored(h.done)
      /\ work' = [work EXCEPT ![t] = NoWork] /\ Leave(t)
  BY DEF Process
<1>2. c \in Connections /\ pc[t] \notin Idle
  <2>1. pc[t] \notin Idle
    BY <1>1 DEF Idle
  <2>2. QED
    BY <2>1 DEF IInv, InHand, Idle
<1>3. /\ IsConnection(cn) /\ conn = [d \in Connections |-> conn[d]] /\ cn.ops = <<>>
      /\ \A u \in Threads : IF pc[u] \in Idle THEN work[u].cn = "none"
                            ELSE work[u].cn \in Connections
      /\ \A u \in Threads : work[u].cn = c => u = t
      /\ pc \in [Threads -> Places] /\ work = [u \in Threads |-> work[u]]
  <2>1. work = [u \in Threads |-> work[u]]
    BY DEF IInv, Typed
  <2> HIDE DEF h, rest
  <2>2. QED
    BY <1>2, <2>1, Facts
<1>4. /\ Kept(cn, in, reqs, n) /\ answers[c] = SubSeq(reqs, 1, n)
      /\ input = [d \in Connections |-> input[d]] /\ answers = [d \in Connections |-> answers[d]]
      /\ Located
  BY <1>2 DEF Streams, Order
<1>5. Carried(cn, op, b, in, reqs, n)
  BY <1>2 DEF Streams, Cared
<1>6. /\ Plain(reqs) /\ reqs \in Seq(Request) /\ n \in Nat /\ n \in 0 .. Len(reqs)
      /\ Held(cn, in, reqs, n) /\ cn.socket = "open"
      /\ Pending(cn, op, in, reqs, n) /\ Brought(b, cn, op, in, reqs)
  <2>1. Plain(reqs)
    BY <1>2 DEF PlainClients
  <2>2. cn.socket = "open" /\ Pending(cn, op, in, reqs, n) /\ Brought(b, cn, op, in, reqs)
    BY <1>5 DEF Carried
  <2> HIDE DEF cn, in, reqs, n, op, b
  <2>3. reqs \in Seq(Request)
    BY <2>1 DEF Plain
  <2>4. n \in 0 .. Len(reqs) /\ Held(cn, in, reqs, n)
    BY <1>4, <2>2 DEF Kept
  <2>5. QED
    BY <2>1, <2>2, <2>3, <2>4
<1>7. n < Len(reqs) /\ reqs[n + 1].type = "LIST_LOCATIONS" => reqs[n + 1].arg \in store
  <2> SUFFICES ASSUME n < Len(reqs), reqs[n + 1].type = "LIST_LOCATIONS"
               PROVE  reqs[n + 1].arg \in store
    OBVIOUS
  <2> DEFINE file == reqs[n + 1].arg
  <2>1. n + 1 \in 1 .. Len(reqs)
    BY <1>6
  <2>2. /\ \E j \in 1 .. (n + 1) - 1 : reqs[j] = [type |-> "REGISTER", arg |-> file]
        /\ ~ Withdrawn(file)
    BY <1>2, <2>1 DEF PlainClients
  <2>3. PICK j \in 1 .. n : reqs[j] = [type |-> "REGISTER", arg |-> file]
    <3>1. (n + 1) - 1 = n
      BY <1>6
    <3>2. QED
      BY <2>2, <3>1, Zenon
  <2>4. answers[c][j] = reqs[j]
    <3>1. \A i \in 1 .. n : SubSeq(reqs, 1, n)[i] = reqs[i]
      BY <1>6
    <3>2. QED
      BY <1>4, <3>1
  <2>5. answers[c][j].type = "REGISTER" /\ answers[c][j].arg = file
    BY <2>3, <2>4
  <2>6. QED
    BY <1>2, <1>4, <2>2, <2>5 DEF Located
<1>8. \/ h.done = <<>> /\ Asked(cn, h.cn, rest, reqs, n)
      \/ n < Len(reqs) /\ h.done = <<reqs[n + 1]>> /\ Asked(cn, h.cn, rest, reqs, n + 1)
      \/ h.done = <<>> /\ h.cn = ConnectionEnd(cn) /\ n = Len(reqs) /\ rest \in Seq(Token)
  <2> HIDE DEF cn, in, reqs, n, op, b
  <2> QED BY <1>3, <1>6, <1>7, HandledAsked
<1> HIDE DEF h, rest, taken
<1>9. /\ \A d \in Connections \ {c} :
            conn'[d] = conn[d] /\ input'[d] = input[d] /\ answers'[d] = answers[d]
      /\ conn'[c] = h.cn /\ input'[c] = rest /\ answers'[c] = answers[c] \o h.done
      /\ input' = [d \in Connections |-> input'[d]]
      /\ answers' = [d \in Connections |-> answers'[d]]
  BY <1>1, <1>2, <1>3, <1>4
<1>10. /\ \A u \in Threads \ {t} : work'[u] = work[u] /\ pc'[u] = pc[u]
       /\ work'[t].cn = "none" /\ pc'[t] \in Idle
  <2>1. pc' = [pc EXCEPT ![t] = "leaving"] \/ pc' = [pc EXCEPT ![t] = "waiting"]
    BY <1>1 DEF Leave
  <2>2. \A u \in Threads \ {t} : pc'[u] = pc[u]
    BY <1>3, <2>1
  <2>3. pc'[t] \in Idle
    BY <1>3, <2>1 DEF Idle
  <2>4. QED
    BY <1>1, <1>3, <2>2, <2>3 DEF NoWork
<1>11. /\ \A u \in Threads : work[u].cn \in Connections \ {c} => work'[u] = work[u]
       /\ \A u \in Threads : pc'[u] \notin Idle =>
             pc[u] \notin Idle /\ work'[u] = work[u] /\ work[u].cn \in Connections
       /\ \A u \in Threads : pc'[u] \notin Idle => work'[u].cn # c
  BY <1>3, <1>10
<1> DEFINE m == Len(answers'[c])
<1>12. /\ answers'[c] = SubSeq(reqs, 1, m)
       /\ Kept(h.cn, rest, reqs, m)
       /\ h.cn.socket = "open" /\ ~ h.cn.broken => h.cn.ops # <<>>
       /\ Located'
  <2>1. ASSUME h.done = <<>>
        PROVE  answers'[c] = answers[c] /\ m = n /\ store' = store /\ Located'
    <3>1. answers[c] \o <<>> = answers[c]
      <4>1. SubSeq(reqs, 1, n) \in Seq(Request)
        BY <1>6
      <4>2. answers[c] \in Seq(Request)
        BY <1>4, <4>1
      <4> DEFINE a == answers[c]
      <4> HIDE DEF a
      <4>3. a \in Seq(Request) => a \o <<>> = a
        OBVIOUS
      <4>4. QED
        BY <4>2, <4>3 DEF a
    <3>2. answers'[c] = answers[c]
      BY <1>9, <2>1, <3>1
    <3>3. store' = store
      BY <1>1, <2>1, StoredFacts
    <3>4. \A d \in Connections : answers'[d] = answers[d]
      BY <1>9, <3>2
    <3>5. QED
      BY <1>4, <3>2, <3>3, <3>4 DEF Located
  <2>2. ASSUME NEW k, Asked(cn, h.cn, rest, reqs, k)
        PROVE  /\ Kept(h.cn, rest, reqs, k)
               /\ h.cn.socket = "open" /\ ~ h.cn.broken => h.cn.ops # <<>>
    <3> HIDE DEF cn
    <3>1. /\ h.cn.socket = "open" /\ Held(h.cn, rest, reqs, k)
          /\ h.cn.ops = <<>> => h.cn.broken
          /\ h.cn.ops # <<>> => Pending(h.cn, Head(h.cn.ops), rest, reqs, k)
      BY <1>6, <2>2 DEF Asked
    <3>2. k \in 0 .. Len(reqs) /\ rest \in Seq(Token)
      BY <3>1 DEF Held
    <3>3. QED
      BY <3>1, <3>2 DEF Kept
  <2>3. CASE h.done = <<>> /\ Asked(cn, h.cn, rest, reqs, n)
    BY <1>4, <2>1, <2>2, <2>3
  <2>4. CASE /\ n < Len(reqs) /\ h.done = <<reqs[n + 1]>>
             /\ Asked(cn, h.cn, rest, reqs, n + 1)
    <3> DEFINE r == reqs[n + 1]
    <3>1. /\ SubSeq(reqs, 1, n) \o <<r>> = SubSeq(reqs, 1, n + 1)
          /\ Len(SubSeq(reqs, 1, n + 1)) = n + 1
          /\ \A i \in 1 .. n + 1 : SubSeq(reqs, 1, n + 1)[i] = reqs[i]
      BY <1>6, <2>4, OneMore
    <3>2. answers'[c] = SubSeq(reqs, 1, n + 1) /\ m = n + 1
      <4>1. answers'[c] = SubSeq(reqs, 1, n) \o <<r>>
        BY <1>4, <1>9, <2>4
      <4>2. QED
        BY <3>1, <4>1
    <3>3. n + 1 \in 1 .. Len(reqs) /\ store' \in Stored(<<r>>)
      <4>1. store' \in Stored(<<r>>)
        BY <1>1, <2>4
      <4>2. n + 1 \in 1 .. Len(reqs)
        BY <1>6, <2>4
      <4>3. QED
        BY <4>1, <4>2
    <3>4. \A file \in store : file \in store' \/ Withdrawn(file)
      <4>1. ASSUME NEW file \in store, file \notin store' PROVE Withdrawn(file)
        <5>1. r.type = "UNREGISTER" /\ r.arg = file
          BY <3>3, <4>1, StoredFacts
        <5>2. r \in Request
          BY <1>6, <3>3
        <5>3. r = [type |-> "UNREGISTER", arg |-> file]
          BY <5>1, <5>2 DEF Request
        <5>4. QED
          BY <1>2, <3>3, <5>3 DEF Withdrawn
      <4>2. QED
        BY <4>1
    <3>5. ASSUME NEW d \in Connections, NEW i \in 1 .. Len(answers'[d]),
                 answers'[d][i].type = "REGISTER", ~ Withdrawn(answers'[d][i].arg)
          PROVE  answers'[d][i].arg \in store'
      <4>1. CASE d = c /\ i = n + 1
        <5>1. answers'[d][i] = r
          BY <3>1, <3>2, <3>3, <4>1
        <5>2. r.type = "REGISTER"
          BY <3>5, <5>1
        <5>3. r.arg # "none"
          BY <1>6, <3>3, <5>2 DEF Plain, WithArgument
        <5>4. QED
          BY <3>3, <5>1, <5>2, <5>3, StoredFacts
      <4>2. CASE ~ (d = c /\ i = n + 1)
        <5>1. i \in 1 .. Len(answers[d]) /\ answers'[d][i] = answers[d][i]
          <6>1. CASE d = c
            <7>1. i \in 1 .. n
              BY <1>6, <3>2, <4>2, <6>1
            <7>2. answers'[c][i] = reqs[i]
              <8>1. i \in 1 .. n + 1
                BY <1>6, <7>1
              <8>2. SubSeq(reqs, 1, n + 1)[i] = reqs[i]
                BY <3>1, <8>1
              <8>3. QED
                BY <3>2, <8>2
            <7>3. \A j \in 1 .. n : SubSeq(reqs, 1, n)[j] = reqs[j]
              BY <1>6
            <7>4. answers[c][i] = reqs[i]
              BY <1>4, <7>1, <7>3
            <7>5. QED
              BY <6>1, <7>1, <7>2, <7>4
          <6>2. CASE d # c
            BY <1>9, <6>2
          <6>3. QED
            BY <6>1, <6>2
        <5>2. answers[d][i].arg \in store
          BY <1>4, <3>5, <5>1 DEF Located
        <5>3. QED
          BY <3>4, <3>5, <5>1, <5>2
      <4>3. QED
        BY <4>1, <4>2
    <3>6. Located'
      BY <3>5 DEF Located
    <3>7. QED
      BY <2>2, <2>4, <3>2, <3>6
  <2>5. CASE /\ h.done = <<>> /\ h.cn = ConnectionEnd(cn) /\ n = Len(reqs)
             /\ rest \in Seq(Token)
    <3> HIDE DEF cn
    <3>1. h.cn.socket = "closed" /\ h.cn.ops = <<>>
      BY <1>3, <2>5 DEF ConnectionEnd, IsConnection, Fields
    <3>2. Kept(h.cn, rest, reqs, n)
      BY <1>6, <2>5, <3>1 DEF Kept
    <3>3. QED
      BY <1>4, <2>1, <2>5, <3>1, <3>2
  <2>6. QED
    BY <1>8, <2>3, <2>4, <2>5
<1>13. QED
  <2> HIDE DEF c, reqs
  <2> QED BY <1>2, <1>9, <1>11, <1>12, StreamsStep DEF reqs

LEMMA InitStreams == ASSUME PlainClients, Init PROVE Streams
<1>1. ASSUME NEW c \in Connections
      PROVE  /\ answers[c] = SubSeq(Requests[c], 1, Len(answers[c]))
             /\ Kept(conn[c], input[c], Requests[c], Len(answers[c]))
  <2> DEFINE reqs == Requests[c]
             cn == ConnectionInit
             in == Stream(reqs)
  <2>1. /\ conn[c] = cn /\ input[c] = in /\ answers[c] = <<>> /\ Len(answers[c]) = 0
    BY DEF Init
  <2>2. reqs \in Seq(Request) /\ Len(reqs) \in Nat
    BY DEF PlainClients, Plain
  <2>3. /\ After(reqs, 0) = reqs /\ 0 \in 0 .. Len(reqs) /\ SubSeq(reqs, 1, 0) = <<>>
    <3>1. SubSeq(reqs, 0 + 1, Len(reqs)) = reqs /\ SubSeq(reqs, 1, 0) = <<>>
      BY <2>2
    <3>2. QED
      BY <2>2, <3>1 DEF After
  <2>4. in \in Seq(Token) /\ Len(in) \in Nat
    <3>1. in \in Seq(Token)
      BY <2>2, <2>3, StreamSplit
    <3> HIDE DEF in
    <3>2. QED
      BY <3>1
  <2>5. /\ cn.len = 0 /\ cn.lastReq = 0 /\ cn.rPos = 0 /\ cn.socket = "none"
        /\ cn.key = "START_OPER" /\ cn.ops = <<>>
        /\ cn.buf = [i \in 1 .. BUFFERSIZE |-> "?"]
    BY DEF ConnectionInit
  <2>6. cn.buf \in Seq(Token) /\ Len(cn.buf) = BUFFERSIZE /\ BUFFERSIZE \in Nat
    <3>1. "?" \in Token /\ BUFFERSIZE \in Nat
      BY ServerAssumption DEF Token
    <3> HIDE DEF cn
    <3>2. QED
      BY <2>5, <3>1
  <2> HIDE DEF cn, in, reqs
  <2>7. Buffer(cn)
    BY <2>5, <2>6 DEF Buffer
  <2>8. Match(cn, in, in)
    <3>1. cn.len - cn.lastReq = 0
      BY <2>5
    <3>2. 0 + Len(in) = Len(in) /\ \A i \in 1 .. Len(in) : 0 + i = i
      BY <2>4
    <3>3. QED
      BY <3>1, <3>2 DEF Match
  <2>9. Held(cn, in, reqs, 0)
    BY <2>2, <2>3, <2>4, <2>7, <2>8 DEF Held, in
  <2>10. Kept(cn, in, reqs, 0)
    BY <2>3, <2>4, <2>5, <2>9 DEF Kept
  <2>11. QED
    BY <2>1, <2>3, <2>10 DEF reqs
<1>2. Order
  BY <1>1 DEF Init, Order
<1>3. Cared
  <2>1. \A c \in Connections : conn[c].socket = "none"
    BY DEF Init, ConnectionInit
  <2>2. \A t \in Threads : pc[t] \in Idle
    BY DEF Init, Idle
  <2>3. QED
    BY <2>1, <2>2 DEF Cared
<1>4. Located
  <2>1. \A c \in Connections : answers[c] = <<>>
    BY DEF Init
  <2>2. Len(<<>>) = 0
    OBVIOUS
  <2>3. QED
    BY <2>1, <2>2 DEF Located
<1>5. QED
  BY <1>2, <1>3, <1>4 DEF Streams

LEMMA NextStreams ==
    ASSUME PlainClients
    PROVE  IInv /\ Streams /\ [Next]_vars => Streams'
<1> SUFFICES ASSUME IInv, Streams, [Next]_vars PROVE Streams'
  OBVIOUS
<1>0. pc \in [Threads -> Places]
  BY DEF IInv, Typed
<1>1. ASSUME NEW c \in Connections, Accept(c) \/ AcceptFails(c) \/ Reset(c)
      PROVE  Streams'
  BY <1>1, ClientStreams
<1>2. ASSUME NEW t \in Threads, NEW c \in Connections, Dequeue(t, c) \/ DequeueFails(t, c)
      PROVE  Streams'
  BY <1>2, DequeueStreams, DequeueFailsStreams
<1>3. ASSUME NEW t \in Threads,
             \/ Timeout(t) \/ CountActive(t) \/ LoadThreads(t) \/ Compare(t)
             \/ AddThread(t) \/ CountThread(t) \/ ThreadEnds(t)
      PROVE  Streams'
  <2>1. UNCHANGED <<conn, input, answers, store, work>>
    BY <1>3 DEF Timeout, Shrink, CountActive, LoadThreads, Compare, AddThread, CountThread,
                  ThreadEnds, vars
  <2>2. \A u \in Threads : pc'[u] \notin Idle => pc[u] \notin Idle
    <3>1. CASE Timeout(t)
      BY <1>0, <3>1 DEF Timeout, Shrink, vars, Idle
    <3>2. CASE CountActive(t) \/ LoadThreads(t) \/ Compare(t) \/ CountThread(t) \/ ThreadEnds(t)
      BY <1>0, <3>2 DEF CountActive, LoadThreads, Compare, CountThread, ThreadEnds, Idle
    <3>3. CASE AddThread(t)
      BY <1>0, <3>3 DEF AddThread, Idle
    <3>4. QED
      BY <1>3, <3>1, <3>2, <3>3
  <2>3. QED
    BY <2>1, <2>2, ThreadsStep
<1>4. ASSUME NEW t \in Threads, Process(t) PROVE Streams'
  BY <1>4, ProcessStreams
<1>5. CASE UNCHANGED vars
  <2>1. UNCHANGED <<conn, input, answers, store, work, pc>>
    BY <1>5 DEF vars
  <2>2. QED
    BY <2>1, ThreadsStep
<1>6. QED
  BY <1>1, <1>2, <1>3, <1>4, <1>5 DEF Next, Serve

(***************************************************************************)
(* Theorems.  MAX_THREADS = MIN_THREADS + 1 in Server.h: the pool starts   *)
(* with MIN_THREADS threads and the one of CreateLoggerThread, and counts  *)
(* MAX_THREADS of them.                                                    *)
(***************************************************************************)

\* The strengthened invariant holds in every reachable state.
THEOREM IInvHolds == ASSUME MAX_THREADS = MIN_THREADS + 1 PROVE Spec => []IInv
<1>1. Init => IInv
  BY InitIInv
<1>2. QED
  BY <1>1, NextIInv, PTL DEF Spec

\* The counters of RunOperation count the threads of the pool, but for those that a
\* failed completion ended, and the unlocked comparison lets the pool grow to twice
\* the number of connections at most.
THEOREM PoolCountedAlways == ASSUME MAX_THREADS = MIN_THREADS + 1 PROVE Spec => []PoolCounted
<1>1. IInv => PoolCounted
  <2> SUFFICES ASSUME IInv PROVE PoolCounted
    OBVIOUS
  <2>1. Typed /\ Counters
    BY DEF IInv
  <2>2. Cardinality(Added) <= Cardinality(Growing)
    BY Sets, Sizes DEF Added, Growing
  <2>3. Cardinality(Alive) <= Largest /\ Cardinality(Alive) + killed >= MIN_THREADS
    BY <2>1, <2>2, SizesNow, Numbers DEF Typed, Counters
  <2>4. QED
    BY <2>1, <2>3 DEF Counters, PoolCounted, Added, Largest
<1>2. QED
  BY <1>1, IInvHolds, PTL

\* A connection is in one thread's hands at a time, and nothing has been asked for it
\* meanwhile: two threads never use a Connection together, whatever the clients send.
THEOREM OneThreadPerConnection == ASSUME MAX_THREADS = MIN_THREADS + 1 PROVE Spec => []InHand
<1>1. IInv => InHand
  BY DEF IInv
<1>2. QED
  BY <1>1, IInvHolds, PTL

\* Nothing a plain client has sent is lost: the buffer and the input go on holding what has
\* not been carried out, at every step of every thread.  PlainClients has AnyCut = FALSE,
\* so chunks may end anywhere but between CR and LF and behind a request with another one
\* to come; after a chunk that ends there it is false (Handler.cpp:239-242).
THEOREM StreamsHold ==
    ASSUME MAX_THREADS = MIN_THREADS + 1, PlainClients
    PROVE  Spec => [](IInv /\ Streams)
<1>1. Init => IInv /\ Streams
  BY InitIInv, InitStreams
<1>2. IInv /\ Streams /\ [Next]_vars => (IInv /\ Streams)'
  BY NextIInv, NextStreams
<1>3. QED
  BY <1>1, <1>2, PTL DEF Spec

\* A connection is worked on by one thread or waits for one completion; it is never
\* forgotten while its socket works, and after its end nothing comes for it.
THEOREM OneOperationAlways ==
    ASSUME MAX_THREADS = MIN_THREADS + 1, PlainClients
    PROVE  Spec => []OneOperation
<1>1. IInv /\ Streams => OneOperation
  <2> SUFFICES ASSUME IInv, Streams, NEW c \in Connections
               PROVE  LET operations == Len(conn[c].ops)
                                           + Cardinality({t \in Threads : work[t].cn = c})
                      IN  IF conn[c].socket # "open" THEN operations = 0
                          ELSE operations = 1 \/ (conn[c].broken /\ operations = 0)
    BY DEF OneOperation
  <2> DEFINE cn == conn[c]
             hands == {t \in Threads : work[t].cn = c}
  <2>1. /\ cn.ops = <<>> \/ \E op \in Operations : cn.ops = <<op>>
        /\ \A t \in hands : pc[t] \notin Idle /\ cn.ops = <<>>
        /\ \A t, u \in hands : t = u
    BY Facts
  <2>2. Kept(cn, input[c], Requests[c], Len(answers[c]))
    BY DEF Streams, Order
  <2>3. \A t \in hands : cn.socket = "open"
    BY <2>1 DEF Streams, Cared, Carried
  <2>4. cn.socket = "open" /\ ~ cn.broken => cn.ops # <<>> \/ \E t \in Threads : work[t].cn = c
    BY DEF Streams, Cared
  <2>5. cn.ops # <<>> => cn.socket = "open"
    BY <2>2 DEF Kept
  <2>6. hands = {} => Cardinality(hands) = 0
    BY FS_EmptySet
  <2>7. hands # {} => Cardinality(hands) = 1
    <3>1. SUFFICES ASSUME NEW t \in hands PROVE Cardinality(hands) = 1
      OBVIOUS
    <3>2. hands = {t}
      BY <2>1
    <3>3. QED
      BY <3>2, FS_Singleton
  <2>8. Len(<<>>) = 0 /\ \A op : Len(<<op>>) = 1
    OBVIOUS
  <2>9. /\ cn.ops = <<>> => Len(cn.ops) = 0
        /\ cn.ops # <<>> => Len(cn.ops) = 1 /\ hands = {}
    BY <2>1, <2>8
  <2> HIDE DEF cn
  <2>10. CASE hands = {}
    <3>1. cn.socket = "open" /\ ~ cn.broken => cn.ops # <<>>
      BY <2>4, <2>10
    <3>2. Cardinality(hands) = 0
      BY <2>6, <2>10
    <3>3. CASE cn.ops = <<>>
      <4>1. Len(cn.ops) = 0 /\ (cn.socket = "open" => cn.broken)
        BY <2>9, <3>1, <3>3
      <4> HIDE DEF hands
      <4>2. QED
        BY <3>2, <4>1 DEF hands, cn
    <3>4. CASE cn.ops # <<>>
      <4>1. Len(cn.ops) = 1 /\ cn.socket = "open"
        BY <2>5, <2>9, <3>4
      <4> HIDE DEF hands
      <4>2. QED
        BY <3>2, <4>1 DEF hands, cn
    <3>5. QED
      BY <3>3, <3>4
  <2>11. CASE hands # {}
    <3>1. cn.socket = "open" /\ Len(cn.ops) = 0 /\ Cardinality(hands) = 1
      BY <2>3, <2>7, <2>9, <2>11
    <3> HIDE DEF hands
    <3>2. QED
      BY <3>1 DEF hands, cn
  <2>12. QED
    BY <2>10, <2>11
<1>2. QED
  BY <1>1, StreamsHold, PTL

\* What lies unserved in the buffer and what is still to come are, one behind the
\* other, the stream of the requests not carried out.
THEOREM UnservedKeptAlways ==
    ASSUME MAX_THREADS = MIN_THREADS + 1, PlainClients
    PROVE  Spec => []UnservedKept
<1>1. PlainClients /\ Streams => UnservedKept
  <2> SUFFICES ASSUME PlainClients, Streams, NEW c \in Connections, conn[c].socket = "open"
               PROVE  SubSeq(conn[c].buf, conn[c].lastReq + 1, conn[c].len) \o input[c]
                          = Stream(SubSeq(Requests[c], Len(answers[c]) + 1, Len(Requests[c])))
    BY DEF UnservedKept
  <2> DEFINE a == conn[c].lastReq
             b == conn[c].len
             buf == conn[c].buf
             in == input[c]
             s == Stream(After(Requests[c], Len(answers[c])))
             front == SubSeq(buf, a + 1, b)
             u == b - a
             x == front \o in
  <2>1. Held(conn[c], in, Requests[c], Len(answers[c]))
    BY DEF Streams, Order, Kept
  <2>2. /\ a \in Nat /\ b \in Nat /\ a <= b /\ buf \in Seq(Token) /\ b <= Len(buf)
        /\ in \in Seq(Token) /\ Len(in) \in Nat
    BY <2>1 DEF Held, Buffer
  <2>3. /\ u + Len(in) = Len(s)
        /\ \A i \in 1 .. u : buf[a + i] = s[i]
        /\ \A i \in 1 .. Len(in) : in[i] = s[u + i]
    BY <2>1 DEF Held, Match
  <2>4. s \in Seq(Token)
    <3>1. Requests[c] \in Seq(Request)
      BY DEF PlainClients, Plain
    <3>2. Len(answers[c]) \in 0 .. Len(Requests[c])
      BY <2>1 DEF Held
    <3>3. QED
      BY <3>1, <3>2, EndTokens
  <2> HIDE DEF a, b, buf, in, s
  <2>5. front \in Seq(Token) /\ Len(front) = u /\ u \in Nat
        /\ \A i \in 1 .. u : front[i] = buf[a + i]
    BY <2>2, TokenPart
  <2> HIDE DEF front, u
  <2>6. /\ x \in Seq(Token) /\ Len(x) = Len(front) + Len(in)
        /\ \A i \in 1 .. Len(front) : x[i] = front[i]
        /\ \A i \in 1 .. Len(in) : x[Len(front) + i] = in[i]
    BY <2>2, <2>5, TokenConcat, Zenon
  <2> HIDE DEF x
  <2>7. ASSUME NEW i \in 1 .. Len(s) PROVE x[i] = s[i]
    <3>1. CASE i <= u
      <4>1. i \in 1 .. u
        BY <2>5, <3>1
      <4>2. x[i] = front[i] /\ front[i] = buf[a + i] /\ buf[a + i] = s[i]
        BY <2>3, <2>5, <2>6, <4>1
      <4>3. QED
        BY <4>2
    <3>2. CASE i > u
      <4>1. i - u \in 1 .. Len(in) /\ u + (i - u) = i
        BY <2>2, <2>3, <2>5, <3>2
      <4>2. x[u + (i - u)] = in[i - u] /\ in[i - u] = s[u + (i - u)]
        BY <2>3, <2>5, <2>6, <4>1
      <4>3. QED
        BY <4>1, <4>2
    <3>3. QED
      BY <2>5, <3>1, <3>2
  <2>8. Len(x) = Len(s)
    BY <2>3, <2>5, <2>6
  <2>9. x = s
    BY <2>4, <2>6, <2>7, <2>8
  <2>10. QED
    BY <2>9 DEF x, front, s, buf, a, b, in, After
<1>2. QED
  BY <1>1, StreamsHold, PTL

\* Requests are carried out once each and in order, and all of them before the server
\* ends the connection.
THEOREM AnsweredInOrderAlways ==
    ASSUME MAX_THREADS = MIN_THREADS + 1, PlainClients
    PROVE  Spec => []AnsweredInOrder
<1>1. PlainClients /\ Streams => AnsweredInOrder
  <2> SUFFICES ASSUME PlainClients, Streams, NEW c \in Connections
               PROVE  /\ IsPrefix(answers[c], Requests[c])
                      /\ conn[c].socket = "closed" => answers[c] = Requests[c]
    BY DEF AnsweredInOrder
  <2> DEFINE reqs == Requests[c]
             a == answers[c]
             n == Len(a)
  <2>1. a = SubSeq(reqs, 1, n) /\ Kept(conn[c], input[c], reqs, n)
    BY DEF Streams, Order
  <2>2. reqs \in Seq(Request) /\ Len(reqs) \in Nat
    BY DEF PlainClients, Plain
  <2>3. n \in 0 .. Len(reqs)
    BY <2>1 DEF Kept
  <2> HIDE DEF reqs
  <2>4. a \in Seq(Request)
    <3>1. SubSeq(reqs, 1, n) \in Seq(Request)
      BY <2>2, <2>3
    <3>2. QED
      BY <2>1, <3>1
  <2>5. SubSeq(a, 1, n) = a /\ SubSeq(reqs, 1, Len(reqs)) = reqs
    <3> HIDE DEF a
    <3> QED BY <2>2, <2>4
  <2>6. IsPrefix(a, reqs)
    <3>1. n <= Len(reqs) /\ SubSeq(a, 1, n) = SubSeq(reqs, 1, n)
      BY <2>1, <2>2, <2>3, <2>5
    <3>2. QED
      BY <3>1 DEF IsPrefix
  <2>7. conn[c].socket = "closed" => a = reqs
    <3>1. conn[c].socket = "closed" => n = Len(reqs)
      BY <2>1 DEF Kept
    <3>2. QED
      BY <2>1, <2>5, <3>1
  <2>8. QED
    BY <2>6, <2>7 DEF reqs
<1>2. QED
  BY <1>1, StreamsHold, PTL
=============================================================================
