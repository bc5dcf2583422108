-------------------------- MODULE IndexerRingProofs --------------------------
(***************************************************************************)
(* Theorems about IndexerRing for any number of clients, of queries and of *)
(* crashes and any size of the array, when clients come after RingInit:    *)
(* places and announcements are conserved, and the ring implements         *)
(* BoundedBuffer.                                                          *)
(***************************************************************************)
EXTENDS IndexerRing, DataLemmas, SequenceTheorems

Processes == Clients \cup {Server}
Locking == {"copy", "move", "signal", "unlock"}
Opened == {"takeSlot", "lock"} \cup Locking
Steps == {"createFull", "createEmpty", "createMutex", "zeroIndices", "idle",
          "outside", "openEmpty", "openMutex", "dead"} \cup Opened

\* The number of unread queries and the slot of the i-th, without a modulus.
CountOf(put, get) == IF put >= get THEN put - get ELSE put - get + MAXELEMENTS + 1
SlotFrom(get, i) ==
    IF get + i - 1 <= MAXELEMENTS THEN get + i - 1 ELSE get + i - 1 - (MAXELEMENTS + 1)

(***************************************************************************)
(* The parts of the inductive invariant.                                   *)
(***************************************************************************)
Typed ==
    /\ hSemaphoreFull \in Nat /\ hSemaphoreEmpty \in Nat
    /\ queries \in [Slots -> Clients \cup {NoQuery}]
    /\ iPut \in Slots /\ iGet \in Slots
    /\ handles \in [Clients -> SUBSET {"Full", "Empty", "Mutex"}]
    /\ pc \in [Processes -> Steps]
    /\ lost \in [places : Nat, signals : Nat]

\* Before RingInit is over there is nobody in the ring.
Starting ==
    ~InitOver =>
        /\ iPut = 0 /\ iGet = 0 /\ hSemaphoreEmpty = 0
        /\ pc[Server] # "createFull" => hSemaphoreFull = MAXELEMENTS
        /\ lost = [places |-> 0, signals |-> 0]
        /\ \A c \in Clients : pc[c] = "outside"

\* Afterwards every client finds the three objects.
Named ==
    /\ pc[Server] # "createFull" => "Full" \in named
    /\ pc[Server] \notin {"createFull", "createEmpty"} => "Empty" \in named
    /\ pc[Server] \notin {"createFull", "createEmpty", "createMutex"} => "Mutex" \in named
    /\ \A c \in Clients :
          /\ pc[c] \in {"openEmpty", "openMutex"} \cup Opened => "Full" \in handles[c]
          /\ pc[c] \in {"openMutex"} \cup Opened => "Empty" \in handles[c]
          /\ pc[c] \in Opened => "Mutex" \in handles[c]

\* The mutex is its owner's until it is released or its owner dies.
Exclusive == \A p \in Processes : pc[p] \in Locking => hMutex = p

Holds(step)     == IF step \in {"lock", "copy", "move"} THEN 1 ELSE 0
Announces(step) == IF step = "signal" THEN 1 ELSE 0
Held       == Cardinality(At({"lock", "copy", "move"}))
Announcing == Cardinality(At({"signal"}))

\* PlacesConserved, in numbers.
Balance ==
    InitOver =>
        /\ hSemaphoreFull + Held + CountOf(iPut, iGet) + Announces(pc[Server]) + lost.places
               = MAXELEMENTS
        /\ hSemaphoreEmpty + Holds(pc[Server]) + Announcing + lost.signals = CountOf(iPut, iGet)

\* The unread slots hold queries; a client or the server at work sees its own slot.
Contents ==
    /\ \A i \in 1 .. CountOf(iPut, iGet) : queries[SlotFrom(iGet, i)] \in Clients
    /\ \A c \in Clients : pc[c] = "move" => queries[iPut] = c
    /\ pc[Server] = "move" => elem = queries[iGet]

IInv == Typed /\ Starting /\ Named /\ Exclusive /\ Balance /\ Contents

(***************************************************************************)
(* The array.                                                              *)
(***************************************************************************)

\* A number below two sizes, reduced to a slot.
LEMMA Reduce ==
    ASSUME NEW k \in Nat \ {0}, NEW x, x \in 0 .. k + k - 1, NEW r,
           x < k => r = x, x >= k => r = x - k
    PROVE  x % k = r
OBVIOUS

\* A function on 1 .. k is a sequence of its values.
LEMMA FunctionIsSeq ==
    ASSUME NEW k \in Nat, NEW S, NEW f \in [1 .. k -> S]
    PROVE  f \in Seq(S)
OBVIOUS

\* Unread, without the modulus.
LEMMA UnreadForm ==
    ASSUME NEW put \in Slots, NEW get \in Slots, NEW q
    PROVE  LET Size == MAXELEMENTS + 1
               n == (put - get + Size) % Size
           IN  /\ CountOf(put, get) \in 0 .. MAXELEMENTS
               /\ [i \in 1 .. n |-> q[(get + i - 1) % Size]]
                    = [i \in 1 .. CountOf(put, get) |-> q[SlotFrom(get, i)]]
<1> DEFINE Size == MAXELEMENTS + 1
           n == (put - get + Size) % Size
<1>1. /\ MAXELEMENTS \in Nat /\ Size \in Nat \ {0} /\ Size = MAXELEMENTS + 1
      /\ put \in 0 .. MAXELEMENTS /\ get \in 0 .. MAXELEMENTS
  BY RingAssumption DEF Slots
<1> HIDE DEF Size
<1>2. n = CountOf(put, get)
  <2> DEFINE x == put - get + Size
  <2>1. /\ x \in 0 .. Size + Size - 1
        /\ x < Size => CountOf(put, get) = x
        /\ x >= Size => CountOf(put, get) = x - Size
    BY <1>1 DEF CountOf
  <2> HIDE DEF x
  <2>2. x % Size = CountOf(put, get)
    BY <1>1, <2>1, Reduce
  <2>3. QED
    BY <2>2 DEF x
<1>3. CountOf(put, get) \in 0 .. MAXELEMENTS
  BY <1>1 DEF CountOf
<1>4. ASSUME NEW i \in 1 .. CountOf(put, get)
      PROVE  (get + i - 1) % Size = SlotFrom(get, i)
  <2> DEFINE x == get + i - 1
  <2>1. /\ x \in 0 .. Size + Size - 1
        /\ x < Size => SlotFrom(get, i) = x
        /\ x >= Size => SlotFrom(get, i) = x - Size
    BY <1>1, <1>3 DEF SlotFrom
  <2> HIDE DEF x
  <2>2. x % Size = SlotFrom(get, i)
    BY <1>1, <2>1, Reduce
  <2>3. QED
    BY <2>2 DEF x
<1> HIDE DEF n
<1>5. QED
  BY <1>2, <1>3, <1>4 DEF n, Size

\* In this state and in the next.
LEMMA UnreadFacts ==
    ASSUME iPut \in Slots, iGet \in Slots
    PROVE  /\ CountOf(iPut, iGet) \in 0 .. MAXELEMENTS
           /\ Unread = [i \in 1 .. CountOf(iPut, iGet) |-> queries[SlotFrom(iGet, i)]]
           /\ Len(Unread) = CountOf(iPut, iGet)
<1>1. /\ CountOf(iPut, iGet) \in 0 .. MAXELEMENTS
      /\ Unread = [i \in 1 .. CountOf(iPut, iGet) |-> queries[SlotFrom(iGet, i)]]
  BY UnreadForm DEF Unread
<1>2. QED
  BY <1>1

LEMMA UnreadNext ==
    ASSUME iPut' \in Slots, iGet' \in Slots
    PROVE  /\ CountOf(iPut', iGet') \in 0 .. MAXELEMENTS
           /\ Unread' = [i \in 1 .. CountOf(iPut', iGet') |-> queries'[SlotFrom(iGet', i)]]
           /\ Len(Unread') = CountOf(iPut', iGet')
<1>1. /\ CountOf(iPut', iGet') \in 0 .. MAXELEMENTS
      /\ Unread' = [i \in 1 .. CountOf(iPut', iGet') |-> queries'[SlotFrom(iGet', i)]]
  BY UnreadForm DEF Unread
<1>2. QED
  BY <1>1

\* iPut moves on: one more query, in the slot it leaves.
LEMMA PutMoves ==
    ASSUME NEW put \in Slots, NEW get \in Slots, CountOf(put, get) < MAXELEMENTS
    PROVE  /\ IncrementIndex(put) \in Slots
           /\ CountOf(IncrementIndex(put), get) = CountOf(put, get) + 1
           /\ SlotFrom(get, CountOf(put, get) + 1) = put
<1>1. /\ MAXELEMENTS \in Nat \ {0}
      /\ put \in 0 .. MAXELEMENTS /\ get \in 0 .. MAXELEMENTS
  BY RingAssumption DEF Slots
<1>2. QED
  BY <1>1 DEF IncrementIndex, CountOf, SlotFrom, Slots

\* iGet moves on: the first query is gone, and each other one comes one earlier.
LEMMA GetMoves ==
    ASSUME NEW put \in Slots, NEW get \in Slots, CountOf(put, get) > 0
    PROVE  /\ IncrementIndex(get) \in Slots
           /\ CountOf(put, IncrementIndex(get)) = CountOf(put, get) - 1
           /\ SlotFrom(get, 1) = get
           /\ \A i \in 1 .. CountOf(put, get) - 1 :
                 SlotFrom(IncrementIndex(get), i) = SlotFrom(get, i + 1)
<1>1. /\ MAXELEMENTS \in Nat \ {0}
      /\ put \in 0 .. MAXELEMENTS /\ get \in 0 .. MAXELEMENTS
  BY RingAssumption DEF Slots
<1>2. /\ IncrementIndex(get) \in Slots /\ SlotFrom(get, 1) = get
      /\ CountOf(put, IncrementIndex(get)) = CountOf(put, get) - 1
  BY <1>1 DEF IncrementIndex, CountOf, SlotFrom, Slots
<1>3. ASSUME NEW i \in 1 .. CountOf(put, get) - 1
      PROVE  SlotFrom(IncrementIndex(get), i) = SlotFrom(get, i + 1)
  BY <1>1 DEF IncrementIndex, CountOf, SlotFrom, Slots
<1>4. QED
  BY <1>2, <1>3

\* The slot of iPut is none of the unread ones.
LEMMA PutSlotIsFree ==
    ASSUME NEW put \in Slots, NEW get \in Slots, NEW i \in 1 .. CountOf(put, get)
    PROVE  SlotFrom(get, i) # put /\ SlotFrom(get, i) \in Slots
<1>1. /\ MAXELEMENTS \in Nat \ {0}
      /\ put \in 0 .. MAXELEMENTS /\ get \in 0 .. MAXELEMENTS
  BY RingAssumption DEF Slots
<1>2. QED
  BY <1>1 DEF CountOf, SlotFrom, Slots

(***************************************************************************)
(* Counting clients.                                                       *)
(***************************************************************************)

\* The counts are numbers, and not zero if there is somebody to count.
LEMMA CountFacts ==
    /\ Held \in Nat /\ Announcing \in Nat
    /\ \A c \in Clients : pc[c] \in {"lock", "copy", "move"} => Held > 0
<1>1. IsFiniteSet(Clients)
  BY RingAssumption
<1>2. At({"signal"}) \in SUBSET Clients /\ At({"lock", "copy", "move"}) \in SUBSET Clients
  BY DEF At
<1>3. Cardinality(At({"signal"})) \in Nat /\ Cardinality(At({"lock", "copy", "move"})) \in Nat
      /\ \A t \in At({"lock", "copy", "move"}) : Cardinality(At({"lock", "copy", "move"})) > 0
  BY <1>1, <1>2, CountMembers
<1>4. \A c \in Clients : pc[c] \in {"lock", "copy", "move"} => c \in At({"lock", "copy", "move"})
  BY DEF At
<1>5. QED
  BY <1>3, <1>4 DEF Held, Announcing

\* The counts after a step of a client.
LEMMA ClientMoves ==
    ASSUME pc \in [Processes -> Steps], NEW c \in Clients, NEW s \in Steps,
           pc' = [pc EXCEPT ![c] = s]
    PROVE  /\ Held' = Held + Holds(s) - Holds(pc[c])
           /\ Announcing' = Announcing + Announces(s) - Announces(pc[c])
           /\ pc'[Server] = pc[Server]
<1>1. /\ Server \notin Clients /\ IsFiniteSet(Clients)
      /\ c \in Processes /\ Server \in Processes /\ Clients \in SUBSET Processes
  BY RingAssumption DEF Processes
<1>2. ASSUME NEW CONSTANT Q
      PROVE  Cardinality(At(Q)') = Cardinality(At(Q)) + (IF s \in Q THEN 1 ELSE 0)
                                                      - (IF pc[c] \in Q THEN 1 ELSE 0)
  <2> DEFINE A == At(Q)
             B == {d \in Clients : pc'[d] \in Q}
  <2>1. /\ A \in SUBSET Clients /\ B \in SUBSET Clients /\ A \ {c} = B \ {c}
        /\ c \in A <=> pc[c] \in Q
        /\ c \in B <=> s \in Q
    BY <1>1 DEF At
  <2>2. At(Q)' = B
    BY DEF At
  <2> HIDE DEF A, B
  <2>3. Cardinality(B) = Cardinality(A) + (IF c \in B THEN 1 ELSE 0)
                                        - (IF c \in A THEN 1 ELSE 0)
    BY <1>1, <2>1, CountMove
  <2>4. QED
    BY <2>1, <2>2, <2>3 DEF A
<1>3. Held' = Held + Holds(s) - Holds(pc[c])
  BY <1>2 DEF Held, Holds
<1>4. Announcing' = Announcing + Announces(s) - Announces(pc[c])
  BY <1>2 DEF Announcing, Announces
<1>5. QED
  BY <1>1, <1>3, <1>4

\* A step of the server changes none.
LEMMA ServerMoves ==
    ASSUME pc \in [Processes -> Steps], NEW s \in Steps, pc' = [pc EXCEPT ![Server] = s]
    PROVE  Held' = Held /\ Announcing' = Announcing /\ pc'[Server] = s
<1>1. Server \notin Clients /\ Server \in Processes /\ Clients \in SUBSET Processes
  BY RingAssumption DEF Processes
<1>2. \A Q : {d \in Clients : pc'[d] \in Q} = {d \in Clients : pc[d] \in Q}
  BY <1>1
<1>3. QED
  BY <1>1, <1>2 DEF Held, Announcing, At

(***************************************************************************)
(* The inductive invariant.                                                *)
(***************************************************************************)

\* Nobody is in the ring, and there is no ring yet.
LEMMA InitIInv == Init => IInv
<1> SUFFICES ASSUME Init PROVE IInv
  OBVIOUS
<1>1. /\ Server \notin Clients /\ MAXELEMENTS \in Nat
      /\ pc = [p \in Processes |-> IF p = Server THEN "createFull" ELSE "outside"]
  BY RingAssumption DEF Init, Processes
<1>2. pc[Server] = "createFull" /\ \A c \in Clients : pc[c] = "outside"
  BY <1>1 DEF Processes
<1>3. Typed
  BY <1>1 DEF Init, Typed, Slots, Processes, Steps
<1>4. Starting /\ Named /\ Balance
  BY <1>2 DEF Init, Starting, Named, Balance, InitOver, Opened, Locking
<1>5. Exclusive
  BY <1>1, <1>2 DEF Exclusive, Processes, Locking
<1>6. Contents
  <2>1. CountOf(iPut, iGet) = 0
    BY DEF Init, CountOf
  <2>2. QED
    BY <1>2, <2>1 DEF Contents
<1>7. QED
  BY <1>3, <1>4, <1>5, <1>6 DEF IInv

\* A client in a call finds the ring ready, and past its opens the three objects.
LEMMA InRing ==
    ASSUME IInv, NEW c \in Clients
    PROVE  /\ pc[c] # "outside" => InitOver
           /\ pc[c] \in Opened => handles[c] = {"Full", "Empty", "Mutex"}
<1>1. pc[c] # "outside" => InitOver
  BY DEF IInv, Starting
<1>2. handles[c] \in SUBSET {"Full", "Empty", "Mutex"}
  BY DEF IInv, Typed
<1>3. pc[c] \in Opened => "Full" \in handles[c] /\ "Empty" \in handles[c] /\ "Mutex" \in handles[c]
  BY DEF IInv, Named
<1>4. QED
  BY <1>1, <1>2, <1>3

\* A client that holds a place has a slot to write, the server at work one to read.
LEMMA Room ==
    ASSUME IInv
    PROVE  /\ CountOf(iPut, iGet) \in 0 .. MAXELEMENTS
           /\ \A c \in Clients :
                 pc[c] \in {"lock", "copy", "move"} => CountOf(iPut, iGet) < MAXELEMENTS
           /\ pc[Server] \in {"lock", "copy", "move"} => CountOf(iPut, iGet) > 0
<1>1. /\ hSemaphoreFull \in Nat /\ hSemaphoreEmpty \in Nat /\ MAXELEMENTS \in Nat
      /\ lost.places \in Nat /\ lost.signals \in Nat
      /\ Announces(pc[Server]) \in Nat /\ Held \in Nat /\ Announcing \in Nat
  BY RingAssumption, CountFacts DEF IInv, Typed, Announces
<1>2. CountOf(iPut, iGet) \in 0 .. MAXELEMENTS
  BY UnreadFacts DEF IInv, Typed
<1>3. ASSUME NEW c \in Clients, pc[c] \in {"lock", "copy", "move"}
      PROVE  CountOf(iPut, iGet) < MAXELEMENTS
  <2>1. InitOver /\ Held > 0
    BY <1>3, InRing, CountFacts
  <2>2. QED
    BY <1>1, <1>2, <2>1 DEF IInv, Balance
<1>4. ASSUME pc[Server] \in {"lock", "copy", "move"}
      PROVE  CountOf(iPut, iGet) > 0
  <2>1. InitOver /\ Holds(pc[Server]) = 1
    BY <1>4 DEF InitOver, Holds
  <2>2. QED
    BY <1>1, <1>2, <2>1 DEF IInv, Balance
<1>5. QED
  BY <1>2, <1>3, <1>4

\* Every step keeps the types.
LEMMA TypedNext == IInv /\ [Next]_vars => Typed'
<1> SUFFICES ASSUME IInv, [Next]_vars PROVE Typed'
  OBVIOUS
<1>1. /\ Typed /\ Server \in Processes /\ Clients \in SUBSET Processes
      /\ MAXELEMENTS \in Nat /\ 0 \in Slots
  BY RingAssumption DEF IInv, Processes, Slots
<1>2. ASSUME NEW index \in Slots PROVE IncrementIndex(index) \in Slots
  BY RingAssumption, <1>2 DEF IncrementIndex, Slots
<1> USE DEF Typed, Steps, Opened, Locking
<1>3. ASSUME CreateFull PROVE Typed'
  BY <1>1, <1>2, <1>3 DEF CreateFull, ring, Goto
<1>4. ASSUME CreateEmpty PROVE Typed'
  BY <1>1, <1>2, <1>4 DEF CreateEmpty, ring, Goto
<1>5. ASSUME CreateMutex PROVE Typed'
  BY <1>1, <1>2, <1>5 DEF CreateMutex, ring, Goto
<1>6. ASSUME ZeroIndices PROVE Typed'
  BY <1>1, <1>2, <1>6 DEF ZeroIndices, sync, Goto
<1>7. ASSUME TakeQuery PROVE Typed'
  BY <1>1, <1>2, <1>7 DEF TakeQuery, ring, Goto
<1>8. ASSUME LockGet PROVE Typed'
  BY <1>1, <1>2, <1>8 DEF LockGet, ring, Goto
<1>9. ASSUME CopyOut PROVE Typed'
  BY <1>1, <1>2, <1>9 DEF CopyOut, sync, ring, Goto
<1>10. ASSUME MoveGet PROVE Typed'
  BY <1>1, <1>2, <1>10 DEF MoveGet, sync, Goto
<1>11. ASSUME SignalFull PROVE Typed'
  BY <1>1, <1>2, <1>11 DEF SignalFull, ring, Goto
<1>12. ASSUME UnlockGet PROVE Typed'
  BY <1>1, <1>2, <1>12 DEF UnlockGet, ring, Goto
<1>13. ASSUME NEW c \in Clients, OpenObjects(c) PROVE Typed'
  BY <1>1, <1>2, <1>13 DEF OpenObjects, Open, sync, ring, Goto
<1>14. ASSUME NEW c \in Clients, TakeSlot(c) PROVE Typed'
  BY <1>1, <1>2, <1>14 DEF TakeSlot, ring, Goto
<1>15. ASSUME NEW c \in Clients, LockPut(c) PROVE Typed'
  BY <1>1, <1>2, <1>15 DEF LockPut, ring, Goto
<1>16. ASSUME NEW c \in Clients, CopyIn(c) PROVE Typed'
  BY <1>1, <1>2, <1>16 DEF CopyIn, sync, Goto
<1>17. ASSUME NEW c \in Clients, MovePut(c) PROVE Typed'
  BY <1>1, <1>2, <1>17 DEF MovePut, sync, Goto
<1>18. ASSUME NEW c \in Clients, SignalEmpty(c) PROVE Typed'
  BY <1>1, <1>2, <1>18 DEF SignalEmpty, ring, Goto
<1>19. ASSUME NEW c \in Clients, UnlockPut(c) PROVE Typed'
  BY <1>1, <1>2, <1>19 DEF UnlockPut, ring, Goto
<1>20. ASSUME NEW c \in Clients, Crash(c) PROVE Typed'
  BY <1>1, <1>2, <1>20 DEF Crash, ring, Goto
<1>21. CASE UNCHANGED vars
  BY <1>1, <1>21 DEF vars, sync, ring
<1>22. QED
  BY <1>3, <1>4, <1>5, <1>6, <1>7, <1>8, <1>9, <1>10, <1>11, <1>12,
     <1>13, <1>14, <1>15, <1>16, <1>17, <1>18, <1>19, <1>20, <1>21
     DEF Next, RingInit, RingGet, RingPut

\* Clients that come after RingInit do nothing before.
LEMMA ClientsAreLate ==
    ASSUME EarlyClients = FALSE, IInv, NEW c \in Clients, RingPut(c) \/ Crash(c)
    PROVE  InitOver /\ pc'[Server] = pc[Server] /\ InitOver'
<1>1. /\ pc \in [Processes -> Steps] /\ c \in Processes /\ Server \in Processes /\ c # Server
  BY RingAssumption DEF IInv, Typed, Processes
<1>2. InitOver
  <2>1. CASE pc[c] # "outside"
    BY <2>1, InRing
  <2>2. CASE pc[c] = "outside"
    BY <2>2 DEF RingPut, OpenObjects, Open, TakeSlot, LockPut, CopyIn, MovePut, SignalEmpty,
                UnlockPut, Crash
  <2>3. QED
    BY <2>1, <2>2
<1>3. pc'[Server] = pc[Server]
  BY <1>1 DEF RingPut, OpenObjects, Open, TakeSlot, LockPut, CopyIn, MovePut, SignalEmpty,
              UnlockPut, Crash, Goto
<1>4. QED
  BY <1>1, <1>2, <1>3 DEF InitOver

\* RingInit goes on alone.
LEMMA StartingNext == ASSUME EarlyClients = FALSE, IInv, [Next]_vars PROVE Starting'
<1>1. Starting /\ pc \in [Processes -> Steps] /\ Server \in Processes
      /\ Clients \in SUBSET Processes /\ Server \notin Clients
  BY RingAssumption DEF IInv, Typed, Processes
<1>2. CASE RingInit
  <2>1. CASE CreateFull
    BY <1>1, <2>1 DEF CreateFull, Starting, InitOver, Goto, ring
  <2>2. CASE CreateEmpty
    BY <1>1, <2>2 DEF CreateEmpty, Starting, InitOver, Goto, ring
  <2>3. CASE CreateMutex
    BY <1>1, <2>3 DEF CreateMutex, Starting, InitOver, Goto, ring
  <2>4. CASE ZeroIndices
    BY <1>1, <2>4 DEF ZeroIndices, Starting, InitOver, Goto
  <2>5. QED
    BY <1>2, <2>1, <2>2, <2>3, <2>4 DEF RingInit
<1>3. CASE RingGet
  <2>1. InitOver'
    BY <1>1, <1>3 DEF RingGet, TakeQuery, LockGet, CopyOut, MoveGet, SignalFull, UnlockGet,
                      InitOver, Goto
  <2>2. QED
    BY <2>1 DEF Starting
<1>4. CASE \E c \in Clients : RingPut(c) \/ Crash(c)
  BY <1>4, ClientsAreLate DEF Starting
<1>5. CASE UNCHANGED vars
  BY <1>1, <1>5 DEF vars, sync, ring, Starting, InitOver
<1>6. QED
  BY <1>2, <1>3, <1>4, <1>5 DEF Next

\* Objects stay when they have been made, and a client keeps its handles in a call.
LEMMA NamedNext == ASSUME EarlyClients = FALSE, IInv, [Next]_vars PROVE Named'
<1>1. /\ Named /\ pc \in [Processes -> Steps] /\ Server \in Processes
      /\ Clients \in SUBSET Processes /\ Server \notin Clients
      /\ handles \in [Clients -> SUBSET {"Full", "Empty", "Mutex"}]
  BY RingAssumption DEF IInv, Typed, Processes
<1>2. CASE RingInit
  BY <1>1, <1>2 DEF RingInit, CreateFull, CreateEmpty, CreateMutex, ZeroIndices, Goto, Named, sync
<1>3. CASE RingGet
  BY <1>1, <1>3 DEF RingGet, TakeQuery, LockGet, CopyOut, MoveGet, SignalFull, UnlockGet, Goto,
                    Named, sync
<1>4. ASSUME NEW c \in Clients, RingPut(c) \/ Crash(c) PROVE Named'
  <2>1. InitOver /\ pc'[Server] = pc[Server] /\ named' = named
    <3>1. named' = named
      BY <1>4 DEF RingPut, OpenObjects, Open, TakeSlot, LockPut, CopyIn, MovePut, SignalEmpty,
                  UnlockPut, Crash, sync
    <3>2. QED
      BY <1>4, <3>1, ClientsAreLate
  <2>2. "Full" \in named /\ "Empty" \in named /\ "Mutex" \in named
    BY <1>1, <2>1 DEF Named, InitOver
  <2>3. ASSUME NEW d \in Clients
        PROVE  /\ pc'[d] \in {"openEmpty", "openMutex"} \cup Opened => "Full" \in handles'[d]
               /\ pc'[d] \in {"openMutex"} \cup Opened => "Empty" \in handles'[d]
               /\ pc'[d] \in Opened => "Mutex" \in handles'[d]
    <3>1. CASE d # c
      <4>1. pc'[d] = pc[d] /\ handles'[d] = handles[d]
        BY <1>1, <1>4, <3>1 DEF RingPut, OpenObjects, Open, TakeSlot, LockPut, CopyIn, MovePut,
                                SignalEmpty, UnlockPut, Crash, Goto
      <4>2. QED
        BY <1>1, <4>1 DEF Named
    <3>2. CASE d = c
      <4>1. CASE OpenObjects(c)
        BY <1>1, <2>2, <3>2, <4>1 DEF OpenObjects, Open, Goto, Named, Opened, Locking
      <4>2. CASE TakeSlot(c) \/ LockPut(c) \/ CopyIn(c) \/ MovePut(c) \/ SignalEmpty(c)
        BY <1>1, <3>2, <4>2 DEF TakeSlot, LockPut, CopyIn, MovePut, SignalEmpty, Goto, Named,
                                Opened, Locking
      <4>3. CASE UnlockPut(c) \/ Crash(c)
        BY <1>1, <3>2, <4>3 DEF UnlockPut, Crash, Goto, Opened, Locking
      <4>4. QED
        BY <1>4, <4>1, <4>2, <4>3 DEF RingPut
    <3>3. QED
      BY <3>1, <3>2
  <2>4. QED
    BY <1>1, <2>1, <2>3 DEF Named
<1>5. CASE UNCHANGED vars
  BY <1>1, <1>5 DEF vars, sync, Named
<1>6. QED
  BY <1>2, <1>3, <1>4, <1>5 DEF Next

\* The mutex is found by whoever takes it, and only its owner or his death releases it.
LEMMA ExclusiveNext == ASSUME EarlyClients = FALSE, IInv, [Next]_vars PROVE Exclusive'
<1>1. /\ Exclusive /\ pc \in [Processes -> Steps] /\ Server \in Processes
      /\ Clients \in SUBSET Processes /\ Server \notin Clients /\ NoProcess \notin Processes
  BY RingAssumption DEF IInv, Typed, Processes
<1>2. CASE RingInit
  BY <1>1, <1>2 DEF RingInit, CreateFull, CreateEmpty, CreateMutex, ZeroIndices, Goto, Exclusive,
                    Locking, sync
<1>3. CASE RingGet
  BY <1>1, <1>3 DEF RingGet, TakeQuery, LockGet, CopyOut, MoveGet, SignalFull, UnlockGet, Take,
                    Free, Release, Goto, Exclusive, Locking, sync
<1>4. ASSUME NEW c \in Clients, RingPut(c) PROVE Exclusive'
  <2>1. CASE LockPut(c)
    <3>1. "Mutex" \in handles[c]
      BY <2>1, InRing DEF LockPut, Opened
    <3>2. QED
      BY <1>1, <2>1, <3>1 DEF LockPut, Take, Free, Goto, Exclusive, Locking
  <2>2. CASE UnlockPut(c)
    BY <1>1, <2>2 DEF UnlockPut, Release, Goto, Exclusive, Locking
  <2>3. CASE OpenObjects(c) \/ TakeSlot(c) \/ CopyIn(c) \/ MovePut(c) \/ SignalEmpty(c)
    BY <1>1, <2>3 DEF OpenObjects, Open, TakeSlot, CopyIn, MovePut, SignalEmpty, Goto, Exclusive,
                      Locking, sync
  <2>4. QED
    BY <1>4, <2>1, <2>2, <2>3 DEF RingPut
<1>5. ASSUME NEW c \in Clients, Crash(c) PROVE Exclusive'
  BY <1>1, <1>5 DEF Crash, Release, Goto, Exclusive, Locking
<1>6. CASE UNCHANGED vars
  BY <1>1, <1>6 DEF vars, sync, Exclusive
<1>7. QED
  BY <1>2, <1>3, <1>4, <1>5, <1>6 DEF Next

\* A step of a client moves one place and one announcement on, or a death loses them.
LEMMA BalanceClient ==
    ASSUME EarlyClients = FALSE, IInv, NEW c \in Clients, RingPut(c) \/ Crash(c)
    PROVE  Balance'
<1>1. /\ hSemaphoreFull \in Nat /\ hSemaphoreEmpty \in Nat /\ MAXELEMENTS \in Nat
      /\ lost.places \in Nat /\ lost.signals \in Nat /\ Held \in Nat /\ Announcing \in Nat
      /\ CountOf(iPut, iGet) \in 0 .. MAXELEMENTS
      /\ iPut \in Slots /\ iGet \in Slots /\ pc \in [Processes -> Steps]
      /\ Server \in Processes /\ Server \notin Clients /\ Clients \in SUBSET Processes
  BY RingAssumption, CountFacts, Room DEF IInv, Typed, Processes
<1>2. InitOver /\ InitOver' /\ pc'[Server] = pc[Server]
  BY ClientsAreLate
<1>3. /\ hSemaphoreFull + Held + CountOf(iPut, iGet) + Announces(pc[Server]) + lost.places
            = MAXELEMENTS
      /\ hSemaphoreEmpty + Holds(pc[Server]) + Announcing + lost.signals = CountOf(iPut, iGet)
      /\ Announces(pc[Server]) \in Nat /\ Holds(pc[Server]) \in Nat
  BY <1>2 DEF IInv, Balance, Announces, Holds
<1>4. pc[c] \in Opened => handles[c] = {"Full", "Empty", "Mutex"}
  BY InRing
<1>5. CASE OpenObjects(c)
  <2>1. PICK s \in {"openEmpty", "openMutex", "takeSlot"} : pc' = [pc EXCEPT ![c] = s]
    BY <1>5 DEF OpenObjects, Open, Goto
  <2>2. /\ s \in Steps /\ Holds(s) = 0 /\ Announces(s) = 0
        /\ Holds(pc[c]) = 0 /\ Announces(pc[c]) = 0
    BY <1>5 DEF OpenObjects, Open, Holds, Announces, Steps, Opened
  <2>3. Held' = Held /\ Announcing' = Announcing
    <3>1. /\ Held' = Held + Holds(s) - Holds(pc[c])
          /\ Announcing' = Announcing + Announces(s) - Announces(pc[c])
      BY <1>1, <2>1, <2>2, ClientMoves
    <3>2. QED
      BY <1>1, <2>2, <3>1
  <2>4. UNCHANGED <<hSemaphoreFull, hSemaphoreEmpty, iPut, iGet, lost>>
    BY <1>5 DEF OpenObjects, Open, sync, ring
  <2>5. QED
    BY <1>2, <1>3, <2>3, <2>4 DEF Balance
<1>6. CASE TakeSlot(c)
  <2>1. /\ pc[c] = "takeSlot" /\ pc' = [pc EXCEPT ![c] = "lock"] /\ "lock" \in Steps
    BY <1>6 DEF TakeSlot, Goto, Steps, Opened, Locking
  <2>2. /\ Held' = Held + Holds("lock") - Holds("takeSlot")
        /\ Announcing' = Announcing + Announces("lock") - Announces("takeSlot")
    BY <1>1, <2>1, ClientMoves
  <2>3. Held' = Held + 1 /\ Announcing' = Announcing
    BY <1>1, <2>2 DEF Holds, Announces
  <2>4. hSemaphoreFull' = hSemaphoreFull - 1 /\ UNCHANGED <<hSemaphoreEmpty, iPut, iGet, lost>>
    BY <1>4, <1>6, <2>1 DEF TakeSlot, ring, Opened, Locking
  <2>5. QED
    BY <1>1, <1>2, <1>3, <2>3, <2>4 DEF Balance
<1>7. CASE LockPut(c)
  <2>1. /\ pc[c] = "lock" /\ pc' = [pc EXCEPT ![c] = "copy"] /\ "copy" \in Steps
    BY <1>7 DEF LockPut, Goto, Steps, Opened, Locking
  <2>2. /\ Held' = Held + Holds("copy") - Holds("lock")
        /\ Announcing' = Announcing + Announces("copy") - Announces("lock")
    BY <1>1, <2>1, ClientMoves
  <2>3. Held' = Held /\ Announcing' = Announcing
    BY <1>1, <2>2 DEF Holds, Announces
  <2>4. UNCHANGED <<hSemaphoreFull, hSemaphoreEmpty, iPut, iGet, lost>>
    BY <1>4, <1>7, <2>1 DEF LockPut, ring, Opened, Locking
  <2>5. QED
    BY <1>1, <1>2, <1>3, <2>3, <2>4 DEF Balance
<1>8. CASE CopyIn(c)
  <2>1. /\ pc[c] = "copy" /\ pc' = [pc EXCEPT ![c] = "move"] /\ "move" \in Steps
    BY <1>8 DEF CopyIn, Goto, Steps, Opened, Locking
  <2>2. /\ Held' = Held + Holds("move") - Holds("copy")
        /\ Announcing' = Announcing + Announces("move") - Announces("copy")
    BY <1>1, <2>1, ClientMoves
  <2>3. Held' = Held /\ Announcing' = Announcing
    BY <1>1, <2>2 DEF Holds, Announces
  <2>4. UNCHANGED <<hSemaphoreFull, hSemaphoreEmpty, iPut, iGet, lost>>
    BY <1>4, <1>8, <2>1 DEF CopyIn, sync, Opened, Locking
  <2>5. QED
    BY <1>1, <1>2, <1>3, <2>3, <2>4 DEF Balance
<1>9. CASE MovePut(c)
  <2>1. /\ pc[c] = "move" /\ pc' = [pc EXCEPT ![c] = "signal"] /\ "signal" \in Steps
    BY <1>9 DEF MovePut, Goto, Steps, Opened, Locking
  <2>2. /\ Held' = Held + Holds("signal") - Holds("move")
        /\ Announcing' = Announcing + Announces("signal") - Announces("move")
    BY <1>1, <2>1, ClientMoves
  <2>3. Held' = Held - 1 /\ Announcing' = Announcing + 1
    BY <1>1, <2>2 DEF Holds, Announces
  <2>4. iPut' = IncrementIndex(iPut) /\ UNCHANGED <<hSemaphoreFull, hSemaphoreEmpty, iGet, lost>>
    BY <1>4, <1>9, <2>1 DEF MovePut, sync, Opened, Locking
  <2>5. CountOf(iPut', iGet') = CountOf(iPut, iGet) + 1
    <3>1. CountOf(iPut, iGet) < MAXELEMENTS
      BY <2>1, Room
    <3>2. QED
      BY <1>1, <2>4, <3>1, PutMoves
  <2>6. QED
    BY <1>1, <1>2, <1>3, <2>3, <2>4, <2>5 DEF Balance
<1>10. CASE SignalEmpty(c)
  <2>1. /\ pc[c] = "signal" /\ pc' = [pc EXCEPT ![c] = "unlock"] /\ "unlock" \in Steps
    BY <1>10 DEF SignalEmpty, Goto, Steps, Opened, Locking
  <2>2. /\ Held' = Held + Holds("unlock") - Holds("signal")
        /\ Announcing' = Announcing + Announces("unlock") - Announces("signal")
    BY <1>1, <2>1, ClientMoves
  <2>3. Held' = Held /\ Announcing' = Announcing - 1
    BY <1>1, <2>2 DEF Holds, Announces
  <2>4. hSemaphoreEmpty' = hSemaphoreEmpty + 1 /\ UNCHANGED <<hSemaphoreFull, iPut, iGet, lost>>
    BY <1>4, <1>10, <2>1 DEF SignalEmpty, ring, Opened, Locking
  <2>5. QED
    BY <1>1, <1>2, <1>3, <2>3, <2>4 DEF Balance
<1>11. CASE UnlockPut(c)
  <2>1. /\ pc[c] = "unlock" /\ pc' = [pc EXCEPT ![c] = "outside"] /\ "outside" \in Steps
    BY <1>11 DEF UnlockPut, Goto, Steps, Opened, Locking
  <2>2. /\ Held' = Held + Holds("outside") - Holds("unlock")
        /\ Announcing' = Announcing + Announces("outside") - Announces("unlock")
    BY <1>1, <2>1, ClientMoves
  <2>3. Held' = Held /\ Announcing' = Announcing
    BY <1>1, <2>2 DEF Holds, Announces
  <2>4. UNCHANGED <<hSemaphoreFull, hSemaphoreEmpty, iPut, iGet, lost>>
    BY <1>4, <1>11, <2>1 DEF UnlockPut, ring, Opened, Locking
  <2>5. QED
    BY <1>1, <1>2, <1>3, <2>3, <2>4 DEF Balance
<1>12. CASE Crash(c)
  <2>1. pc' = [pc EXCEPT ![c] = "dead"] /\ "dead" \in Steps
    BY <1>12 DEF Crash, Goto, Steps
  <2>2. /\ Held' = Held - Holds(pc[c]) /\ Announcing' = Announcing - Announces(pc[c])
        /\ Holds(pc[c]) \in Nat /\ Announces(pc[c]) \in Nat
    <3>1. /\ Held' = Held + Holds("dead") - Holds(pc[c])
          /\ Announcing' = Announcing + Announces("dead") - Announces(pc[c])
      BY <1>1, <2>1, ClientMoves
    <3>2. QED
      BY <1>1, <3>1 DEF Holds, Announces
  <2>3. /\ lost'.places = lost.places + Holds(pc[c])
        /\ lost'.signals = lost.signals + Announces(pc[c])
        /\ UNCHANGED <<hSemaphoreFull, hSemaphoreEmpty, iPut, iGet>>
    BY <1>12 DEF Crash, Holds, Announces, ring
  <2>4. QED
    BY <1>1, <1>2, <1>3, <2>2, <2>3 DEF Balance
<1>13. QED
  BY <1>5, <1>6, <1>7, <1>8, <1>9, <1>10, <1>11, <1>12 DEF RingPut

\* The server establishes the balance with RingInit and keeps it in RingGet.
LEMMA BalanceServer ==
    ASSUME IInv, RingInit \/ RingGet
    PROVE  Balance'
<1>1. /\ hSemaphoreFull \in Nat /\ hSemaphoreEmpty \in Nat /\ MAXELEMENTS \in Nat
      /\ lost.places \in Nat /\ lost.signals \in Nat /\ Held \in Nat /\ Announcing \in Nat
      /\ CountOf(iPut, iGet) \in 0 .. MAXELEMENTS
      /\ iPut \in Slots /\ iGet \in Slots /\ pc \in [Processes -> Steps]
      /\ Server \in Processes /\ Server \notin Clients /\ Clients \in SUBSET Processes
  BY RingAssumption, CountFacts, Room DEF IInv, Typed, Processes
<1>2. CASE RingInit
  <2>1. CASE ZeroIndices
    <3>1. /\ hSemaphoreFull = MAXELEMENTS /\ hSemaphoreEmpty = 0
          /\ lost = [places |-> 0, signals |-> 0]
          /\ \A c \in Clients : pc[c] = "outside"
      BY <2>1 DEF ZeroIndices, IInv, Starting, InitOver
    <3>2. pc' = [pc EXCEPT ![Server] = "idle"] /\ "idle" \in Steps
      BY <2>1 DEF ZeroIndices, Goto, Steps
    <3>3. Held = 0 /\ Announcing = 0
      <4>1. At({"lock", "copy", "move"}) = {} /\ At({"signal"}) = {}
        BY <3>1 DEF At
      <4>2. QED
        BY <4>1, FS_EmptySet DEF Held, Announcing
    <3>4. Held' = 0 /\ Announcing' = 0 /\ pc'[Server] = "idle"
      BY <1>1, <3>2, <3>3, ServerMoves
    <3>5. CountOf(iPut', iGet') = 0
      BY <2>1 DEF ZeroIndices, CountOf
    <3>6. hSemaphoreFull' = MAXELEMENTS /\ hSemaphoreEmpty' = 0
          /\ lost'.places = 0 /\ lost'.signals = 0
      BY <2>1, <3>1 DEF ZeroIndices, sync
    <3>7. QED
      BY <1>1, <3>4, <3>5, <3>6 DEF Balance, Announces, Holds
  <2>2. CASE CreateFull \/ CreateEmpty \/ CreateMutex
    <3>1. ~InitOver'
      BY <1>1, <2>2 DEF CreateFull, CreateEmpty, CreateMutex, Goto, InitOver
    <3>2. QED
      BY <3>1 DEF Balance
  <2>3. QED
    BY <1>2, <2>1, <2>2 DEF RingInit
<1>3. RingGet => InitOver
  BY DEF RingGet, TakeQuery, LockGet, CopyOut, MoveGet, SignalFull, UnlockGet, InitOver
<1>4. RingGet =>
      /\ hSemaphoreFull + Held + CountOf(iPut, iGet) + Announces(pc[Server]) + lost.places
            = MAXELEMENTS
      /\ hSemaphoreEmpty + Holds(pc[Server]) + Announcing + lost.signals = CountOf(iPut, iGet)
  BY <1>3 DEF IInv, Balance
<1>5. CASE TakeQuery
  <2>1. /\ pc[Server] = "idle" /\ pc' = [pc EXCEPT ![Server] = "lock"] /\ "lock" \in Steps
    BY <1>5 DEF TakeQuery, Goto, Steps, Opened, Locking
  <2>2. Held' = Held /\ Announcing' = Announcing /\ pc'[Server] = "lock"
    BY <1>1, <2>1, ServerMoves
  <2>3. /\ Holds(pc[Server]) = 0 /\ Announces(pc[Server]) = 0
        /\ Holds(pc'[Server]) = 1 /\ Announces(pc'[Server]) = 0
    BY <2>1, <2>2 DEF Holds, Announces
  <2>4. hSemaphoreEmpty' = hSemaphoreEmpty - 1 /\ UNCHANGED <<hSemaphoreFull, iPut, iGet, lost>>
    BY <1>5 DEF TakeQuery, ring
  <2>5. /\ hSemaphoreFull + Held + CountOf(iPut, iGet) + 0 + lost.places = MAXELEMENTS
        /\ hSemaphoreEmpty + 0 + Announcing + lost.signals = CountOf(iPut, iGet)
    BY <1>4, <1>5, <2>3 DEF RingGet
  <2>6. QED
    BY <1>1, <2>2, <2>3, <2>4, <2>5 DEF Balance
<1>6. CASE LockGet
  <2>1. /\ pc[Server] = "lock" /\ pc' = [pc EXCEPT ![Server] = "copy"] /\ "copy" \in Steps
    BY <1>6 DEF LockGet, Goto, Steps, Opened, Locking
  <2>2. Held' = Held /\ Announcing' = Announcing /\ pc'[Server] = "copy"
    BY <1>1, <2>1, ServerMoves
  <2>3. /\ Holds(pc[Server]) = 1 /\ Announces(pc[Server]) = 0
        /\ Holds(pc'[Server]) = 1 /\ Announces(pc'[Server]) = 0
    BY <2>1, <2>2 DEF Holds, Announces
  <2>4. UNCHANGED <<hSemaphoreFull, hSemaphoreEmpty, iPut, iGet, lost>>
    BY <1>6 DEF LockGet, ring
  <2>5. /\ hSemaphoreFull + Held + CountOf(iPut, iGet) + 0 + lost.places = MAXELEMENTS
        /\ hSemaphoreEmpty + 1 + Announcing + lost.signals = CountOf(iPut, iGet)
    BY <1>4, <1>6, <2>3 DEF RingGet
  <2>6. QED
    BY <1>1, <2>2, <2>3, <2>4, <2>5 DEF Balance
<1>7. CASE CopyOut
  <2>1. /\ pc[Server] = "copy" /\ pc' = [pc EXCEPT ![Server] = "move"] /\ "move" \in Steps
    BY <1>7 DEF CopyOut, Goto, Steps, Opened, Locking
  <2>2. Held' = Held /\ Announcing' = Announcing /\ pc'[Server] = "move"
    BY <1>1, <2>1, ServerMoves
  <2>3. /\ Holds(pc[Server]) = 1 /\ Announces(pc[Server]) = 0
        /\ Holds(pc'[Server]) = 1 /\ Announces(pc'[Server]) = 0
    BY <2>1, <2>2 DEF Holds, Announces
  <2>4. UNCHANGED <<hSemaphoreFull, hSemaphoreEmpty, iPut, iGet, lost>>
    BY <1>7 DEF CopyOut, sync, ring
  <2>5. /\ hSemaphoreFull + Held + CountOf(iPut, iGet) + 0 + lost.places = MAXELEMENTS
        /\ hSemaphoreEmpty + 1 + Announcing + lost.signals = CountOf(iPut, iGet)
    BY <1>4, <1>7, <2>3 DEF RingGet
  <2>6. QED
    BY <1>1, <2>2, <2>3, <2>4, <2>5 DEF Balance
<1>8. CASE MoveGet
  <2>1. /\ pc[Server] = "move" /\ pc' = [pc EXCEPT ![Server] = "signal"] /\ "signal" \in Steps
    BY <1>8 DEF MoveGet, Goto, Steps, Opened, Locking
  <2>2. Held' = Held /\ Announcing' = Announcing /\ pc'[Server] = "signal"
    BY <1>1, <2>1, ServerMoves
  <2>3. /\ Holds(pc[Server]) = 1 /\ Announces(pc[Server]) = 0
        /\ Holds(pc'[Server]) = 0 /\ Announces(pc'[Server]) = 1
    BY <2>1, <2>2 DEF Holds, Announces
  <2>4. iGet' = IncrementIndex(iGet) /\ UNCHANGED <<hSemaphoreFull, hSemaphoreEmpty, iPut, lost>>
    BY <1>8 DEF MoveGet, sync
  <2>5. /\ hSemaphoreFull + Held + CountOf(iPut, iGet) + 0 + lost.places = MAXELEMENTS
        /\ hSemaphoreEmpty + 1 + Announcing + lost.signals = CountOf(iPut, iGet)
    BY <1>4, <1>8, <2>3 DEF RingGet
  <2>6. CountOf(iPut', iGet') = CountOf(iPut, iGet) - 1
    <3>1. CountOf(iPut, iGet) > 0
      BY <2>1, Room
    <3>2. QED
      BY <1>1, <2>4, <3>1, GetMoves
  <2>7. QED
    BY <1>1, <2>2, <2>3, <2>4, <2>5, <2>6 DEF Balance
<1>9. CASE SignalFull
  <2>1. /\ pc[Server] = "signal" /\ pc' = [pc EXCEPT ![Server] = "unlock"] /\ "unlock" \in Steps
    BY <1>9 DEF SignalFull, Goto, Steps, Opened, Locking
  <2>2. Held' = Held /\ Announcing' = Announcing /\ pc'[Server] = "unlock"
    BY <1>1, <2>1, ServerMoves
  <2>3. /\ Holds(pc[Server]) = 0 /\ Announces(pc[Server]) = 1
        /\ Holds(pc'[Server]) = 0 /\ Announces(pc'[Server]) = 0
    BY <2>1, <2>2 DEF Holds, Announces
  <2>4. hSemaphoreFull' = hSemaphoreFull + 1 /\ UNCHANGED <<hSemaphoreEmpty, iPut, iGet, lost>>
    BY <1>9 DEF SignalFull, ring
  <2>5. /\ hSemaphoreFull + Held + CountOf(iPut, iGet) + 1 + lost.places = MAXELEMENTS
        /\ hSemaphoreEmpty + 0 + Announcing + lost.signals = CountOf(iPut, iGet)
    BY <1>4, <1>9, <2>3 DEF RingGet
  <2>6. QED
    BY <1>1, <2>2, <2>3, <2>4, <2>5 DEF Balance
<1>10. CASE UnlockGet
  <2>1. /\ pc[Server] = "unlock" /\ pc' = [pc EXCEPT ![Server] = "idle"] /\ "idle" \in Steps
    BY <1>10 DEF UnlockGet, Goto, Steps, Opened, Locking
  <2>2. Held' = Held /\ Announcing' = Announcing /\ pc'[Server] = "idle"
    BY <1>1, <2>1, ServerMoves
  <2>3. /\ Holds(pc[Server]) = 0 /\ Announces(pc[Server]) = 0
        /\ Holds(pc'[Server]) = 0 /\ Announces(pc'[Server]) = 0
    BY <2>1, <2>2 DEF Holds, Announces
  <2>4. UNCHANGED <<hSemaphoreFull, hSemaphoreEmpty, iPut, iGet, lost>>
    BY <1>10 DEF UnlockGet, ring
  <2>5. /\ hSemaphoreFull + Held + CountOf(iPut, iGet) + 0 + lost.places = MAXELEMENTS
        /\ hSemaphoreEmpty + 0 + Announcing + lost.signals = CountOf(iPut, iGet)
    BY <1>4, <1>10, <2>3 DEF RingGet
  <2>6. QED
    BY <1>1, <2>2, <2>3, <2>4, <2>5 DEF Balance
<1>11. QED
  BY <1>2, <1>5, <1>6, <1>7, <1>8, <1>9, <1>10 DEF RingGet

\* Every step keeps the balance.
LEMMA BalanceNext == ASSUME EarlyClients = FALSE, IInv, [Next]_vars PROVE Balance'
<1>1. CASE UNCHANGED vars
  BY <1>1 DEF vars, sync, ring, IInv, Balance, InitOver, Held, Announcing, At
<1>2. CASE \E c \in Clients : RingPut(c) \/ Crash(c)
  BY <1>2, BalanceClient
<1>3. QED
  BY <1>1, <1>2, BalanceServer DEF Next

\* What stands in the unread slots stays there until it is read.
LEMMA ContentsNext == ASSUME EarlyClients = FALSE, IInv, [Next]_vars PROVE Contents'
<1>1. /\ queries \in [Slots -> Clients \cup {NoQuery}] /\ iPut \in Slots /\ iGet \in Slots
      /\ pc \in [Processes -> Steps] /\ Server \in Processes /\ Server \notin Clients
      /\ Clients \in SUBSET Processes /\ CountOf(iPut, iGet) \in 0 .. MAXELEMENTS
      /\ Contents /\ MAXELEMENTS \in Nat
  BY RingAssumption, Room DEF IInv, Typed, Processes
<1>2. \A p, q \in Processes : pc[p] \in Locking /\ pc[q] \in Locking => p = q
  BY DEF IInv, Exclusive
<1>3. CASE /\ UNCHANGED <<queries, iPut, iGet>>
           /\ \A c \in Clients : pc'[c] = "move" => pc[c] = "move"
           /\ pc'[Server] = "move" => pc[Server] = "move" /\ elem' = elem
  BY <1>1, <1>3 DEF Contents
<1>4. CASE RingInit
  <2>1. CASE ZeroIndices
    <3>1. /\ CountOf(iPut', iGet') = 0 /\ pc'[Server] = "idle"
          /\ \A c \in Clients : pc'[c] = "outside"
      BY <1>1, <2>1 DEF ZeroIndices, Goto, CountOf, IInv, Starting, InitOver
    <3>2. QED
      BY <3>1 DEF Contents
  <2>2. CASE CreateFull \/ CreateEmpty \/ CreateMutex
    BY <1>1, <1>3, <2>2 DEF CreateFull, CreateEmpty, CreateMutex, Goto, ring
  <2>3. QED
    BY <1>4, <2>1, <2>2 DEF RingInit
<1>5. CASE RingGet
  <2>1. CASE TakeQuery \/ LockGet \/ SignalFull \/ UnlockGet
    BY <1>1, <1>3, <2>1 DEF TakeQuery, LockGet, SignalFull, UnlockGet, Goto, ring
  <2>2. CASE CopyOut
    BY <1>1, <2>2 DEF CopyOut, Goto, Contents, ring
  <2>3. CASE MoveGet
    <3>1. /\ pc[Server] = "move" /\ pc' = [pc EXCEPT ![Server] = "signal"]
          /\ iGet' = IncrementIndex(iGet) /\ UNCHANGED <<queries, iPut>>
      BY <2>3 DEF MoveGet, Goto
    <3>2. /\ CountOf(iPut, iGet') = CountOf(iPut, iGet) - 1
          /\ \A i \in 1 .. CountOf(iPut, iGet) - 1 :
                SlotFrom(iGet', i) = SlotFrom(iGet, i + 1)
      BY <1>1, <3>1, Room, GetMoves
    <3>3. \A i \in 1 .. CountOf(iPut', iGet') : queries'[SlotFrom(iGet', i)] \in Clients
      BY <1>1, <3>1, <3>2 DEF Contents
    <3>4. \A c \in Clients : pc'[c] = "move" => queries'[iPut'] = c
      BY <1>1, <3>1 DEF Contents
    <3>5. QED
      BY <1>1, <3>1, <3>3, <3>4 DEF Contents
  <2>4. QED
    BY <1>5, <2>1, <2>2, <2>3 DEF RingGet
<1>6. ASSUME NEW c \in Clients, RingPut(c) \/ Crash(c) PROVE Contents'
  <2>1. CASE OpenObjects(c) \/ TakeSlot(c) \/ LockPut(c) \/ SignalEmpty(c) \/ UnlockPut(c)
             \/ Crash(c)
    BY <1>1, <1>3, <2>1 DEF OpenObjects, Open, TakeSlot, LockPut, SignalEmpty, UnlockPut, Crash,
                            Goto, ring
  <2>2. CASE CopyIn(c)
    <3>1. /\ pc[c] = "copy" /\ pc' = [pc EXCEPT ![c] = "move"]
          /\ queries' = [queries EXCEPT ![iPut] = c] /\ UNCHANGED <<iPut, iGet, elem>>
      BY <2>2 DEF CopyIn, Goto
    <3>2. ASSUME NEW i \in 1 .. CountOf(iPut, iGet)
          PROVE  queries'[SlotFrom(iGet, i)] \in Clients
      <4>1. SlotFrom(iGet, i) # iPut /\ SlotFrom(iGet, i) \in Slots
        BY <1>1, PutSlotIsFree
      <4>2. QED
        BY <1>1, <3>1, <4>1 DEF Contents
    <3>3. ASSUME NEW p \in Processes, pc'[p] = "move" PROVE p = c
      BY <1>1, <1>2, <3>1, <3>3 DEF Locking
    <3>4. queries'[iPut'] = c
      BY <1>1, <3>1
    <3>5. QED
      BY <1>1, <3>1, <3>2, <3>3, <3>4 DEF Contents
  <2>3. CASE MovePut(c)
    <3>1. /\ pc[c] = "move" /\ pc' = [pc EXCEPT ![c] = "signal"]
          /\ iPut' = IncrementIndex(iPut) /\ UNCHANGED <<queries, iGet, elem>>
      BY <2>3 DEF MovePut, Goto
    <3>2. /\ CountOf(iPut', iGet) = CountOf(iPut, iGet) + 1
          /\ SlotFrom(iGet, CountOf(iPut, iGet) + 1) = iPut
      BY <1>1, <3>1, Room, PutMoves
    <3>3. queries[iPut] = c
      BY <1>1, <3>1 DEF Contents
    <3>4. ASSUME NEW i \in 1 .. CountOf(iPut', iGet')
          PROVE  queries'[SlotFrom(iGet', i)] \in Clients
      <4>1. i \in 1 .. CountOf(iPut, iGet) \/ i = CountOf(iPut, iGet) + 1
        BY <1>1, <3>1, <3>2
      <4>2. QED
        BY <1>1, <3>1, <3>2, <3>3, <4>1 DEF Contents
    <3>5. \A p \in Processes : pc'[p] # "move"
      BY <1>1, <1>2, <3>1 DEF Locking
    <3>6. QED
      BY <1>1, <3>4, <3>5 DEF Contents
  <2>4. QED
    BY <1>6, <2>1, <2>2, <2>3 DEF RingPut
<1>7. CASE UNCHANGED vars
  BY <1>3, <1>7 DEF vars, ring
<1>8. QED
  BY <1>4, <1>5, <1>6, <1>7 DEF Next

\* Every step keeps the invariant.
LEMMA NextIInv == ASSUME EarlyClients = FALSE PROVE IInv /\ [Next]_vars => IInv'
BY TypedNext, StartingNext, NamedNext, ExclusiveNext, BalanceNext, ContentsNext DEF IInv

(***************************************************************************)
(* Theorems.                                                               *)
(***************************************************************************)

\* The strengthened invariant holds in every reachable state.
THEOREM IInvHolds == ASSUME EarlyClients = FALSE PROVE Spec => []IInv
<1>1. IInv /\ [Next]_vars => IInv'
  BY NextIInv
<1>2. QED
  BY <1>1, InitIInv, PTL DEF Spec

\* Places and announcements are conserved for any number of clients, of which any may
\* die at any line of RingPut: so no unread slot is written over, and the server is
\* never woken for a query that is not there.
THEOREM PlacesConservedAlways == ASSUME EarlyClients = FALSE PROVE Spec => []PlacesConserved
<1>1. IInv => PlacesConserved
  BY UnreadFacts DEF IInv, Typed, Balance, PlacesConserved, Held, Announcing, Holds, Announces
<1>2. QED
  BY <1>1, IInvHolds, PTL

\* A query shows in the buffer when iPut has moved over it, and is gone when the
\* server has copied it.
LEMMA StepSimulation ==
    ASSUME EarlyClients = FALSE
    PROVE  IInv /\ IInv' /\ [Next]_vars
              => [Buffer!Next]_<<IF pc[Server] = "move" THEN Tail(Unread) ELSE Unread,
                                 [s \in {Server} |-> elem]>>
<1> SUFFICES ASSUME IInv, IInv', [Next]_vars
             PROVE  [Buffer!Next]_<<IF pc[Server] = "move" THEN Tail(Unread) ELSE Unread,
                                    [s \in {Server} |-> elem]>>
  OBVIOUS
<1> DEFINE buf == IF pc[Server] = "move" THEN Tail(Unread) ELSE Unread
           got == [s \in {Server} |-> elem]
           n == CountOf(iPut, iGet)
<1>1. /\ queries \in [Slots -> Clients \cup {NoQuery}] /\ iPut \in Slots /\ iGet \in Slots
      /\ iPut' \in Slots /\ iGet' \in Slots
      /\ pc \in [Processes -> Steps] /\ Server \in Processes /\ Server \notin Clients
      /\ Clients \in SUBSET Processes /\ n \in 0 .. MAXELEMENTS
      /\ MAXELEMENTS \in Nat
  BY RingAssumption, Room DEF IInv, Typed, Processes
<1>2. \A p, q \in Processes : pc[p] \in Locking /\ pc[q] \in Locking => p = q
  BY DEF IInv, Exclusive
<1>3. /\ Unread = [i \in 1 .. n |-> queries[SlotFrom(iGet, i)]] /\ Len(Unread) = n
      /\ Unread' = [i \in 1 .. CountOf(iPut', iGet') |-> queries'[SlotFrom(iGet', i)]]
      /\ Len(Unread') = CountOf(iPut', iGet')
  BY <1>1, UnreadFacts, UnreadNext
<1>4. Unread \in Seq(Clients) /\ Unread' \in Seq(Clients)
  <2>1. CountOf(iPut', iGet') \in Nat
    BY <1>1, UnreadNext
  <2>2. /\ \A i \in 1 .. n : Unread[i] \in Clients
        /\ \A i \in 1 .. CountOf(iPut', iGet') : Unread'[i] \in Clients
    BY <1>3 DEF IInv, Contents
  <2>3. /\ n \in Nat
        /\ Unread \in [1 .. n -> Clients]
        /\ Unread' \in [1 .. CountOf(iPut', iGet') -> Clients]
    BY <1>1, <1>3, <2>2
  <2>4. QED
    BY <2>1, <2>3, FunctionIsSeq
<1>7. ASSUME NEW c \in Clients, MovePut(c) PROVE Buffer!Next
  <2>1. /\ pc[c] = "move" /\ pc' = [pc EXCEPT ![c] = "signal"] /\ elem' = elem
        /\ iPut' = IncrementIndex(iPut) /\ UNCHANGED <<queries, iGet>>
    BY <1>7 DEF MovePut, Goto
  <2>2. queries[iPut] = c /\ n < MAXELEMENTS
    BY <2>1, Room DEF IInv, Contents
  <2>3. CountOf(iPut', iGet') = n + 1 /\ SlotFrom(iGet, n + 1) = iPut
    BY <1>1, <2>1, <2>2, PutMoves
  <2>4. Unread' = [i \in 1 .. n + 1 |-> IF i = n + 1 THEN c ELSE Unread[i]]
    BY <1>1, <1>3, <2>1, <2>2, <2>3
  <2>5. Unread' = Append(Unread, c)
    <3>1. /\ Append(Unread, c) \in Seq(Clients) /\ Len(Append(Unread, c)) = n + 1
          /\ \A i \in 1 .. n + 1 : Append(Unread, c)[i] = IF i = n + 1 THEN c ELSE Unread[i]
      BY <1>1, <1>3, <1>4
    <3>2. Len(Unread') = n + 1 /\ \A i \in 1 .. n + 1 : Unread'[i] = Append(Unread, c)[i]
      BY <1>3, <2>3, <2>4, <3>1
    <3>3. QED
      BY <1>4, <3>1, <3>2, SeqEqual
  <2>6. pc[Server] # "move" /\ pc'[Server] # "move"
    BY <1>1, <1>2, <2>1 DEF Locking
  <2>7. Buffer!Put(c)
    BY <1>3, <2>1, <2>2, <2>5, <2>6 DEF Buffer!Put
  <2>8. QED
    BY <2>7 DEF Buffer!Next
<1>8. ASSUME CopyOut PROVE Buffer!Next
  <2>1. /\ pc[Server] = "copy" /\ pc'[Server] = "move"
        /\ elem' = queries[iGet] /\ UNCHANGED <<queries, iPut, iGet>>
    BY <1>1, <1>8 DEF CopyOut, Goto, ring
  <2>2. n > 0
    BY <2>1, Room
  <2>3. Unread' = Unread
    BY <1>3, <2>1
  <2>4. Unread # <<>> /\ Head(Unread) = queries[iGet]
    <3>1. SlotFrom(iGet, 1) = iGet
      BY <1>1, <2>2, GetMoves
    <3>2. QED
      BY <1>1, <1>3, <1>4, <2>2, <3>1
  <2>5. got' = [got EXCEPT ![Server] = Head(Unread)]
    BY <2>1, <2>4
  <2>6. Buffer!Get(Server)
    BY <2>1, <2>3, <2>4, <2>5 DEF Buffer!Get
  <2>7. QED
    BY <2>6 DEF Buffer!Next
<1>9. CASE MoveGet
  <2>1. /\ pc[Server] = "move" /\ pc'[Server] = "signal" /\ elem' = elem
        /\ iGet' = IncrementIndex(iGet) /\ UNCHANGED <<queries, iPut>>
    BY <1>1, <1>9 DEF MoveGet, Goto
  <2>2. n > 0
    BY <2>1, Room
  <2>3. /\ CountOf(iPut', iGet') = n - 1
        /\ \A i \in 1 .. n - 1 : SlotFrom(iGet', i) = SlotFrom(iGet, i + 1)
    BY <1>1, <2>1, <2>2, GetMoves
  <2>4. Unread' = [i \in 1 .. n - 1 |-> Unread[i + 1]]
    BY <1>1, <1>3, <2>1, <2>3
  <2>5. Unread' = Tail(Unread)
    <3>1. /\ Tail(Unread) \in Seq(Clients) /\ Len(Tail(Unread)) = n - 1
          /\ \A i \in 1 .. n - 1 : Tail(Unread)[i] = Unread[i + 1]
      BY <1>1, <1>3, <1>4, <2>2, HeadTailProperties
    <3>2. Len(Unread') = n - 1 /\ \A i \in 1 .. n - 1 : Unread'[i] = Tail(Unread)[i]
      BY <1>3, <2>3, <2>4, <3>1
    <3>3. QED
      BY <1>4, <3>1, <3>2, SeqEqual
  <2>6. QED
    BY <2>1, <2>5
<1>10. ASSUME NEW c \in Clients, CopyIn(c) PROVE UNCHANGED <<buf, got>>
  <2>1. /\ pc[c] = "copy" /\ pc' = [pc EXCEPT ![c] = "move"] /\ elem' = elem
        /\ queries' = [queries EXCEPT ![iPut] = c] /\ UNCHANGED <<iPut, iGet>>
    BY <1>10 DEF CopyIn, Goto
  <2>2. ASSUME NEW i \in 1 .. n
        PROVE  queries'[SlotFrom(iGet, i)] = queries[SlotFrom(iGet, i)]
    BY <1>1, <2>1, PutSlotIsFree
  <2>3. Unread' = Unread
    BY <1>3, <2>1, <2>2
  <2>4. pc'[Server] = pc[Server]
    BY <1>1, <2>1
  <2>5. QED
    BY <2>1, <2>3, <2>4
<1>11. CASE RingInit
  <2>1. pc[Server] # "move" /\ pc'[Server] # "move" /\ elem' = elem
    BY <1>1, <1>11 DEF RingInit, CreateFull, CreateEmpty, CreateMutex, ZeroIndices, Goto
  <2>2. UNCHANGED <<queries, iPut, iGet>>
    BY <1>11 DEF RingInit, CreateFull, CreateEmpty, CreateMutex, ZeroIndices, IInv, Starting,
                 InitOver, ring
  <2>3. QED
    BY <1>3, <2>1, <2>2
<1>12. CASE TakeQuery \/ LockGet \/ SignalFull \/ UnlockGet
  <2>1. /\ pc[Server] # "move" /\ pc'[Server] # "move" /\ elem' = elem
        /\ UNCHANGED <<queries, iPut, iGet>>
    BY <1>1, <1>12 DEF TakeQuery, LockGet, SignalFull, UnlockGet, Goto, ring
  <2>2. QED
    BY <1>3, <2>1
<1>13. ASSUME NEW c \in Clients,
              \/ OpenObjects(c) \/ TakeSlot(c) \/ LockPut(c) \/ SignalEmpty(c) \/ UnlockPut(c)
              \/ Crash(c)
       PROVE  UNCHANGED <<buf, got>>
  <2>1. pc'[Server] = pc[Server] /\ elem' = elem /\ UNCHANGED <<queries, iPut, iGet>>
    BY <1>1, <1>13 DEF OpenObjects, Open, TakeSlot, LockPut, SignalEmpty, UnlockPut, Crash,
                       Goto, ring
  <2>2. QED
    BY <1>3, <2>1
<1>14. CASE UNCHANGED vars
  BY <1>3, <1>14 DEF vars, ring
<1>15. QED
  BY <1>7, <1>8, <1>9, <1>10, <1>11, <1>12, <1>13, <1>14 DEF Next, RingGet, RingPut

\* The array with its indices and kernel objects is a bounded FIFO buffer of queries, in
\* which nothing is lost, duplicated or reordered whoever dies (Ring.h:25-28).
THEOREM Refinement == ASSUME EarlyClients = FALSE PROVE Spec => IsBoundedBuffer
<1>1. Init => Buffer!Init
  <2> SUFFICES ASSUME Init PROVE Buffer!Init
    OBVIOUS
  <2>1. /\ iPut \in Slots /\ iGet \in Slots /\ CountOf(iPut, iGet) = 0
        /\ pc[Server] # "move" /\ elem = NoQuery
    BY InitIInv DEF Init, IInv, Typed, CountOf
  <2>2. Unread = <<>>
    BY <2>1, UnreadFacts
  <2>3. QED
    BY <2>1, <2>2 DEF Buffer!Init
<1>2. IInv /\ IInv' /\ [Next]_vars
         => [Buffer!Next]_<<IF pc[Server] = "move" THEN Tail(Unread) ELSE Unread,
                            [s \in {Server} |-> elem]>>
  BY StepSimulation
<1>3. Spec => []IInv
  BY IInvHolds
<1>4. QED
  BY <1>1, <1>2, <1>3, PTL DEF Spec, IsBoundedBuffer, Buffer!Spec
=============================================================================
