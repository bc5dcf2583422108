--------------------------- MODULE RingSynchProofs ---------------------------
(***************************************************************************)
(* Theorems about RingSynch for any threads, any elements and any          *)
(* capacity: the types, that every place of the ring is accounted for, and *)
(* that the ring implements BoundedBuffer.                                 *)
(***************************************************************************)
EXTENDS RingSynch, DataLemmas

\* The threads between the wait and the release, as PlacesConserved counts them.
Putting    == Cardinality(At(Producers, {"token", "locked"}))
Announcing == Cardinality(At(Producers, {"changed"}))
Getting    == Cardinality(At(Consumers, {"token", "locked"}))
Returning  == Cardinality(At(Consumers, {"changed"}))

\* What the mutex protects: its owner alone is past it, and sees the list as it is.
Locked ==
    \A t \in Threads :
        /\ pc[t] # "outside" => left[t] > 0
        /\ pc[t] \in {"locked", "changed", "signalled"} => hMutex = t
        /\ pc[t] = "locked" => view[t] = Queue
        /\ t \in Producers /\ pc[t] \in {"token", "locked"} => elem[t] \in Values

\* TypeOK without the bounds that follow from PlacesConserved.
Typed ==
    /\ Queue \in Seq(Values)
    /\ nItems \in Int /\ hSemaphoreFull \in Nat /\ hSemaphoreEmpty \in Nat
    /\ hMutex \in Threads \cup {NoThread}
    /\ pc \in [Threads -> Steps]
    /\ view \in [Threads -> Seq(Values)]
    /\ elem \in [Threads -> Values \cup {NoValue}]
    /\ left \in [Threads -> 0 .. Rounds]

IInv == Typed /\ PlacesConserved /\ Locked

(***************************************************************************)
(* Counting threads.                                                       *)
(***************************************************************************)
\* The bound of the counts.
LEMMA ThreadsFinite == IsFiniteSet(Threads)
BY RingAssumption, FS_Union DEF Threads

In(t, S, place, Q) == IF t \in S /\ place \in Q THEN 1 ELSE 0

\* A thread of S that enters or leaves the steps Q changes their count by one.
LEMMA AtMoves ==
    ASSUME pc \in [Threads -> Steps], NEW t \in Threads, NEW s \in Steps,
           pc' = [pc EXCEPT ![t] = s],
           NEW CONSTANT S \in SUBSET Threads, NEW CONSTANT Q
    PROVE  Cardinality(At(S, Q)') = Cardinality(At(S, Q)) + In(t, S, s, Q) - In(t, S, pc[t], Q)
<1> DEFINE A == At(S, Q)
           B == {u \in S : pc'[u] \in Q}
<1>1. /\ A \in SUBSET Threads /\ B \in SUBSET Threads /\ A \ {t} = B \ {t}
      /\ t \in A <=> t \in S /\ pc[t] \in Q
      /\ t \in B <=> t \in S /\ s \in Q
  BY DEF At
<1>2. At(S, Q)' = B
  BY DEF At
<1> HIDE DEF A, B
<1>3. Cardinality(B) = Cardinality(A) + (IF t \in B THEN 1 ELSE 0)
                                      - (IF t \in A THEN 1 ELSE 0)
  BY <1>1, ThreadsFinite, CountMove
<1>4. /\ In(t, S, s, Q) = (IF t \in B THEN 1 ELSE 0)
      /\ In(t, S, pc[t], Q) = (IF t \in A THEN 1 ELSE 0)
  BY <1>1 DEF In
<1>5. QED
  BY <1>2, <1>3, <1>4 DEF A

Inside(place) == IF place \in {"token", "locked"} THEN 1 ELSE 0
Past(place)   == IF place \in {"changed"} THEN 1 ELSE 0

\* The counts after a step of a producer.
LEMMA ProducerMoves ==
    ASSUME pc \in [Threads -> Steps], NEW p \in Producers, NEW s \in Steps,
           pc' = [pc EXCEPT ![p] = s]
    PROVE  /\ Putting' = Putting + Inside(s) - Inside(pc[p])
           /\ Announcing' = Announcing + Past(s) - Past(pc[p])
           /\ Getting' = Getting /\ Returning' = Returning
<1>1. /\ Producers \in SUBSET Threads /\ Consumers \in SUBSET Threads /\ p \in Threads
      /\ p \notin Consumers
  BY RingAssumption DEF Threads
<1>2. Putting' = Putting + In(p, Producers, s, {"token", "locked"})
                         - In(p, Producers, pc[p], {"token", "locked"})
  BY <1>1, AtMoves DEF Putting
<1>3. Announcing' = Announcing + In(p, Producers, s, {"changed"})
                               - In(p, Producers, pc[p], {"changed"})
  BY <1>1, AtMoves DEF Announcing
<1>4. Getting' = Getting /\ Returning' = Returning
  BY <1>1 DEF Getting, Returning, At
<1>5. QED
  BY <1>2, <1>3, <1>4 DEF In, Inside, Past

\* The counts after a step of a consumer.
LEMMA ConsumerMoves ==
    ASSUME pc \in [Threads -> Steps], NEW c \in Consumers, NEW s \in Steps,
           pc' = [pc EXCEPT ![c] = s]
    PROVE  /\ Getting' = Getting + Inside(s) - Inside(pc[c])
           /\ Returning' = Returning + Past(s) - Past(pc[c])
           /\ Putting' = Putting /\ Announcing' = Announcing
<1>1. /\ Producers \in SUBSET Threads /\ Consumers \in SUBSET Threads /\ c \in Threads
      /\ c \notin Producers
  BY RingAssumption DEF Threads
<1>2. Getting' = Getting + In(c, Consumers, s, {"token", "locked"})
                         - In(c, Consumers, pc[c], {"token", "locked"})
  BY <1>1, AtMoves DEF Getting
<1>3. Returning' = Returning + In(c, Consumers, s, {"changed"})
                             - In(c, Consumers, pc[c], {"changed"})
  BY <1>1, AtMoves DEF Returning
<1>4. Putting' = Putting /\ Announcing' = Announcing
  BY <1>1 DEF Putting, Announcing, At
<1>5. QED
  BY <1>2, <1>3, <1>4 DEF In, Inside, Past

\* The counts are numbers, and not zero if there is somebody to count.
LEMMA CountFacts ==
    /\ Putting \in Nat /\ Announcing \in Nat /\ Getting \in Nat /\ Returning \in Nat
    /\ \A p \in Producers : pc[p] = "locked" => Putting > 0
    /\ \A c \in Consumers : pc[c] = "locked" => Getting > 0
<1>1. ASSUME NEW S \in SUBSET Threads, NEW Q
      PROVE  /\ Cardinality(At(S, Q)) \in Nat
             /\ \A t \in S : pc[t] \in Q => Cardinality(At(S, Q)) > 0
  <2>1. At(S, Q) \in SUBSET Threads
    BY DEF At
  <2> DEFINE A == At(S, Q)
  <2>2. \A t \in S : pc[t] \in Q => t \in A
    BY DEF At
  <2> HIDE DEF A
  <2>3. Cardinality(A) \in Nat /\ \A t \in A : Cardinality(A) > 0
    BY <2>1, ThreadsFinite, CountMembers DEF A
  <2>4. QED
    BY <2>2, <2>3 DEF A
<1>2. Producers \in SUBSET Threads /\ Consumers \in SUBSET Threads
  BY DEF Threads
<1>3. Putting \in Nat /\ \A p \in Producers : pc[p] = "locked" => Putting > 0
  BY <1>1, <1>2 DEF Putting
<1>4. Getting \in Nat /\ \A c \in Consumers : pc[c] = "locked" => Getting > 0
  BY <1>1, <1>2 DEF Getting
<1>5. Announcing \in Nat /\ Returning \in Nat
  BY <1>1, <1>2 DEF Announcing, Returning
<1>6. QED
  BY <1>3, <1>4, <1>5

\* PlacesConserved in terms of the four counts.
LEMMA PlacesFacts ==
    PlacesConserved <=>
        /\ hSemaphoreFull + Putting + Len(Queue) + Returning = Capacity
        /\ hSemaphoreEmpty + Getting + Announcing = Len(Queue)
        /\ nItems = Len(Queue)
BY DEF PlacesConserved, Putting, Announcing, Getting, Returning

\* The same of the next state.
LEMMA PlacesFactsNext ==
    PlacesConserved' <=>
        /\ hSemaphoreFull' + Putting' + Len(Queue') + Returning' = Capacity
        /\ hSemaphoreEmpty' + Getting' + Announcing' = Len(Queue')
        /\ nItems' = Len(Queue')
BY DEF PlacesConserved, Putting, Announcing, Getting, Returning

\* A producer inside has room in the list, and a consumer inside an element.
LEMMA RoomAndElement ==
    ASSUME IInv
    PROVE  /\ Capacity \in Nat /\ Len(Queue) \in Nat /\ Len(Queue) <= Capacity
           /\ hSemaphoreFull <= Capacity /\ hSemaphoreEmpty <= Capacity
           /\ \A p \in Producers : pc[p] = "locked" => Len(Queue) < Capacity
           /\ \A c \in Consumers : pc[c] = "locked" => Queue # <<>>
<1>1. /\ Len(Queue) \in Nat /\ hSemaphoreFull \in Nat /\ hSemaphoreEmpty \in Nat
      /\ Queue \in Seq(Values) /\ Capacity \in Nat
  BY RingAssumption DEF IInv, Typed
<1>2. /\ hSemaphoreFull + Putting + Len(Queue) + Returning = Capacity
      /\ hSemaphoreEmpty + Getting + Announcing = Len(Queue)
  BY PlacesFacts DEF IInv
<1>3. \A p \in Producers : pc[p] = "locked" => Len(Queue) < Capacity
  BY <1>1, <1>2, CountFacts
<1>4. \A c \in Consumers : pc[c] = "locked" => Len(Queue) > 0
  BY <1>1, <1>2, CountFacts
<1>5. QED
  BY <1>1, <1>2, <1>3, <1>4, CountFacts

(***************************************************************************)
(* The inductive invariant.                                                *)
(***************************************************************************)

\* The ring is empty, and no thread is in a call.
LEMMA InitIInv == Init => IInv
<1> SUFFICES ASSUME Init PROVE IInv
  OBVIOUS
<1>1. Capacity \in Nat /\ Rounds \in Nat
  BY RingAssumption
<1>2. Typed
  BY <1>1 DEF Init, Typed, Steps
<1>3. Putting = 0 /\ Announcing = 0 /\ Getting = 0 /\ Returning = 0
  <2>1. /\ At(Producers, {"token", "locked"}) = {} /\ At(Producers, {"changed"}) = {}
        /\ At(Consumers, {"token", "locked"}) = {} /\ At(Consumers, {"changed"}) = {}
    BY DEF Init, At, Threads
  <2>2. Cardinality({}) = 0
    BY FS_EmptySet
  <2>3. QED
    BY <2>1, <2>2 DEF Putting, Announcing, Getting, Returning
<1>4. PlacesConserved
  BY <1>1, <1>3, PlacesFacts DEF Init
<1>5. Locked
  BY DEF Init, Locked
<1>6. QED
  BY <1>2, <1>4, <1>5 DEF IInv

\* Every step keeps the types.
LEMMA TypedNext == IInv /\ [Next]_vars => Typed'
<1> SUFFICES ASSUME IInv, [Next]_vars PROVE Typed'
  OBVIOUS
<1>1. Typed /\ Capacity \in Nat /\ Rounds \in Nat
  BY RingAssumption DEF IInv
<1> USE DEF Typed, Steps, Threads
<1>2. ASSUME NEW t \in Threads, Lock(t) PROVE Typed'
  BY <1>1, <1>2 DEF Lock
<1>3. ASSUME NEW t \in Threads, Unlock(t) PROVE Typed'
  <2>1. left[t] > 0 /\ left[t] \in 0 .. Rounds
    BY <1>1, <1>3 DEF IInv, Locked, Unlock
  <2>2. left[t] - 1 \in 0 .. Rounds
    BY <1>1, <2>1
  <2>3. QED
    BY <1>1, <1>3, <2>2 DEF Unlock
<1>4. ASSUME NEW p \in Producers, TakeSlot(p) PROVE Typed'
  BY <1>1, <1>4 DEF TakeSlot
<1>5. ASSUME NEW p \in Producers, InsertElem(p) PROVE Typed'
  <2>1. elem[p] \in Values
    BY <1>5 DEF IInv, Locked, InsertElem
  <2>2. QED
    BY <1>1, <1>5, <2>1 DEF InsertElem
<1>6. ASSUME NEW p \in Producers, SignalElem(p) PROVE Typed'
  BY <1>1, <1>6 DEF SignalElem
<1>7. ASSUME NEW c \in Consumers, TakeElem(c) PROVE Typed'
  BY <1>1, <1>7 DEF TakeElem
<1>8. ASSUME NEW c \in Consumers, RemoveElem(c) PROVE Typed'
  <2>1. view[c] = Queue /\ Queue # <<>>
    BY <1>8, RoomAndElement DEF IInv, Locked, RemoveElem
  <2>2. Head(view[c]) \in Values /\ Tail(view[c]) \in Seq(Values)
    BY <1>1, <2>1
  <2>3. QED
    BY <1>1, <1>8, <2>2 DEF RemoveElem
<1>9. ASSUME NEW c \in Consumers, SignalSlot(c) PROVE Typed'
  BY <1>1, <1>9 DEF SignalSlot
<1>10. CASE UNCHANGED vars
  BY <1>1, <1>10 DEF vars
<1>11. QED
  BY <1>2, <1>3, <1>4, <1>5, <1>6, <1>7, <1>8, <1>9, <1>10 DEF Next, RingPut, RingGet

\* Every step leaves the mutex to its owner.
LEMMA LockedNext == IInv /\ [Next]_vars => Locked'
<1> SUFFICES ASSUME IInv, [Next]_vars, NEW u \in Threads
             PROVE  /\ pc'[u] # "outside" => left'[u] > 0
                    /\ pc'[u] \in {"locked", "changed", "signalled"} => hMutex' = u
                    /\ pc'[u] = "locked" => view'[u] = Queue'
                    /\ u \in Producers /\ pc'[u] \in {"token", "locked"} => elem'[u] \in Values
  BY DEF Locked
<1> DEFINE Kept == /\ pc'[u] # "outside" => left'[u] > 0
                   /\ pc'[u] \in {"locked", "changed", "signalled"} => hMutex' = u
                   /\ pc'[u] = "locked" => view'[u] = Queue'
                   /\ u \in Producers /\ pc'[u] \in {"token", "locked"} => elem'[u] \in Values
<1>1. Typed /\ Locked /\ Producers \cap Consumers = {} /\ NoThread \notin Threads
  BY RingAssumption DEF IInv, Threads
<1> USE DEF Typed, Locked, Threads
<1>2. ASSUME NEW t \in Threads, Lock(t) PROVE Kept
  BY <1>1, <1>2 DEF Lock
<1>3. ASSUME NEW t \in Threads, Unlock(t) PROVE Kept
  BY <1>1, <1>3 DEF Unlock
<1>4. ASSUME NEW p \in Producers, TakeSlot(p) PROVE Kept
  BY <1>1, <1>4 DEF TakeSlot
<1>5. ASSUME NEW p \in Producers, InsertElem(p) PROVE Kept
  BY <1>1, <1>5 DEF InsertElem
<1>6. ASSUME NEW p \in Producers, SignalElem(p) PROVE Kept
  BY <1>1, <1>6 DEF SignalElem
<1>7. ASSUME NEW c \in Consumers, TakeElem(c) PROVE Kept
  BY <1>1, <1>7 DEF TakeElem
<1>8. ASSUME NEW c \in Consumers, RemoveElem(c) PROVE Kept
  BY <1>1, <1>8 DEF RemoveElem
<1>9. ASSUME NEW c \in Consumers, SignalSlot(c) PROVE Kept
  BY <1>1, <1>9 DEF SignalSlot
<1>10. CASE UNCHANGED vars
  BY <1>1, <1>10 DEF vars
<1>11. QED
  BY <1>2, <1>3, <1>4, <1>5, <1>6, <1>7, <1>8, <1>9, <1>10 DEF Next, RingPut, RingGet

\* Every step moves at most one place on.
LEMMA PlacesNext == IInv /\ [Next]_vars => PlacesConserved'
<1> SUFFICES ASSUME IInv, [Next]_vars PROVE PlacesConserved'
  OBVIOUS
<1>1. /\ hSemaphoreFull \in Nat /\ hSemaphoreEmpty \in Nat /\ nItems \in Int
      /\ Queue \in Seq(Values) /\ Len(Queue) \in Nat /\ Capacity \in Nat
      /\ Producers \cap Consumers = {}
      /\ pc \in [Threads -> Steps] /\ Steps = {"outside", "token", "locked", "changed", "signalled"}
  BY RingAssumption DEF IInv, Typed, Steps
<1>2. /\ hSemaphoreFull + Putting + Len(Queue) + Returning = Capacity
      /\ hSemaphoreEmpty + Getting + Announcing = Len(Queue)
      /\ nItems = Len(Queue)
      /\ Putting \in Nat /\ Announcing \in Nat /\ Getting \in Nat /\ Returning \in Nat
  BY PlacesFacts, CountFacts DEF IInv
<1>3. ASSUME NEW p \in Producers, TakeSlot(p) PROVE PlacesConserved'
  <2>1. pc[p] = "outside" /\ pc' = [pc EXCEPT ![p] = "token"]
    BY <1>3 DEF TakeSlot
  <2>2. /\ Putting' = Putting + Inside("token") - Inside("outside")
        /\ Announcing' = Announcing + Past("token") - Past("outside")
        /\ Getting' = Getting /\ Returning' = Returning
    BY <1>1, <2>1, ProducerMoves
  <2>3. QED
    BY <1>1, <1>2, <1>3, <2>2, PlacesFactsNext DEF TakeSlot, Inside, Past
<1>4. ASSUME NEW p \in Producers, Lock(p) PROVE PlacesConserved'
  <2>1. pc[p] = "token" /\ pc' = [pc EXCEPT ![p] = "locked"]
    BY <1>4 DEF Lock
  <2>2. /\ Putting' = Putting + Inside("locked") - Inside("token")
        /\ Announcing' = Announcing + Past("locked") - Past("token")
        /\ Getting' = Getting /\ Returning' = Returning
    BY <1>1, <2>1, ProducerMoves
  <2>3. QED
    BY <1>1, <1>2, <1>4, <2>2, PlacesFactsNext DEF Lock, Inside, Past
<1>5. ASSUME NEW p \in Producers, InsertElem(p) PROVE PlacesConserved'
  <2>1. pc[p] = "locked" /\ pc' = [pc EXCEPT ![p] = "changed"]
    BY <1>5 DEF InsertElem
  <2>2. /\ Putting' = Putting + Inside("changed") - Inside("locked")
        /\ Announcing' = Announcing + Past("changed") - Past("locked")
        /\ Getting' = Getting /\ Returning' = Returning
    BY <1>1, <2>1, ProducerMoves
  <2>3. elem[p] \in Values /\ view[p] = Queue
    BY <1>5 DEF IInv, Locked, InsertElem, Threads
  <2>4. Len(Queue') = Len(Queue) + 1
    BY <1>1, <1>5, <2>3 DEF InsertElem
  <2>5. Putting' = Putting - 1 /\ Announcing' = Announcing + 1 /\ Getting' = Getting /\ Returning' = Returning
    BY <1>2, <2>2 DEF Inside, Past
  <2>6. nItems' = nItems + 1 /\ UNCHANGED <<hSemaphoreFull, hSemaphoreEmpty>>
    BY <1>5 DEF InsertElem
  <2>7. /\ hSemaphoreFull' + Putting' + Len(Queue') + Returning' = Capacity
        /\ hSemaphoreEmpty' + Getting' + Announcing' = Len(Queue')
        /\ nItems' = Len(Queue')
    BY <1>1, <1>2, <2>4, <2>5, <2>6
  <2>8. QED
    BY <2>7, PlacesFactsNext
<1>6. ASSUME NEW p \in Producers, SignalElem(p) PROVE PlacesConserved'
  <2>1. pc[p] = "changed" /\ pc' = [pc EXCEPT ![p] = "signalled"]
    BY <1>6 DEF SignalElem
  <2>2. /\ Putting' = Putting + Inside("signalled") - Inside("changed")
        /\ Announcing' = Announcing + Past("signalled") - Past("changed")
        /\ Getting' = Getting /\ Returning' = Returning
    BY <1>1, <2>1, ProducerMoves
  <2>3. QED
    BY <1>1, <1>2, <1>6, <2>2, PlacesFactsNext DEF SignalElem, Inside, Past
<1>7. ASSUME NEW p \in Producers, Unlock(p) PROVE PlacesConserved'
  <2>1. pc[p] = "signalled" /\ pc' = [pc EXCEPT ![p] = "outside"]
    BY <1>7 DEF Unlock
  <2>2. /\ Putting' = Putting + Inside("outside") - Inside("signalled")
        /\ Announcing' = Announcing + Past("outside") - Past("signalled")
        /\ Getting' = Getting /\ Returning' = Returning
    BY <1>1, <2>1, ProducerMoves
  <2>3. QED
    BY <1>1, <1>2, <1>7, <2>2, PlacesFactsNext DEF Unlock, Inside, Past
<1>8. ASSUME NEW c \in Consumers, TakeElem(c) PROVE PlacesConserved'
  <2>1. pc[c] = "outside" /\ pc' = [pc EXCEPT ![c] = "token"]
    BY <1>8 DEF TakeElem
  <2>2. /\ Getting' = Getting + Inside("token") - Inside("outside")
        /\ Returning' = Returning + Past("token") - Past("outside")
        /\ Putting' = Putting /\ Announcing' = Announcing
    BY <1>1, <2>1, ConsumerMoves
  <2>3. QED
    BY <1>1, <1>2, <1>8, <2>2, PlacesFactsNext DEF TakeElem, Inside, Past
<1>9. ASSUME NEW c \in Consumers, Lock(c) PROVE PlacesConserved'
  <2>1. pc[c] = "token" /\ pc' = [pc EXCEPT ![c] = "locked"]
    BY <1>9 DEF Lock
  <2>2. /\ Getting' = Getting + Inside("locked") - Inside("token")
        /\ Returning' = Returning + Past("locked") - Past("token")
        /\ Putting' = Putting /\ Announcing' = Announcing
    BY <1>1, <2>1, ConsumerMoves
  <2>3. QED
    BY <1>1, <1>2, <1>9, <2>2, PlacesFactsNext DEF Lock, Inside, Past
<1>10. ASSUME NEW c \in Consumers, RemoveElem(c) PROVE PlacesConserved'
  <2>1. pc[c] = "locked" /\ pc' = [pc EXCEPT ![c] = "changed"]
    BY <1>10 DEF RemoveElem
  <2>2. /\ Getting' = Getting + Inside("changed") - Inside("locked")
        /\ Returning' = Returning + Past("changed") - Past("locked")
        /\ Putting' = Putting /\ Announcing' = Announcing
    BY <1>1, <2>1, ConsumerMoves
  <2>3. view[c] = Queue /\ Queue # <<>>
    BY <1>10, RoomAndElement DEF IInv, Locked, RemoveElem, Threads
  <2>4. Len(Queue') = Len(Queue) - 1
    BY <1>1, <1>10, <2>3 DEF RemoveElem
  <2>5. Getting' = Getting - 1 /\ Returning' = Returning + 1 /\ Putting' = Putting /\ Announcing' = Announcing
    BY <1>2, <2>2 DEF Inside, Past
  <2>6. nItems' = nItems - 1 /\ UNCHANGED <<hSemaphoreFull, hSemaphoreEmpty>>
    BY <1>10 DEF RemoveElem
  <2>7. /\ hSemaphoreFull' + Putting' + Len(Queue') + Returning' = Capacity
        /\ hSemaphoreEmpty' + Getting' + Announcing' = Len(Queue')
        /\ nItems' = Len(Queue')
    BY <1>1, <1>2, <2>4, <2>5, <2>6
  <2>8. QED
    BY <2>7, PlacesFactsNext
<1>11. ASSUME NEW c \in Consumers, SignalSlot(c) PROVE PlacesConserved'
  <2>1. pc[c] = "changed" /\ pc' = [pc EXCEPT ![c] = "signalled"]
    BY <1>11 DEF SignalSlot
  <2>2. /\ Getting' = Getting + Inside("signalled") - Inside("changed")
        /\ Returning' = Returning + Past("signalled") - Past("changed")
        /\ Putting' = Putting /\ Announcing' = Announcing
    BY <1>1, <2>1, ConsumerMoves
  <2>3. QED
    BY <1>1, <1>2, <1>11, <2>2, PlacesFactsNext DEF SignalSlot, Inside, Past
<1>12. ASSUME NEW c \in Consumers, Unlock(c) PROVE PlacesConserved'
  <2>1. pc[c] = "signalled" /\ pc' = [pc EXCEPT ![c] = "outside"]
    BY <1>12 DEF Unlock
  <2>2. /\ Getting' = Getting + Inside("outside") - Inside("signalled")
        /\ Returning' = Returning + Past("outside") - Past("signalled")
        /\ Putting' = Putting /\ Announcing' = Announcing
    BY <1>1, <2>1, ConsumerMoves
  <2>3. QED
    BY <1>1, <1>2, <1>12, <2>2, PlacesFactsNext DEF Unlock, Inside, Past
<1>13. CASE UNCHANGED vars
  BY <1>13 DEF vars, IInv, PlacesConserved, At
<1>14. QED
  BY <1>3, <1>4, <1>5, <1>6, <1>7, <1>8, <1>9, <1>10, <1>11, <1>12, <1>13
     DEF Next, RingPut, RingGet

\* Every step keeps the invariant.
LEMMA NextIInv == IInv /\ [Next]_vars => IInv'
BY TypedNext, PlacesNext, LockedNext DEF IInv

(***************************************************************************)
(* Theorems.                                                               *)
(***************************************************************************)

\* The strengthened invariant holds in every reachable state.
THEOREM IInvHolds == Spec => []IInv
BY InitIInv, NextIInv, PTL DEF Spec

\* Every variable keeps its type; no semaphore exceeds the maximum it was created with
\* and the list never holds more than Capacity elements (RingSynch.cpp).
THEOREM TypeCorrect == Spec => []TypeOK
<1>1. IInv => TypeOK
  <2> SUFFICES ASSUME IInv PROVE TypeOK
    OBVIOUS
  <2>1. Typed /\ nItems = Len(Queue)
    BY DEF IInv, PlacesConserved
  <2>2. /\ nItems \in 0 .. Capacity
        /\ hSemaphoreFull \in 0 .. Capacity /\ hSemaphoreEmpty \in 0 .. Capacity
    BY <2>1, RoomAndElement DEF Typed
  <2>3. QED
    BY <2>1, <2>2 DEF Typed, TypeOK
<1>2. QED
  BY <1>1, IInvHolds, PTL

\* Every place of the ring is free, on its way in, taken or on its way back, for any
\* number of threads in RingPut and RingGet at once.
THEOREM PlacesConservedAlways == Spec => []PlacesConserved
<1>1. IInv => PlacesConserved
  BY DEF IInv
<1>2. QED
  BY <1>1, IInvHolds, PTL

\* Only InsertElem and RemoveElem show in the buffer: they are its Put and Get.
LEMMA StepSimulation ==
    IInv /\ [Next]_vars => [Buffer!Next]_<<Queue, [c \in Consumers |-> elem[c]]>>
<1> SUFFICES ASSUME IInv, [Next]_vars
             PROVE  [Buffer!Next]_<<Queue, [c \in Consumers |-> elem[c]]>>
  OBVIOUS
<1> DEFINE got == [c \in Consumers |-> elem[c]]
<1>1. /\ Producers \cap Consumers = {} /\ elem \in [Threads -> Values \cup {NoValue}]
      /\ Threads = Producers \cup Consumers
  BY RingAssumption DEF IInv, Typed, Threads
<1>2. ASSUME NEW p \in Producers, InsertElem(p) PROVE Buffer!Next
  <2>1. elem[p] \in Values /\ view[p] = Queue /\ Len(Queue) < Capacity
    BY <1>2, RoomAndElement DEF IInv, Locked, InsertElem, Threads
  <2>2. Buffer!Put(elem[p])
    BY <1>2, <2>1 DEF Buffer!Put, InsertElem
  <2>3. QED
    BY <2>1, <2>2 DEF Buffer!Next
<1>3. ASSUME NEW c \in Consumers, RemoveElem(c) PROVE Buffer!Next
  <2>1. view[c] = Queue /\ Queue # <<>>
    BY <1>3, RoomAndElement DEF IInv, Locked, RemoveElem, Threads
  <2>2. Buffer!Get(c)
    BY <1>1, <1>3, <2>1 DEF Buffer!Get, RemoveElem
  <2>3. QED
    BY <2>2 DEF Buffer!Next
<1>4. ASSUME NEW p \in Producers, TakeSlot(p) PROVE UNCHANGED <<Queue, got>>
  BY <1>1, <1>4 DEF TakeSlot
<1>5. ASSUME NEW t \in Threads, \/ Lock(t) \/ Unlock(t) \/ SignalElem(t)
                                \/ TakeElem(t) \/ SignalSlot(t)
      PROVE UNCHANGED <<Queue, got>>
  BY <1>5 DEF Lock, Unlock, SignalElem, TakeElem, SignalSlot
<1>6. CASE UNCHANGED vars
  BY <1>6 DEF vars
<1>7. QED
  BY <1>1, <1>2, <1>3, <1>4, <1>5, <1>6 DEF Next, RingPut, RingGet

\* The ring is a bounded FIFO buffer for any number of threads, whatever the
\* interleaving of RingPut and RingGet: nothing put is lost, duplicated or reordered.
THEOREM Refinement == Spec => IsBoundedBuffer
<1>1. Init => Buffer!Init
  BY DEF Init, Buffer!Init, Threads
<1>2. QED
  BY <1>1, StepSimulation, IInvHolds, PTL DEF Spec, IsBoundedBuffer, Buffer!Spec
=============================================================================
