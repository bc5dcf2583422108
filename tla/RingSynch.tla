----------------------------- MODULE RingSynch -----------------------------
(***************************************************************************)
(* The bounded ring of RingSynch.cpp: a linked list, two counting          *)
(* semaphores and a mutex, used by any number of threads.  Each action is  *)
(* one Win32 call or the code under the mutex; threads interleave between  *)
(* them.  The thread holding the mutex works on the list it found when it  *)
(* got the mutex ("view"), so that anything else changing the list at the  *)
(* same time would be lost, as with the real pointers.                     *)
(***************************************************************************)
EXTENDS Integers, Sequences, FiniteSets

CONSTANTS
    Producers,  \* threads that call RingPut
    Consumers,  \* threads that call RingGet
    Values,     \* the elements
    NoValue,    \* no element
    NoThread,   \* owner of a free mutex
    Capacity,   \* the argument of RingInit
    Rounds      \* bound: calls made by each thread (1 in RingTest.cpp)

ASSUME RingAssumption ==
    /\ Producers \cap Consumers = {}
    /\ NoThread \notin Producers \cup Consumers
    /\ NoValue \notin Values
    /\ IsFiniteSet(Producers) /\ IsFiniteSet(Consumers)
    /\ Capacity \in Nat \ {0} /\ Rounds \in Nat

VARIABLES
    Queue,           \* the DATA entries, oldest first
    nItems,
    hSemaphoreFull,  \* count of free places
    hSemaphoreEmpty, \* count of announced elements
    hMutex,          \* owner
    pc,              \* where each thread is in RingPut or RingGet
    view,            \* the list as the owner of the mutex sees it
    elem,            \* the element a call puts, or the last one got
    left             \* calls still to be made

vars == <<Queue, nItems, hSemaphoreFull, hSemaphoreEmpty, hMutex, pc, view, elem, left>>

Threads == Producers \cup Consumers

\* RingInit
Init ==
    /\ Queue = <<>> /\ nItems = 0
    /\ hSemaphoreFull = Capacity /\ hSemaphoreEmpty = 0
    /\ hMutex = NoThread
    /\ pc = [t \in Threads |-> "outside"]
    /\ view = [t \in Threads |-> <<>>]
    /\ elem = [t \in Threads |-> NoValue]
    /\ left = [t \in Threads |-> Rounds]

\* Slip: the mutex is not waited for.
SlipNoLock(t) ==
    /\ pc[t] = "token"
    /\ hMutex' = t
    /\ view' = [view EXCEPT ![t] = Queue]
    /\ pc' = [pc EXCEPT ![t] = "locked"]
    /\ UNCHANGED <<Queue, nItems, hSemaphoreFull, hSemaphoreEmpty, elem, left>>

\* WaitForSingleObject(hMutex), then the first look at the list.
Lock(t) ==
    /\ pc[t] = "token"
    /\ hMutex = NoThread
    /\ hMutex' = t
    /\ view' = [view EXCEPT ![t] = Queue]
    /\ pc' = [pc EXCEPT ![t] = "locked"]
    /\ UNCHANGED <<Queue, nItems, hSemaphoreFull, hSemaphoreEmpty, elem, left>>

\* Slip: the mutex is kept.
SlipNoUnlock(t) ==
    /\ pc[t] = "signalled"
    /\ pc' = [pc EXCEPT ![t] = "outside"]
    /\ left' = [left EXCEPT ![t] = @ - 1]
    /\ UNCHANGED <<Queue, nItems, hSemaphoreFull, hSemaphoreEmpty, hMutex, view, elem>>

\* ReleaseMutex(hMutex), and the call returns.
Unlock(t) ==
    /\ pc[t] = "signalled"
    /\ hMutex' = NoThread
    /\ pc' = [pc EXCEPT ![t] = "outside"]
    /\ left' = [left EXCEPT ![t] = @ - 1]
    /\ UNCHANGED <<Queue, nItems, hSemaphoreFull, hSemaphoreEmpty, view, elem>>

(***************************************************************************)
(* RingPut                                                                 *)
(***************************************************************************)
TakeSlot(p) ==
    /\ pc[p] = "outside" /\ left[p] > 0
    /\ hSemaphoreFull > 0
    /\ hSemaphoreFull' = hSemaphoreFull - 1
    /\ \E v \in Values : elem' = [elem EXCEPT ![p] = v]
    /\ pc' = [pc EXCEPT ![p] = "token"]
    /\ UNCHANGED <<Queue, nItems, hSemaphoreEmpty, hMutex, view, left>>

InsertElem(p) ==
    /\ pc[p] = "locked"
    /\ Queue' = Append(view[p], elem[p])
    /\ nItems' = nItems + 1
    /\ view' = [view EXCEPT ![p] = <<>>]
    /\ pc' = [pc EXCEPT ![p] = "changed"]
    /\ UNCHANGED <<hSemaphoreFull, hSemaphoreEmpty, hMutex, elem, left>>

\* Slip: the producer releases the semaphore it has waited for.
SlipSignalFull(p) ==
    /\ pc[p] = "changed"
    /\ hSemaphoreFull' = hSemaphoreFull + 1
    /\ pc' = [pc EXCEPT ![p] = "signalled"]
    /\ UNCHANGED <<Queue, nItems, hSemaphoreEmpty, hMutex, view, elem, left>>

SignalElem(p) ==
    /\ pc[p] = "changed"
    /\ hSemaphoreEmpty' = hSemaphoreEmpty + 1
    /\ pc' = [pc EXCEPT ![p] = "signalled"]
    /\ UNCHANGED <<Queue, nItems, hSemaphoreFull, hMutex, view, elem, left>>

(***************************************************************************)
(* RingGet                                                                 *)
(***************************************************************************)
TakeElem(c) ==
    /\ pc[c] = "outside" /\ left[c] > 0
    /\ hSemaphoreEmpty > 0
    /\ hSemaphoreEmpty' = hSemaphoreEmpty - 1
    /\ pc' = [pc EXCEPT ![c] = "token"]
    /\ UNCHANGED <<Queue, nItems, hSemaphoreFull, hMutex, view, elem, left>>

RemoveElem(c) ==
    /\ pc[c] = "locked"
    /\ elem' = [elem EXCEPT ![c] = Head(view[c])]
    /\ Queue' = Tail(view[c])
    /\ nItems' = nItems - 1
    /\ view' = [view EXCEPT ![c] = <<>>]
    /\ pc' = [pc EXCEPT ![c] = "changed"]
    /\ UNCHANGED <<hSemaphoreFull, hSemaphoreEmpty, hMutex, left>>

SignalSlot(c) ==
    /\ pc[c] = "changed"
    /\ hSemaphoreFull' = hSemaphoreFull + 1
    /\ pc' = [pc EXCEPT ![c] = "signalled"]
    /\ UNCHANGED <<Queue, nItems, hSemaphoreEmpty, hMutex, view, elem, left>>

RingPut(p) == TakeSlot(p) \/ Lock(p) \/ InsertElem(p) \/ SignalElem(p) \/ Unlock(p)
RingGet(c) == TakeElem(c) \/ Lock(c) \/ RemoveElem(c) \/ SignalSlot(c) \/ Unlock(c)

\* WaitForMultipleObjects: every thread has made its calls.
AllDone == \A t \in Threads : pc[t] = "outside" /\ left[t] = 0

Next ==
    \/ \E p \in Producers : RingPut(p)
    \/ \E c \in Consumers : RingGet(c)
    \/ AllDone /\ UNCHANGED vars

Spec == Init /\ [][Next]_vars

\* Every thread runs; a semaphore or the mutex need not be handed out fairly.
FairSpec ==
    /\ Spec
    /\ \A p \in Producers : WF_vars(RingPut(p))
    /\ \A c \in Consumers : WF_vars(RingGet(c))

(***************************************************************************)
(* Properties.                                                             *)
(***************************************************************************)
Steps == {"outside", "token", "locked", "changed", "signalled"}

\* Every variable holds what struct Ring and the locals of the calls hold.
TypeOK ==
    /\ Queue \in Seq(Values)
    /\ nItems \in 0 .. Capacity
    /\ hSemaphoreFull \in 0 .. Capacity
    /\ hSemaphoreEmpty \in 0 .. Capacity
    /\ hMutex \in Threads \cup {NoThread}
    /\ pc \in [Threads -> Steps]
    /\ view \in [Threads -> Seq(Values)]
    /\ elem \in [Threads -> Values \cup {NoValue}]
    /\ left \in [Threads -> 0 .. Rounds]

At(S, steps) == {t \in S : pc[t] \in steps}

\* Every place of the ring is accounted for: it is free, on its way in, holds
\* an element, or on its way back; so ReleaseSemaphore never exceeds its
\* maximum and a thread past the semaphore always finds what it waited for.
PlacesConserved ==
    /\ hSemaphoreFull + Cardinality(At(Producers, {"token", "locked"}))
          + Len(Queue) + Cardinality(At(Consumers, {"changed"})) = Capacity
    /\ hSemaphoreEmpty + Cardinality(At(Consumers, {"token", "locked"}))
          + Cardinality(At(Producers, {"changed"})) = Len(Queue)
    /\ nItems = Len(Queue)

Buffer == INSTANCE BoundedBuffer WITH
    buf <- Queue,
    got <- [c \in Consumers |-> elem[c]]

\* The ring is a bounded FIFO buffer: nothing put is lost, duplicated or
\* reordered, whatever the interleaving of RingPut and RingGet.
IsBoundedBuffer == Buffer!Spec

\* With as many gets as puts (RingTest.cpp) every call returns.
Terminates == <>AllDone
=============================================================================
