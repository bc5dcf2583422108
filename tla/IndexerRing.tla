---------------------------- MODULE IndexerRing ----------------------------
(***************************************************************************)
(* The ring of the file indexer (IndexerService/Ring.c): an array in a     *)
(* memory section shared by the server and its clients, guarded by named   *)
(* kernel objects.  Clients put queries, the server gets them.  A client   *)
(* is a process of its own: it may die at any step, which frees its mutex  *)
(* (abandoned; the result of the wait is ignored) but gives back no        *)
(* semaphore count.                                                        *)
(*                                                                         *)
(* The slot MAXELEMENTS lies past queries[], in the rest of the page that  *)
(* the section occupies, so what is written there can be read back.        *)
(***************************************************************************)
EXTENDS Integers, Sequences, FiniteSets

CONSTANTS
    Clients,      \* client processes; each puts queries of its own
    Server,       \* the thread that loops in ProcessNextQuery
    NoQuery,      \* content of a slot never written
    NoProcess,    \* owner of a free mutex
    MAXELEMENTS,
    EarlyClients, \* may a client call RingPut before RingInit is over?
    Rounds,       \* bound: queries put by each client (2 in Client.c)
    Crashes       \* bound: clients that may die

ASSUME RingAssumption ==
    /\ IsFiniteSet(Clients) /\ Server \notin Clients
    /\ NoQuery \notin Clients /\ NoProcess \notin Clients \cup {Server}
    /\ MAXELEMENTS \in Nat \ {0}
    /\ EarlyClients \in BOOLEAN
    /\ Rounds \in Nat /\ Crashes \in Nat

VARIABLES
    named,           \* kernel objects that exist
    hSemaphoreFull,  \* count of free places
    hSemaphoreEmpty, \* count of announced queries
    hMutex,          \* owner
    queries,         \* the slots
    iPut, iGet,
    handles,         \* the objects each client's OpenSemaphore/OpenMutex found
    pc,
    elem,            \* what the server copied out last
    left,            \* queries each client has still to put
    lost             \* history, not in the code: what dead clients took along,
                     \* places they held and queries they left unannounced

sync == <<named, hSemaphoreFull, hSemaphoreEmpty, hMutex>>
ring == <<queries, iPut, iGet>>
vars == <<sync, ring, handles, pc, elem, left, lost>>

Slots == 0 .. MAXELEMENTS

IncrementIndex(index) == IF index = MAXELEMENTS THEN 0 ELSE index + 1

\* CreateFileIndexer: the section zeroed, opened = TRUE, RingInit ahead.
Init ==
    /\ named = {} /\ hSemaphoreFull = 0 /\ hSemaphoreEmpty = 0
    /\ hMutex = NoProcess
    /\ queries = [s \in Slots |-> NoQuery]
    /\ iPut = 0 /\ iGet = 0
    /\ handles = [c \in Clients |-> {}]
    /\ pc = [p \in Clients \cup {Server} |->
                IF p = Server THEN "createFull" ELSE "outside"]
    /\ elem = NoQuery
    /\ left = [c \in Clients |-> Rounds]
    /\ lost = [places |-> 0, signals |-> 0]

Goto(p, to) == pc' = [pc EXCEPT ![p] = to]

(***************************************************************************)
(* RingInit                                                                *)
(***************************************************************************)
CreateFull ==
    /\ pc[Server] = "createFull"
    /\ named' = named \cup {"Full"} /\ hSemaphoreFull' = MAXELEMENTS
    /\ Goto(Server, "createEmpty")
    /\ UNCHANGED <<hSemaphoreEmpty, hMutex, ring, handles, elem, left, lost>>

CreateEmpty ==
    /\ pc[Server] = "createEmpty"
    /\ named' = named \cup {"Empty"}
    /\ Goto(Server, "createMutex")
    /\ UNCHANGED <<hSemaphoreFull, hSemaphoreEmpty, hMutex, ring, handles, elem, left, lost>>

CreateMutex ==
    /\ pc[Server] = "createMutex"
    /\ named' = named \cup {"Mutex"}
    /\ Goto(Server, "zeroIndices")
    /\ UNCHANGED <<hSemaphoreFull, hSemaphoreEmpty, hMutex, ring, handles, elem, left, lost>>

ZeroIndices ==
    /\ pc[Server] = "zeroIndices"
    /\ iPut' = 0 /\ iGet' = 0
    /\ Goto(Server, "idle")
    /\ UNCHANGED <<sync, queries, handles, elem, left, lost>>

RingInit == CreateFull \/ CreateEmpty \/ CreateMutex \/ ZeroIndices

InitOver == pc[Server] \notin {"createFull", "createEmpty", "createMutex", "zeroIndices"}

(***************************************************************************)
(* The mutex.  A wait on a handle that was not found returns at once.      *)
(***************************************************************************)
Free(mutexFound) == mutexFound => hMutex = NoProcess

\* Slip: the mutex is not waited for.
SlipTake(p, mutexFound) == hMutex' = IF mutexFound THEN p ELSE hMutex

Take(p, mutexFound) ==
    /\ Free(mutexFound)
    /\ hMutex' = IF mutexFound THEN p ELSE hMutex

Release(p) == hMutex' = IF hMutex = p THEN NoProcess ELSE hMutex

(***************************************************************************)
(* RingPut                                                                 *)
(***************************************************************************)
Open(c, name, from, to) ==
    /\ pc[c] = from
    /\ handles' = [handles EXCEPT ![c] = @ \cup (named \cap {name})]
    /\ Goto(c, to)
    /\ UNCHANGED <<sync, ring, elem, left, lost>>

OpenObjects(c) ==
    \/ /\ left[c] > 0 /\ (EarlyClients \/ InitOver)
       /\ Open(c, "Full", "outside", "openEmpty")
    \/ Open(c, "Empty", "openEmpty", "openMutex")
    \/ Open(c, "Mutex", "openMutex", "takeSlot")

\* Slip: a full ring is not waited for.
SlipTakeSlot(c) ==
    /\ pc[c] = "takeSlot"
    /\ Goto(c, "lock")
    /\ UNCHANGED <<sync, ring, handles, elem, left, lost>>

TakeSlot(c) ==
    /\ pc[c] = "takeSlot"
    /\ IF "Full" \in handles[c]
       THEN hSemaphoreFull > 0 /\ hSemaphoreFull' = hSemaphoreFull - 1
       ELSE UNCHANGED hSemaphoreFull
    /\ Goto(c, "lock")
    /\ UNCHANGED <<named, hSemaphoreEmpty, hMutex, ring, handles, elem, left, lost>>

LockPut(c) ==
    /\ pc[c] = "lock"
    /\ Take(c, "Mutex" \in handles[c])
    /\ Goto(c, "copy")
    /\ UNCHANGED <<named, hSemaphoreFull, hSemaphoreEmpty, ring, handles, elem, left, lost>>

CopyIn(c) ==
    /\ pc[c] = "copy"
    /\ queries' = [queries EXCEPT ![iPut] = c]
    /\ Goto(c, "move")
    /\ UNCHANGED <<sync, iPut, iGet, handles, elem, left, lost>>

MovePut(c) ==
    /\ pc[c] = "move"
    /\ iPut' = IncrementIndex(iPut)
    /\ Goto(c, "signal")
    /\ UNCHANGED <<sync, queries, iGet, handles, elem, left, lost>>

SignalEmpty(c) ==
    /\ pc[c] = "signal"
    /\ hSemaphoreEmpty' = IF "Empty" \in handles[c] THEN hSemaphoreEmpty + 1
                                                     ELSE hSemaphoreEmpty
    /\ Goto(c, "unlock")
    /\ UNCHANGED <<named, hSemaphoreFull, hMutex, ring, handles, elem, left, lost>>

\* ReleaseMutex; the handles are closed and the call returns.
UnlockPut(c) ==
    /\ pc[c] = "unlock"
    /\ Release(c)
    /\ handles' = [handles EXCEPT ![c] = {}]
    /\ left' = [left EXCEPT ![c] = @ - 1]
    /\ Goto(c, "outside")
    /\ UNCHANGED <<named, hSemaphoreFull, hSemaphoreEmpty, ring, elem, lost>>

(***************************************************************************)
(* RingGet; the server's own objects exist.                                *)
(***************************************************************************)
TakeQuery ==
    /\ pc[Server] = "idle"
    /\ hSemaphoreEmpty > 0
    /\ hSemaphoreEmpty' = hSemaphoreEmpty - 1
    /\ Goto(Server, "lock")
    /\ UNCHANGED <<named, hSemaphoreFull, hMutex, ring, handles, elem, left, lost>>

LockGet ==
    /\ pc[Server] = "lock"
    /\ Take(Server, TRUE)
    /\ Goto(Server, "copy")
    /\ UNCHANGED <<named, hSemaphoreFull, hSemaphoreEmpty, ring, handles, elem, left, lost>>

CopyOut ==
    /\ pc[Server] = "copy"
    /\ elem' = queries[iGet]
    /\ Goto(Server, "move")
    /\ UNCHANGED <<sync, ring, handles, left, lost>>

MoveGet ==
    /\ pc[Server] = "move"
    /\ iGet' = IncrementIndex(iGet)
    /\ Goto(Server, "signal")
    /\ UNCHANGED <<sync, queries, iPut, handles, elem, left, lost>>

\* Slip: RingGet gives no place back.
SlipSignalFull ==
    /\ pc[Server] = "signal"
    /\ Goto(Server, "unlock")
    /\ UNCHANGED <<sync, ring, handles, elem, left, lost>>

SignalFull ==
    /\ pc[Server] = "signal"
    /\ hSemaphoreFull' = hSemaphoreFull + 1
    /\ Goto(Server, "unlock")
    /\ UNCHANGED <<named, hSemaphoreEmpty, hMutex, ring, handles, elem, left, lost>>

UnlockGet ==
    /\ pc[Server] = "unlock"
    /\ Release(Server)
    /\ Goto(Server, "idle")
    /\ UNCHANGED <<named, hSemaphoreFull, hSemaphoreEmpty, ring, handles, elem, left, lost>>

\* A client process ends in the middle of RingPut.
Crash(c) ==
    /\ pc[c] \notin {"outside", "dead"}
    /\ Cardinality({d \in Clients : pc[d] = "dead"}) < Crashes
    /\ Release(c)
    /\ handles' = [handles EXCEPT ![c] = {}]
    /\ Goto(c, "dead")
    /\ lost' = [places |-> lost.places + (IF pc[c] \in {"lock", "copy", "move"} THEN 1 ELSE 0),
               signals |-> lost.signals + (IF pc[c] = "signal" THEN 1 ELSE 0)]
    /\ UNCHANGED <<named, hSemaphoreFull, hSemaphoreEmpty, ring, elem, left>>

RingPut(c) ==
    \/ OpenObjects(c) \/ TakeSlot(c) \/ LockPut(c) \/ CopyIn(c)
    \/ MovePut(c) \/ SignalEmpty(c) \/ UnlockPut(c)

RingGet == TakeQuery \/ LockGet \/ CopyOut \/ MoveGet \/ SignalFull \/ UnlockGet

Next ==
    \/ RingInit
    \/ RingGet
    \/ \E c \in Clients : RingPut(c) \/ Crash(c)

Spec == Init /\ [][Next]_vars

\* Every process runs; nothing more is known of the order of the waiters.
FairSpec == Spec /\ WF_vars(RingInit \/ RingGet) /\ \A c \in Clients : WF_vars(RingPut(c))

(***************************************************************************)
(* Properties.                                                             *)
(***************************************************************************)
At(steps) == {c \in Clients : pc[c] \in steps}

\* The slots from iGet to iPut, oldest query first.
Unread ==
    LET Size == MAXELEMENTS + 1
        n == (iPut - iGet + Size) % Size
    IN  [i \in 1 .. n |-> queries[(iGet + i - 1) % Size]]

\* A place is free, on its way in, holds a query, is on its way back, or went
\* with a client that died before its query was in the ring, and never comes
\* back: never more of them than slots, so that line 30 overwrites nothing
\* unread; and enough dead clients block everybody on an empty ring.  A query in the
\* ring is announced, being read, about to be announced, or was left unannounced by
\* a client that died: the server is never told to read more than is there, and stays
\* behind by the announcements that were lost.
PlacesConserved ==
    InitOver =>
        /\ hSemaphoreFull + Cardinality(At({"lock", "copy", "move"})) + Len(Unread)
               + (IF pc[Server] = "signal" THEN 1 ELSE 0) + lost.places = MAXELEMENTS
        /\ hSemaphoreEmpty + (IF pc[Server] \in {"lock", "copy", "move"} THEN 1 ELSE 0)
               + Cardinality(At({"signal"})) + lost.signals = Len(Unread)

Buffer == INSTANCE BoundedBuffer WITH
    Consumers <- {Server},
    Values <- Clients,
    NoValue <- NoQuery,
    Capacity <- MAXELEMENTS,
    buf <- IF pc[Server] = "move" THEN Tail(Unread) ELSE Unread,
    got <- [s \in {Server} |-> elem]

\* Ring.h:25-28: RingPut adds a query, RingGet returns the oldest one; between
\* them nothing is lost, duplicated or reordered, even if clients die.
IsBoundedBuffer == Buffer!Spec

\* When no client dies, every RingPut returns and every query is read.
AllQueriesRead ==
    [](At({"dead"}) = {}) => <>[](Unread = <<>> /\ \A c \in Clients : left[c] = 0)
=============================================================================
