--------------------------- MODULE IndexerService ---------------------------
(***************************************************************************)
(* The query protocol of the file indexer (IndexerService/Indexer.c): the  *)
(* server loops in ProcessNextQuery, client threads call QueryCount and    *)
(* QueryFolders, the stopper calls StopIndexer.  A query travels through   *)
(* the ring (IndexerRing implements the BoundedBuffer used here); its      *)
(* answer comes back in a file mapping with the client's name, announced   *)
(* by an event.  A mapping lives as long as somebody has it open; the      *)
(* server keeps its last one open until the next answer.  A mapping that   *)
(* is still open is used again for the next query of its client, and keeps *)
(* what the new answer does not overwrite.  The content of the answer      *)
(* comes from the index, which changes meanwhile.                          *)
(*                                                                         *)
(* The service is up at the start: a client that is faster than RingInit   *)
(* is the subject of IndexerRing.                                          *)
(***************************************************************************)
EXTENDS IndexerDirectory, FiniteSets, Functions

CONSTANTS
    Threads,     \* client threads
    QueryName,   \* the file name that each thread asks for
    MAXELEMENTS, \* places in the ring
    Rounds,      \* bound: queries made by each thread (2 in Client.c)
    Effort,      \* bound: queries and changes of the directory together
    Stopper,     \* may StopIndexer be called?
    MapFailures  \* bound: times the server cannot make a mapping

ASSUME ServiceAssumption ==
    /\ IsFiniteSet(Threads) /\ NoThread \notin Threads /\ Server \notin Threads
    /\ QueryName \in [Threads -> Names]
    /\ MAXELEMENTS \in Nat \ {0} /\ Rounds \in Nat /\ Effort \in Nat
    /\ Stopper \in BOOLEAN /\ MapFailures \in Nat

VARIABLES
    opened,          \* SERVICE.opened
    buf, got,        \* the ring, and the query RingGet returned last
    server,          \* where the server is in ProcessNextQuery, "ended" when its
                     \* loop is over and it waits for a key, "gone" afterwards
    client,          \* where each thread is in its query
    evt,             \* query.evt is signalled
    found,           \* what HashTableGet has returned so far
    mapping,         \* content of each thread's mapping: the answer, and as history
                     \* the queries whose count and whose paths it holds, 0 for the
                     \* zeros of a new mapping
    users,           \* who has each thread's mapping open
    hLastMapRequest, \* whose answer the server still keeps
    round,           \* the query each thread is at
    failures         \* mappings that could not be made

vars == <<opened, buf, got, server, client, evt, found, mapping, users,
          hLastMapRequest, round, failures, index>>
ring == <<buf, got>>
maps == <<mapping, users>>
counts == <<round, failures>>

Ring == INSTANCE BoundedBuffer WITH
    Consumers <- {Server}, Values <- Threads,
    NoValue <- NoThread, Capacity <- MAXELEMENTS

\* The NULL of HashTableGet, and the zeros of a new mapping.
NoAnswer == [count |-> 0, paths |-> <<>>]
NoMapping == [query |-> 0, pathsOf |-> 0, answer |-> NoAnswer]

\* What the bound Effort counts: queries begun and changes made.
EffortSoFar == changed + SumFunction(round)

Init ==
    /\ Ring!Init
    /\ DirectoryInit
    /\ opened = TRUE
    /\ server = "check"
    /\ client = [t \in Threads |-> "new"]
    /\ evt = [t \in Threads |-> FALSE]
    /\ found = NoAnswer
    /\ mapping = [t \in Threads |-> NoMapping]
    /\ users = [t \in Threads |-> {}]
    /\ hLastMapRequest = NoThread
    /\ round = [t \in Threads |-> 0]
    /\ failures = 0

\* CloseHandle: p no longer has t's mapping open.
Drop(u, t, p) == IF t = NoThread THEN u ELSE [u EXCEPT ![t] = @ \ {p}]

\* CloseHandle: the mappings that nobody has open any more are gone.
Left(u) == [t \in Threads |-> IF u[t] = {} THEN NoMapping ELSE mapping[t]]

\* t's query ends; number is round[t], or what it becomes.
Return(t, number) ==
    client' = [client EXCEPT ![t] = IF number = Rounds THEN "done" ELSE "opened"]

(***************************************************************************)
(* Clients                                                                 *)
(***************************************************************************)
\* OpenFileIndexer: refused when the service is not open.
OpenFileIndexer(t) ==
    /\ client[t] = "new"
    /\ hMutex = NoThread
    /\ client' = [client EXCEPT ![t] =
          IF opened /\ Rounds > 0 THEN "opened" ELSE "done"]
    /\ UNCHANGED <<opened, ring, server, evt, maps, hLastMapRequest, counts, found, index>>

\* QueryCount, QueryFolders: opened is read without the mutex.
QueryCount(t) ==
    /\ client[t] = "opened"
    /\ EffortSoFar < Effort
    /\ round' = [round EXCEPT ![t] = @ + 1]
    /\ IF opened THEN client' = [client EXCEPT ![t] = "put"] ELSE Return(t, round'[t])
    /\ UNCHANGED <<opened, ring, server, evt, maps, hLastMapRequest, failures, found, index>>

PutQuery(t) ==
    /\ client[t] = "put"
    /\ Ring!Put(t)
    /\ client' = [client EXCEPT ![t] = "wait"]
    /\ UNCHANGED <<opened, server, evt, maps, hLastMapRequest, counts, found, index>>

WaitEvt(t) ==
    /\ client[t] = "wait"
    /\ evt[t]
    /\ evt' = [evt EXCEPT ![t] = FALSE]
    /\ client' = [client EXCEPT ![t] = "map"]
    /\ UNCHANGED <<opened, ring, server, maps, hLastMapRequest, counts, found, index>>

\* OpenFileMapping finds the answer, or fails when nobody keeps it open.
OpenAnswer(t) ==
    /\ client[t] = "map"
    /\ \/ /\ users[t] # {}
          /\ users' = [users EXCEPT ![t] = @ \cup {t}]
          /\ client' = [client EXCEPT ![t] = "read"]
       \/ /\ users[t] = {}
          /\ Return(t, round[t])
          /\ UNCHANGED users
    /\ UNCHANGED <<opened, ring, server, evt, mapping, hLastMapRequest, counts, found, index>>

ReadAnswer(t) ==
    /\ client[t] = "read"
    /\ Return(t, round[t])
    /\ users' = Drop(users, t, t)
    /\ mapping' = Left(users')
    /\ UNCHANGED <<opened, ring, server, evt, hLastMapRequest, counts, found, index>>

(***************************************************************************)
(* The server, and StopIndexer                                             *)
(***************************************************************************)
\* Slip: the server does not look whether the service was stopped.
SlipCheckOpened ==
    /\ server = "check"
    /\ server' = "get"
    /\ UNCHANGED <<opened, ring, client, evt, maps, hLastMapRequest, counts, found, index>>

\* opened is read without the mutex; the server's loop ends when it is FALSE.
CheckOpened ==
    /\ server = "check"
    /\ server' = IF opened THEN "get" ELSE "ended"
    /\ UNCHANGED <<opened, ring, client, evt, maps, hLastMapRequest, counts, found, index>>

GetQuery ==
    /\ server = "get"
    /\ Ring!Get(Server)
    /\ server' = "lookup"
    /\ UNCHANGED <<opened, client, evt, maps, hLastMapRequest, counts, found, index>>

\* The entry of the name that the query asks for.
FindInBucket == hashTable[QueryName[got[Server]]]

\* HashTableGet, with the mutex: the number of items first (NULL if there is no
\* entry), then the items themselves.
CountItems ==
    /\ server = "lookup"
    /\ hMutex = NoThread
    /\ hMutex' = Server
    /\ found' = [NoAnswer EXCEPT !.count = FindInBucket.countItems]
    /\ server' = "copy"
    /\ UNCHANGED <<opened, ring, client, evt, maps, hLastMapRequest, counts,
                   directory, unseen, changes, fileBuffer, hashTable, changed>>

CopyToArray ==
    /\ server = "copy"
    /\ found' = [found EXCEPT !.paths = FindInBucket.items]
    /\ hMutex' = NoThread
    /\ server' = "reply"
    /\ UNCHANGED <<opened, ring, client, evt, maps, hLastMapRequest, counts,
                   directory, unseen, changes, fileBuffer, hashTable, changed>>

\* Slip: NULL sets the total size only and leaves the count.
SlipWriteAnswer(old, query) ==
    IF found = NoAnswer THEN [old EXCEPT !.query = query]
    ELSE [query |-> query, pathsOf |-> query, answer |-> found]

\* What the view of a mapping with the content old holds afterwards: when
\* nothing was found only the count is set, and old paths stay behind it.  What
\* was found ends in a size of zero, so that no older path is reached behind it.
WriteAnswer(old, query) ==
    IF found = NoAnswer THEN [old EXCEPT !.query = query, !.answer.count = 0]
    ELSE [query |-> query, pathsOf |-> query, answer |-> found]

\* CreateFileMapping, which returns the client's mapping of before if somebody
\* has it open, and the answer written.
Reply ==
    /\ server = "reply"
    /\ LET t == got[Server]
       IN  /\ mapping' = [mapping EXCEPT ![t] = WriteAnswer(@, round[t])]
           /\ users' = [users EXCEPT ![t] = @ \cup {Server}]
    /\ found' = NoAnswer
    /\ server' = "signal"
    /\ UNCHANGED <<opened, ring, client, evt, hLastMapRequest, counts, index>>

\* The mapping cannot be made: the client is woken without an answer, and the
\* server's loop ends with the service still marked as open.
ReplyFails ==
    /\ server = "reply"
    /\ failures < MapFailures
    /\ failures' = failures + 1
    /\ evt' = [evt EXCEPT ![got[Server]] = TRUE]
    /\ found' = NoAnswer
    /\ server' = "ended"
    /\ UNCHANGED <<opened, ring, client, maps, hLastMapRequest, round, index>>

\* The mapping is made but cannot be viewed: the client is woken, and finds
\* zeros or its answer of before until the mapping is closed again.
ViewFails ==
    /\ server = "reply"
    /\ failures < MapFailures
    /\ failures' = failures + 1
    /\ users' = [users EXCEPT ![got[Server]] = @ \cup {Server}]
    /\ evt' = [evt EXCEPT ![got[Server]] = TRUE]
    /\ found' = NoAnswer
    /\ server' = "fail"
    /\ UNCHANGED <<opened, ring, client, mapping, hLastMapRequest, round, index>>

\* Of two handles of the server to the same mapping one remains.
CloseMapRequest ==
    /\ server = "fail"
    /\ users' = IF hLastMapRequest = got[Server] THEN users
                ELSE Drop(users, got[Server], Server)
    /\ mapping' = Left(users')
    /\ server' = "ended"
    /\ UNCHANGED <<opened, ring, client, evt, hLastMapRequest, counts, found, index>>

\* Slip: the client is not woken.
SlipSignalEvt ==
    /\ server = "signal"
    /\ server' = "retire"
    /\ UNCHANGED <<opened, ring, client, evt, maps, hLastMapRequest, counts, found, index>>

SignalEvt ==
    /\ server = "signal"
    /\ evt' = [evt EXCEPT ![got[Server]] = TRUE]
    /\ server' = "retire"
    /\ UNCHANGED <<opened, ring, client, maps, hLastMapRequest, counts, found, index>>

\* Slip: the mapping just written is closed instead of the one before it.
SlipRetire ==
    /\ server = "retire"
    /\ users' = Drop(users, got[Server], Server)
    /\ mapping' = Left(users')
    /\ hLastMapRequest' = got[Server]
    /\ server' = "check"
    /\ UNCHANGED <<opened, ring, client, evt, counts, found, index>>

\* The answer before this one is let go of.  When both belong to the same
\* thread, two handles were open and one remains.
Retire ==
    /\ server = "retire"
    /\ users' = IF hLastMapRequest = got[Server] THEN users
                ELSE Drop(users, hLastMapRequest, Server)
    /\ mapping' = Left(users')
    /\ hLastMapRequest' = got[Server]
    /\ server' = "check"
    /\ UNCHANGED <<opened, ring, client, evt, counts, found, index>>

\* A key is pressed: the server process is over, and what it had open is closed.
ServerExit ==
    /\ server = "ended"
    /\ server' = "gone"
    /\ users' = Drop(users, hLastMapRequest, Server)
    /\ mapping' = Left(users')
    /\ hLastMapRequest' = NoThread
    /\ UNCHANGED <<opened, ring, client, evt, counts, found, index>>

StopIndexer ==
    /\ Stopper /\ opened
    /\ hMutex = NoThread
    /\ opened' = FALSE
    /\ UNCHANGED <<ring, server, client, evt, maps, hLastMapRequest, counts, found, index>>

ProcessNextQuery ==
    \/ CheckOpened \/ GetQuery \/ CountItems \/ CopyToArray
    \/ Reply \/ ReplyFails \/ ViewFails \/ CloseMapRequest \/ SignalEvt \/ Retire

Query(t) ==
    \/ OpenFileIndexer(t) \/ QueryCount(t) \/ PutQuery(t)
    \/ WaitEvt(t) \/ OpenAnswer(t) \/ ReadAnswer(t)

\* The monitor is a thread of the server's process.
Monitor ==
    /\ server # "gone"
    /\ FileNotifyInfo
    /\ UNCHANGED <<opened, ring, server, client, evt, found, maps, hLastMapRequest, counts>>

Users ==
    /\ EffortSoFar < Effort
    /\ ChangeDirectory
    /\ UNCHANGED <<opened, ring, server, client, evt, found, maps, hLastMapRequest, counts>>

Next ==
    \/ ProcessNextQuery \/ Monitor \/ ServerExit \/ StopIndexer \/ Users
    \/ \E t \in Threads : Query(t)

Spec == Init /\ [][Next]_vars

\* The server, its monitor and every client thread run; nobody has to stop the service or
\* to press a key.
FairSpec ==
    Spec /\ WF_vars(ProcessNextQuery) /\ WF_vars(Monitor) /\ \A t \in Threads : WF_vars(Query(t))

(***************************************************************************)
(* Properties.                                                             *)
(***************************************************************************)
\* Every variable holds what SERVICE, QUERY and the locals hold.
TypeOK ==
    /\ opened \in BOOLEAN
    /\ buf \in Seq(Threads) /\ Len(buf) <= MAXELEMENTS
    /\ got \in [{Server} -> Threads \cup {NoThread}]
    /\ server \in {"check", "get", "lookup", "copy", "reply", "fail", "signal", "retire",
                  "ended", "gone"}
    /\ client \in [Threads -> {"new", "opened", "put", "wait", "map", "read", "done"}]
    /\ evt \in [Threads -> BOOLEAN]
    /\ \A t \in Threads : mapping[t].query \in 0 .. Rounds
    /\ users \in [Threads -> SUBSET (Threads \cup {Server})]
    /\ hLastMapRequest \in Threads \cup {NoThread}
    /\ round \in [Threads -> 0 .. Rounds]
    /\ failures \in 0 .. MapFailures

\* Of the paths in the mapping, all of which AnswerResultToQueryEnum copies,
\* NextResult hands out as many as the count says.
Shown(answer) == SubSeq(answer.paths, 1, answer.count)

Over == server \in {"ended", "gone"}

\* A thread is never shown the answer to an earlier query of its own, although
\* all its queries share one mapping and the old one may still be open: neither
\* the earlier count, nor the earlier paths, which a query that found nothing
\* leaves in the mapping.  (When a mapping could not be made or viewed it may be:
\* the client is woken all the same.)
AnswerIsCurrent ==
    failures = 0 =>
        \A t \in Threads :
            client[t] = "read" =>
                /\ mapping[t].query = round[t]
                /\ Shown(mapping[t].answer) # <<>> => mapping[t].pathsOf = round[t]

\* What a client is shown is all the paths of its mapping or none, and no path twice:
\* although the index changes while the server looks, the number and the paths are
\* one moment's content.
AnswerIsWhole ==
    \A t \in Threads :
        client[t] = "read" =>
            LET answer == mapping[t].answer
            IN  /\ answer.count \in {0, Len(answer.paths)}
                /\ IsInjective(Shown(answer))

\* An answer announced and not yet looked at is still there, unless the server
\* went on to answer somebody else or its process is over.
AnswerKept ==
    \A t \in Threads :
        (client[t] = "map" \/ evt[t]) =>
            Server \in users[t] \/ hLastMapRequest # t

\* A query returns, as long as the server does not end.
QueryReturns ==
    \A t \in Threads : (client[t] = "put") ~> (client[t] \in {"opened", "done"} \/ Over)

\* A stopped service with a query in the ring ends: the server answers one
\* more query and looks at opened.
StopWithQueryEnds == (~opened /\ buf # <<>>) ~> Over

\* When the directory is left alone, the index comes to agree with it, though the
\* monitor and the queries compete for one mutex; unless the process ends.
IndexCatchesUp ==
    <>(server = "gone") \/ <>[](Contents(hashTable) = directory \ unseen)
=============================================================================
