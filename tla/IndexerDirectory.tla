-------------------------- MODULE IndexerDirectory --------------------------
(***************************************************************************)
(* The index of the file indexer and the thread that keeps it up to date   *)
(* (IndexerService/Indexer.c, HashTable/HashTable.cpp): Windows queues the *)
(* changes of the directory, FileNotifyInfo takes them in batches and      *)
(* enters each into the hash table under the service's mutex.  The server  *)
(* thread looks into the table under the same mutex (IndexerService).      *)
(*                                                                         *)
(* The queue of Windows never overflows here, and only empty directories   *)
(* are renamed or removed: the code learns of neither what is below.       *)
(***************************************************************************)
EXTENDS Integers, Sequences, SequencesExt

CONSTANTS
    Paths,     \* files and directories, with the folders they are in
    Names,     \* their last parts, the keys of the table
    NameOf,    \* FilePathParser: the last part of each path
    FolderOf,  \* the folder of each path
    Server,
    NoThread,
    Existing,  \* what is below root before the monitor starts
    Early,     \* <<>>, or the path created before the first query is made
    MaxChanges \* bound: changes made to the directory

ASSUME DirectoryAssumption ==
    /\ NameOf \in [Paths -> Names]
    /\ DOMAIN FolderOf = Paths
    /\ Server # NoThread
    /\ Existing \subseteq Paths /\ MaxChanges \in Nat
    /\ Early = <<>> \/ \E path \in Paths \ Existing : Early = <<path>>

VARIABLES
    directory,  \* what exists below root
    unseen,     \* history: what was there before the monitor and was not touched since
    changes,    \* notifications that ReadDirectoryChangesW has not yet returned
    fileBuffer, \* those it has returned that are still to be processed
    hashTable,  \* for each name its list of paths and their number
    hMutex,     \* the mutex of the service, when the server holds it
    changed     \* changes made so far, but for Early

index == <<directory, unseen, changes, fileBuffer, hashTable, hMutex, changed>>

(***************************************************************************)
(* The hash table: a name without paths has no entry.                      *)
(***************************************************************************)
NoEntry == [items |-> <<>>, countItems |-> 0]

HashTableInit == [n \in Names |-> NoEntry]

AddToBucket(bi, val) ==
    [items |-> Append(bi.items, val), countItems |-> bi.countItems + 1]

HashTableAdd(table, path) == [table EXCEPT ![NameOf[path]] = AddToBucket(@, path)]

\* The first equal path goes, if there is one.
RemoveEntryOnList(bi, val) ==
    LET rest == RemoveFirst(bi.items, val)
    IN  [items |-> rest, countItems |-> bi.countItems - (Len(bi.items) - Len(rest))]

\* The entry goes with its last path.
RemoveInBucket(bi, val) ==
    LET left == RemoveEntryOnList(bi, val) IN IF left.items = <<>> THEN NoEntry ELSE left

HashTableRemove(table, path) == [table EXCEPT ![NameOf[path]] = RemoveInBucket(@, path)]

Notification(action, path) == [action |-> action, path |-> path]

\* The monitor's first call; what the directory held before is never read.  One file
\* may come between that call and the service's first query.
DirectoryInit ==
    /\ directory = Existing \cup ToSet(Early)
    /\ unseen = Existing
    /\ changes = [i \in DOMAIN Early |-> Notification("ADDED", Early[i])]
    /\ fileBuffer = <<>>
    /\ hashTable = HashTableInit
    /\ hMutex = NoThread
    /\ changed = 0

(***************************************************************************)
(* The users of the directory, and what Windows notes of their doing.      *)
(***************************************************************************)
Change(now, notes) ==
    /\ changed < MaxChanges
    /\ changed' = changed + 1
    /\ directory' = now
    /\ unseen' = unseen \cap now
    /\ changes' = changes \o notes
    /\ UNCHANGED <<fileBuffer, hashTable, hMutex>>

CreateFile(path) ==
    path \notin directory /\ Change(directory \cup {path}, <<Notification("ADDED", path)>>)

DeleteFile(path) ==
    path \in directory /\ Change(directory \ {path}, <<Notification("REMOVED", path)>>)

\* Within a folder this is a new name; to another folder it is seen as an end and a
\* beginning.
Rename(from, to) ==
    /\ from \in directory /\ to \notin directory
    /\ Change((directory \ {from}) \cup {to},
              IF FolderOf[from] = FolderOf[to]
              THEN <<Notification("RENAMED_OLD_NAME", from), Notification("RENAMED_NEW_NAME", to)>>
              ELSE <<Notification("REMOVED", from), Notification("ADDED", to)>>)

ChangeDirectory ==
    \/ \E path \in Paths : CreateFile(path) \/ DeleteFile(path)
    \/ \E from, to \in Paths : Rename(from, to)

(***************************************************************************)
(* The monitor                                                             *)
(***************************************************************************)
\* As many of the notifications as fit: the two of a rename may fall into two batches.
ReadDirectoryChangesW ==
    /\ fileBuffer = <<>>
    /\ \E k \in 1 .. Len(changes) :
           /\ fileBuffer' = SubSeq(changes, 1, k)
           /\ changes' = SubSeq(changes, k + 1, Len(changes))
    /\ UNCHANGED <<directory, unseen, hashTable, hMutex, changed>>

\* Slip: the table's last two actions are in the wrong order.
SlipOperName(table, ni) ==
    CASE ni.action \in {"ADDED", "RENAMED_OLD_NAME"} -> HashTableAdd(table, ni.path)
      [] ni.action \in {"REMOVED", "RENAMED_NEW_NAME"} -> HashTableRemove(table, ni.path)

\* FileActionAdded and FileActionRemoved, chosen by the action's number.
OperName(table, ni) ==
    CASE ni.action \in {"ADDED", "RENAMED_NEW_NAME"} -> HashTableAdd(table, ni.path)
      [] ni.action \in {"REMOVED", "RENAMED_OLD_NAME"} -> HashTableRemove(table, ni.path)

\* Slip: the mutex is not waited for.
SlipProcessNotifyInfo ==
    /\ fileBuffer # <<>>
    /\ hashTable' = OperName(hashTable, Head(fileBuffer))
    /\ fileBuffer' = Tail(fileBuffer)
    /\ UNCHANGED <<directory, unseen, changes, hMutex, changed>>

\* Slip: the batch is left after its first entry.
SlipProcessNotifyFirst ==
    /\ fileBuffer # <<>> /\ hMutex = NoThread
    /\ hashTable' = OperName(hashTable, Head(fileBuffer))
    /\ fileBuffer' = <<>>
    /\ UNCHANGED <<directory, unseen, changes, hMutex, changed>>

\* One entry of the batch: the mutex is taken, the table changed, the mutex released.
ProcessNotifyInfo ==
    /\ fileBuffer # <<>> /\ hMutex = NoThread
    /\ hashTable' = OperName(hashTable, Head(fileBuffer))
    /\ fileBuffer' = Tail(fileBuffer)
    /\ UNCHANGED <<directory, unseen, changes, hMutex, changed>>

FileNotifyInfo == ReadDirectoryChangesW \/ ProcessNotifyInfo

(***************************************************************************)
(* Properties.                                                             *)
(***************************************************************************)
Contents(table) == UNION {ToSet(table[n].items) : n \in Names}

\* Once the changes that are still on their way have been entered, the table holds
\* exactly what is in the directory (but for what was there before the monitor), each
\* path once and under its own name: whatever the changes and however they fall
\* into batches.
IndexConsistent ==
    LET upToDate == FoldLeft(OperName, hashTable, fileBuffer \o changes)
    IN  /\ Contents(upToDate) = directory \ unseen
        /\ \A n \in Names :
               /\ IsInjective(upToDate[n].items)
               /\ \A path \in ToSet(upToDate[n].items) : NameOf[path] = n
=============================================================================
