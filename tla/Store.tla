------------------------------- MODULE Store -------------------------------
(***************************************************************************)
(* The tracker's registry of file locations (Server/Store.cpp) on top of   *)
(* the hash table.  The server calls it inside its critical section        *)
(* (Server.cpp:89-124), so an operation is one step.                       *)
(***************************************************************************)
EXTENDS Integers, Sequences, SequencesExt, FiniteSets, Functions

CONSTANTS
    Files,      \* names, after Char2Wchar
    HashFunc,   \* their hash values
    NameSize,   \* bytes of each name
    EndPoints,  \* records with fields sin_addr and sin_port
    Blocks,     \* bound: the memory StoreRegister's malloc can return
    STORESIZE,  \* capacity of the table
    MaxCount,   \* bound: the table's count of items
    MaxAdds     \* bound: additions to an entry between its creation and its end

ASSUME StoreAssumption ==
    /\ IsFiniteSet(Files)
    /\ EndPoints \subseteq [sin_addr : Nat, sin_port : Nat]
    /\ HashFunc \in [Files -> Nat]
    /\ NameSize \in [Files -> Nat \ {0}]
    /\ STORESIZE \in Nat

VARIABLES buckets, count, keysCount, totalKeySize, cleared,
    heap  \* blocks that hold an endpoint

vars == <<buckets, count, keysCount, totalKeySize, cleared, heap>>

\* The two comparisons of addresses compare ep1 with itself: the port decides.
CmpEndPoints(ep1, ep2) ==
    IF ep1.sin_addr > ep1.sin_addr THEN 1
    ELSE IF ep1.sin_addr < ep1.sin_addr THEN -1
    ELSE ep1.sin_port - ep2.sin_port

SameEndPoint(ep1, ep2) == CmpEndPoints(ep1, ep2) = 0

Table == INSTANCE HashTable WITH
    Keys <- Files,
    Items <- [ptr : Blocks, val : EndPoints],
    Same <- SameEndPoint,
    KeySize <- NameSize,
    ValueSize <- 16,
    Capacity <- STORESIZE

Init == Table!HashTableInit /\ heap = {}

StoreRegister(fileName, client) ==
    /\ count < MaxCount
    /\ Table!Entry(fileName).totalDataSize < MaxAdds * Table!ItemSize
    /\ \E dup \in Blocks \ heap :
        /\ heap' = heap \cup {dup}
        /\ Table!HashTableAdd(fileName, [ptr |-> dup, val |-> client])

\* Slip: the endpoint taken out of the table is not freed.
SlipStoreUnregister(fileName, client) ==
    /\ Table!HashTableRemove(fileName, client)
    /\ UNCHANGED heap

\* HashTableRemove, whose callback is DeleteEndPoint.
StoreUnregister(fileName, client) ==
    /\ Table!HashTableRemove(fileName, client)
    /\ heap' = heap \ {it.ptr : it \in Table!Removed(fileName, client)}

\* HashTableClear of the store's table, whose remFunc is DeleteEndPoint.  (The call is
\* public, HashTable.h:70; the server itself never makes it, nor HashTableDestroy.)
StoreClear ==
    /\ Table!HashTableClear
    /\ heap' = heap \ {it.ptr : it \in Table!AllItems}

StoreGetTrackedFiles == [files |-> Table!HashTableKeys, keysCount |-> keysCount]

StoreGetFileLocations(fileName) == Table!HashTableKeyValues(fileName)

Next ==
    \/ \E f \in Files, ep \in EndPoints : StoreRegister(f, ep) \/ StoreUnregister(f, ep)
    \/ StoreClear

Spec == Init /\ [][Next]_vars

(***************************************************************************)
(* Properties.                                                             *)
(***************************************************************************)
EntryType ==
    [key : Files, items : Seq([ptr : Blocks, val : EndPoints]),
     totalDataSize : Nat, countItems : Nat]

\* Every variable holds what HASH_TABLE and BUCKET_ENTRY hold.
TypeOK ==
    /\ buckets \in [0 .. Table!nBuckets - 1 -> Seq(EntryType)]
    /\ count \in Nat /\ keysCount \in Nat /\ totalKeySize \in Nat
    /\ cleared \in BOOLEAN
    /\ heap \subseteq Blocks

BucketNumbers == 0 .. Table!nBuckets - 1

\* A key has at most one entry, in the bucket of its hash value, and an entry
\* always has items: FindInBucket sees all of a key's items, and the list of
\* tracked files names no file without a location.
OneEntryPerKey ==
    \A b \in BucketNumbers : \A i \in DOMAIN buckets[b] :
        /\ Table!Bucket(buckets[b][i].key) = b
        /\ buckets[b][i].items # <<>>
        /\ \A j \in DOMAIN buckets[b] : buckets[b][i].key = buckets[b][j].key => i = j

Tracked == {f \in Files : Table!Entry(f).items # <<>>}

\* The three totals agree with the contents, until the table is cleared: the
\* buffer HashTableKeys allocates for the names is exactly large enough.
TotalsMatch ==
    \/ cleared
    \/ /\ count = SumFunction([f \in Files |-> Len(Table!Entry(f).items)])
       /\ keysCount = Cardinality(Tracked)
       /\ totalKeySize = SumFunction([f \in Tracked |-> NameSize[f]])

\* The buffers CopyToArray and CopyToArray2 allocate by totalDataSize are never
\* too small, although a removal does not bring it down; countItems is the
\* number of items that are copied into them.
BuffersLargeEnough ==
    \A f \in Files :
        /\ Table!Entry(f).totalDataSize >= Table!ItemSize * Len(Table!Entry(f).items)
        /\ Table!Entry(f).countItems = Len(Table!Entry(f).items)

\* LIST_FILES names every tracked file once and nothing else: the walk over
\* the buckets, which stops after keysCount names, does not stop early.
AllFilesListed ==
    LET files == StoreGetTrackedFiles.files
    IN  ToSet(files) = Tracked /\ IsInjective(files)

\* The endpoints in memory are those in the table, each at one place: none is
\* leaked by StoreUnregister, none freed while a list still holds it.
NothingLeaked ==
    /\ heap = {it.ptr : it \in Table!AllItems}
    /\ Cardinality(heap) = SumFunction([f \in Files |-> Len(Table!Entry(f).items)])

Multimap == INSTANCE Registry WITH
    Keys <- Files,
    Values <- EndPoints,
    Same <- SameEndPoint,
    values <- [f \in Files |-> StoreGetFileLocations(f).items]

\* The table is a registry of values by key: buckets, collisions and entries
\* that come and go are not seen by its callers.
IsRegistry == Multimap!Spec

Copies(f, ep) ==
    Cardinality({i \in DOMAIN Table!Entry(f).items : Table!Entry(f).items[i].val = ep})

\* Store.h:20-23: StoreUnregister "removes the given location for the given
\* file (if both exist)", and no other one.
UnregisterRemovesGiven ==
    [][\A f \in Files, ep \in EndPoints :
          StoreUnregister(f, ep) =>
              \A other \in EndPoints \ {ep} : Copies(f, other)' = Copies(f, other)]_vars
=============================================================================
