----------------------------- MODULE HashTable -----------------------------
(***************************************************************************)
(* The hash table of the tracker (Server/HashTable.cpp): buckets are lists *)
(* of entries, one per key, and an entry is the list of the key's items    *)
(* with two totals of its own.  An item is a pointer to a value: "ptr" is  *)
(* the address, "val" what is stored there.                                *)
(***************************************************************************)
EXTENDS Integers, Sequences, SequencesExt, FiniteSets

CONSTANTS
    Keys,
    Items,       \* what callers may add: records with fields ptr and val
    Same(_, _),  \* vCmp of two values is 0
    HashFunc,    \* hash value of each key, a number
    KeySize,     \* bytes of each key's string, its terminator included
    ValueSize,   \* the dataSize given to HashTableAdd
    Capacity     \* argument of HashTableInit, a number

VARIABLES
    buckets,
    count,        \* items in the table
    keysCount,    \* entries in the table
    totalKeySize, \* bytes HashTableKeys needs for the keys
    cleared       \* history, not in the code: HashTableClear was called

table == <<buckets, count, keysCount, totalKeySize, cleared>>

\* 2, doubled until it is half the capacity; mask is nBuckets - 1, so that "& mask"
\* is the remainder.
nBuckets ==
    LET nb == IF Capacity = 0 THEN 1024 ELSE Capacity \div 2
        i[turn \in 0 .. nb] == IF turn = 0 THEN 2 ELSE 2 * i[turn - 1]
    IN  i[CHOOSE t \in 0 .. nb : i[t] >= nb /\ \A u \in 0 .. t - 1 : i[u] < nb]

Bucket(key) == HashFunc[key] % nBuckets

\* Room for an item: its size in front of it, and whole ints.
ItemSize == ((ValueSize - 1) \div 4 + 2) * 4

FindInBucket(blist, key) == SelectInSeq(blist, LAMBDA e : e.key = key)

HashTableInit ==
    /\ buckets = [b \in 0 .. nBuckets - 1 |-> <<>>]
    /\ count = 0 /\ keysCount = 0 /\ totalKeySize = 0
    /\ cleared = FALSE

(***************************************************************************)
(* HashTableAdd                                                            *)
(***************************************************************************)
NewEntry(key) == [key |-> key, items |-> <<>>, totalDataSize |-> 0, countItems |-> 0]

\* Slip: the item goes into an entry of its own.
SlipAddToBucket(blist, key, item) ==
    Append(blist, [NewEntry(key) EXCEPT !.items = <<item>>, !.totalDataSize = ItemSize,
                                        !.countItems = 1])

\* Slip: the size in front of the item is forgotten.
SlipAddToBucketSize(blist, key, item) ==
    LET i == FindInBucket(blist, key)
        With(e) == [e EXCEPT !.items = Append(@, item),
                             !.totalDataSize = @ + ItemSize - 4,
                             !.countItems = @ + 1]
    IN  IF i = 0 THEN Append(blist, With(NewEntry(key)))
                 ELSE [blist EXCEPT ![i] = With(@)]

\* Slip: the item goes to the front.
SlipAddToBucketFront(blist, key, item) ==
    LET i == FindInBucket(blist, key)
        With(e) == [e EXCEPT !.items = <<item>> \o @,
                             !.totalDataSize = @ + ItemSize,
                             !.countItems = @ + 1]
    IN  IF i = 0 THEN Append(blist, With(NewEntry(key)))
                 ELSE [blist EXCEPT ![i] = With(@)]

AddToBucket(blist, key, item) ==
    LET i == FindInBucket(blist, key)
        With(e) == [e EXCEPT !.items = Append(@, item),
                             !.totalDataSize = @ + ItemSize,
                             !.countItems = @ + 1]
    IN  IF i = 0 THEN Append(blist, With(NewEntry(key)))
                 ELSE [blist EXCEPT ![i] = With(@)]

HashTableAdd(key, item) ==
    LET b == Bucket(key)
        first == FindInBucket(buckets[b], key) = 0
    IN  /\ buckets' = [buckets EXCEPT ![b] = AddToBucket(@, key, item)]
        /\ count' = count + 1
        /\ keysCount' = keysCount + (IF first THEN 1 ELSE 0)
        /\ totalKeySize' = totalKeySize + (IF first THEN KeySize[key] ELSE 0)
        /\ UNCHANGED cleared

(***************************************************************************)
(* HashTableRemove                                                         *)
(***************************************************************************)
Entry(key) ==
    LET blist == buckets[Bucket(key)]
        i == FindInBucket(blist, key)
    IN  IF i = 0 THEN NewEntry(key) ELSE blist[i]

\* The place of the item that RemoveEntryOnList takes, 0 if there is none.
ItemPlace(key, val) == SelectInSeq(Entry(key).items, LAMBDA it : Same(it.val, val))

\* The items passed to remFunc.
Removed(key, val) ==
    LET j == ItemPlace(key, val) IN IF j = 0 THEN {} ELSE {Entry(key).items[j]}

\* Slip: an entry that has lost its last item stays in the bucket.
SlipRemoveInBucket(blist, key, j) ==
    LET i == FindInBucket(blist, key)
    IN  [blist EXCEPT ![i].items = RemoveAt(@, j), ![i].countItems = @ - 1]

\* totalDataSize is not brought down.
RemoveInBucket(blist, key, j) ==
    LET i == FindInBucket(blist, key)
    IN  IF Len(blist[i].items) = 1
        THEN RemoveAt(blist, i)
        ELSE [blist EXCEPT ![i].items = RemoveAt(@, j), ![i].countItems = @ - 1]

\* Slip: a key less is counted for every item that goes.
SlipHashTableRemove(key, val) ==
    LET b == Bucket(key)
        j == ItemPlace(key, val)
    IN  IF j = 0
        THEN UNCHANGED table
        ELSE /\ buckets' = [buckets EXCEPT ![b] = RemoveInBucket(@, key, j)]
             /\ count' = count - 1
             /\ keysCount' = keysCount - 1
             /\ totalKeySize' = totalKeySize - KeySize[key]
             /\ UNCHANGED cleared

HashTableRemove(key, val) ==
    LET b == Bucket(key)
        j == ItemPlace(key, val)
        last == Len(Entry(key).items) = 1
    IN  IF j = 0
        THEN UNCHANGED table
        ELSE /\ buckets' = [buckets EXCEPT ![b] = RemoveInBucket(@, key, j)]
             /\ count' = count - 1
             /\ keysCount' = keysCount - (IF last THEN 1 ELSE 0)
             /\ totalKeySize' = totalKeySize - (IF last THEN KeySize[key] ELSE 0)
             /\ UNCHANGED cleared

\* Every list is emptied; the three totals keep their values.
HashTableClear ==
    /\ buckets' = [b \in 0 .. nBuckets - 1 |-> <<>>]
    /\ cleared' = TRUE
    /\ UNCHANGED <<count, keysCount, totalKeySize>>

(***************************************************************************)
(* The questions: HashTableKeyValues and HashTableKeys.                    *)
(***************************************************************************)
HashTableKeyValues(key) ==
    LET e == Entry(key)
    IN  [items |-> [i \in DOMAIN e.items |-> e.items[i].val], countItems |-> e.countItems]

KeysOf(blist) == [i \in DOMAIN blist |-> blist[i].key]

\* The walk ends before the first bucket at which keysCount keys are copied.
HashTableKeys ==
    LET Before(b) == FlattenSeq([i \in 1 .. b |-> KeysOf(buckets[i - 1])])
        stops == {b \in 0 .. nBuckets : b = nBuckets \/ Len(Before(b)) = keysCount}
    IN  Before(CHOOSE b \in stops : \A c \in stops : b <= c)

AllItems == UNION {ToSet(Entry(k).items) : k \in Keys}
=============================================================================
