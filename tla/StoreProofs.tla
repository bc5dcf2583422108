---------------------------- MODULE StoreProofs ----------------------------
(***************************************************************************)
(* Theorems about Store for any files, endpoints, hash values and table    *)
(* size: the buckets hold one entry per tracked file, the totals and the   *)
(* heap agree with them, and the table implements Registry.                *)
(***************************************************************************)
EXTENDS Store, DataLemmas

Item == [ptr : Blocks, val : EndPoints]

(***************************************************************************)
(* The number of buckets.                                                  *)
(***************************************************************************)

\* The doubling in HashTableInit reaches half the capacity.
LEMMA BucketsFacts == Table!nBuckets \in Nat \ {0}
<1> DEFINE nb == IF STORESIZE = 0 THEN 1024 ELSE STORESIZE \div 2
           twice == [t \in 1 .. nb |-> [v \in Nat \ {0} |-> 2 * v]]
           i == CHOOSE g : g = [t \in 0 .. nb |-> IF t = 0 THEN 2 ELSE 2 * g[t - 1]]
<1>1. nb \in Nat
  BY StoreAssumption
<1>2. Table!nBuckets = i[CHOOSE t \in 0 .. nb : i[t] >= nb /\ \A u \in 0 .. t - 1 : i[u] < nb]
  BY DEF Table!nBuckets
<1> HIDE DEF nb
<1>3. \A t \in 1 .. nb, v \in Nat \ {0} : twice[t][v] = 2 * v /\ twice[t][v] \in Nat \ {0}
  OBVIOUS
<1> HIDE DEF twice
<1>4. PICK f \in [0 .. nb -> Nat \ {0}] : Recurring(nb, 2, twice, f)
  <2>1. 2 \in Nat \ {0} /\ \A t \in 1 .. nb, v \in Nat \ {0} : twice[t][v] \in Nat \ {0}
    BY <1>3
  <2>2. QED
    BY <1>1, <2>1, RecursionExists
<1>5. f[0] = 2 /\ \A t \in 1 .. nb : f[t] = 2 * f[t - 1]
  <2>1. \A t \in 1 .. nb : t - 1 \in 0 .. nb
    BY <1>1
  <2>2. QED
    BY <1>3, <1>4, <2>1 DEF Recurring
<1>6. f = [t \in 0 .. nb |-> IF t = 0 THEN 2 ELSE 2 * f[t - 1]]
  BY <1>1, <1>5
<1>7. i = [t \in 0 .. nb |-> IF t = 0 THEN 2 ELSE 2 * i[t - 1]]
  BY <1>6
<1> HIDE DEF i
<1>8. \A t \in 0 .. nb : i[t] = IF t = 0 THEN 2 ELSE 2 * i[t - 1]
  BY <1>7
<1> DEFINE Good == {t \in Nat : t <= nb => i[t] = f[t] /\ f[t] > t}
<1>9. \A t \in Nat : t \in Good
  <2>1. 0 \in Good
    BY <1>1, <1>5, <1>8
  <2>2. ASSUME NEW t \in Nat, t \in Good PROVE t + 1 \in Good
    <3>1. SUFFICES ASSUME t + 1 <= nb PROVE i[t + 1] = f[t + 1] /\ f[t + 1] > t + 1
      OBVIOUS
    <3>2. /\ t + 1 \in 0 .. nb /\ t + 1 \in 1 .. nb /\ t \in 0 .. nb
          /\ t + 1 # 0 /\ (t + 1) - 1 = t /\ t <= nb
      BY <1>1, <3>1
    <3>3. i[t] = f[t] /\ f[t] > t /\ f[t] \in Nat
      BY <1>4, <2>2, <3>2
    <3>4. i[t + 1] = 2 * i[t] /\ f[t + 1] = 2 * f[t]
      BY <1>5, <1>8, <3>2
    <3>5. QED
      BY <3>3, <3>4
  <2> HIDE DEF Good
  <2>3. QED
    BY <2>1, <2>2, InductiveSet
<1>10. \A t \in 0 .. nb : i[t] \in Nat \ {0} /\ i[t] > t
  <2>1. ASSUME NEW t \in 0 .. nb PROVE i[t] \in Nat \ {0} /\ i[t] > t
    <3>1. t \in Nat /\ t <= nb
      BY <1>1
    <3>2. QED
      BY <1>4, <1>9, <3>1
  <2>2. QED
    BY <2>1
<1> DEFINE Enough == {t \in 0 .. nb : i[t] >= nb}
<1>11. PICK t \in Enough : \A u \in Enough : t <= u
  <2>1. nb \in Enough /\ Enough \in SUBSET Nat
    BY <1>1, <1>10
  <2> HIDE DEF Enough
  <2>2. QED
    BY <2>1, LeastNatural
<1>12. t \in 0 .. nb /\ i[t] >= nb /\ \A u \in 0 .. t - 1 : i[u] < nb
  <2>1. ASSUME NEW u \in 0 .. t - 1 PROVE i[u] < nb
    <3>1. u \in 0 .. nb /\ ~ (t <= u)
      BY <1>1
    <3>2. u \notin Enough
      BY <1>11, <3>1
    <3>3. QED
      BY <1>1, <1>10, <3>1, <3>2
  <2>2. QED
    BY <2>1
<1>13. (CHOOSE u \in 0 .. nb : i[u] >= nb /\ \A w \in 0 .. u - 1 : i[w] < nb) \in 0 .. nb
  BY <1>12
<1>14. QED
  BY <1>2, <1>10, <1>13

\* The mask leads to a bucket that exists.
LEMMA BucketOf == \A key \in Files : Table!Bucket(key) \in BucketNumbers
<1> SUFFICES ASSUME NEW key \in Files PROVE Table!Bucket(key) \in BucketNumbers
  OBVIOUS
<1> DEFINE n == Table!nBuckets
           h == HashFunc[key]
<1>1. n \in Nat \ {0} /\ h \in Nat
  BY BucketsFacts, StoreAssumption
<1>2. Table!Bucket(key) = h % n /\ BucketNumbers = 0 .. n - 1
  BY DEF Table!Bucket, BucketNumbers
<1> HIDE DEF n, h
<1>3. h % n \in 0 .. n - 1
  BY <1>1
<1>4. QED
  BY <1>2, <1>3

(***************************************************************************)
(* One bucket: a list of entries.                                          *)
(***************************************************************************)

\* The operators of the community modules are the same in every module.
LEMMA SameOperators ==
    /\ \A s, i : Table!RemoveAt(s, i) = RemoveAt(s, i)
    /\ \A s : Table!ToSet(s) = ToSet(s)
    /\ \A s : Table!FlattenSeq(s) = FlattenSeq(s)
<1>1. \A s, i : Table!RemoveAt(s, i) = RemoveAt(s, i)
  BY DEF Table!RemoveAt, RemoveAt
<1>2. \A s : Table!ToSet(s) = ToSet(s)
  BY DEF Table!ToSet, ToSet
<1>3. \A s : Table!FlattenSeq(s) = FlattenSeq(s)
  BY DEF Table!FlattenSeq, FlattenSeq
<1>4. QED
  BY <1>1, <1>2, <1>3

\* A location of 16 bytes takes 20 in an answer's buffer.
LEMMA SizeOfItem == Table!ItemSize = 20
BY DEF Table!ItemSize

\* What the lists, and the two totals of an entry, must be.
GoodEntry(e) ==
    /\ e.items # <<>>
    /\ e.totalDataSize >= 20 * Len(e.items)
    /\ e.countItems = Len(e.items)

GoodList(blist, b) ==
    /\ blist \in Seq(EntryType)
    /\ \A i \in 1 .. Len(blist) : Table!Bucket(blist[i].key) = b /\ GoodEntry(blist[i])
    /\ \A i, j \in 1 .. Len(blist) : blist[i].key = blist[j].key => i = j

EntryIn(blist, key) ==
    LET i == Table!FindInBucket(blist, key) IN IF i = 0 THEN Table!NewEntry(key) ELSE blist[i]

\* FindInBucket finds the entry if there is one.
LEMMA FindFacts ==
    ASSUME NEW blist \in Seq(EntryType), NEW key
    PROVE  LET i == Table!FindInBucket(blist, key)
           IN  /\ i \in 0 .. Len(blist)
               /\ i # 0 => blist[i].key = key
               /\ i = 0 => \A j \in 1 .. Len(blist) : blist[j].key # key
<1> DEFINE I == {i \in 1 .. Len(blist) : blist[i].key = key}
<1>1. Table!FindInBucket(blist, key) = IF I # {} THEN Min(I) ELSE 0
  BY DEF Table!FindInBucket, Table!SelectInSeq, Table!Min, Min
<1>2. I \in SUBSET Nat /\ Len(blist) \in Nat
  OBVIOUS
<1>3. CASE I = {}
  BY <1>1, <1>2, <1>3
<1>4. CASE I # {}
  <2>1. Min(I) \in I
    <3> HIDE DEF I
    <3> QED
      BY <1>2, <1>4, MinFacts
  <2> HIDE DEF Min
  <2>2. QED
    BY <1>1, <1>2, <1>4, <2>1
<1>5. QED
  BY <1>3, <1>4

\* The key's entry, where there is one.
LEMMA EntryAt ==
    ASSUME NEW b, NEW blist, GoodList(blist, b), NEW i \in 1 .. Len(blist)
    PROVE  Table!FindInBucket(blist, blist[i].key) = i /\ EntryIn(blist, blist[i].key) = blist[i]
<1> DEFINE j == Table!FindInBucket(blist, blist[i].key)
<1>1. /\ j \in 0 .. Len(blist) /\ (j # 0 => blist[j].key = blist[i].key)
      /\ (j = 0 => \A m \in 1 .. Len(blist) : blist[m].key # blist[i].key)
  BY FindFacts DEF GoodList
<1>2. j # 0 /\ j \in 1 .. Len(blist)
  BY <1>1
<1> HIDE DEF j
<1>3. j = i
  BY <1>1, <1>2 DEF GoodList
<1>4. QED
  BY <1>2, <1>3 DEF EntryIn, j

\* A key with no entry in the bucket is not found, and has no items.
LEMMA EntryAbsent ==
    ASSUME NEW blist \in Seq(EntryType), NEW key,
           \A i \in 1 .. Len(blist) : blist[i].key # key
    PROVE  Table!FindInBucket(blist, key) = 0 /\ EntryIn(blist, key) = Table!NewEntry(key)
<1>1. Table!FindInBucket(blist, key) = 0
  <2>1. /\ Table!FindInBucket(blist, key) \in 0 .. Len(blist)
        /\ Table!FindInBucket(blist, key) # 0 => blist[Table!FindInBucket(blist, key)].key = key
    BY FindFacts
  <2>2. QED
    BY <2>1
<1>2. QED
  BY <1>1 DEF EntryIn

\* An entry looks the same whether it is there or not.
LEMMA EntryInFacts ==
    ASSUME NEW b, NEW blist, GoodList(blist, b), NEW key \in Files
    PROVE  LET e == EntryIn(blist, key)
               i == Table!FindInBucket(blist, key)
           IN  /\ e \in EntryType /\ e.key = key
               /\ e.totalDataSize >= 20 * Len(e.items) /\ e.countItems = Len(e.items)
               /\ i = 0 <=> e.items = <<>>
               /\ i # 0 => i \in 1 .. Len(blist) /\ blist[i] = e
<1> DEFINE i == Table!FindInBucket(blist, key)
<1>1. /\ blist \in Seq(EntryType) /\ Len(blist) \in Nat
      /\ i \in 0 .. Len(blist) /\ (i # 0 => blist[i].key = key)
  BY FindFacts DEF GoodList
<1>2. i = 0 => EntryIn(blist, key) = [key |-> key, items |-> <<>>, totalDataSize |-> 0, countItems |-> 0]
  BY DEF EntryIn, Table!NewEntry
<1>3. i # 0 => i \in 1 .. Len(blist) /\ EntryIn(blist, key) = blist[i] /\ blist[i] \in EntryType
  BY <1>1 DEF EntryIn
<1> HIDE DEF i
<1>4. CASE i = 0
  <2>1. [key |-> key, items |-> <<>>, totalDataSize |-> 0, countItems |-> 0] \in EntryType
    BY DEF EntryType
  <2>2. Len(<<>>) = 0
    OBVIOUS
  <2>3. QED
    BY <1>2, <1>4, <2>1, <2>2 DEF i
<1>5. CASE i # 0
  <2>1. GoodEntry(blist[i])
    BY <1>3, <1>5 DEF GoodList
  <2>2. QED
    BY <1>1, <1>3, <1>5, <2>1 DEF GoodEntry, i
<1>6. QED
  BY <1>4, <1>5

\* AddToBucket.
LEMMA AddList ==
    ASSUME NEW key \in Files, NEW blist, GoodList(blist, Table!Bucket(key)), NEW item \in Item
    PROVE  LET new == Table!AddToBucket(blist, key, item)
           IN  /\ GoodList(new, Table!Bucket(key))
               /\ EntryIn(new, key).items = Append(EntryIn(blist, key).items, item)
               /\ \A k \in Files \ {key} : EntryIn(new, k) = EntryIn(blist, k)
<1> DEFINE b == Table!Bucket(key)
           i == Table!FindInBucket(blist, key)
           e == EntryIn(blist, key)
           With(x) == [x EXCEPT !.items = Append(@, item), !.totalDataSize = @ + Table!ItemSize,
                                !.countItems = @ + 1]
           more == With(e)
           new == Table!AddToBucket(blist, key, item)
           n == Len(blist)
<1>1. /\ e \in EntryType /\ e.key = key
      /\ e.totalDataSize >= 20 * Len(e.items) /\ e.countItems = Len(e.items)
      /\ i = 0 <=> e.items = <<>>
      /\ i # 0 => i \in 1 .. n /\ blist[i] = e
  BY EntryInFacts
<1>2. i = 0 => e = Table!NewEntry(key)
  BY DEF EntryIn
<1>3. new = IF i = 0 THEN Append(blist, more) ELSE [blist EXCEPT ![i] = more]
  <2>1. new = IF i = 0 THEN Append(blist, With(Table!NewEntry(key)))
                       ELSE [blist EXCEPT ![i] = With(blist[i])]
    BY DEF Table!AddToBucket
  <2>2. more = With(e)
    OBVIOUS
  <2> HIDE DEF With, e, more, new, i
  <2>3. QED
    BY <1>1, <1>2, <2>1, <2>2
<1>4. blist \in Seq(EntryType) /\ n \in Nat
  BY DEF GoodList
<1>5. more \in EntryType /\ GoodEntry(more) /\ more.key = key /\ more.items = Append(e.items, item)
  <2>1. e.items \in Seq(Item) /\ e.totalDataSize \in Nat /\ e.countItems \in Nat
    BY <1>1 DEF EntryType, Item
  <2>2. e \in EntryType
    BY <1>1
  <2> HIDE DEF e
  <2>3. /\ more.key = key /\ more.items = Append(e.items, item)
        /\ more.totalDataSize = e.totalDataSize + 20 /\ more.countItems = e.countItems + 1
    BY <1>1, <2>2, SizeOfItem DEF EntryType
  <2>4. Append(e.items, item) \in Seq(Item) /\ Len(Append(e.items, item)) = Len(e.items) + 1
        /\ Append(e.items, item) # <<>> /\ Len(e.items) \in Nat
    BY <2>1
  <2>5. more \in EntryType
    <3> DEFINE its == Append(e.items, item)
               size == e.totalDataSize + Table!ItemSize
               c == e.countItems + 1
    <3>1. more = [e EXCEPT !.items = its, !.totalDataSize = size, !.countItems = c]
      OBVIOUS
    <3>2. its \in Seq(Item) /\ size \in Nat /\ c \in Nat
      BY <2>1, <2>4, SizeOfItem
    <3> HIDE DEF more, its, size, c
    <3>3. QED
      BY <2>2, <3>1, <3>2 DEF EntryType, Item
  <2> HIDE DEF more
  <2>6. QED
    BY <1>1, <2>1, <2>3, <2>4, <2>5 DEF GoodEntry
<1>6. PICK at \in 1 .. n + 1 :
         /\ i # 0 => at = i
         /\ i = 0 => at = n + 1
  <2>1. i # 0 => i \in 1 .. n + 1
    BY <1>1, <1>4
  <2>2. n + 1 \in 1 .. n + 1
    BY <1>4
  <2> HIDE DEF i, n
  <2>3. QED
    BY <2>1, <2>2
<1>7. /\ new \in Seq(EntryType)
      /\ Len(new) = IF i = 0 THEN n + 1 ELSE n
      /\ at \in 1 .. Len(new)
      /\ new[at] = more
      /\ \A m \in 1 .. Len(new) : m # at => m \in 1 .. n /\ new[m] = blist[m]
      /\ \A m \in 1 .. n : m # at => m \in 1 .. Len(new) /\ new[m] = blist[m]
  <2> HIDE DEF new, i, more, e
  <2>1. CASE i = 0
    BY <1>3, <1>4, <1>5, <1>6, <2>1
  <2>2. CASE i # 0
    BY <1>1, <1>3, <1>4, <1>5, <1>6, <2>2
  <2>3. QED
    BY <2>1, <2>2
<1>8. \A m \in 1 .. n : m # at => blist[m].key # key
  <2>1. CASE i = 0
    BY <1>4, <2>1, FindFacts
  <2>2. CASE i # 0
    BY <1>1, <1>6, <2>2 DEF GoodList
  <2>3. QED
    BY <2>1, <2>2
<1> HIDE DEF new, i, more, e
<1>9. GoodList(new, b)
  <2>1. \A m \in 1 .. Len(new) : Table!Bucket(new[m].key) = b /\ GoodEntry(new[m])
    BY <1>5, <1>7 DEF GoodList
  <2>2. \A m, j \in 1 .. Len(new) : new[m].key = new[j].key => m = j
    BY <1>5, <1>7, <1>8 DEF GoodList
  <2>3. QED
    BY <1>7, <2>1, <2>2 DEF GoodList
<1>10. EntryIn(new, key) = more
  <2>1. new[at].key = key
    BY <1>5, <1>7
  <2>2. QED
    BY <1>7, <1>9, <2>1, EntryAt
<1>11. ASSUME NEW k \in Files, k # key
       PROVE  EntryIn(new, k) = EntryIn(blist, k)
  <2>1. CASE \E m \in 1 .. n : blist[m].key = k
    <3>1. PICK m \in 1 .. n : blist[m].key = k
      BY <2>1
    <3>2. m # at
      <4>1. CASE i = 0
        BY <1>4, <1>6, <4>1
      <4>2. CASE i # 0
        BY <1>1, <1>6, <1>11, <3>1, <4>2
      <4>3. QED
        BY <4>1, <4>2
    <3>3. m \in 1 .. Len(new) /\ new[m] = blist[m]
      BY <1>7, <3>2
    <3>4. QED
      BY <1>9, <3>1, <3>3, EntryAt
  <2>2. CASE ~ \E m \in 1 .. n : blist[m].key = k
    <3>1. \A m \in 1 .. Len(new) : new[m].key # k
      BY <1>5, <1>7, <1>11, <2>2
    <3>2. QED
      BY <1>4, <1>7, <2>2, <3>1, EntryAbsent
  <2>3. QED
    BY <2>1, <2>2
<1>12. QED
  BY <1>5, <1>9, <1>10, <1>11 DEF new, e

\* RemoveInBucket.
LEMMA RemoveList ==
    ASSUME NEW key \in Files, NEW blist, GoodList(blist, Table!Bucket(key)),
           NEW j \in 1 .. Len(EntryIn(blist, key).items)
    PROVE  LET new == Table!RemoveInBucket(blist, key, j)
           IN  /\ GoodList(new, Table!Bucket(key))
               /\ EntryIn(new, key).items = RemoveAt(EntryIn(blist, key).items, j)
               /\ \A k \in Files \ {key} : EntryIn(new, k) = EntryIn(blist, k)
<1> DEFINE b == Table!Bucket(key)
           i == Table!FindInBucket(blist, key)
           e == EntryIn(blist, key)
           Less(x) == [x EXCEPT !.items = Table!RemoveAt(@, j), !.countItems = @ - 1]
           less == Less(e)
           new == Table!RemoveInBucket(blist, key, j)
           n == Len(blist)
           rest == RemoveAt(e.items, j)
<1>1. /\ e \in EntryType /\ e.key = key
      /\ e.totalDataSize >= 20 * Len(e.items) /\ e.countItems = Len(e.items)
      /\ i = 0 <=> e.items = <<>>
      /\ i # 0 => i \in 1 .. n /\ blist[i] = e
  BY EntryInFacts
<1>2. /\ e.items \in Seq(Item) /\ e.totalDataSize \in Nat /\ Len(e.items) \in Nat
      /\ j \in 1 .. Len(e.items) /\ Len(e.items) # 0 /\ e.items # <<>>
  <2>1. e.items \in Seq(Item) /\ e.totalDataSize \in Nat
    BY <1>1 DEF EntryType, Item
  <2> HIDE DEF e
  <2>2. QED
    BY <2>1 DEF e
<1>3. i \in 1 .. n /\ blist[i] = e
  BY <1>1, <1>2
<1>4. rest \in Seq(Item) /\ Len(rest) = Len(e.items) - 1
  <2> HIDE DEF e
  <2> QED
    BY <1>2, RemoveAtFacts
<1>5. blist \in Seq(EntryType) /\ n \in Nat
  BY DEF GoodList
<1>6. new = IF Len(e.items) = 1 THEN RemoveAt(blist, i) ELSE [blist EXCEPT ![i] = less]
  <2>1. new = IF Len(blist[i].items) = 1 THEN Table!RemoveAt(blist, i)
                                         ELSE [blist EXCEPT ![i] = Less(blist[i])]
    BY DEF Table!RemoveInBucket
  <2>2. Table!RemoveAt(blist, i) = RemoveAt(blist, i) /\ less = Less(e)
    BY SameOperators
  <2> HIDE DEF Less, e, less, new, i
  <2>3. QED
    BY <1>3, <2>1, <2>2
<1>7. \A m \in 1 .. n : m # i => blist[m].key # key
  BY <1>1, <1>3 DEF GoodList
<1>8. CASE Len(e.items) = 1
  <2> DEFINE old(m) == IF m < i THEN m ELSE m + 1
  <2> HIDE DEF e, i, new, less
  <2>1. new \in Seq(EntryType) /\ Len(new) = n - 1
        /\ \A m \in 1 .. n - 1 : new[m] = blist[old(m)]
    BY <1>3, <1>5, <1>6, <1>8, RemoveAtFacts
  <2>2. /\ \A m \in 1 .. n - 1 : old(m) \in 1 .. n /\ old(m) # i
        /\ \A m, p \in 1 .. n - 1 : old(m) = old(p) => m = p
        /\ \A q \in 1 .. n : q # i => \E m \in 1 .. n - 1 : old(m) = q
    <3>1. \A q \in 1 .. n : q # i => LET m == IF q < i THEN q ELSE q - 1
                                     IN  m \in 1 .. n - 1 /\ old(m) = q
      BY <1>3, <1>5
    <3>2. QED
      BY <1>3, <1>5, <3>1, SMTT(30)
  <2> HIDE DEF old, n
  <2>3. GoodList(new, b)
    <3>1. \A m \in 1 .. n - 1 : Table!Bucket(new[m].key) = b /\ GoodEntry(new[m])
      BY <2>1, <2>2 DEF GoodList, n
    <3>2. \A m, p \in 1 .. n - 1 : new[m].key = new[p].key => m = p
      BY <2>1, <2>2, SMTT(30) DEF GoodList, n
    <3>3. QED
      BY <2>1, <3>1, <3>2 DEF GoodList
  <2>4. EntryIn(new, key).items = rest
    <3>1. \A m \in 1 .. Len(new) : new[m].key # key
      BY <1>7, <2>1, <2>2
    <3>2. EntryIn(new, key) = Table!NewEntry(key)
      BY <2>1, <3>1, EntryAbsent
    <3>3. rest = <<>>
      BY <1>4, <1>8
    <3>4. QED
      BY <3>2, <3>3 DEF Table!NewEntry
  <2>5. ASSUME NEW k \in Files, k # key PROVE EntryIn(new, k) = EntryIn(blist, k)
    <3>1. CASE \E q \in 1 .. n : blist[q].key = k
      <4>1. PICK q \in 1 .. n : blist[q].key = k
        BY <3>1
      <4>2. q # i
        BY <1>1, <1>3, <2>5, <4>1 DEF e
      <4>3. PICK m \in 1 .. n - 1 : old(m) = q
        BY <2>2, <4>2
      <4>4. m \in 1 .. Len(new) /\ new[m] = blist[q]
        BY <2>1, <4>3
      <4>5. EntryIn(blist, k) = blist[q]
        BY <4>1, EntryAt DEF n
      <4>6. EntryIn(new, k) = new[m]
        BY <2>3, <4>1, <4>4, EntryAt
      <4>7. QED
        BY <4>4, <4>5, <4>6
    <3>2. CASE ~ \E q \in 1 .. n : blist[q].key = k
      <4>1. \A m \in 1 .. Len(new) : new[m].key # k
        BY <2>1, <2>2, <3>2
      <4>2. QED
        BY <1>5, <2>1, <3>2, <4>1, EntryAbsent DEF n
    <3>3. QED
      BY <3>1, <3>2
  <2>6. QED
    BY <2>3, <2>4, <2>5 DEF new, e
<1>9. CASE Len(e.items) # 1
  <2>1. less \in EntryType /\ GoodEntry(less) /\ less.key = key /\ less.items = rest
    <3>1. e \in EntryType
      BY <1>1
    <3> HIDE DEF e
    <3>2. /\ less.key = key /\ less.items = rest /\ less.totalDataSize = e.totalDataSize
          /\ less.countItems = e.countItems - 1
      BY <1>1, <3>1, SameOperators DEF EntryType
    <3>3. rest # <<>> /\ e.countItems - 1 \in Nat /\ 20 * Len(rest) <= 20 * Len(e.items)
      <4> HIDE DEF rest
      <4>1. Len(rest) \in Nat /\ Len(rest) # 0 /\ Len(<<>>) = 0
        BY <1>2, <1>4, <1>9
      <4>2. rest # <<>>
        BY <4>1
      <4>3. QED
        BY <1>1, <1>2, <1>4, <4>1, <4>2
    <3>4. less \in EntryType
      <4> DEFINE c == e.countItems - 1
      <4>1. less = [e EXCEPT !.items = rest, !.countItems = c]
        BY SameOperators
      <4>2. rest \in Seq(Item) /\ c \in Nat
        BY <1>4, <3>3
      <4> HIDE DEF less, rest, c
      <4>3. QED
        BY <3>1, <4>1, <4>2 DEF EntryType, Item
    <3> HIDE DEF less, rest
    <3>5. QED
      BY <1>1, <1>2, <1>4, <3>2, <3>3, <3>4 DEF GoodEntry
  <2> HIDE DEF e, i, new, less
  <2>2. /\ new \in Seq(EntryType) /\ Len(new) = n /\ new[i] = less
        /\ \A m \in 1 .. n : m # i => new[m] = blist[m]
    BY <1>3, <1>5, <1>6, <1>9, <2>1
  <2>3. GoodList(new, b)
    <3>1. \A m \in 1 .. n : Table!Bucket(new[m].key) = b /\ GoodEntry(new[m])
      BY <2>1, <2>2 DEF GoodList
    <3>2. \A m \in 1 .. n : new[m].key = blist[m].key
      BY <1>1, <1>3, <2>1, <2>2 DEF e
    <3>3. QED
      BY <2>2, <3>1, <3>2 DEF GoodList
  <2>4. EntryIn(new, key) = less
    BY <1>3, <2>1, <2>2, <2>3, EntryAt
  <2>5. ASSUME NEW k \in Files, k # key PROVE EntryIn(new, k) = EntryIn(blist, k)
    <3>1. CASE \E q \in 1 .. n : blist[q].key = k
      <4>1. PICK q \in 1 .. n : blist[q].key = k
        BY <3>1
      <4>2. q # i
        BY <1>1, <1>3, <2>5, <4>1 DEF e
      <4>3. new[q] = blist[q] /\ q \in 1 .. Len(new)
        BY <2>2, <4>2
      <4>4. EntryIn(blist, k) = blist[q] /\ EntryIn(new, k) = new[q]
        BY <2>3, <4>1, <4>3, EntryAt
      <4>5. QED
        BY <4>3, <4>4
    <3>2. CASE ~ \E q \in 1 .. n : blist[q].key = k
      <4>1. \A m \in 1 .. Len(new) : new[m].key # k
        BY <1>1, <1>3, <2>1, <2>2, <2>5, <3>2
      <4>2. QED
        BY <1>5, <2>2, <3>2, <4>1, EntryAbsent
    <3>3. QED
      BY <3>1, <3>2
  <2>6. QED
    BY <2>1, <2>3, <2>4, <2>5 DEF new, e
<1>10. QED
  BY <1>8, <1>9

(***************************************************************************)
(* The table: for each file, the items of its entry.                       *)
(***************************************************************************)

\* Every bucket is a list of entries whose hash value is its number.
Lists ==
    /\ buckets \in [BucketNumbers -> Seq(EntryType)]
    /\ \A b \in BucketNumbers : GoodList(buckets[b], b)

Held == [f \in Files |-> Table!Entry(f).items]

\* The table's own Entry is the one that EntryIn finds in the key's bucket.
LEMMA EntryOf == \A f : Table!Entry(f) = EntryIn(buckets[Table!Bucket(f)], f)
BY DEF Table!Entry, EntryIn

\* What is in a table whose lists are good.
LEMMA HeldFacts ==
    ASSUME Lists
    PROVE  /\ Held \in [Files -> Seq(Item)]
           /\ \A f \in Files :
                 /\ Table!Entry(f).totalDataSize >= 20 * Len(Held[f])
                 /\ Table!Entry(f).countItems = Len(Held[f])
                 /\ Held[f] = <<>> <=> Table!FindInBucket(buckets[Table!Bucket(f)], f) = 0
           /\ Tracked = {f \in Files : Held[f] # <<>>}
<1>1. ASSUME NEW f \in Files
      PROVE  /\ Table!Entry(f).items \in Seq(Item)
             /\ Table!Entry(f).totalDataSize >= 20 * Len(Table!Entry(f).items)
             /\ Table!Entry(f).countItems = Len(Table!Entry(f).items)
             /\ Table!Entry(f).items = <<>> <=> Table!FindInBucket(buckets[Table!Bucket(f)], f) = 0
  <2> DEFINE b == Table!Bucket(f)
             e == EntryIn(buckets[b], f)
  <2>1. GoodList(buckets[b], b)
    BY BucketOf DEF Lists
  <2>2. /\ e \in EntryType
        /\ e.totalDataSize >= 20 * Len(e.items) /\ e.countItems = Len(e.items)
        /\ Table!FindInBucket(buckets[b], f) = 0 <=> e.items = <<>>
    <3> HIDE DEF b
    <3> QED
      BY <2>1, EntryInFacts
  <2>3. Table!Entry(f) = e
    BY EntryOf
  <2> HIDE DEF e, b
  <2>4. e.items \in Seq(Item)
    BY <2>2 DEF EntryType, Item
  <2>5. QED
    BY <2>2, <2>3, <2>4 DEF b
<1>2. \A f \in Files : Held[f] = Table!Entry(f).items
  BY DEF Held
<1>3. QED
  BY <1>1, <1>2 DEF Held, Tracked

\* What HashTableAdd and HashTableRemove make of one bucket shows in one file's items.
LEMMA OneBucket ==
    ASSUME Lists, NEW key \in Files, NEW new,
           buckets' = [buckets EXCEPT ![Table!Bucket(key)] = new],
           GoodList(new, Table!Bucket(key)),
           \A k \in Files \ {key} :
               EntryIn(new, k) = EntryIn(buckets[Table!Bucket(key)], k)
    PROVE  Lists' /\ Held' = [Held EXCEPT ![key] = EntryIn(new, key).items]
<1> DEFINE b == Table!Bucket(key)
<1>1. b \in BucketNumbers
  BY BucketOf
<1>2. DOMAIN buckets = BucketNumbers /\ \A c \in BucketNumbers : GoodList(buckets[c], c)
  BY DEF Lists
<1> HIDE DEF b
<1>3. DOMAIN buckets' = BucketNumbers /\ buckets'[b] = new
      /\ \A c \in BucketNumbers : c # b => buckets'[c] = buckets[c]
  BY <1>1, <1>2 DEF b
<1>4. Lists'
  <2>1. \A c \in BucketNumbers : GoodList(buckets'[c], c)
    BY <1>2, <1>3 DEF b
  <2>2. buckets' \in [BucketNumbers -> Seq(EntryType)]
    <3>1. buckets \in [BucketNumbers -> Seq(EntryType)] /\ new \in Seq(EntryType)
      BY DEF Lists, GoodList
    <3>2. QED
      BY <1>1, <3>1 DEF b
  <2>3. QED
    BY <2>1, <2>2 DEF Lists
<1>5. ASSUME NEW k \in Files
      PROVE  EntryIn(buckets'[Table!Bucket(k)], k) =
                 IF k = key THEN EntryIn(new, key) ELSE EntryIn(buckets[Table!Bucket(k)], k)
  <2>1. Table!Bucket(k) \in BucketNumbers
    BY BucketOf
  <2>2. QED
    BY <1>3, <2>1 DEF b
<1>6. \A k \in Files : Table!Entry(k)' = EntryIn(buckets'[Table!Bucket(k)], k)
  BY DEF Table!Entry, EntryIn, Table!FindInBucket, Table!SelectInSeq, Table!Min, Table!NewEntry,
         Table!Bucket
<1>7. \A k \in Files : Table!Entry(k)'.items =
          IF k = key THEN EntryIn(new, key).items ELSE Table!Entry(k).items
  BY <1>5, <1>6, EntryOf
<1>8. Held' = [k \in Files |-> Table!Entry(k)'.items]
  BY DEF Held
<1> HIDE DEF EntryIn
<1>9. QED
  BY <1>4, <1>7, <1>8 DEF Held

\* HashTableAdd.
LEMMA TableAdd ==
    ASSUME Lists, NEW key \in Files, NEW item \in Item, Table!HashTableAdd(key, item)
    PROVE  /\ Lists' /\ Held' = [Held EXCEPT ![key] = Append(@, item)]
           /\ count' = count + 1
           /\ keysCount' = keysCount + (IF Held[key] = <<>> THEN 1 ELSE 0)
           /\ totalKeySize' = totalKeySize + (IF Held[key] = <<>> THEN NameSize[key] ELSE 0)
           /\ UNCHANGED cleared
<1> DEFINE b == Table!Bucket(key)
           new == Table!AddToBucket(buckets[b], key, item)
<1>1. GoodList(buckets[b], b) /\ b \in BucketNumbers
  BY BucketOf DEF Lists
<1>2. /\ GoodList(new, b)
      /\ EntryIn(new, key).items = Append(EntryIn(buckets[b], key).items, item)
      /\ \A k \in Files \ {key} : EntryIn(new, k) = EntryIn(buckets[b], k)
  BY <1>1, AddList
<1>3. Held[key] = EntryIn(buckets[b], key).items
  BY EntryOf DEF Held
<1>4. Held[key] = <<>> <=> Table!FindInBucket(buckets[b], key) = 0
  BY HeldFacts
<1>5. /\ buckets' = [buckets EXCEPT ![b] = new]
      /\ count' = count + 1
      /\ keysCount' = keysCount + (IF Table!FindInBucket(buckets[b], key) = 0 THEN 1 ELSE 0)
      /\ totalKeySize' = totalKeySize
                         + (IF Table!FindInBucket(buckets[b], key) = 0 THEN NameSize[key] ELSE 0)
      /\ UNCHANGED cleared
  BY DEF Table!HashTableAdd
<1> HIDE DEF new
<1>6. Lists' /\ Held' = [Held EXCEPT ![key] = EntryIn(new, key).items]
  BY <1>2, <1>5, OneBucket
<1>7. QED
  BY <1>2, <1>3, <1>4, <1>5, <1>6

\* The item that HashTableRemove takes is the first whose value is the same.
LEMMA ItemPlaceFacts ==
    ASSUME Lists, NEW key \in Files, NEW val
    PROVE  LET j == Table!ItemPlace(key, val)
               I == {i \in 1 .. Len(Held[key]) : SameEndPoint(Held[key][i].val, val)}
           IN  /\ j \in 0 .. Len(Held[key])
               /\ j = IF I # {} THEN Min(I) ELSE 0
               /\ Table!Removed(key, val) = IF j = 0 THEN {} ELSE {Held[key][j]}
<1> DEFINE s == Table!Entry(key).items
           I == {i \in 1 .. Len(s) : SameEndPoint(s[i].val, val)}
           j == Table!ItemPlace(key, val)
<1>1. Held[key] = s /\ s \in Seq(Item)
  BY HeldFacts DEF Held
<1>2. j = IF I # {} THEN Min(I) ELSE 0
  BY DEF Table!ItemPlace, Table!SelectInSeq, Table!Min, Min
<1>3. Table!Removed(key, val) = IF j = 0 THEN {} ELSE {s[j]}
  BY DEF Table!Removed
<1> HIDE DEF s, j
<1>4. I \in SUBSET Nat /\ Len(s) \in Nat
  BY <1>1
<1>5. I # {} => Min(I) \in I
  <2> HIDE DEF I
  <2> QED
    BY <1>4, MinFacts
<1>6. j \in 0 .. Len(s)
  <2> HIDE DEF Min
  <2> QED
    BY <1>2, <1>4, <1>5
<1>7. QED
  BY <1>1, <1>2, <1>3, <1>6 DEF j

\* HashTableRemove.
LEMMA TableRemove ==
    ASSUME Lists, NEW key \in Files, NEW val, Table!HashTableRemove(key, val)
    PROVE  LET j == Table!ItemPlace(key, val)
               last == Len(Held[key]) = 1
           IN  IF j = 0
               THEN Lists' /\ UNCHANGED <<Held, count, keysCount, totalKeySize, cleared>>
               ELSE /\ Lists' /\ Held' = [Held EXCEPT ![key] = RemoveAt(@, j)]
                    /\ count' = count - 1
                    /\ keysCount' = keysCount - (IF last THEN 1 ELSE 0)
                    /\ totalKeySize' = totalKeySize - (IF last THEN NameSize[key] ELSE 0)
                    /\ UNCHANGED cleared
<1> DEFINE j == Table!ItemPlace(key, val)
           b == Table!Bucket(key)
           new == Table!RemoveInBucket(buckets[b], key, j)
<1>1. GoodList(buckets[b], b) /\ b \in BucketNumbers
  BY BucketOf DEF Lists
<1>2. Held[key] = EntryIn(buckets[b], key).items /\ Held[key] = Table!Entry(key).items
  BY EntryOf DEF Held
<1>3. j \in 0 .. Len(Held[key]) /\ Held[key] \in Seq(Item)
  BY ItemPlaceFacts, HeldFacts
<1>4. CASE j = 0
  <2>1. UNCHANGED <<buckets, count, keysCount, totalKeySize, cleared>>
    BY <1>4 DEF Table!HashTableRemove, Table!table
  <2>2. Lists' /\ UNCHANGED Held
    BY <2>1 DEF Lists, Held, Table!Entry, Table!FindInBucket, Table!SelectInSeq, Table!Min,
                Table!NewEntry, Table!Bucket
  <2>3. QED
    BY <1>4, <2>1, <2>2
<1>5. CASE j # 0
  <2>1. /\ buckets' = [buckets EXCEPT ![b] = new]
        /\ count' = count - 1
        /\ keysCount' = keysCount - (IF Len(Table!Entry(key).items) = 1 THEN 1 ELSE 0)
        /\ totalKeySize' = totalKeySize
                           - (IF Len(Table!Entry(key).items) = 1 THEN NameSize[key] ELSE 0)
        /\ UNCHANGED cleared
    BY <1>5 DEF Table!HashTableRemove
  <2>2. j \in 1 .. Len(EntryIn(buckets[b], key).items)
    <3> HIDE DEF j, b
    <3> QED
      BY <1>2, <1>3, <1>5
  <2> HIDE DEF j
  <2>3. /\ GoodList(new, b)
        /\ EntryIn(new, key).items = RemoveAt(EntryIn(buckets[b], key).items, j)
        /\ \A k \in Files \ {key} : EntryIn(new, k) = EntryIn(buckets[b], k)
    BY <1>1, <2>2, RemoveList
  <2> HIDE DEF new
  <2>4. Lists' /\ Held' = [Held EXCEPT ![key] = EntryIn(new, key).items]
    BY <2>1, <2>3, OneBucket
  <2>5. QED
    BY <1>2, <1>5, <2>1, <2>3, <2>4 DEF j
<1>6. QED
  BY <1>4, <1>5

\* HashTableInit and HashTableClear leave empty lists.
LEMMA EmptyTable ==
    ASSUME buckets = [b \in BucketNumbers |-> <<>>]
    PROVE  Lists /\ Held = [f \in Files |-> <<>>]
<1>1. GoodList(<<>>, 0) /\ \A b : GoodList(<<>>, b)
  BY DEF GoodList
<1>2. Lists
  BY <1>1 DEF Lists
<1>3. ASSUME NEW f \in Files PROVE Table!Entry(f).items = <<>>
  <2>1. Table!Bucket(f) \in BucketNumbers
    BY BucketOf
  <2>2. buckets[Table!Bucket(f)] = <<>>
    BY <2>1
  <2>3. EntryIn(<<>>, f) = Table!NewEntry(f)
    <3>1. <<>> \in Seq(EntryType) /\ \A i \in 1 .. Len(<<>>) : <<>>[i].key # f
      OBVIOUS
    <3>2. QED
      BY <3>1, EntryAbsent
  <2>4. QED
    BY <2>2, <2>3, EntryOf DEF Table!NewEntry
<1>4. QED
  BY <1>2, <1>3 DEF Held

(***************************************************************************)
(* What a table holds: H gives the items of each file.                     *)
(***************************************************************************)
Pointers(H) == {p \in Blocks : \E f \in Files : \E i \in 1 .. Len(H[f]) : H[f][i].ptr = p}

\* No block is the memory of two items.
OneEach(H) ==
    \A f, g \in Files : \A i \in 1 .. Len(H[f]), j \in 1 .. Len(H[g]) :
        H[f][i].ptr = H[g][j].ptr => f = g /\ i = j

Lens(H) == [f \in Files |-> Len(H[f])]
Kept(H) == {f \in Files : H[f] # <<>>}
Sizes(H) == [f \in Kept(H) |-> NameSize[f]]

\* A table with nothing in it.
LEMMA NothingHeld ==
    ASSUME NEW H, \A f \in Files : H[f] = <<>>
    PROVE  /\ Pointers(H) = {} /\ OneEach(H) /\ Kept(H) = {}
           /\ SumFunction(Lens(H)) = 0 /\ SumFunction(Sizes(H)) = 0
<1>1. \A f \in Files : Len(H[f]) = 0
  OBVIOUS
<1>2. Pointers(H) = {} /\ OneEach(H) /\ Kept(H) = {}
  BY <1>1 DEF Pointers, OneEach, Kept
<1>3. SumFunction(Sizes(H)) = 0
  <2> DEFINE f == Sizes(H)
  <2>1. f \in [{} -> Int]
    BY <1>2 DEF Sizes
  <2> HIDE DEF f
  <2>2. SumFunction(f) = 0
    BY <2>1, SumFacts, FS_EmptySet
  <2>3. QED
    BY <2>2 DEF f
<1>4. SumFunction(Lens(H)) = 0
  <2> DEFINE f == Lens(H)
  <2>1. f \in [Files -> Int] /\ \A x \in Files : f[x] = 0
    BY <1>1 DEF Lens
  <2> HIDE DEF f
  <2>2. SumFunction(f) = 0
    BY <2>1, SumZero, StoreAssumption
  <2>3. QED
    BY <2>2 DEF f
<1>5. QED
  BY <1>2, <1>3, <1>4

\* The number of items changes with those of one file.
LEMMA LensChange ==
    ASSUME NEW H \in [Files -> Seq(Item)], NEW N \in [Files -> Seq(Item)], NEW key \in Files,
           \A f \in Files \ {key} : N[f] = H[f]
    PROVE  /\ SumFunction(Lens(H)) \in Nat
           /\ SumFunction(Lens(N)) = SumFunction(Lens(H)) - Len(H[key]) + Len(N[key])
<1> DEFINE f == Lens(H)
           g == Lens(N)
<1>1. /\ f \in [Files -> Nat] /\ g \in [Files -> Nat]
      /\ f[key] = Len(H[key]) /\ g[key] = Len(N[key])
      /\ \A y \in Files \ {key} : f[y] = g[y]
  BY DEF Lens
<1>2. IsFiniteSet(Files)
  BY StoreAssumption
<1> HIDE DEF f, g
<1>3. f \in [Files -> Int] /\ g \in [Files -> Int] /\ \A y \in Files \ {key} : f[y] = g[y]
  BY <1>1
<1>4. SumFunction(g) = SumFunction(f) - f[key] + g[key]
  BY <1>2, <1>3, SumChange
<1>5. SumFunction(f) \in Nat
  BY <1>1, <1>2, SumNatural
<1>6. QED
  BY <1>1, <1>4, <1>5 DEF f, g

\* An item more of one file, in a block that no item uses.
LEMMA ItemAdded ==
    ASSUME NEW H \in [Files -> Seq(Item)], NEW key \in Files, NEW item \in Item,
           NEW N \in [Files -> Seq(Item)], N[key] = Append(H[key], item),
           \A f \in Files \ {key} : N[f] = H[f]
    PROVE  /\ Pointers(N) = Pointers(H) \cup {item.ptr}
           /\ OneEach(H) /\ item.ptr \notin Pointers(H) => OneEach(N)
           /\ SumFunction(Lens(N)) = SumFunction(Lens(H)) + 1
           /\ Kept(N) = Kept(H) \cup {key}
<1> DEFINE n == Len(H[key])
<1>1. /\ n \in Nat /\ Append(H[key], item) \in Seq(Item)
      /\ Len(Append(H[key], item)) = n + 1 /\ Append(H[key], item) # <<>>
      /\ Append(H[key], item)[n + 1] = item
      /\ \A i \in 1 .. n : Append(H[key], item)[i] = H[key][i]
  OBVIOUS
<1>2. /\ Len(N[key]) = n + 1 /\ N[key] # <<>> /\ N[key][n + 1] = item
      /\ \A i \in 1 .. n : N[key][i] = H[key][i]
      /\ \A f \in Files : f # key => N[f] = H[f]
  BY <1>1
<1>3. \A f \in Files : \A i \in 1 .. Len(N[f]) :
         \/ f = key /\ i = n + 1 /\ N[f][i] = item
         \/ i \in 1 .. Len(H[f]) /\ N[f][i] = H[f][i]
  <2> SUFFICES ASSUME NEW f \in Files, NEW i \in 1 .. Len(N[f])
               PROVE  \/ f = key /\ i = n + 1 /\ N[f][i] = item
                      \/ i \in 1 .. Len(H[f]) /\ N[f][i] = H[f][i]
    OBVIOUS
  <2>1. CASE f = key
    BY <1>1, <1>2, <2>1
  <2>2. CASE f # key
    BY <2>2
  <2>3. QED
    BY <2>1, <2>2
<1>4. \A f \in Files : \A i \in 1 .. Len(H[f]) : i \in 1 .. Len(N[f]) /\ N[f][i] = H[f][i]
  <2> SUFFICES ASSUME NEW f \in Files, NEW i \in 1 .. Len(H[f])
               PROVE  i \in 1 .. Len(N[f]) /\ N[f][i] = H[f][i]
    OBVIOUS
  <2>1. CASE f = key
    BY <1>1, <1>2, <2>1, SMTT(30)
  <2>2. CASE f # key
    BY <2>2
  <2>3. QED
    BY <2>1, <2>2
<1>5. n + 1 \in 1 .. Len(N[key]) /\ item.ptr \in Blocks
  BY <1>1, <1>2 DEF Item
<1> HIDE DEF n
<1>6. Pointers(N) = Pointers(H) \cup {item.ptr}
  <2>1. \A p : p \in Pointers(N) => p \in Pointers(H) \/ p = item.ptr
    BY <1>3, ZenonT(30) DEF Pointers
  <2>2. \A p : p \in Pointers(H) => p \in Pointers(N)
    BY <1>4 DEF Pointers
  <2>3. item.ptr \in Pointers(N)
    BY <1>2, <1>5 DEF Pointers
  <2>4. QED
    BY <2>1, <2>2, <2>3
<1>7. ASSUME OneEach(H), item.ptr \notin Pointers(H) PROVE OneEach(N)
  <2>1. \A f \in Files : \A i \in 1 .. Len(H[f]) : H[f][i].ptr # item.ptr
    BY <1>5, <1>7 DEF Pointers
  <2>2. QED
    BY <1>3, <1>7, <2>1, SMTT(30) DEF OneEach
<1>8. SumFunction(Lens(N)) = SumFunction(Lens(H)) + 1
  <2>1. /\ SumFunction(Lens(H)) \in Nat
        /\ SumFunction(Lens(N)) = SumFunction(Lens(H)) - Len(H[key]) + Len(N[key])
    BY LensChange
  <2>2. Len(H[key]) \in Nat /\ Len(N[key]) = Len(H[key]) + 1
    BY <1>1, <1>2 DEF n
  <2>3. QED
    BY <2>1, <2>2
<1>9. Kept(N) = Kept(H) \cup {key}
  BY <1>2 DEF Kept
<1>10. QED
  BY <1>2, <1>6, <1>7, <1>8, <1>9

\* An item less of one file.
LEMMA ItemRemoved ==
    ASSUME NEW H \in [Files -> Seq(Item)], NEW key \in Files, NEW j \in 1 .. Len(H[key]),
           NEW N \in [Files -> Seq(Item)], N[key] = RemoveAt(H[key], j),
           \A f \in Files \ {key} : N[f] = H[f]
    PROVE  /\ H[key][j].ptr \in Pointers(H)
           /\ OneEach(H) => OneEach(N) /\ Pointers(N) = Pointers(H) \ {H[key][j].ptr}
           /\ SumFunction(Lens(N)) = SumFunction(Lens(H)) - 1
           /\ Kept(N) = IF Len(H[key]) = 1 THEN Kept(H) \ {key} ELSE Kept(H)
           /\ key \in Kept(H)
<1> DEFINE n == Len(H[key])
           s == RemoveAt(H[key], j)
           old(f, i) == IF f = key /\ i >= j THEN i + 1 ELSE i
<1>1. n \in Nat /\ H[key] \in Seq(Item) /\ j \in 1 .. n
  OBVIOUS
<1>2. /\ s \in Seq(Item) /\ Len(s) = n - 1
      /\ \A i \in 1 .. n - 1 : s[i] = IF i < j THEN H[key][i] ELSE H[key][i + 1]
  BY <1>1, RemoveAtFacts
<1> HIDE DEF s
<1>3. N[key] = s /\ \A f \in Files : f # key => N[f] = H[f]
  BY <1>2 DEF s
<1>4. \A f \in Files : \A i \in 1 .. Len(N[f]) :
         old(f, i) \in 1 .. Len(H[f]) /\ N[f][i] = H[f][old(f, i)] /\ ~ (f = key /\ old(f, i) = j)
  <2> SUFFICES ASSUME NEW f \in Files, NEW i \in 1 .. Len(N[f])
               PROVE  /\ old(f, i) \in 1 .. Len(H[f]) /\ N[f][i] = H[f][old(f, i)]
                      /\ ~ (f = key /\ old(f, i) = j)
    OBVIOUS
  <2>1. CASE f = key
    BY <1>1, <1>2, <1>3, <2>1
  <2>2. CASE f # key
    BY <1>3, <2>2
  <2>3. QED
    BY <2>1, <2>2
<1>5. \A f \in Files : \A q \in 1 .. Len(H[f]) : ~ (f = key /\ q = j) =>
         \E i \in 1 .. Len(N[f]) : old(f, i) = q
  <2> SUFFICES ASSUME NEW f \in Files, NEW q \in 1 .. Len(H[f]), ~ (f = key /\ q = j)
               PROVE  \E i \in 1 .. Len(N[f]) : old(f, i) = q
    OBVIOUS
  <2>1. CASE f # key
    BY <1>3, <2>1
  <2>2. CASE f = key /\ q < j
    <3>1. q \in 1 .. Len(N[f]) /\ old(f, q) = q
      BY <1>1, <1>2, <1>3, <2>2
    <3>2. QED
      BY <3>1
  <2>3. CASE f = key /\ q > j
    <3>1. q - 1 \in 1 .. Len(N[f]) /\ old(f, q - 1) = q
      BY <1>1, <1>2, <1>3, <2>3
    <3>2. QED
      BY <3>1
  <2>4. QED
    BY <1>1, <2>1, <2>2, <2>3
<1>6. \A f \in Files : \A i, k \in 1 .. Len(N[f]) : old(f, i) = old(f, k) => i = k
  <2> SUFFICES ASSUME NEW f \in Files, NEW i \in 1 .. Len(N[f]), NEW k \in 1 .. Len(N[f]),
                      old(f, i) = old(f, k)
               PROVE  i = k
    OBVIOUS
  <2>1. i \in Int /\ k \in Int /\ j \in Int
    BY <1>1, <1>3
  <2>2. QED
    BY <2>1
<1> HIDE DEF old
<1>7. H[key][j].ptr \in Blocks
  <2>1. H[key][j] \in Item
    OBVIOUS
  <2>2. QED
    BY <2>1 DEF Item
<1>8. H[key][j].ptr \in Pointers(H)
  BY <1>7 DEF Pointers
<1>9. ASSUME OneEach(H) PROVE OneEach(N) /\ Pointers(N) = Pointers(H) \ {H[key][j].ptr}
  <2>1. OneEach(N)
    <3> SUFFICES ASSUME NEW f \in Files, NEW g \in Files,
                        NEW i \in 1 .. Len(N[f]), NEW k \in 1 .. Len(N[g]),
                        N[f][i].ptr = N[g][k].ptr
                 PROVE  f = g /\ i = k
      BY DEF OneEach
    <3>1. f = g /\ old(f, i) = old(g, k)
      <4>1. old(f, i) \in 1 .. Len(H[f]) /\ N[f][i] = H[f][old(f, i)]
        BY <1>4
      <4>2. old(g, k) \in 1 .. Len(H[g]) /\ N[g][k] = H[g][old(g, k)]
        BY <1>4
      <4>3. H[f][old(f, i)].ptr = H[g][old(g, k)].ptr
        BY <4>1, <4>2
      <4>4. QED
        BY <1>9, <4>1, <4>2, <4>3, SMTT(30) DEF OneEach
    <3>2. QED
      BY <1>6, <3>1
  <2>2. ASSUME NEW p \in Pointers(N) PROVE p \in Pointers(H) /\ p # H[key][j].ptr
    <3>0. PICK f \in Files : \E i \in 1 .. Len(N[f]) : N[f][i].ptr = p
      BY DEF Pointers
    <3>1. PICK i \in 1 .. Len(N[f]) : N[f][i].ptr = p
      BY <3>0
    <3>2. /\ old(f, i) \in 1 .. Len(H[f]) /\ H[f][old(f, i)].ptr = p
          /\ ~ (f = key /\ old(f, i) = j)
      BY <1>4, <3>1
    <3>3. QED
      BY <1>9, <3>2 DEF OneEach, Pointers
  <2>3. ASSUME NEW p \in Pointers(H), p # H[key][j].ptr PROVE p \in Pointers(N)
    <3>0. PICK f \in Files : \E q \in 1 .. Len(H[f]) : H[f][q].ptr = p
      BY DEF Pointers
    <3>1. PICK q \in 1 .. Len(H[f]) : H[f][q].ptr = p
      BY <3>0
    <3>2. PICK i \in 1 .. Len(N[f]) : old(f, i) = q
      BY <1>5, <2>3, <3>1
    <3>3. N[f][i].ptr = p
      BY <1>4, <3>1, <3>2
    <3>4. QED
      BY <3>3 DEF Pointers
  <2>4. QED
    BY <2>1, <2>2, <2>3
<1>10. SumFunction(Lens(N)) = SumFunction(Lens(H)) - 1
  <2>1. /\ SumFunction(Lens(H)) \in Nat
        /\ SumFunction(Lens(N)) = SumFunction(Lens(H)) - Len(H[key]) + Len(N[key])
    BY <1>3, LensChange
  <2>2. Len(H[key]) \in Nat /\ Len(N[key]) = Len(H[key]) - 1
    BY <1>1, <1>2, <1>3
  <2>3. QED
    BY <2>1, <2>2
<1>11. key \in Kept(H)
  BY DEF Kept
<1>12. s = <<>> <=> n = 1
  BY <1>1, <1>2
<1>13. Kept(N) = IF Len(H[key]) = 1 THEN Kept(H) \ {key} ELSE Kept(H)
  BY <1>3, <1>11, <1>12 DEF Kept
<1>14. QED
  BY <1>3, <1>8, <1>9, <1>10, <1>11, <1>13

\* The bytes of the names of the files that have items.
LEMMA SizesMore ==
    ASSUME NEW H, NEW N, NEW key \in Files, key \notin Kept(H), Kept(N) = Kept(H) \cup {key}
    PROVE  /\ SumFunction(Sizes(H)) \in Nat
           /\ SumFunction(Sizes(N)) = SumFunction(Sizes(H)) + NameSize[key]
<1> DEFINE U == Kept(H)
<1>1. IsFiniteSet(U) /\ \A y \in U \cup {key} : NameSize[y] \in Nat
  <2>1. U \in SUBSET Files
    BY DEF Kept
  <2> HIDE DEF U
  <2>2. QED
    BY <2>1, FS_Subset, StoreAssumption
<1>2. Sizes(H) = [y \in U |-> NameSize[y]] /\ Sizes(N) = [y \in U \cup {key} |-> NameSize[y]]
  BY DEF Sizes
<1> HIDE DEF U
<1>3. \A y \in U \cup {key} : NameSize[y] \in Int
  BY <1>1
<1>4. /\ SumFunction([y \in U |-> NameSize[y]]) \in Int
      /\ SumFunction([y \in U \cup {key} |-> NameSize[y]])
             = NameSize[key] + SumFunction([y \in U |-> NameSize[y]])
  BY <1>1, <1>3, SumMore DEF U
<1>5. SumFunction(Sizes(H)) \in Nat
  <2>1. [y \in U |-> NameSize[y]] \in [U -> Nat]
    BY <1>1
  <2>2. QED
    BY <1>1, <1>2, <2>1, SumNatural
<1>6. QED
  BY <1>1, <1>2, <1>4, <1>5

(***************************************************************************)
(* The inductive invariant.                                                *)
(***************************************************************************)

\* What is added to both sides of a comparison leaves it as it is.
LEMMA BothMore ==
    ASSUME NEW a \in Int, NEW b \in Int, NEW d \in Int
    PROVE  /\ a + d \in Int
           /\ a >= b => a + d >= b + d
           /\ a = b => a + d = b + d
OBVIOUS

\* Until HashTableClear the totals are those of the items, and later not less.
Totals ==
    /\ cleared \in BOOLEAN /\ count \in Int /\ keysCount \in Int /\ totalKeySize \in Int
    /\ count >= SumFunction(Lens(Held))
    /\ keysCount >= Cardinality(Kept(Held))
    /\ totalKeySize >= SumFunction(Sizes(Held))
    /\ cleared \/ /\ count = SumFunction(Lens(Held))
                  /\ keysCount = Cardinality(Kept(Held))
                  /\ totalKeySize = SumFunction(Sizes(Held))

\* The totals follow the lists when both change by the same: n items, k keys and
\* z characters.
LEMMA TotalsMove ==
    ASSUME Totals, Cardinality(Kept(Held)) \in Nat,
           SumFunction(Lens(Held)) \in Nat, SumFunction(Sizes(Held)) \in Nat,
           NEW N, NEW n \in Int, NEW k \in Int, NEW z \in Int,
           SumFunction(Lens(N)) = SumFunction(Lens(Held)) + n, count' = count + n,
           Cardinality(Kept(N)) = Cardinality(Kept(Held)) + k, keysCount' = keysCount + k,
           SumFunction(Sizes(N)) = SumFunction(Sizes(Held)) + z, totalKeySize' = totalKeySize + z,
           cleared' = cleared
    PROVE  /\ count' \in Int /\ keysCount' \in Int /\ totalKeySize' \in Int
           /\ count' >= SumFunction(Lens(N)) /\ keysCount' >= Cardinality(Kept(N))
           /\ totalKeySize' >= SumFunction(Sizes(N))
           /\ \/ cleared'
              \/ /\ count' = SumFunction(Lens(N)) /\ keysCount' = Cardinality(Kept(N))
                 /\ totalKeySize' = SumFunction(Sizes(N))
<1>1. /\ count \in Int /\ keysCount \in Int /\ totalKeySize \in Int
      /\ count >= SumFunction(Lens(Held)) /\ keysCount >= Cardinality(Kept(Held))
      /\ totalKeySize >= SumFunction(Sizes(Held))
      /\ \/ cleared
         \/ /\ count = SumFunction(Lens(Held)) /\ keysCount = Cardinality(Kept(Held))
            /\ totalKeySize = SumFunction(Sizes(Held))
  BY DEF Totals
<1>2. /\ count' \in Int /\ count' >= SumFunction(Lens(N))
      /\ count = SumFunction(Lens(Held)) => count' = SumFunction(Lens(N))
  BY <1>1, BothMore
<1>3. /\ keysCount' \in Int /\ keysCount' >= Cardinality(Kept(N))
      /\ keysCount = Cardinality(Kept(Held)) => keysCount' = Cardinality(Kept(N))
  BY <1>1, BothMore
<1>4. /\ totalKeySize' \in Int /\ totalKeySize' >= SumFunction(Sizes(N))
      /\ totalKeySize = SumFunction(Sizes(Held)) => totalKeySize' = SumFunction(Sizes(N))
  BY <1>1, BothMore
<1>5. QED
  BY <1>1, <1>2, <1>3, <1>4

\* The blocks in use are those of the items, one each.
Memory ==
    /\ heap \in SUBSET Blocks /\ IsFiniteSet(heap)
    /\ heap = Pointers(Held) /\ OneEach(Held)
    /\ Cardinality(heap) = SumFunction(Lens(Held))

IInv == Lists /\ Totals /\ Memory

\* The sizes and sums over what is held are numbers.
LEMMA HeldNumbers ==
    ASSUME NEW H \in [Files -> Seq(Item)]
    PROVE  /\ IsFiniteSet(Kept(H)) /\ Cardinality(Kept(H)) \in Nat
           /\ SumFunction(Lens(H)) \in Nat /\ SumFunction(Sizes(H)) \in Nat
<1>1. IsFiniteSet(Files) /\ Kept(H) \in SUBSET Files
  BY StoreAssumption DEF Kept
<1>2. IsFiniteSet(Kept(H))
  BY <1>1, FS_Subset
<1>3. Cardinality(Kept(H)) \in Nat
  BY <1>2, FS_CardinalityType
<1>4. Lens(H) \in [Files -> Nat]
  BY DEF Lens
<1>5. Sizes(H) \in [Kept(H) -> Nat]
  BY <1>1, StoreAssumption DEF Sizes
<1>6. QED
  BY <1>1, <1>2, <1>3, <1>4, <1>5, SumNatural

\* The table is as HashTableInit leaves it.
LEMMA InitIInv == Init => IInv
<1> SUFFICES ASSUME Init PROVE IInv
  OBVIOUS
<1>1. /\ buckets = [b \in BucketNumbers |-> <<>>]
      /\ count = 0 /\ keysCount = 0 /\ totalKeySize = 0 /\ cleared = FALSE /\ heap = {}
  BY DEF Init, Table!HashTableInit, BucketNumbers
<1>2. Lists /\ Held = [f \in Files |-> <<>>]
  BY <1>1, EmptyTable
<1>3. /\ Pointers(Held) = {} /\ OneEach(Held) /\ Kept(Held) = {}
      /\ SumFunction(Lens(Held)) = 0 /\ SumFunction(Sizes(Held)) = 0
  BY <1>2, NothingHeld
<1>4. Cardinality({}) = 0 /\ IsFiniteSet({})
  BY FS_EmptySet
<1>5. Totals
  <2>1. cleared \in BOOLEAN
    BY <1>1
  <2>2. count \in Int /\ keysCount \in Int /\ totalKeySize \in Int
    BY <1>1
  <2>3. /\ count = SumFunction(Lens(Held)) /\ keysCount = Cardinality(Kept(Held))
        /\ totalKeySize = SumFunction(Sizes(Held))
    BY <1>1, <1>3, <1>4
  <2>4. QED
    BY <2>1, <2>2, <2>3 DEF Totals
<1>6. Memory
  BY <1>1, <1>3, <1>4 DEF Memory
<1>7. QED
  BY <1>2, <1>5, <1>6 DEF IInv

\* StoreRegister: one item more, in a block that was free.
LEMMA RegisterIInv ==
    ASSUME IInv, NEW f \in Files, NEW ep \in EndPoints, StoreRegister(f, ep)
    PROVE  IInv'
<1>1. PICK dup \in Blocks \ heap :
         heap' = heap \cup {dup} /\ Table!HashTableAdd(f, [ptr |-> dup, val |-> ep])
  BY DEF StoreRegister
<1> DEFINE item == [ptr |-> dup, val |-> ep]
           first == Held[f] = <<>>
<1>2. item \in Item /\ item.ptr = dup
  BY DEF Item
<1>3. Lists /\ Held \in [Files -> Seq(Item)]
  BY HeldFacts DEF IInv
<1> HIDE DEF item
<1>4. /\ Lists' /\ Held' = [Held EXCEPT ![f] = Append(@, item)]
      /\ count' = count + 1
      /\ keysCount' = keysCount + (IF first THEN 1 ELSE 0)
      /\ totalKeySize' = totalKeySize + (IF first THEN NameSize[f] ELSE 0)
      /\ UNCHANGED cleared
  BY <1>1, <1>2, <1>3, TableAdd DEF item
<1> DEFINE N == Held'
<1>5. /\ N \in [Files -> Seq(Item)] /\ Pointers(N) = Pointers(Held) \cup {dup}
      /\ OneEach(Held) /\ dup \notin Pointers(Held) => OneEach(N)
      /\ SumFunction(Lens(N)) = SumFunction(Lens(Held)) + 1
      /\ Kept(N) = Kept(Held) \cup {f}
  <2> HIDE DEF N
  <2> DEFINE H == Held
  <2>1. /\ H \in [Files -> Seq(Item)] /\ item \in Item
        /\ N \in [Files -> Seq(Item)] /\ N[f] = Append(H[f], item)
        /\ \A g \in Files \ {f} : N[g] = H[g]
    BY <1>2, <1>3, <1>4 DEF N
  <2> HIDE DEF H
  <2>2. /\ Pointers(N) = Pointers(H) \cup {item.ptr}
        /\ OneEach(H) /\ item.ptr \notin Pointers(H) => OneEach(N)
        /\ SumFunction(Lens(N)) = SumFunction(Lens(H)) + 1
        /\ Kept(N) = Kept(H) \cup {f}
    BY <2>1, ItemAdded, Z3T(40)
  <2>3. QED
    BY <1>2, <2>1, <2>2 DEF H
<1>6. /\ Pointers(Held)' = Pointers(N) /\ OneEach(Held)' = OneEach(N) /\ Kept(Held)' = Kept(N)
      /\ Lens(Held)' = Lens(N) /\ Sizes(Held)' = Sizes(N)
      /\ SumFunction(Lens(Held))' = SumFunction(Lens(N))
      /\ SumFunction(Sizes(Held))' = SumFunction(Sizes(N))
      /\ Cardinality(Kept(Held))' = Cardinality(Kept(N))
  BY DEF Pointers, OneEach, Kept, Lens, Sizes
<1> HIDE DEF N
<1>7. Memory'
  <2>1. /\ heap \in SUBSET Blocks /\ IsFiniteSet(heap) /\ heap = Pointers(Held) /\ OneEach(Held)
        /\ Cardinality(heap) = SumFunction(Lens(Held))
    BY DEF IInv, Memory
  <2>2. IsFiniteSet(heap') /\ Cardinality(heap') = Cardinality(heap) + 1
    BY <1>1, <2>1, FS_AddElement
  <2>3. QED
    BY <1>1, <1>5, <1>6, <2>1, <2>2 DEF Memory
<1>8. Totals'
  <2>1. Totals
    BY DEF IInv
  <2>2. /\ IsFiniteSet(Kept(Held)) /\ Cardinality(Kept(Held)) \in Nat
        /\ SumFunction(Lens(Held)) \in Nat /\ SumFunction(Sizes(Held)) \in Nat
    BY <1>3, HeldNumbers
  <2>3. Cardinality(Kept(N)) = Cardinality(Kept(Held)) + (IF first THEN 1 ELSE 0)
    <3> DEFINE K == Kept(Held)
    <3>1. first <=> f \notin K
      BY DEF Kept
    <3>2. IsFiniteSet(K) /\ Kept(N) = K \cup {f}
      BY <1>5, <2>2
    <3> HIDE DEF first, K
    <3>3. Cardinality(K \cup {f}) = IF f \in K THEN Cardinality(K) ELSE Cardinality(K) + 1
      BY <3>2, FS_AddElement
    <3>4. Cardinality(K) \in Nat
      BY <2>2 DEF K
    <3>5. QED
      BY <3>1, <3>2, <3>3, <3>4 DEF K
  <2>4. SumFunction(Sizes(N)) = SumFunction(Sizes(Held)) + (IF first THEN NameSize[f] ELSE 0)
    <3>1. CASE first
      <4>1. f \notin Kept(Held)
        BY <3>1 DEF Kept
      <4>2. QED
        BY <1>5, <3>1, <4>1, SizesMore
    <3>2. CASE ~ first
      <4>1. Kept(N) = Kept(Held)
        BY <1>5, <3>2 DEF Kept
      <4>2. Sizes(N) = Sizes(Held)
        BY <4>1 DEF Sizes
      <4>3. QED
        BY <2>2, <3>2, <4>2
    <3>3. QED
      BY <3>1, <3>2
  <2>5. NameSize[f] \in Nat
    BY StoreAssumption
  <2> HIDE DEF first
  <2> DEFINE k == IF first THEN 1 ELSE 0
             z == IF first THEN NameSize[f] ELSE 0
  <2>6. k \in Int /\ z \in Int
    BY <2>5
  <2>7. /\ Cardinality(Kept(N)) = Cardinality(Kept(Held)) + k /\ keysCount' = keysCount + k
        /\ SumFunction(Sizes(N)) = SumFunction(Sizes(Held)) + z
        /\ totalKeySize' = totalKeySize + z
        /\ SumFunction(Lens(N)) = SumFunction(Lens(Held)) + 1 /\ count' = count + 1
        /\ cleared' = cleared
    BY <1>4, <1>5, <2>3, <2>4
  <2> HIDE DEF k, z
  <2>8. cleared' \in BOOLEAN
    BY <1>4, <2>1 DEF Totals
  <2>9. QED
    <3>1. /\ count' \in Int /\ keysCount' \in Int /\ totalKeySize' \in Int
          /\ count' >= SumFunction(Lens(N)) /\ keysCount' >= Cardinality(Kept(N))
          /\ totalKeySize' >= SumFunction(Sizes(N))
          /\ \/ cleared'
             \/ /\ count' = SumFunction(Lens(N)) /\ keysCount' = Cardinality(Kept(N))
                /\ totalKeySize' = SumFunction(Sizes(N))
      BY <2>1, <2>2, <2>6, <2>7, TotalsMove
    <3>2. QED
      BY <1>6, <2>8, <3>1 DEF Totals
<1>9. QED
  BY <1>4, <1>7, <1>8 DEF IInv

\* StoreUnregister: the item found goes, its block is freed.
LEMMA UnregisterIInv ==
    ASSUME IInv, NEW f \in Files, NEW ep \in EndPoints, StoreUnregister(f, ep)
    PROVE  IInv'
<1> DEFINE j == Table!ItemPlace(f, ep)
           last == Len(Held[f]) = 1
<1>1. Lists /\ Held \in [Files -> Seq(Item)]
  BY HeldFacts DEF IInv
<1>2. /\ Table!HashTableRemove(f, ep)
      /\ heap' = heap \ {it.ptr : it \in Table!Removed(f, ep)}
  BY DEF StoreUnregister
<1>3. j \in 0 .. Len(Held[f]) /\ Table!Removed(f, ep) = IF j = 0 THEN {} ELSE {Held[f][j]}
  BY <1>1, ItemPlaceFacts
<1>4. IF j = 0
      THEN Lists' /\ UNCHANGED <<Held, count, keysCount, totalKeySize, cleared>>
      ELSE /\ Lists' /\ Held' = [Held EXCEPT ![f] = RemoveAt(@, j)]
           /\ count' = count - 1
           /\ keysCount' = keysCount - (IF last THEN 1 ELSE 0)
           /\ totalKeySize' = totalKeySize - (IF last THEN NameSize[f] ELSE 0)
           /\ UNCHANGED cleared
  BY <1>1, <1>2, TableRemove
<1> HIDE DEF j
<1> DEFINE N == Held'
<1>5. /\ Pointers(Held)' = Pointers(N) /\ OneEach(Held)' = OneEach(N) /\ Kept(Held)' = Kept(N)
      /\ Lens(Held)' = Lens(N) /\ Sizes(Held)' = Sizes(N)
      /\ SumFunction(Lens(Held))' = SumFunction(Lens(N))
      /\ SumFunction(Sizes(Held))' = SumFunction(Sizes(N))
      /\ Cardinality(Kept(Held))' = Cardinality(Kept(N))
  BY DEF Pointers, OneEach, Kept, Lens, Sizes
<1> HIDE DEF N
<1>6. CASE j = 0
  <2>1. heap' = heap
    BY <1>2, <1>3, <1>6
  <2>2. N = Held /\ Lists' /\ UNCHANGED <<count, keysCount, totalKeySize, cleared>>
    BY <1>4, <1>6 DEF N
  <2>3. Totals'
    BY <1>5, <2>2 DEF IInv, Totals
  <2>4. Memory'
    BY <1>5, <2>1, <2>2 DEF IInv, Memory
  <2>5. QED
    BY <2>2, <2>3, <2>4 DEF IInv
<1>7. CASE j # 0
  <2>1. j \in 1 .. Len(Held[f])
    BY <1>1, <1>3, <1>7
  <2>2. /\ N \in [Files -> Seq(Item)]
        /\ Held[f][j].ptr \in Pointers(Held)
        /\ OneEach(Held) => OneEach(N) /\ Pointers(N) = Pointers(Held) \ {Held[f][j].ptr}
        /\ SumFunction(Lens(N)) = SumFunction(Lens(Held)) - 1
        /\ Kept(N) = IF last THEN Kept(Held) \ {f} ELSE Kept(Held)
        /\ f \in Kept(Held)
    <3>1. N = [Held EXCEPT ![f] = RemoveAt(@, j)]
      BY <1>4, <1>7 DEF N
    <3>2. RemoveAt(Held[f], j) \in Seq(Item)
      BY <1>1, <2>1, RemoveAtFacts
    <3>3. /\ N \in [Files -> Seq(Item)] /\ N[f] = RemoveAt(Held[f], j)
          /\ \A g \in Files \ {f} : N[g] = Held[g]
      BY <1>1, <3>1, <3>2
    <3>4. QED
      BY <1>1, <2>1, <3>3, ItemRemoved
  <2>3. heap' = heap \ {Held[f][j].ptr}
    BY <1>2, <1>3, <1>7
  <2>4. Memory'
    <3>1. /\ heap \in SUBSET Blocks /\ IsFiniteSet(heap) /\ heap = Pointers(Held) /\ OneEach(Held)
          /\ Cardinality(heap) = SumFunction(Lens(Held))
      BY DEF IInv, Memory
    <3>2. IsFiniteSet(heap') /\ Cardinality(heap') = Cardinality(heap) - 1
      <4> DEFINE p == Held[f][j].ptr
      <4>1. p \in heap /\ heap' = heap \ {p}
        BY <2>2, <2>3, <3>1
      <4> HIDE DEF p
      <4>2. QED
        BY <3>1, <4>1, FS_RemoveElement
    <3>3. QED
      BY <1>5, <2>2, <2>3, <3>1, <3>2 DEF Memory
  <2>5. Totals'
    <3>1. Totals
      BY DEF IInv
    <3>2. /\ IsFiniteSet(Kept(Held)) /\ Cardinality(Kept(Held)) \in Nat
          /\ SumFunction(Lens(Held)) \in Nat /\ SumFunction(Sizes(Held)) \in Nat
      BY <1>1, HeldNumbers
    <3>3. NameSize[f] \in Nat
      BY StoreAssumption
    <3>4. /\ Cardinality(Kept(N)) = Cardinality(Kept(Held)) - (IF last THEN 1 ELSE 0)
          /\ SumFunction(Sizes(N))
                 = SumFunction(Sizes(Held)) - (IF last THEN NameSize[f] ELSE 0)
      <4>1. CASE last
        <5>1. Kept(N) = Kept(Held) \ {f}
          BY <2>2, <4>1
        <5>2. f \notin Kept(N) /\ Kept(Held) = Kept(N) \cup {f}
          BY <2>2, <5>1
        <5>3. /\ SumFunction(Sizes(N)) \in Nat
              /\ SumFunction(Sizes(Held)) = SumFunction(Sizes(N)) + NameSize[f]
          BY <5>2, SizesMore
        <5>4. Cardinality(Kept(N)) = Cardinality(Kept(Held)) - 1
          BY <2>2, <3>2, <5>1, FS_RemoveElement, ZenonT(30)
        <5>5. QED
          BY <3>3, <4>1, <5>3, <5>4
      <4>2. CASE ~ last
        <5>1. Kept(N) = Kept(Held)
          BY <2>2, <4>2
        <5>2. Sizes(N) = Sizes(Held)
          BY <5>1 DEF Sizes
        <5>3. QED
          BY <3>2, <4>2, <5>1, <5>2
      <4>3. QED
        BY <4>1, <4>2
    <3>5. /\ count' = count - 1
          /\ keysCount' = keysCount - (IF last THEN 1 ELSE 0)
          /\ totalKeySize' = totalKeySize - (IF last THEN NameSize[f] ELSE 0)
          /\ cleared' = cleared
      BY <1>4, <1>7
    <3> HIDE DEF last
    <3> DEFINE k == IF last THEN -1 ELSE 0
               z == IF last THEN - NameSize[f] ELSE 0
    <3>6. /\ k \in Int /\ z \in Int
          /\ Cardinality(Kept(N)) = Cardinality(Kept(Held)) + k /\ keysCount' = keysCount + k
          /\ SumFunction(Sizes(N)) = SumFunction(Sizes(Held)) + z
          /\ totalKeySize' = totalKeySize + z
      <4>1. keysCount \in Int /\ totalKeySize \in Int
        BY <3>1 DEF Totals
      <4>2. CASE last
        BY <3>2, <3>3, <3>4, <3>5, <4>1, <4>2
      <4>3. CASE ~ last
        BY <3>2, <3>3, <3>4, <3>5, <4>1, <4>3
      <4>4. QED
        BY <4>2, <4>3
    <3>7. SumFunction(Lens(N)) = SumFunction(Lens(Held)) + (-1) /\ count' = count + (-1)
      <4>1. count \in Int
        BY <3>1 DEF Totals
      <4>2. QED
        BY <2>2, <3>2, <3>5, <4>1
    <3> HIDE DEF k, z
    <3>8. cleared' \in BOOLEAN
      BY <3>1, <3>5 DEF Totals
    <3>9. QED
      <4>1. /\ count' \in Int /\ keysCount' \in Int /\ totalKeySize' \in Int
            /\ count' >= SumFunction(Lens(N)) /\ keysCount' >= Cardinality(Kept(N))
            /\ totalKeySize' >= SumFunction(Sizes(N))
            /\ \/ cleared'
               \/ /\ count' = SumFunction(Lens(N)) /\ keysCount' = Cardinality(Kept(N))
                  /\ totalKeySize' = SumFunction(Sizes(N))
        BY <3>1, <3>2, <3>5, <3>6, <3>7, TotalsMove
      <4>2. QED
        BY <1>5, <3>8, <4>1 DEF Totals
  <2>6. QED
    BY <1>4, <1>7, <2>4, <2>5 DEF IInv
<1>8. QED
  BY <1>6, <1>7

\* The elements that AllItems takes from the lists are those of Held.
LEMMA ItemPointers ==
    ASSUME Lists
    PROVE  {it.ptr : it \in Table!AllItems} = Pointers(Held)
<1>1. Held \in [Files -> Seq(Item)] /\ \A f \in Files : Held[f] = Table!Entry(f).items
  BY HeldFacts DEF Held
<1>2. Table!AllItems = UNION {Table!ToSet(Held[f]) : f \in Files}
  BY <1>1 DEF Table!AllItems
<1>3. ASSUME NEW f \in Files, NEW it
      PROVE  it \in Table!ToSet(Held[f]) <=> \E i \in 1 .. Len(Held[f]) : it = Held[f][i]
  BY <1>1 DEF Table!ToSet
<1>4. \A f \in Files : \A i \in 1 .. Len(Held[f]) : Held[f][i].ptr \in Blocks
  <2>1. \A f \in Files : \A i \in 1 .. Len(Held[f]) : Held[f][i] \in Item
    BY <1>1
  <2>2. QED
    BY <2>1 DEF Item
<1>5. \A it : it \in Table!AllItems <=>
                  \E f \in Files : \E i \in 1 .. Len(Held[f]) : it = Held[f][i]
  <2> SUFFICES ASSUME NEW it
               PROVE  it \in Table!AllItems <=>
                          \E f \in Files : \E i \in 1 .. Len(Held[f]) : it = Held[f][i]
    OBVIOUS
  <2>1. it \in Table!AllItems <=> \E f \in Files : it \in Table!ToSet(Held[f])
    BY <1>2
  <2>2. \A f \in Files :
           it \in Table!ToSet(Held[f]) <=> \E i \in 1 .. Len(Held[f]) : it = Held[f][i]
    BY <1>3
  <2>3. QED
    BY <2>1, <2>2
<1>6. \A p : p \in {it.ptr : it \in Table!AllItems} <=> \E it \in Table!AllItems : it.ptr = p
  OBVIOUS
<1>7. \A p : p \in {it.ptr : it \in Table!AllItems} <=>
                 \E f \in Files : \E i \in 1 .. Len(Held[f]) : Held[f][i].ptr = p
  BY <1>5, <1>6
<1>8. QED
  BY <1>4, <1>7, ZenonT(30) DEF Pointers

\* StoreClear: no item is left, no block is in use.
LEMMA ClearIInv ==
    ASSUME IInv, StoreClear
    PROVE  IInv'
<1>1. /\ buckets' = [b \in BucketNumbers |-> <<>>] /\ cleared' = TRUE
      /\ UNCHANGED <<count, keysCount, totalKeySize>>
      /\ heap' = heap \ {it.ptr : it \in Table!AllItems}
  BY DEF StoreClear, Table!HashTableClear, BucketNumbers
<1>2. Lists /\ Held \in [Files -> Seq(Item)]
  BY HeldFacts DEF IInv
<1>3. heap' = {}
  BY <1>1, <1>2, ItemPointers DEF IInv, Memory
<1>4. (buckets = [b \in BucketNumbers |-> <<>>])' => (Lists /\ Held = [f \in Files |-> <<>>])'
  BY EmptyTable, PTL
<1>5. Lists' /\ Held' = [f \in Files |-> <<>>]
  BY <1>1, <1>4
<1> DEFINE N == Held'
<1>6. /\ Pointers(N) = {} /\ OneEach(N) /\ Kept(N) = {}
      /\ SumFunction(Lens(N)) = 0 /\ SumFunction(Sizes(N)) = 0
  <2>1. \A f \in Files : N[f] = <<>>
    BY <1>5
  <2> HIDE DEF N
  <2>2. QED
    BY <2>1, NothingHeld
<1>7. /\ Pointers(Held)' = Pointers(N) /\ OneEach(Held)' = OneEach(N) /\ Kept(Held)' = Kept(N)
      /\ SumFunction(Lens(Held))' = SumFunction(Lens(N))
      /\ SumFunction(Sizes(Held))' = SumFunction(Sizes(N))
      /\ Cardinality(Kept(Held))' = Cardinality(Kept(N))
  BY DEF Pointers, OneEach, Kept, Lens, Sizes
<1>8. Cardinality({}) = 0 /\ IsFiniteSet({})
  BY FS_EmptySet
<1> HIDE DEF N
<1>9. Memory'
  BY <1>3, <1>6, <1>7, <1>8 DEF Memory
<1>10. Totals'
  <2>1. /\ Cardinality(Kept(Held)) \in Nat
        /\ SumFunction(Lens(Held)) \in Nat /\ SumFunction(Sizes(Held)) \in Nat
    BY <1>2, HeldNumbers
  <2>2. count >= 0 /\ keysCount >= 0 /\ totalKeySize >= 0
        /\ count \in Int /\ keysCount \in Int /\ totalKeySize \in Int
    BY <2>1 DEF IInv, Totals
  <2>3. QED
    BY <1>1, <1>6, <1>7, <1>8, <2>2 DEF Totals
<1>11. QED
  BY <1>5, <1>9, <1>10 DEF IInv

\* A step that changes nothing.
LEMMA StutterIInv ==
    ASSUME IInv, UNCHANGED vars
    PROVE  IInv'
<1>1. UNCHANGED <<buckets, count, keysCount, totalKeySize, cleared, heap>>
  BY DEF vars
<1>2. Lists' /\ Held' = Held
  BY <1>1 DEF IInv, Lists, Held, Table!Entry, Table!FindInBucket, Table!SelectInSeq, Table!Min,
              Table!NewEntry, Table!Bucket
<1>3. Totals'
  BY <1>1, <1>2 DEF IInv, Totals, Lens, Kept, Sizes
<1>4. Memory'
  BY <1>1, <1>2 DEF IInv, Memory, Pointers, OneEach, Lens
<1>5. QED
  BY <1>2, <1>3, <1>4 DEF IInv

\* The inductive invariant: the lists are entries in their buckets, the totals
\* and the memory in use are those of the items in them.
THEOREM IInvHolds == Spec => []IInv
<1>1. Init => IInv
  BY InitIInv
<1>2. IInv /\ [Next]_vars => IInv'
  <2> SUFFICES ASSUME IInv, [Next]_vars PROVE IInv'
    OBVIOUS
  <2>1. ASSUME NEW f \in Files, NEW ep \in EndPoints, StoreRegister(f, ep) PROVE IInv'
    BY <2>1, RegisterIInv
  <2>2. ASSUME NEW f \in Files, NEW ep \in EndPoints, StoreUnregister(f, ep) PROVE IInv'
    BY <2>2, UnregisterIInv
  <2>3. CASE StoreClear
    BY <2>3, ClearIInv
  <2>4. CASE UNCHANGED vars
    BY <2>4, StutterIInv
  <2>5. QED
    BY <2>1, <2>2, <2>3, <2>4 DEF Next
<1>3. QED
  BY <1>1, <1>2, PTL DEF Spec

(***************************************************************************)
(* What the invariant says of the table.                                   *)
(***************************************************************************)

\* The lists and totals of the properties, in terms of Held.
LEMMA SameSums ==
    ASSUME Lists
    PROVE  /\ [f \in Files |-> Len(Table!Entry(f).items)] = Lens(Held)
           /\ Tracked = Kept(Held)
           /\ [f \in Tracked |-> NameSize[f]] = Sizes(Held)
<1>1. Tracked = Kept(Held)
  BY HeldFacts DEF Kept
<1>2. [f \in Files |-> Len(Table!Entry(f).items)] = Lens(Held)
  BY DEF Lens, Held
<1>3. QED
  BY <1>1, <1>2 DEF Sizes

\* Every variable holds what HASH_TABLE and BUCKET_ENTRY hold: the totals are
\* never less than zero.
THEOREM TypeOKAlways == Spec => []TypeOK
<1>1. IInv => TypeOK
  <2> SUFFICES ASSUME IInv PROVE TypeOK
    OBVIOUS
  <2>1. buckets \in [0 .. Table!nBuckets - 1 -> Seq(EntryType)]
    BY DEF IInv, Lists, BucketNumbers
  <2>2. count \in Nat /\ keysCount \in Nat /\ totalKeySize \in Nat
    <3>1. Held \in [Files -> Seq(Item)]
      BY HeldFacts DEF IInv
    <3>2. /\ Cardinality(Kept(Held)) \in Nat
          /\ SumFunction(Lens(Held)) \in Nat /\ SumFunction(Sizes(Held)) \in Nat
      BY <3>1, HeldNumbers
    <3>3. QED
      BY <3>2 DEF IInv, Totals
  <2>3. cleared \in BOOLEAN /\ heap \subseteq Blocks
    BY DEF IInv, Totals, Memory
  <2>4. QED
    BY <2>1, <2>2, <2>3 DEF TypeOK
<1>2. QED
  BY <1>1, IInvHolds, PTL

\* A file has at most one entry, in the bucket of its hash value, and an entry
\* is never empty: FindInBucket sees all of a file's items.
THEOREM OneEntryPerKeyAlways == Spec => []OneEntryPerKey
<1>1. IInv => OneEntryPerKey
  <2> SUFFICES ASSUME IInv PROVE OneEntryPerKey
    OBVIOUS
  <2>1. SUFFICES ASSUME NEW b \in BucketNumbers, NEW i \in DOMAIN buckets[b]
                 PROVE  /\ Table!Bucket(buckets[b][i].key) = b
                        /\ buckets[b][i].items # <<>>
                        /\ \A j \in DOMAIN buckets[b] :
                               buckets[b][i].key = buckets[b][j].key => i = j
    BY DEF OneEntryPerKey
  <2>2. GoodList(buckets[b], b)
    BY DEF IInv, Lists
  <2>3. DOMAIN buckets[b] = 1 .. Len(buckets[b])
    BY <2>2 DEF GoodList
  <2>4. QED
    BY <2>1, <2>2, <2>3 DEF GoodList, GoodEntry
<1>2. QED
  BY <1>1, IInvHolds, PTL

\* The buffers that CopyToArray and CopyToArray2 allocate by totalDataSize have
\* room for the items copied into them, although a removal leaves it as it is.
THEOREM BuffersLargeEnoughAlways == Spec => []BuffersLargeEnough
<1>1. IInv => BuffersLargeEnough
  <2> SUFFICES ASSUME IInv, NEW f \in Files
               PROVE  /\ Table!Entry(f).totalDataSize
                             >= Table!ItemSize * Len(Table!Entry(f).items)
                      /\ Table!Entry(f).countItems = Len(Table!Entry(f).items)
    BY DEF BuffersLargeEnough
  <2>1. /\ Table!Entry(f).totalDataSize >= 20 * Len(Held[f])
        /\ Table!Entry(f).countItems = Len(Held[f])
    BY HeldFacts DEF IInv
  <2>2. Held[f] = Table!Entry(f).items
    BY DEF Held
  <2>3. QED
    BY <2>1, <2>2, SizeOfItem
<1>2. QED
  BY <1>1, IInvHolds, PTL

\* The three totals agree with the contents until the table is cleared.
THEOREM TotalsMatchAlways == Spec => []TotalsMatch
<1>1. IInv => TotalsMatch
  BY SameSums DEF IInv, Totals, TotalsMatch
<1>2. QED
  BY <1>1, IInvHolds, PTL

\* The endpoints in memory are those in the table, each at one place: none is
\* leaked by StoreUnregister or StoreClear, none freed while a list holds it.
THEOREM NothingLeakedAlways == Spec => []NothingLeaked
<1>1. IInv => NothingLeaked
  BY SameSums, ItemPointers DEF IInv, Memory, NothingLeaked
<1>2. QED
  BY <1>1, IInvHolds, PTL

\* The keys of one bucket are the tracked files whose hash value leads there.
LEMMA KeysOfBucket ==
    ASSUME Lists, NEW b \in BucketNumbers
    PROVE  LET keys == Table!KeysOf(buckets[b])
           IN  /\ keys \in Seq(Files) /\ IsInjective(keys)
               /\ \A f : f \in ToSet(keys) <=> f \in Kept(Held) /\ Table!Bucket(f) = b
<1> DEFINE bl == buckets[b]
           keys == Table!KeysOf(bl)
<1>1. GoodList(bl, b)
  BY DEF Lists
<1>2. bl \in Seq(EntryType) /\ Len(bl) \in Nat /\ \A i \in 1 .. Len(bl) : bl[i] \in EntryType
  BY <1>1 DEF GoodList
<1> HIDE DEF bl
<1>3. keys = [i \in 1 .. Len(bl) |-> bl[i].key]
  BY <1>2 DEF Table!KeysOf
<1>4. \A i \in 1 .. Len(bl) : bl[i].key \in Files
  BY <1>2 DEF EntryType
<1>5. keys \in Seq(Files) /\ Len(keys) = Len(bl) /\ \A i \in 1 .. Len(bl) : keys[i] = bl[i].key
  BY <1>2, <1>3, <1>4
<1> HIDE DEF keys
<1>6. /\ \A f : f \in ToSet(keys) <=> \E i \in 1 .. Len(bl) : bl[i].key = f
      /\ IsInjective(keys) <=> \A i, j \in 1 .. Len(bl) : bl[i].key = bl[j].key => i = j
  <2>1. /\ \A f : f \in ToSet(keys) <=> \E i \in 1 .. Len(keys) : keys[i] = f
        /\ IsInjective(keys) <=> \A i, j \in 1 .. Len(keys) : keys[i] = keys[j] => i = j
    BY <1>5, ElementsOf
  <2>2. QED
    BY <1>5, <2>1
<1>7. IsInjective(keys)
  BY <1>1, <1>6 DEF GoodList
<1>8. ASSUME NEW f, f \in ToSet(keys) PROVE f \in Kept(Held) /\ Table!Bucket(f) = b
  <2>1. PICK i \in 1 .. Len(bl) : bl[i].key = f
    BY <1>6, <1>8
  <2>2. f \in Files /\ Table!Bucket(f) = b
    BY <1>1, <1>4, <2>1 DEF GoodList
  <2>3. EntryIn(bl, f) = bl[i] /\ bl[i].items # <<>>
    <3>1. EntryIn(bl, bl[i].key) = bl[i]
      BY <1>1, EntryAt
    <3>2. QED
      BY <1>1, <2>1, <3>1 DEF GoodList, GoodEntry
  <2>4. Held[f] # <<>>
    BY <2>2, <2>3, EntryOf DEF Held, bl
  <2>5. QED
    BY <2>2, <2>4 DEF Kept
<1>9. ASSUME NEW f, f \in Kept(Held), Table!Bucket(f) = b PROVE f \in ToSet(keys)
  <2>1. f \in Files /\ Held[f] # <<>>
    BY <1>9 DEF Kept
  <2>2. Table!FindInBucket(bl, f) # 0
    BY <1>9, <2>1, HeldFacts DEF bl
  <2>3. Table!FindInBucket(bl, f) \in 1 .. Len(bl) /\ bl[Table!FindInBucket(bl, f)].key = f
    BY <1>2, <2>2, FindFacts
  <2>4. QED
    BY <1>6, <2>3
<1>10. QED
  BY <1>5, <1>7, <1>8, <1>9 DEF keys, bl

\* The names found in the first b buckets.
NamesBefore(b) == FlattenSeq([i \in 1 .. b |-> Table!KeysOf(buckets[i - 1])])

\* These are the keys with an entry in one of those buckets, each once.
LEMMA NamesFacts ==
    ASSUME Lists, NEW b \in 0 .. Table!nBuckets
    PROVE  /\ NamesBefore(b) \in Seq(Files) /\ IsInjective(NamesBefore(b))
           /\ \A f : f \in ToSet(NamesBefore(b)) <=> f \in Kept(Held) /\ Table!Bucket(f) < b
<1> DEFINE s == [i \in 1 .. b |-> Table!KeysOf(buckets[i - 1])]
<1>1. b \in Nat /\ Table!nBuckets \in Nat /\ b <= Table!nBuckets
  BY BucketsFacts
<1>2. \A i \in 1 .. b : i - 1 \in BucketNumbers
  BY <1>1 DEF BucketNumbers
<1>3. ASSUME NEW i \in 1 .. b
      PROVE  /\ s[i] \in Seq(Files) /\ IsInjective(s[i])
             /\ \A f : f \in ToSet(s[i]) <=> f \in Kept(Held) /\ Table!Bucket(f) = i - 1
  <2>1. s[i] = Table!KeysOf(buckets[i - 1]) /\ i - 1 \in BucketNumbers
    BY <1>2
  <2> HIDE DEF s
  <2>2. QED
    BY <2>1, KeysOfBucket
<1>4. s \in Seq(Seq(Files)) /\ Len(s) = b
  <2>1. \A i \in 1 .. b : Table!KeysOf(buckets[i - 1]) \in Seq(Files)
    BY <1>3
  <2>2. QED
    BY <1>1, <2>1
<1> HIDE DEF s
<1>5. /\ FlattenSeq(s) \in Seq(Files)
      /\ \A f : f \in ToSet(FlattenSeq(s)) <=> \E i \in 1 .. Len(s) : f \in ToSet(s[i])
      /\ /\ \A i \in 1 .. Len(s) : IsInjective(s[i])
         /\ \A i, j \in 1 .. Len(s) : \A f \in ToSet(s[i]) : f \in ToSet(s[j]) => i = j
         => IsInjective(FlattenSeq(s))
  BY <1>4, FlattenElements
<1>6. IsInjective(FlattenSeq(s))
  <2>1. \A i, j \in 1 .. b : \A f \in ToSet(s[i]) : f \in ToSet(s[j]) => i = j
    <3> SUFFICES ASSUME NEW i \in 1 .. b, NEW j \in 1 .. b, NEW f,
                        f \in ToSet(s[i]), f \in ToSet(s[j])
                 PROVE  i = j
      OBVIOUS
    <3>1. Table!Bucket(f) = i - 1 /\ Table!Bucket(f) = j - 1
      BY <1>3
    <3>2. QED
      BY <3>1
  <2>2. QED
    BY <1>3, <1>4, <1>5, <2>1
<1>7. ASSUME NEW f
      PROVE  f \in ToSet(FlattenSeq(s)) <=> f \in Kept(Held) /\ Table!Bucket(f) < b
  <2>1. f \in ToSet(FlattenSeq(s)) <=> \E i \in 1 .. b : f \in Kept(Held) /\ Table!Bucket(f) = i - 1
    <3>1. \A i \in 1 .. b : f \in ToSet(s[i]) <=> f \in Kept(Held) /\ Table!Bucket(f) = i - 1
      BY <1>3
    <3>2. QED
      BY <1>4, <1>5, <3>1
  <2>2. f \in Kept(Held) => Table!Bucket(f) \in Nat
    <3>1. f \in Kept(Held) => Table!Bucket(f) \in BucketNumbers
      BY BucketOf DEF Kept
    <3>2. QED
      BY <3>1, BucketsFacts DEF BucketNumbers
  <2>3. ASSUME f \in Kept(Held), Table!Bucket(f) < b
        PROVE  \E i \in 1 .. b : f \in Kept(Held) /\ Table!Bucket(f) = i - 1
    <3>1. Table!Bucket(f) + 1 \in 1 .. b /\ Table!Bucket(f) = (Table!Bucket(f) + 1) - 1
      BY <1>1, <2>2, <2>3
    <3>2. QED
      BY <2>3, <3>1
  <2>4. QED
    BY <1>1, <2>1, <2>2, <2>3
<1>8. QED
  BY <1>5, <1>6, <1>7 DEF NamesBefore, s

\* LIST_FILES names every tracked file once and nothing else: the walk ends at the
\* last bucket, or when as many names as there are tracked files are found.
THEOREM AllFilesListedAlways == Spec => []AllFilesListed
<1>1. IInv => AllFilesListed
  <2> SUFFICES ASSUME IInv PROVE AllFilesListed
    OBVIOUS
  <2> DEFINE n == Table!nBuckets
             stops == {b \in 0 .. n : b = n \/ Len(NamesBefore(b)) = keysCount}
             stop == CHOOSE b \in stops : \A c \in stops : b <= c
             files == StoreGetTrackedFiles.files
  <2>1. files = NamesBefore(stop)
    BY SameOperators DEF StoreGetTrackedFiles, Table!HashTableKeys, NamesBefore
  <2>2. stop \in stops
    <3>1. n \in stops /\ stops \in SUBSET Nat
      BY BucketsFacts
    <3> HIDE DEF stops
    <3>2. \E b \in stops : \A c \in stops : b <= c
      BY <3>1, LeastNatural
    <3>3. QED
      BY <3>2
  <2> HIDE DEF stop, files
  <2>3. stop \in 0 .. n /\ (stop = n \/ Len(NamesBefore(stop)) = keysCount)
    BY <2>2
  <2> DEFINE names == NamesBefore(stop)
  <2>4. /\ names \in Seq(Files) /\ IsInjective(names)
        /\ \A f : f \in ToSet(names) <=> f \in Kept(Held) /\ Table!Bucket(f) < stop
    BY <2>3, NamesFacts DEF IInv
  <2>5. IsFiniteSet(ToSet(names)) /\ Cardinality(ToSet(names)) = Len(names)
    BY <2>4, InjectiveCount
  <2>6. ToSet(names) \in SUBSET Kept(Held)
    BY <2>4
  <2>7. ToSet(names) = Kept(Held)
    <3>1. CASE stop = n
      <4>1. \A f \in Kept(Held) : Table!Bucket(f) < n
        <5>1. \A f \in Kept(Held) : Table!Bucket(f) \in BucketNumbers
          BY BucketOf DEF Kept
        <5>2. QED
          BY <5>1, BucketsFacts DEF BucketNumbers
      <4>2. QED
        BY <2>4, <3>1, <4>1
    <3>2. CASE Len(NamesBefore(stop)) = keysCount
      <4> DEFINE K == Kept(Held)
                 T == ToSet(names)
      <4>1. Held \in [Files -> Seq(Item)]
        BY HeldFacts DEF IInv
      <4>2. IsFiniteSet(K) /\ Cardinality(K) \in Nat
        BY <4>1, HeldNumbers
      <4>3. Len(names) >= Cardinality(K)
        BY <3>2 DEF IInv, Totals
      <4>4. T \in SUBSET K /\ Cardinality(T) = Len(names) /\ Len(names) \in Nat
        BY <2>4, <2>5, <2>6
      <4> HIDE DEF K, T, names
      <4>5. Cardinality(T) <= Cardinality(K) /\ (Cardinality(K) = Cardinality(T) => K = T)
        BY <4>2, <4>4, FS_Subset
      <4>6. K = T
        BY <4>2, <4>3, <4>4, <4>5
      <4>7. QED
        BY <4>6 DEF K, T
    <3>3. QED
      BY <2>3, <3>1, <3>2
  <2>8. Tracked = Kept(Held)
    BY SameSums DEF IInv
  <2>9. QED
    BY <2>1, <2>4, <2>7, <2>8 DEF AllFilesListed, files
<1>2. QED
  BY <1>1, IInvHolds, PTL

(***************************************************************************)
(* The table implements Registry.                                          *)
(***************************************************************************)

\* The values that the callers see.
Vals(s) == [i \in DOMAIN s |-> s[i].val]
Shown == [f \in Files |-> StoreGetFileLocations(f).items]

\* The registry's view of the table is the values of what is held.
LEMMA ShownFacts == Shown = [g \in Files |-> Vals(Held[g])]
BY DEF Shown, Vals, Held, StoreGetFileLocations, Table!HashTableKeyValues

\* Values follow their items.
LEMMA ValsFacts ==
    ASSUME NEW s \in Seq(Item)
    PROVE  /\ Vals(s) \in Seq(EndPoints) /\ Len(Vals(s)) = Len(s)
           /\ \A i \in 1 .. Len(s) : Vals(s)[i] = s[i].val
           /\ \A item \in Item : Vals(Append(s, item)) = Append(Vals(s), item.val)
           /\ \A j \in 1 .. Len(s) : Vals(RemoveAt(s, j)) = RemoveAt(Vals(s), j)
<1>1. \A t \in Seq(Item) :
         /\ Vals(t) \in Seq(EndPoints) /\ Len(Vals(t)) = Len(t)
         /\ \A i \in 1 .. Len(t) : Vals(t)[i] = t[i].val
  <2> SUFFICES ASSUME NEW t \in Seq(Item)
               PROVE  /\ Vals(t) \in Seq(EndPoints) /\ Len(Vals(t)) = Len(t)
                      /\ \A i \in 1 .. Len(t) : Vals(t)[i] = t[i].val
    OBVIOUS
  <2>1. \A i \in 1 .. Len(t) : t[i].val \in EndPoints
    <3>1. \A i \in 1 .. Len(t) : t[i] \in Item
      OBVIOUS
    <3>2. QED
      BY <3>1 DEF Item
  <2>2. QED
    BY <2>1 DEF Vals
<1>2. ASSUME NEW item \in Item PROVE Vals(Append(s, item)) = Append(Vals(s), item.val)
  <2> DEFINE t == Append(s, item)
             v == Vals(s)
             u == Append(v, item.val)
  <2>1. t \in Seq(Item) /\ Len(t) = Len(s) + 1 /\ item.val \in EndPoints /\ Len(s) \in Nat
        /\ \A i \in 1 .. Len(t) : t[i] = IF i = Len(s) + 1 THEN item ELSE s[i]
    BY DEF Item
  <2>2. /\ u \in Seq(EndPoints) /\ Len(u) = Len(s) + 1
        /\ \A i \in 1 .. Len(u) : u[i] = IF i = Len(s) + 1 THEN item.val ELSE s[i].val
    <3>1. v \in Seq(EndPoints) /\ Len(v) = Len(s) /\ \A i \in 1 .. Len(s) : v[i] = s[i].val
      BY <1>1
    <3> HIDE DEF v
    <3>2. QED
      BY <2>1, <3>1
  <2> HIDE DEF t, u
  <2>3. /\ Vals(t) \in Seq(EndPoints) /\ Len(Vals(t)) = Len(t)
        /\ \A i \in 1 .. Len(t) : Vals(t)[i] = t[i].val
    BY <1>1, <2>1
  <2>4. \A i \in 1 .. Len(u) : Vals(t)[i] = u[i]
    BY <2>1, <2>2, <2>3
  <2>5. QED
    BY <2>1, <2>2, <2>3, <2>4 DEF t, u, v
<1>3. ASSUME NEW j \in 1 .. Len(s) PROVE Vals(RemoveAt(s, j)) = RemoveAt(Vals(s), j)
  <2> DEFINE t == RemoveAt(s, j)
             v == Vals(s)
             u == RemoveAt(v, j)
  <2>1. v \in Seq(EndPoints) /\ Len(v) = Len(s) /\ \A i \in 1 .. Len(s) : v[i] = s[i].val
    BY <1>1
  <2>2. t \in Seq(Item) /\ Len(t) = Len(s) - 1
        /\ \A i \in 1 .. Len(s) - 1 : t[i] = IF i < j THEN s[i] ELSE s[i + 1]
    BY RemoveAtFacts
  <2> HIDE DEF t, v
  <2>3. u \in Seq(EndPoints) /\ Len(u) = Len(s) - 1
        /\ \A i \in 1 .. Len(s) - 1 : u[i] = IF i < j THEN v[i] ELSE v[i + 1]
    BY <2>1, RemoveAtFacts
  <2> HIDE DEF u
  <2>4. /\ Vals(t) \in Seq(EndPoints) /\ Len(Vals(t)) = Len(t)
        /\ \A i \in 1 .. Len(t) : Vals(t)[i] = t[i].val
    BY <1>1, <2>2
  <2>5. \A i \in 1 .. Len(u) : Vals(t)[i] = u[i]
    <3> SUFFICES ASSUME NEW i \in 1 .. Len(u) PROVE Vals(t)[i] = u[i]
      OBVIOUS
    <3>1. i \in 1 .. Len(s) - 1 /\ i \in 1 .. Len(s) /\ i + 1 \in 1 .. Len(s)
      BY <2>3
    <3>2. QED
      BY <2>1, <2>2, <2>3, <2>4, <3>1
  <2>6. QED
    BY <2>2, <2>3, <2>4, <2>5, SMTT(30) DEF t, u, v
<1>4. QED
  BY <1>1, <1>2, <1>3

\* What Registry's Delete makes of a list.
WithoutFirst(s, ep) == Multimap!RemoveFirstMatch(s, LAMBDA v : SameEndPoint(v, ep))

\* The value that goes is the first that is the same.
LEMMA FirstMatch ==
    ASSUME NEW s \in Seq(EndPoints), NEW ep
    PROVE  LET I == {i \in 1 .. Len(s) : SameEndPoint(s[i], ep)}
           IN  WithoutFirst(s, ep) = IF I # {} THEN RemoveAt(s, Min(I)) ELSE s
<1> DEFINE I == {i \in 1 .. Len(s) : SameEndPoint(s[i], ep)}
<1>1. WithoutFirst(s, ep) =
          IF \E i \in 1 .. Len(s) : SameEndPoint(s[i], ep)
          THEN Multimap!RemoveAt(s, IF I # {} THEN Multimap!Min(I) ELSE 0)
          ELSE s
  BY DEF WithoutFirst, Multimap!RemoveFirstMatch, Multimap!SelectInSeq
<1>2. Multimap!Min(I) = Min(I)
  BY DEF Multimap!Min, Min
<1>3. \A i : Multimap!RemoveAt(s, i) = RemoveAt(s, i)
  BY DEF Multimap!RemoveAt, RemoveAt
<1>4. I # {} <=> \E i \in 1 .. Len(s) : SameEndPoint(s[i], ep)
  OBVIOUS
<1> HIDE DEF I
<1>5. QED
  BY <1>1, <1>2, <1>3, <1>4 DEF I

\* Registry's actions in terms of Shown.
LEMMA AbstractSteps ==
    /\ Multimap!Init <=> Shown = [f \in Files |-> <<>>]
    /\ Multimap!Clear <=> Shown' = [f \in Files |-> <<>>]
    /\ \A f, ep : Multimap!Add(f, ep) <=> Shown' = [Shown EXCEPT ![f] = Append(@, ep)]
    /\ \A f, ep :
          Multimap!Delete(f, ep) <=> Shown' = [Shown EXCEPT ![f] = WithoutFirst(@, ep)]
<1>1. Multimap!Init <=> Shown = [f \in Files |-> <<>>]
  BY DEF Multimap!Init, Shown
<1>2. Multimap!Clear <=> Shown' = [f \in Files |-> <<>>]
  BY DEF Multimap!Clear, Shown
<1>3. \A f, ep : Multimap!Add(f, ep) <=> Shown' = [Shown EXCEPT ![f] = Append(@, ep)]
  BY DEF Multimap!Add, Shown
<1>4. \A f, ep :
          Multimap!Delete(f, ep) <=> Shown' = [Shown EXCEPT ![f] = WithoutFirst(@, ep)]
  BY DEF Multimap!Delete, Shown, WithoutFirst, Multimap!RemoveFirstMatch, Multimap!SelectInSeq
<1>5. QED
  BY <1>1, <1>2, <1>3, <1>4

\* StoreRegister adds a value.
LEMMA RegisterAdds ==
    ASSUME IInv, NEW f \in Files, NEW ep \in EndPoints, StoreRegister(f, ep)
    PROVE  Multimap!Add(f, ep)
<1>1. Lists /\ Held \in [Files -> Seq(Item)]
  BY HeldFacts DEF IInv
<1>2. PICK dup \in Blocks : Table!HashTableAdd(f, [ptr |-> dup, val |-> ep])
  BY DEF StoreRegister
<1> DEFINE item == [ptr |-> dup, val |-> ep]
<1>3. item \in Item /\ item.val = ep
  BY DEF Item
<1>4. Held' = [Held EXCEPT ![f] = Append(@, item)]
  BY <1>1, <1>2, <1>3, TableAdd
<1> HIDE DEF item
<1>5. Shown = [g \in Files |-> Vals(Held[g])] /\ Shown' = [g \in Files |-> Vals(Held'[g])]
  <2>1. Shown = [g \in Files |-> Vals(Held[g])]
    BY ShownFacts
  <2>2. (Shown = [g \in Files |-> Vals(Held[g])])'
    BY ShownFacts, PTL
  <2>3. QED
    BY <2>1, <2>2 DEF Vals
<1>6. Vals(Append(Held[f], item)) = Append(Vals(Held[f]), ep)
  BY <1>1, <1>3, ValsFacts
<1> HIDE DEF Vals
<1>7. Shown' = [Shown EXCEPT ![f] = Append(@, ep)]
  BY <1>1, <1>4, <1>5, <1>6
<1>8. QED
  BY <1>7, AbstractSteps

\* StoreUnregister deletes one, or finds none.
LEMMA UnregisterDeletes ==
    ASSUME IInv, NEW f \in Files, NEW ep \in EndPoints, StoreUnregister(f, ep)
    PROVE  Multimap!Delete(f, ep)
<1> DEFINE j == Table!ItemPlace(f, ep)
           s == Vals(Held[f])
           I == {i \in 1 .. Len(s) : SameEndPoint(s[i], ep)}
           rest == WithoutFirst(s, ep)
<1>1. Lists /\ Held \in [Files -> Seq(Item)] /\ Held[f] \in Seq(Item)
  BY HeldFacts DEF IInv
<1>2. /\ s \in Seq(EndPoints) /\ Len(s) = Len(Held[f])
      /\ \A i \in 1 .. Len(Held[f]) : s[i] = Held[f][i].val
      /\ \A i \in 1 .. Len(Held[f]) : Vals(RemoveAt(Held[f], i)) = RemoveAt(s, i)
  BY <1>1, ValsFacts
<1> HIDE DEF s
<1>3. I = {i \in 1 .. Len(Held[f]) : SameEndPoint(Held[f][i].val, ep)}
  BY <1>2
<1>4. j \in 0 .. Len(Held[f]) /\ j = IF I # {} THEN Min(I) ELSE 0
  BY <1>1, <1>3, ItemPlaceFacts
<1>5. rest = IF I # {} THEN RemoveAt(s, Min(I)) ELSE s
  BY <1>2, FirstMatch
<1>6. I # {} => Min(I) \in I
  <2>1. I \in SUBSET Nat
    OBVIOUS
  <2> HIDE DEF I
  <2>2. QED
    BY <2>1, MinFacts
<1>7. I # {} => Min(I) # 0
  <2>1. 0 \notin I
    OBVIOUS
  <2> HIDE DEF I
  <2>2. QED
    BY <1>6, <2>1
<1> HIDE DEF I, j, rest, Min
<1>8. rest = IF j # 0 THEN RemoveAt(s, j) ELSE s
  BY <1>4, <1>5, <1>7
<1>9. IF j = 0 THEN Held' = Held ELSE Held' = [Held EXCEPT ![f] = RemoveAt(@, j)]
  BY <1>1, TableRemove DEF StoreUnregister, j
<1>10. Shown = [g \in Files |-> Vals(Held[g])] /\ Shown' = [g \in Files |-> Vals(Held'[g])]
  <2>1. Shown = [g \in Files |-> Vals(Held[g])]
    BY ShownFacts
  <2>2. (Shown = [g \in Files |-> Vals(Held[g])])'
    BY ShownFacts, PTL
  <2>3. QED
    BY <2>1, <2>2 DEF Vals
<1>11. \A g \in Files : Vals(Held'[g]) = IF g = f THEN rest ELSE Vals(Held[g])
  <2> HIDE DEF Vals
  <2>1. CASE j = 0
    BY <1>8, <1>9, <2>1 DEF s
  <2>2. CASE j # 0
    <3>1. j \in 1 .. Len(Held[f])
      BY <1>1, <1>4, <2>2
    <3>2. Held' = [Held EXCEPT ![f] = RemoveAt(Held[f], j)] /\ rest = Vals(RemoveAt(Held[f], j))
      BY <1>2, <1>8, <1>9, <2>2, <3>1
    <3> HIDE DEF RemoveAt
    <3>3. QED
      BY <1>1, <3>2
  <2>3. QED
    BY <2>1, <2>2
<1>12. Shown' = [Shown EXCEPT ![f] = rest]
  <2> HIDE DEF Vals
  <2>1. QED
    BY <1>10, <1>11
<1>13. Shown[f] = s
  BY <1>10 DEF s
<1>14. Shown' = [Shown EXCEPT ![f] = WithoutFirst(@, ep)]
  BY <1>12, <1>13 DEF rest
<1>15. QED
  BY <1>14, AbstractSteps

\* The table implements a registry of lists of values by key: each operation
\* is the one that HashTable.h and Store.h describe, in every interleaving of
\* additions, removals and clearing, and buckets and collisions are not seen.
THEOREM ImplementsRegistry == Spec => IsRegistry
<1>1. Init => Multimap!Init
  <2> SUFFICES ASSUME Init PROVE Multimap!Init
    OBVIOUS
  <2>1. buckets = [b \in BucketNumbers |-> <<>>]
    BY DEF Init, Table!HashTableInit, BucketNumbers
  <2>2. Held = [f \in Files |-> <<>>]
    BY <2>1, EmptyTable
  <2>3. Vals(<<>>) = <<>>
    BY DEF Vals
  <2>4. Shown = [f \in Files |-> <<>>]
    BY <2>2, <2>3, ShownFacts
  <2>5. QED
    BY <2>4, AbstractSteps
<1>2. IInv /\ [Next]_vars => [Multimap!Next]_Shown
  <2> SUFFICES ASSUME IInv, [Next]_vars PROVE Multimap!Next \/ Shown' = Shown
    OBVIOUS
  <2>1. ASSUME NEW f \in Files, NEW ep \in EndPoints, StoreRegister(f, ep) PROVE Multimap!Next
    BY <2>1, RegisterAdds DEF Multimap!Next
  <2>2. ASSUME NEW f \in Files, NEW ep \in EndPoints, StoreUnregister(f, ep) PROVE Multimap!Next
    BY <2>2, UnregisterDeletes DEF Multimap!Next
  <2>3. ASSUME StoreClear PROVE Multimap!Next
    <3>1. buckets' = [b \in BucketNumbers |-> <<>>]
      BY <2>3 DEF StoreClear, Table!HashTableClear, BucketNumbers
    <3>2. (buckets = [b \in BucketNumbers |-> <<>>])' => (Held = [f \in Files |-> <<>>])'
      BY EmptyTable, PTL
    <3>3. Held' = [f \in Files |-> <<>>]
      BY <3>1, <3>2
    <3>4. Vals(<<>>) = <<>>
      BY DEF Vals
    <3>5. Shown' = [f \in Files |-> <<>>]
      <4>1. (Shown = [g \in Files |-> Vals(Held[g])])'
        BY ShownFacts, PTL
      <4>2. Shown' = [g \in Files |-> Vals(Held'[g])]
        BY <4>1 DEF Vals
      <4> HIDE DEF Vals
      <4>3. QED
        BY <3>3, <3>4, <4>2
    <3>6. QED
      BY <3>5, AbstractSteps DEF Multimap!Next
  <2>4. ASSUME UNCHANGED vars PROVE Shown' = Shown
    <3>1. buckets' = buckets
      BY <2>4 DEF vars
    <3>2. Held' = Held
      BY <3>1 DEF Held, Table!Entry, Table!FindInBucket, Table!SelectInSeq, Table!Min,
                  Table!NewEntry, Table!Bucket
    <3>3. (Shown = [g \in Files |-> Vals(Held[g])])'
      BY ShownFacts, PTL
    <3>4. QED
      BY <3>2, <3>3, ShownFacts DEF Vals
  <2>5. QED
    BY <2>1, <2>2, <2>3, <2>4 DEF Next
<1>3. QED
  <2>1. Init /\ [][Next]_vars /\ []IInv => Multimap!Init /\ [][Multimap!Next]_Shown
    BY <1>1, <1>2, PTL
  <2>2. QED
    BY <2>1, IInvHolds, PTL DEF Spec, IsRegistry, Multimap!Spec, Shown
=============================================================================
