------------------------ MODULE IndexerServiceProofs ------------------------
(***************************************************************************)
(* Theorems about IndexerService for any number of client threads, paths,  *)
(* queries, changes and failures: the monitor brings the index to what is  *)
(* in the directory, and a thread reads the answer to its own last query,  *)
(* taken from the index at one moment.                                     *)
(***************************************************************************)
EXTENDS IndexerService, DataLemmas

(***************************************************************************)
(* The hash table.                                                         *)
(***************************************************************************)

Bucket == [items : Seq(Paths), countItems : Int]
Tables == {h \in [Names -> Bucket] : \A n \in Names : h[n].countItems = Len(h[n].items)}

\* Each path once, under its own name.
Clean(h) ==
    \A n \in Names :
        /\ IsInjective(h[n].items)
        /\ \A path \in ToSet(h[n].items) : NameOf[path] = n

Added   == {"ADDED", "RENAMED_NEW_NAME"}
Gone    == {"REMOVED", "RENAMED_OLD_NAME"}
Note    == [action : Added \cup Gone, path : Paths]

\* A path is in the table if it is under its name.
LEMMA InContents ==
    ASSUME NEW h \in Tables, Clean(h), NEW path \in Paths
    PROVE  path \in Contents(h) <=> path \in ToSet(h[NameOf[path]].items)
<1>1. NameOf[path] \in Names
  BY DirectoryAssumption
<1>2. QED
  BY <1>1 DEF Contents, Clean

\* FileActionAdded.
LEMMA AddFacts ==
    ASSUME NEW h \in Tables, NEW path \in Paths
    PROVE  /\ HashTableAdd(h, path) \in Tables
           /\ Clean(h) /\ path \notin Contents(h) =>
                /\ Clean(HashTableAdd(h, path))
                /\ Contents(HashTableAdd(h, path)) = Contents(h) \cup {path}
<1> DEFINE k == NameOf[path]
           g == HashTableAdd(h, path)
           s == h[k].items
<1>1. k \in Names /\ h \in [Names -> Bucket] /\ \A n \in Names : h[n].countItems = Len(h[n].items)
  BY DirectoryAssumption DEF Tables
<1>2. s \in Seq(Paths)
  BY <1>1 DEF Bucket
<1>3. /\ g \in [Names -> Bucket] /\ g[k].items = Append(s, path)
      /\ g[k].countItems = Len(s) + 1
      /\ \A n \in Names \ {k} : g[n] = h[n]
  BY <1>1, <1>2 DEF HashTableAdd, AddToBucket, Bucket
<1> HIDE DEF g, s, k
<1>4. /\ Len(Append(s, path)) = Len(s) + 1
      /\ ToSet(Append(s, path)) = ToSet(s) \cup {path}
      /\ IsInjective(s) /\ path \notin ToSet(s) => IsInjective(Append(s, path))
  BY <1>2, AppendElements
<1>5. g \in Tables
  BY <1>1, <1>3, <1>4 DEF Tables
<1>6. ASSUME Clean(h), path \notin Contents(h)
      PROVE  Clean(g) /\ Contents(g) = Contents(h) \cup {path}
  <2>1. path \notin ToSet(s)
    BY <1>6, InContents DEF s, k
  <2>2. /\ IsInjective(s) /\ \A p \in ToSet(s) : NameOf[p] = k
        /\ h[k].items = s
    BY <1>1, <1>6 DEF Clean, s
  <2>3. Clean(g)
    <3>1. ASSUME NEW n \in Names
          PROVE  IsInjective(g[n].items) /\ \A p \in ToSet(g[n].items) : NameOf[p] = n
      <4>1. CASE n = k
        BY <1>3, <1>4, <2>1, <2>2, <4>1 DEF k
      <4>2. CASE n # k
        BY <1>3, <1>6, <4>2 DEF Clean
      <4>3. QED
        BY <4>1, <4>2
    <3>2. QED
      BY <3>1 DEF Clean
  <2>4. Contents(g) = Contents(h) \cup {path}
    <3>1. \A n \in Names : ToSet(g[n].items) =
              IF n = k THEN ToSet(h[n].items) \cup {path} ELSE ToSet(h[n].items)
      BY <1>3, <1>4, <2>2
    <3>2. \A x : x \in Contents(g) <=> \E n \in Names : x \in ToSet(g[n].items)
      BY DEF Contents
    <3>3. \A x : x \in Contents(h) <=> \E n \in Names : x \in ToSet(h[n].items)
      BY DEF Contents
    <3>4. \A x : x \in Contents(g) <=> x \in Contents(h) \/ x = path
      BY <1>1, <3>1, <3>2, <3>3
    <3>5. QED
      BY <3>4
  <2>5. QED
    BY <2>3, <2>4
<1>7. QED
  BY <1>5, <1>6 DEF g

\* FileActionRemoved.
LEMMA RemoveFacts ==
    ASSUME NEW h \in Tables, NEW path \in Paths
    PROVE  /\ HashTableRemove(h, path) \in Tables
           /\ Clean(h) =>
                /\ Clean(HashTableRemove(h, path))
                /\ Contents(HashTableRemove(h, path)) = Contents(h) \ {path}
<1> DEFINE k == NameOf[path]
           g == HashTableRemove(h, path)
           s == h[k].items
           r == RemoveFirst(s, path)
<1>1. k \in Names /\ h \in [Names -> Bucket] /\ \A n \in Names : h[n].countItems = Len(h[n].items)
  BY DirectoryAssumption DEF Tables
<1>2. s \in Seq(Paths) /\ h[k].countItems = Len(s)
  BY <1>1 DEF Bucket
<1>3. r \in Seq(Paths)
      /\ (IsInjective(s) => IsInjective(r) /\ ToSet(r) = ToSet(s) \ {path})
  <2> HIDE DEF s
  <2> QED
    BY <1>2, RemoveFirstElements
<1>4. /\ Len(s) \in Nat /\ Len(r) \in Nat
      /\ Len(s) - (Len(s) - Len(r)) = Len(r)
  <2> HIDE DEF s, r
  <2> QED
    BY <1>2, <1>3
<1>5. /\ g \in [Names -> Bucket] /\ g[k].items = r /\ g[k].countItems = Len(r)
      /\ \A n \in Names \ {k} : g[n] = h[n]
  <2>1. RemoveEntryOnList(h[k], path) = [items |-> r, countItems |-> Len(r)]
    <3> HIDE DEF r
    <3>1. RemoveEntryOnList(h[k], path) = [items |-> r, countItems |-> h[k].countItems - (Len(s) - Len(r))]
      BY DEF RemoveEntryOnList, r
    <3>2. QED
      BY <1>2, <1>4, <3>1
  <2> HIDE DEF r, s
  <2>2. RemoveInBucket(h[k], path) = [items |-> r, countItems |-> Len(r)]
    BY <2>1 DEF RemoveInBucket, NoEntry
  <2>3. RemoveInBucket(h[k], path) \in Bucket
    BY <1>3, <1>4, <2>2 DEF Bucket
  <2>4. g = [h EXCEPT ![k] = RemoveInBucket(h[k], path)]
    BY DEF HashTableRemove
  <2>5. QED
    BY <1>1, <2>2, <2>3, <2>4
<1>6. h[k].items = s
  OBVIOUS
<1> HIDE DEF g, s, k, r
<1>7. g \in Tables
  BY <1>1, <1>5 DEF Tables
<1>8. ASSUME Clean(h)
      PROVE  Clean(g) /\ Contents(g) = Contents(h) \ {path}
  <2>1. IsInjective(s) /\ \A p \in ToSet(s) : NameOf[p] = k
    BY <1>1, <1>6, <1>8 DEF Clean
  <2>2. \A n \in Names : ToSet(g[n].items) = ToSet(h[n].items) \ {path}
    <3>1. ASSUME NEW n \in Names, n # k PROVE path \notin ToSet(h[n].items)
      BY <1>8, <3>1 DEF Clean, k
    <3>2. QED
      BY <1>3, <1>5, <1>6, <2>1, <3>1
  <2>3. Clean(g)
    <3>1. \A n \in Names : IsInjective(g[n].items)
      BY <1>3, <1>5, <1>8, <2>1 DEF Clean
    <3>2. QED
      BY <1>8, <2>2, <3>1 DEF Clean
  <2>4. Contents(g) = Contents(h) \ {path}
    <3>1. \A x : x \in Contents(g) <=> \E n \in Names : x \in ToSet(g[n].items)
      BY DEF Contents
    <3>2. \A x : x \in Contents(h) <=> \E n \in Names : x \in ToSet(h[n].items)
      BY DEF Contents
    <3>3. \A x : x \in Contents(g) <=> x \in Contents(h) /\ x # path
      BY <2>2, <3>1, <3>2
    <3>4. QED
      BY <3>3
  <2>5. QED
    BY <2>3, <2>4
<1>9. QED
  BY <1>7, <1>8 DEF g

\* An entry of a batch, and what it does to a table that is up to date.
LEMMA EntryFacts ==
    ASSUME NEW h \in Tables, NEW ni \in Note
    PROVE  /\ OperName(h, ni) \in Tables
           /\ Clean(h) /\ ni.action \in Gone =>
                /\ Clean(OperName(h, ni))
                /\ Contents(OperName(h, ni)) = Contents(h) \ {ni.path}
           /\ Clean(h) /\ ni.action \in Added /\ ni.path \notin Contents(h) =>
                /\ Clean(OperName(h, ni))
                /\ Contents(OperName(h, ni)) = Contents(h) \cup {ni.path}
<1>1. ni.path \in Paths /\ ni.action \in Added \cup Gone
  BY DEF Note
<1>2. CASE ni.action \in Added
  <2>1. OperName(h, ni) = HashTableAdd(h, ni.path) /\ ni.action \notin Gone
    BY <1>2 DEF OperName, Added, Gone
  <2>2. QED
    BY <1>1, <2>1, AddFacts
<1>3. CASE ni.action \in Gone
  <2>1. OperName(h, ni) = HashTableRemove(h, ni.path) /\ ni.action \notin Added
    BY <1>3 DEF OperName, Added, Gone
  <2>2. QED
    BY <1>1, <2>1, RemoveFacts
<1>4. QED
  BY <1>1, <1>2, <1>3

(***************************************************************************)
(* A batch of entries, one after the other.                                *)
(***************************************************************************)

\* f[i] is the table after i entries.
Entering(h, s, f) ==
    /\ f \in [0 .. Len(s) -> Tables]
    /\ f[0] = h
    /\ \A i \in 1 .. Len(s) : f[i] = OperName(f[i - 1], s[i])

\* FoldLeft is the last of these tables.
LEMMA FoldEntries ==
    ASSUME NEW h \in Tables, NEW s \in Seq(Note), NEW f, Entering(h, s, f)
    PROVE  FoldLeft(OperName, h, s) = f[Len(s)]
<1> DEFINE n == Len(s)
           U == 1 .. n
           pick == [t \in SUBSET U |-> Max(t)]
           step == [i \in U |-> [v \in Tables |-> OperName(v, s[i])]]
           iter == CHOOSE g : g = [t \in SUBSET U |->
                       IF t = {} THEN h ELSE OperName(g[t \ {Max(t)}], s[Max(t)])]
<1>1. n \in Nat /\ DOMAIN s = U /\ \A i \in U : s[i] \in Note
  OBVIOUS
<1>2. FoldLeft(OperName, h, s) = iter[U]
  BY <1>1 DEF FoldLeft, MapThenFoldSet
<1>3. IsFiniteSet(U)
  BY <1>1, FS_Interval
<1>4. Picks(U, pick)
  BY <1>1, MaxFacts DEF Picks
<1>5. \A i \in U, v \in Tables : step[i][v] \in Tables
  BY <1>1, EntryFacts
<1>6. PICK g \in [SUBSET U -> Tables] : FoldsTo(U, h, pick, step, g)
  <2> HIDE DEF U, pick, step
  <2> QED
    BY <1>3, <1>4, <1>5, FoldExists
<1>7. \A t \in SUBSET U :
         g[t] = IF t = {} THEN h ELSE OperName(g[t \ {Max(t)}], s[Max(t)])
  <2>1. ASSUME NEW t \in SUBSET U, t # {}
        PROVE  g[t] = OperName(g[t \ {Max(t)}], s[Max(t)])
    <3>1. Max(t) \in U /\ t \ {Max(t)} \in SUBSET U /\ pick[t] = Max(t)
      BY <1>1, <2>1, MaxFacts
    <3>2. g[t \ {Max(t)}] \in Tables
      BY <3>1
    <3>3. g[t] = step[pick[t]][g[t \ {pick[t]}]]
      BY <1>6, <2>1 DEF FoldsTo
    <3> HIDE DEF U, pick
    <3>4. QED
      BY <3>1, <3>2, <3>3
  <2>2. g[{}] = h
    BY <1>6 DEF FoldsTo
  <2>3. QED
    BY <2>1, <2>2
<1>8. \A t \in SUBSET U :
         iter[t] = IF t = {} THEN h ELSE OperName(iter[t \ {Max(t)}], s[Max(t)])
  <2>1. g = [t \in SUBSET U |-> IF t = {} THEN h ELSE OperName(g[t \ {Max(t)}], s[Max(t)])]
    <3> HIDE DEF U
    <3> QED
      BY <1>7
  <2>2. iter = [t \in SUBSET U |->
                   IF t = {} THEN h ELSE OperName(iter[t \ {Max(t)}], s[Max(t)])]
    <3> HIDE DEF U
    <3> QED
      BY <2>1
  <2> HIDE DEF iter, U
  <2>3. QED
    BY <2>2
<1> DEFINE Good == {i \in Nat : i <= n => iter[1 .. i] = f[i]}
<1>9. 0 \in Good
  <2>1. 1 .. 0 = {} /\ 1 .. 0 \in SUBSET U
    OBVIOUS
  <2> HIDE DEF iter, U
  <2>2. QED
    BY <1>8, <2>1 DEF Entering
<1>10. ASSUME NEW i \in Nat, i \in Good PROVE i + 1 \in Good
  <2>1. SUFFICES ASSUME i + 1 <= n PROVE iter[1 .. i + 1] = f[i + 1]
    OBVIOUS
  <2>2. /\ 1 .. i + 1 \in SUBSET U /\ 1 .. i + 1 # {}
        /\ i + 1 \in 1 .. n /\ (i + 1) - 1 = i
    <3>1. i + 1 \in 1 .. n /\ (i + 1) - 1 = i /\ 1 \in 1 .. i + 1
      BY <1>1, <2>1
    <3>2. \A k \in 1 .. i + 1 : k \in 1 .. n
      BY <1>1, <2>1
    <3>3. QED
      BY <3>1, <3>2
  <2>3. Max(1 .. i + 1) = i + 1 /\ (1 .. i + 1) \ {i + 1} = 1 .. i
    <3>1. i + 1 \in 1 .. i + 1 /\ \A k \in 1 .. i + 1 : i + 1 >= k
      OBVIOUS
    <3>2. \A m \in 1 .. i + 1 : (\A k \in 1 .. i + 1 : m >= k) => m = i + 1
      OBVIOUS
    <3>3. QED
      BY <3>1, <3>2 DEF Max
  <2> HIDE DEF iter, U
  <2>4. iter[1 .. i + 1] = OperName(iter[1 .. i], s[i + 1])
    BY <1>8, <2>2, <2>3
  <2>5. iter[1 .. i] = f[i]
    BY <1>1, <1>10, <2>1
  <2>6. QED
    BY <2>2, <2>4, <2>5 DEF Entering
<1>11. n \in Good
  <2> HIDE DEF Good
  <2> QED
    BY <1>1, <1>9, <1>10, InductiveSet
<1>12. QED
  <2> HIDE DEF iter
  <2> QED
    BY <1>1, <1>2, <1>11

\* After the entries of s, and after each of them, the table holds every path once; d is
\* what it holds in the end.
Entered(h, s, d) ==
    \E f : /\ Entering(h, s, f)
          /\ \A i \in 0 .. Len(s) : Clean(f[i])
          /\ Contents(f[Len(s)]) = d

\* A table with nothing left to enter.
LEMMA EnteredAll ==
    ASSUME NEW h \in Tables, NEW d
    PROVE  Entered(h, <<>>, d) <=> Clean(h) /\ Contents(h) = d
<1>1. Len(<<>>) = 0
  OBVIOUS
<1>2. ASSUME Clean(h), Contents(h) = d PROVE Entered(h, <<>>, d)
  <2> DEFINE f == [i \in 0 .. 0 |-> h]
  <2>1. Entering(h, <<>>, f)
    BY <1>1 DEF Entering
  <2>2. \A i \in 0 .. 0 : f[i] = h
    OBVIOUS
  <2> HIDE DEF f
  <2>3. QED
    BY <1>1, <1>2, <2>1, <2>2 DEF Entered
<1>3. ASSUME Entered(h, <<>>, d) PROVE Clean(h) /\ Contents(h) = d
  BY <1>1, <1>3 DEF Entered, Entering
<1>4. QED
  BY <1>2, <1>3

\* The next entry of the batch leaves the others to be entered.
LEMMA EnteredTail ==
    ASSUME NEW h \in Tables, NEW s \in Seq(Note), s # <<>>, NEW d, Entered(h, s, d)
    PROVE  /\ OperName(h, Head(s)) \in Tables
           /\ Entered(OperName(h, Head(s)), Tail(s), d)
<1> DEFINE n == Len(s)
           r == Tail(s)
<1>1. /\ n \in Nat \ {0} /\ Head(s) \in Note /\ Head(s) = s[1]
      /\ Len(r) = n - 1 /\ \A i \in 1 .. n - 1 : r[i] = s[i + 1]
  BY TailFacts
<1>2. PICK f : /\ Entering(h, s, f)
               /\ \A i \in 0 .. n : Clean(f[i])
               /\ Contents(f[n]) = d
  BY DEF Entered
<1> HIDE DEF n, r
<1>3. /\ f \in [0 .. n -> Tables] /\ f[0] = h
      /\ \A i \in 1 .. n : f[i] = OperName(f[i - 1], s[i])
  BY <1>2 DEF Entering, n
<1>4. f[1] = OperName(h, Head(s)) /\ f[1] \in Tables
  <2>1. 1 \in 1 .. n /\ 1 \in 0 .. n /\ 1 - 1 = 0
    BY <1>1
  <2>2. QED
    BY <1>1, <1>3, <2>1
<1> DEFINE g == [i \in 0 .. n - 1 |-> f[i + 1]]
<1>5. \A i \in 0 .. n - 1 : g[i] = f[i + 1] /\ i + 1 \in 0 .. n
  BY <1>1
<1>6. Entering(OperName(h, Head(s)), r, g)
  <2>1. g \in [0 .. n - 1 -> Tables]
    BY <1>1, <1>3
  <2>2. g[0] = OperName(h, Head(s))
    BY <1>1, <1>4
  <2>3. ASSUME NEW i \in 1 .. n - 1 PROVE g[i] = OperName(g[i - 1], r[i])
    <3>1. i + 1 \in 1 .. n /\ i - 1 \in 0 .. n - 1 /\ i \in 0 .. n - 1 /\ (i + 1) - 1 = i
          /\ (i - 1) + 1 = i
      BY <1>1
    <3> HIDE DEF g
    <3>2. QED
      BY <1>1, <1>3, <1>5, <3>1
  <2> HIDE DEF g
  <2>4. QED
    BY <1>1, <2>1, <2>2, <2>3 DEF Entering
<1> HIDE DEF g
<1>7. (\A i \in 0 .. n - 1 : Clean(g[i])) /\ Contents(g[n - 1]) = d
  <2>1. n - 1 \in 0 .. n - 1 /\ (n - 1) + 1 = n
    BY <1>1
  <2>2. QED
    BY <1>2, <1>5, <2>1 DEF n
<1>8. QED
  BY <1>1, <1>4, <1>6, <1>7 DEF Entered, r

\* A notification comes behind those that are still to be entered.
LEMMA EnteredAppend ==
    ASSUME NEW h \in Tables, NEW s \in Seq(Note), NEW d, Entered(h, s, d), NEW ni \in Note
    PROVE  /\ ni.action \in Gone => Entered(h, Append(s, ni), d \ {ni.path})
           /\ ni.action \in Added /\ ni.path \notin d
                => Entered(h, Append(s, ni), d \cup {ni.path})
<1> DEFINE n == Len(s)
           r == Append(s, ni)
<1>1. /\ n \in Nat /\ r \in Seq(Note) /\ Len(r) = n + 1
      /\ \A i \in 1 .. n + 1 : r[i] = IF i = n + 1 THEN ni ELSE s[i]
  OBVIOUS
<1>2. PICK f : /\ Entering(h, s, f)
               /\ \A i \in 0 .. n : Clean(f[i])
               /\ Contents(f[n]) = d
  BY DEF Entered
<1> HIDE DEF n, r
<1>3. /\ f \in [0 .. n -> Tables] /\ f[0] = h
      /\ \A i \in 1 .. n : f[i] = OperName(f[i - 1], s[i])
  BY <1>2 DEF Entering, n
<1>4. f[n] \in Tables /\ Clean(f[n])
  BY <1>1, <1>2, <1>3
<1> DEFINE last == OperName(f[n], ni)
           g == [i \in 0 .. n + 1 |-> IF i = n + 1 THEN last ELSE f[i]]
<1>5. /\ last \in Tables
      /\ ni.action \in Gone => Clean(last) /\ Contents(last) = d \ {ni.path}
      /\ ni.action \in Added /\ ni.path \notin d =>
            Clean(last) /\ Contents(last) = d \cup {ni.path}
  BY <1>2, <1>4, EntryFacts
<1>6. \A i \in 0 .. n + 1 : g[i] = IF i = n + 1 THEN last ELSE f[i]
  OBVIOUS
<1>7. g \in [0 .. n + 1 -> Tables]
  <2> HIDE DEF last
  <2> QED
    BY <1>1, <1>3, <1>5
<1>8. last = OperName(f[n], ni)
  OBVIOUS
<1> HIDE DEF g, last
<1>9. Entering(h, r, g)
  <2>1. g[0] = h
    BY <1>1, <1>3, <1>6
  <2>2. ASSUME NEW i \in 1 .. n + 1 PROVE g[i] = OperName(g[i - 1], r[i])
    <3>1. i - 1 \in 0 .. n /\ i - 1 \in 0 .. n + 1 /\ i - 1 # n + 1 /\ i \in 0 .. n + 1
      BY <1>1
    <3>2. g[i - 1] = f[i - 1]
      BY <1>6, <3>1
    <3>3. CASE i = n + 1
      <4>1. g[i] = last /\ r[i] = ni /\ i - 1 = n
        BY <1>1, <1>6, <3>1, <3>3
      <4>2. QED
        BY <1>8, <3>2, <4>1
    <3>4. CASE i # n + 1
      <4>1. i \in 1 .. n /\ g[i] = f[i] /\ r[i] = s[i]
        BY <1>1, <1>6, <3>1, <3>4
      <4>2. QED
        BY <1>3, <3>2, <4>1
    <3>5. QED
      BY <3>3, <3>4
  <2>3. QED
    BY <1>1, <1>7, <2>1, <2>2 DEF Entering
<1>10. ASSUME NEW e, Clean(last), Contents(last) = e PROVE Entered(h, r, e)
  <2>1. ASSUME NEW i \in 0 .. n + 1 PROVE Clean(g[i])
    <3>1. i = n + 1 \/ i \in 0 .. n
      BY <1>1
    <3>2. QED
      BY <1>2, <1>6, <1>10, <3>1 DEF n
  <2>2. n + 1 \in 0 .. n + 1 /\ g[n + 1] = last
    BY <1>1, <1>6
  <2>3. QED
    BY <1>1, <1>9, <1>10, <2>1, <2>2 DEF Entered
<1>11. QED
  BY <1>5, <1>10 DEF r

(***************************************************************************)
(* The parts of the inductive invariant.                                   *)
(***************************************************************************)
Answers == [count : Int, paths : Seq(Paths)]
Mappings == [query : Nat, pathsOf : Nat, answer : Answers]

Typed ==
    /\ directory \in SUBSET Paths /\ unseen \in SUBSET directory
    /\ changes \in Seq(Note) /\ fileBuffer \in Seq(Note)
    /\ hashTable \in Tables /\ hMutex \in {NoThread, Server}
    /\ opened \in BOOLEAN
    /\ buf \in Seq(Threads) /\ got \in [{Server} -> Threads \cup {NoThread}]
    /\ server \in {"check", "get", "lookup", "copy", "reply", "fail", "signal", "retire",
                  "ended", "gone"}
    /\ client \in [Threads -> {"new", "opened", "put", "wait", "map", "read", "done"}]
    /\ evt \in [Threads -> BOOLEAN]
    /\ found \in Answers
    /\ mapping \in [Threads -> Mappings]
    /\ users \in [Threads -> SUBSET (Threads \cup {Server})]
    /\ hLastMapRequest \in Threads \cup {NoThread}
    /\ round \in [Threads -> Nat]
    /\ failures \in Nat

\* The notifications on their way bring the table to what is in the directory.
Index == Entered(hashTable, fileBuffer \o changes, directory \ unseen)

\* The steps in which the server has a query that it has not yet answered.
Serving == {"lookup", "copy", "reply", "signal"}
Served(t) == server \in Serving /\ got[Server] = t

\* A query is in one place at most, and its thread waits for it.
OneQuery ==
    /\ server \in Serving \cup {"fail", "retire"} => got[Server] \in Threads
    /\ IsInjective(buf)
    /\ \A t \in Threads :
          /\ client[t] # "wait" => t \notin ToSet(buf) /\ ~Served(t) /\ ~evt[t]
          /\ t \in ToSet(buf) => ~Served(t) /\ ~evt[t]
          /\ Served(t) => ~evt[t]

\* What the server finds is of one moment: the number, when the mutex is its own, and
\* the paths with it.
WholeAnswer(answer) == answer.count = Len(answer.paths) /\ IsInjective(answer.paths)

\* A mapping shows all its paths or, with old ones behind the count 0, none.
WholeOrHidden(answer) ==
    answer.count \in {0, Len(answer.paths)} /\ IsInjective(answer.paths)

Whole ==
    /\ hMutex = Server <=> server = "copy"
    /\ server = "copy" => found.count = FindInBucket.countItems
    /\ server = "reply" => WholeAnswer(found)
    /\ \A t \in Threads : WholeOrHidden(mapping[t].answer)

\* From the time that the answer is written until it has been read, a mapping that
\* is open holds it.
Answered(t) ==
    evt[t] \/ client[t] \in {"map", "read"} \/ (server = "signal" /\ got[Server] = t)

\* The count is that of the query, and so are the paths if it shows any.
UpToDate(t) ==
    /\ mapping[t].query = round[t]
    /\ mapping[t].answer.count # 0 => mapping[t].pathsOf = round[t]

Current ==
    /\ \A t \in Threads : client[t] = "read" => t \in users[t]
    /\ failures = 0 =>
          \A t \in Threads : Answered(t) /\ users[t] # {} => UpToDate(t)

\* The server keeps its last answer, and the one that it is about to announce.
Kept ==
    /\ hLastMapRequest # NoThread => Server \in users[hLastMapRequest]
    /\ server \in {"signal", "retire"} => Server \in users[got[Server]]

IInv == Typed /\ Index /\ OneQuery /\ Whole /\ Current /\ Kept

(***************************************************************************)
(* The inductive invariant.                                                *)
(***************************************************************************)

\* Nothing is in the table, and what the directory holds is unseen, but for one file
\* that may be on the way.
LEMMA InitIInv == Init => IInv
<1> SUFFICES ASSUME Init PROVE IInv
  OBVIOUS
<1>1. /\ buf = <<>> /\ got = [c \in {Server} |-> NoThread]
      /\ fileBuffer = <<>> /\ hMutex = NoThread
      /\ hashTable = [n \in Names |-> NoEntry] /\ unseen = Existing
      /\ directory = Existing \cup ToSet(Early)
      /\ changes = [i \in DOMAIN Early |-> Notification("ADDED", Early[i])]
  BY DEF Init, Ring!Init, DirectoryInit, HashTableInit
<1>2. IsInjective(<<>>) /\ ToSet(<<>>) = {} /\ Len(<<>>) = 0 /\ <<>> \in Seq(Paths)
  BY DEF IsInjective, ToSet
<1>3. hashTable \in Tables /\ Clean(hashTable) /\ Contents(hashTable) = {}
  <2>1. \A n \in Names : hashTable[n].items = <<>> /\ hashTable[n].countItems = 0
    BY <1>1 DEF NoEntry
  <2>2. hashTable \in [Names -> Bucket]
    BY <1>1, <1>2 DEF NoEntry, Bucket
  <2>3. QED
    BY <1>2, <2>1, <2>2 DEF Tables, Clean, Contents
<1>4. \/ changes = <<>> /\ directory = Existing
      \/ \E path \in Paths \ Existing :
            changes = <<Notification("ADDED", path)>> /\ directory = Existing \cup {path}
  <2>1. CASE Early = <<>>
    BY <1>1, <1>2, <2>1
  <2>2. ASSUME NEW path \in Paths \ Existing, Early = <<path>>
        PROVE  changes = <<Notification("ADDED", path)>> /\ directory = Existing \cup {path}
    <3>1. DOMAIN Early = {1} /\ Early[1] = path
      BY <2>2
    <3>2. ToSet(Early) = {path}
      BY <3>1 DEF ToSet
    <3>3. changes = [i \in {1} |-> Notification("ADDED", path)]
      BY <1>1, <3>1
    <3>4. changes = <<Notification("ADDED", path)>>
      BY <3>3
    <3>5. QED
      BY <1>1, <3>2, <3>4
  <2>3. QED
    BY <2>1, <2>2, DirectoryAssumption
<1>5. Typed
  <2>1. NoAnswer \in Answers
    BY <1>2 DEF NoAnswer, Answers
  <2>2. mapping \in [Threads -> Mappings]
    BY <2>1 DEF Init, NoMapping, Mappings
  <2>3. /\ changes \in Seq(Note) /\ directory \in SUBSET Paths
        /\ unseen \in SUBSET directory
    <3>1. Existing \in SUBSET Paths /\ unseen = Existing
      BY <1>1, DirectoryAssumption
    <3>2. CASE changes = <<>> /\ directory = Existing
      BY <3>1, <3>2
    <3>3. ASSUME NEW path \in Paths \ Existing,
                 changes = <<Notification("ADDED", path)>>, directory = Existing \cup {path}
          PROVE  /\ changes \in Seq(Note) /\ directory \in SUBSET Paths
                 /\ unseen \in SUBSET directory
      <4>1. Notification("ADDED", path) \in Note
        BY DEF Note, Notification, Added
      <4>2. QED
        BY <3>1, <3>3, <4>1
    <3>4. QED
      BY <1>4, <3>2, <3>3
  <2>4. QED
    BY <1>1, <1>3, <2>1, <2>2, <2>3, DirectoryAssumption DEF Init, Typed
<1>6. Index
  <2>1. Entered(hashTable, <<>>, {})
    BY <1>3, EnteredAll
  <2>2. CASE changes = <<>> /\ directory = Existing
    <3>1. fileBuffer \o changes = <<>> /\ directory \ unseen = {}
      BY <1>1, <2>2
    <3>2. QED
      BY <2>1, <3>1 DEF Index
  <2>3. ASSUME NEW path \in Paths \ Existing,
               changes = <<Notification("ADDED", path)>>, directory = Existing \cup {path}
        PROVE  Index
    <3> DEFINE ni == Notification("ADDED", path)
    <3>1. ni \in Note /\ ni.action \in Added /\ ni.path = path
      BY DEF Note, Notification, Added
    <3>2. fileBuffer \o changes = Append(<<>>, ni) /\ directory \ unseen = {} \cup {path}
      BY <1>1, <2>3
    <3>3. <<>> \in Seq(Note)
      OBVIOUS
    <3> HIDE DEF ni
    <3>4. Entered(hashTable, Append(<<>>, ni), {} \cup {path})
      BY <1>3, <2>1, <3>1, <3>3, EnteredAppend
    <3>5. QED
      BY <3>2, <3>4 DEF Index
  <2>4. QED
    BY <1>4, <2>2, <2>3
<1>7. OneQuery
  BY <1>1, <1>2 DEF Init, OneQuery, Serving, Served
<1>8. Whole
  BY <1>1, <1>2, DirectoryAssumption DEF Init, Whole, WholeOrHidden, NoMapping, NoAnswer
<1>9. Current /\ Kept
  BY DEF Init, Current, UpToDate, Kept, Answered
<1>10. QED
  BY <1>5, <1>6, <1>7, <1>8, <1>9 DEF IInv

\* The users change the directory, and Windows takes note of it.
LEMMA ChangeFacts ==
    ASSUME Typed, Index, ChangeDirectory
    PROVE  /\ directory' \in SUBSET Paths /\ unseen' \in SUBSET directory'
           /\ changes' \in Seq(Note)
           /\ UNCHANGED <<fileBuffer, hashTable, hMutex>>
           /\ Index'
<1> DEFINE s == fileBuffer \o changes
           d == directory \ unseen
<1>1. /\ directory \in SUBSET Paths /\ unseen \in SUBSET directory
      /\ changes \in Seq(Note) /\ fileBuffer \in Seq(Note) /\ hashTable \in Tables
      /\ s \in Seq(Note) /\ Entered(hashTable, s, d)
  BY DEF Typed, Index
<1>2. ASSUME NEW now \in SUBSET Paths, NEW ni \in Note, Change(now, <<ni>>),
             Entered(hashTable, Append(s, ni), now \ (unseen \cap now))
      PROVE  /\ directory' \in SUBSET Paths /\ unseen' \in SUBSET directory'
             /\ changes' \in Seq(Note)
             /\ UNCHANGED <<fileBuffer, hashTable, hMutex>>
             /\ Index'
  <2>1. /\ directory' = now /\ unseen' = unseen \cap now /\ changes' = changes \o <<ni>>
        /\ UNCHANGED <<fileBuffer, hashTable, hMutex>>
    BY <1>2 DEF Change
  <2>2. changes \o <<ni>> \in Seq(Note) /\ fileBuffer \o (changes \o <<ni>>) = Append(s, ni)
    BY <1>1
  <2>3. QED
    BY <1>2, <2>1, <2>2 DEF Index
<1>3. ASSUME NEW path \in Paths, CreateFile(path)
      PROVE  /\ directory' \in SUBSET Paths /\ unseen' \in SUBSET directory'
             /\ changes' \in Seq(Note)
             /\ UNCHANGED <<fileBuffer, hashTable, hMutex>>
             /\ Index'
  <2> DEFINE ni == Notification("ADDED", path)
             now == directory \cup {path}
  <2>1. path \notin directory /\ Change(now, <<ni>>)
    BY <1>3 DEF CreateFile
  <2>2. ni \in Note /\ ni.action \in Added /\ ni.path = path
    BY DEF Note, Notification, Added
  <2>3. now \ (unseen \cap now) = d \cup {path} /\ path \notin d /\ now \in SUBSET Paths
    BY <1>1, <2>1
  <2> HIDE DEF ni, now, s, d
  <2>4. Entered(hashTable, Append(s, ni), d \cup {path})
    BY <1>1, <2>2, <2>3, EnteredAppend
  <2>5. QED
    BY <1>2, <2>1, <2>2, <2>3, <2>4
<1>4. ASSUME NEW path \in Paths, DeleteFile(path)
      PROVE  /\ directory' \in SUBSET Paths /\ unseen' \in SUBSET directory'
             /\ changes' \in Seq(Note)
             /\ UNCHANGED <<fileBuffer, hashTable, hMutex>>
             /\ Index'
  <2> DEFINE ni == Notification("REMOVED", path)
             now == directory \ {path}
  <2>1. path \in directory /\ Change(now, <<ni>>)
    BY <1>4 DEF DeleteFile
  <2>2. ni \in Note /\ ni.action \in Gone /\ ni.path = path
    BY DEF Note, Notification, Gone
  <2>3. now \ (unseen \cap now) = d \ {path} /\ now \in SUBSET Paths
    BY <1>1, <2>1
  <2> HIDE DEF ni, now, s, d
  <2>4. Entered(hashTable, Append(s, ni), d \ {path})
    BY <1>1, <2>2, <2>3, EnteredAppend
  <2>5. QED
    BY <1>2, <2>1, <2>2, <2>3, <2>4
<1>5. ASSUME NEW from \in Paths, NEW to \in Paths, Rename(from, to)
      PROVE  /\ directory' \in SUBSET Paths /\ unseen' \in SUBSET directory'
             /\ changes' \in Seq(Note)
             /\ UNCHANGED <<fileBuffer, hashTable, hMutex>>
             /\ Index'
  <2> DEFINE now == (directory \ {from}) \cup {to}
  <2>1. PICK n1 \in Note, n2 \in Note :
            /\ n1.action \in Gone /\ n1.path = from
            /\ n2.action \in Added /\ n2.path = to
            /\ Change(now, <<n1, n2>>)
    <3>1. CASE FolderOf[from] = FolderOf[to]
      <4>1. /\ Notification("RENAMED_OLD_NAME", from) \in Note
            /\ Notification("RENAMED_NEW_NAME", to) \in Note
            /\ Change(now, <<Notification("RENAMED_OLD_NAME", from),
                             Notification("RENAMED_NEW_NAME", to)>>)
        BY <1>5, <3>1 DEF Rename, Notification, Note, Added, Gone
      <4>2. QED
        BY <4>1 DEF Notification, Added, Gone
    <3>2. CASE FolderOf[from] # FolderOf[to]
      <4>1. /\ Notification("REMOVED", from) \in Note /\ Notification("ADDED", to) \in Note
            /\ Change(now, <<Notification("REMOVED", from), Notification("ADDED", to)>>)
        BY <1>5, <3>2 DEF Rename, Notification, Note, Added, Gone
      <4>2. QED
        BY <4>1 DEF Notification, Added, Gone
    <3>3. QED
      BY <3>1, <3>2
  <2>2. from \in directory /\ to \notin directory
    BY <1>5 DEF Rename
  <2>3. /\ now \ (unseen \cap now) = (d \ {from}) \cup {to} /\ to \notin d \ {from}
        /\ now \in SUBSET Paths
    BY <1>1, <2>2
  <2>4. /\ directory' = now /\ unseen' = unseen \cap now /\ changes' = changes \o <<n1, n2>>
        /\ UNCHANGED <<fileBuffer, hashTable, hMutex>>
    BY <2>1 DEF Change
  <2> HIDE DEF now, d
  <2>5. /\ changes \o <<n1, n2>> \in Seq(Note)
        /\ fileBuffer \o (changes \o <<n1, n2>>) = Append(Append(s, n1), n2)
        /\ Append(s, n1) \in Seq(Note)
    BY <1>1
  <2> HIDE DEF s
  <2>6. Entered(hashTable, Append(s, n1), d \ {from})
    BY <1>1, <2>1, EnteredAppend
  <2>7. Entered(hashTable, Append(Append(s, n1), n2), (d \ {from}) \cup {to})
    BY <1>1, <2>1, <2>3, <2>5, <2>6, EnteredAppend
  <2>8. QED
    BY <2>3, <2>4, <2>5, <2>7 DEF Index
<1>6. QED
  BY <1>3, <1>4, <1>5 DEF ChangeDirectory

\* A sequence is its first elements followed by the rest.
LEMMA SplitFacts ==
    ASSUME NEW S, NEW s \in Seq(S), NEW k \in 1 .. Len(s)
    PROVE  /\ SubSeq(s, 1, k) \in Seq(S) /\ SubSeq(s, k + 1, Len(s)) \in Seq(S)
           /\ SubSeq(s, 1, k) \o SubSeq(s, k + 1, Len(s)) = s
<1> DEFINE x == SubSeq(s, 1, k)
           y == SubSeq(s, k + 1, Len(s))
<1>1. /\ k \in Nat /\ Len(s) \in Nat /\ k <= Len(s)
      /\ x \in Seq(S) /\ Len(x) = k /\ \A i \in 1 .. k : x[i] = s[i]
  OBVIOUS
<1>2. /\ y \in Seq(S) /\ Len(y) = Len(s) - k
      /\ \A i \in 1 .. Len(s) - k : y[i] = s[k + i]
  OBVIOUS
<1> HIDE DEF x, y
<1>3. /\ x \o y \in Seq(S) /\ Len(x \o y) = Len(s)
      /\ \A i \in 1 .. Len(s) : (x \o y)[i] = IF i <= k THEN x[i] ELSE y[i - k]
  <2>1. Len(x) + Len(y) = Len(s)
    BY <1>1, <1>2
  <2>2. /\ x \o y \in Seq(S) /\ Len(x \o y) = Len(x) + Len(y)
        /\ \A i \in 1 .. Len(x) + Len(y) :
              (x \o y)[i] = IF i <= Len(x) THEN x[i] ELSE y[i - Len(x)]
    BY <1>1, <1>2, ConcatProperties
  <2>3. QED
    BY <1>1, <2>1, <2>2
<1>4. ASSUME NEW i \in 1 .. Len(s) PROVE (x \o y)[i] = s[i]
  <2>1. CASE i <= k
    BY <1>1, <1>3, <2>1
  <2>2. CASE ~(i <= k)
    <3>1. i - k \in 1 .. Len(s) - k /\ k + (i - k) = i
      BY <1>1, <2>2
    <3>2. y[i - k] = s[i]
      BY <1>2, <3>1
    <3>3. QED
      BY <1>3, <2>2, <3>2
  <2>3. QED
    BY <2>1, <2>2
<1>5. x \o y = s
  BY <1>3, <1>4, SeqEqual
<1>6. QED
  BY <1>1, <1>2, <1>5 DEF x, y

\* The monitor takes over as many notifications as fit, and enters them.
LEMMA NotifyFacts ==
    ASSUME Typed, Index, FileNotifyInfo
    PROVE  /\ changes' \in Seq(Note) /\ fileBuffer' \in Seq(Note) /\ hashTable' \in Tables
           /\ UNCHANGED <<directory, unseen, hMutex>>
           /\ hMutex = NoThread \/ UNCHANGED hashTable
           /\ Index'
<1>1. /\ changes \in Seq(Note) /\ fileBuffer \in Seq(Note) /\ hashTable \in Tables
      /\ fileBuffer \o changes \in Seq(Note)
      /\ Entered(hashTable, fileBuffer \o changes, directory \ unseen)
  BY DEF Typed, Index
<1>2. CASE ReadDirectoryChangesW
  <2>1. PICK k \in 1 .. Len(changes) :
            /\ fileBuffer' = SubSeq(changes, 1, k)
            /\ changes' = SubSeq(changes, k + 1, Len(changes))
    BY <1>2 DEF ReadDirectoryChangesW
  <2>2. fileBuffer = <<>> /\ UNCHANGED <<directory, unseen, hashTable, hMutex>>
    BY <1>2 DEF ReadDirectoryChangesW
  <2>3. /\ SubSeq(changes, 1, k) \in Seq(Note)
        /\ SubSeq(changes, k + 1, Len(changes)) \in Seq(Note)
        /\ SubSeq(changes, 1, k) \o SubSeq(changes, k + 1, Len(changes)) = changes
    BY <1>1, SplitFacts
  <2>4. <<>> \o changes = changes
    BY <1>1
  <2>5. QED
    BY <1>1, <2>1, <2>2, <2>3, <2>4 DEF Index
<1>3. CASE ProcessNotifyInfo
  <2>1. /\ fileBuffer # <<>> /\ hMutex = NoThread
        /\ hashTable' = OperName(hashTable, Head(fileBuffer)) /\ fileBuffer' = Tail(fileBuffer)
        /\ UNCHANGED <<directory, unseen, changes, hMutex>>
    BY <1>3 DEF ProcessNotifyInfo
  <2>2. /\ fileBuffer \o changes # <<>>
        /\ Head(fileBuffer \o changes) = Head(fileBuffer)
        /\ Tail(fileBuffer \o changes) = Tail(fileBuffer) \o changes
        /\ Tail(fileBuffer) \in Seq(Note)
    BY <1>1, <2>1
  <2>3. /\ OperName(hashTable, Head(fileBuffer)) \in Tables
        /\ Entered(OperName(hashTable, Head(fileBuffer)), Tail(fileBuffer) \o changes,
                   directory \ unseen)
    BY <1>1, <2>2, EnteredTail
  <2>4. QED
    BY <1>1, <2>1, <2>2, <2>3 DEF Index
<1>4. QED
  BY <1>2, <1>3 DEF FileNotifyInfo

\* Nobody but the users and the monitor changes what the table will come to hold.
LEMMA IndexKept ==
    ASSUME Index, UNCHANGED <<directory, unseen, changes, fileBuffer, hashTable>>
    PROVE  Index'
BY DEF Index

\* CloseHandle takes p from the users of t's mapping; the mappings still open are
\* unchanged and the others are gone.
LEMMA DropFacts ==
    ASSUME Typed, Whole, NEW t \in Threads \cup {NoThread}, NEW p \in Threads \cup {Server}
    PROVE  /\ Drop(users, t, p) \in [Threads -> SUBSET (Threads \cup {Server})]
           /\ \A u \in Threads : \A q : q \in Drop(users, t, p)[u] <=> q \in users[u] /\ (u = t => q # p)
           /\ \A w \in [Threads -> SUBSET (Threads \cup {Server})] :
                 /\ Left(w) \in [Threads -> Mappings]
                 /\ \A u \in Threads : WholeOrHidden(Left(w)[u].answer)
                 /\ \A u \in Threads : w[u] # {} => Left(w)[u] = mapping[u]
<1>1. /\ users \in [Threads -> SUBSET (Threads \cup {Server})]
      /\ mapping \in [Threads -> Mappings]
  BY DEF Typed
<1>2. /\ Drop(users, t, p) \in [Threads -> SUBSET (Threads \cup {Server})]
      /\ \A u \in Threads : \A q : q \in Drop(users, t, p)[u] <=> q \in users[u] /\ (u = t => q # p)
  <2>1. NoThread \notin Threads
    BY ServiceAssumption
  <2>2. CASE t = NoThread
    BY <1>1, <2>1, <2>2 DEF Drop
  <2>3. CASE t # NoThread
    <3>1. t \in Threads /\ Drop(users, t, p) = [users EXCEPT ![t] = users[t] \ {p}]
      BY <2>3 DEF Drop
    <3>2. QED
      BY <1>1, <3>1
  <2>4. QED
    BY <2>2, <2>3
<1>3. ASSUME NEW w \in [Threads -> SUBSET (Threads \cup {Server})]
      PROVE  /\ Left(w) \in [Threads -> Mappings]
             /\ \A u \in Threads : WholeOrHidden(Left(w)[u].answer)
             /\ \A u \in Threads : w[u] # {} => Left(w)[u] = mapping[u]
  <2>1. /\ NoMapping \in Mappings
        /\ WholeOrHidden(NoMapping.answer)
    BY DEF NoMapping, NoAnswer, Answers, Mappings, WholeOrHidden, IsInjective
  <2>2. \A u \in Threads : WholeOrHidden(mapping[u].answer)
    BY DEF Whole
  <2> HIDE DEF NoMapping
  <2>3. \A u \in Threads : Left(w)[u] = IF w[u] = {} THEN NoMapping ELSE mapping[u]
    BY DEF Left
  <2>4. QED
    BY <1>1, <2>1, <2>2, <2>3 DEF Left
<1>4. QED
  BY <1>2, <1>3

\* OpenFileIndexer.
LEMMA OpenFileIndexerStep ==
    ASSUME IInv, NEW t \in Threads, OpenFileIndexer(t)
    PROVE  IInv'
<1> USE DEF IInv
<1>1. /\ client[t] = "new"
      /\ client' = [client EXCEPT ![t] = IF opened /\ Rounds > 0 THEN "opened" ELSE "done"]
      /\ UNCHANGED <<opened, buf, got, server, evt, mapping, users, hLastMapRequest, round,
                     failures, found, directory, unseen, changes, fileBuffer, hashTable, hMutex>>
  BY DEF OpenFileIndexer, ring, maps, counts, index
<1>2. Typed'
  BY <1>1 DEF Typed
<1>3. Index'
  BY <1>1, IndexKept
<1>4. OneQuery'
  BY <1>1 DEF OneQuery, Served, Typed
<1>5. Whole'
  BY <1>1 DEF Whole, FindInBucket
<1>6. Current' /\ Kept'
  BY <1>1 DEF Current, UpToDate, Kept, Answered, Typed
<1>7. QED
  BY <1>2, <1>3, <1>4, <1>5, <1>6

\* QueryCount: a new number, for which no answer can be there.
LEMMA QueryCountStep ==
    ASSUME IInv, NEW t \in Threads, QueryCount(t)
    PROVE  IInv'
<1> USE DEF IInv
<1>1. /\ client[t] = "opened"
      /\ round' = [round EXCEPT ![t] = @ + 1]
      /\ client' \in {[client EXCEPT ![t] = c] : c \in {"put", "done", "opened"}}
      /\ UNCHANGED <<opened, buf, got, server, evt, mapping, users, hLastMapRequest,
                     failures, found, directory, unseen, changes, fileBuffer, hashTable, hMutex>>
  BY DEF QueryCount, Return, ring, maps, index
<1>2. Typed'
  <2>1. client' \in [Threads -> {"new", "opened", "put", "wait", "map", "read", "done"}]
    BY <1>1 DEF Typed
  <2>2. round' \in [Threads -> Nat]
    BY <1>1 DEF Typed
  <2>3. QED
    BY <1>1, <2>1, <2>2 DEF Typed
<1>3. Index'
  BY <1>1, IndexKept
<1>4. OneQuery'
  BY <1>1 DEF OneQuery, Served, Typed
<1>5. Whole'
  BY <1>1 DEF Whole, FindInBucket
<1>6. Current'
  <2>1. ~Answered(t)'
    BY <1>1 DEF Answered, OneQuery, Served, Serving, Typed
  <2>2. \A u \in Threads \ {t} : round'[u] = round[u] /\ (Answered(u)' => Answered(u))
    BY <1>1 DEF Answered, Typed
  <2>3. \A u \in Threads : client'[u] = "read" => u \in users'[u]
    BY <1>1 DEF Current, Typed
  <2>4. QED
    BY <1>1, <2>1, <2>2, <2>3 DEF Current, UpToDate
<1>7. Kept'
  BY <1>1 DEF Kept
<1>8. QED
  BY <1>2, <1>3, <1>4, <1>5, <1>6, <1>7

\* RingPut: the query enters the ring, where none of this thread was.
LEMMA PutQueryStep ==
    ASSUME IInv, NEW t \in Threads, PutQuery(t)
    PROVE  IInv'
<1> USE DEF IInv
<1>1. /\ client[t] = "put" /\ client' = [client EXCEPT ![t] = "wait"]
      /\ buf' = Append(buf, t)
      /\ UNCHANGED <<opened, got, server, evt, mapping, users, hLastMapRequest, round,
                     failures, found, directory, unseen, changes, fileBuffer, hashTable, hMutex>>
  BY DEF PutQuery, Ring!Put, maps, counts, index
<1>2. t \notin ToSet(buf) /\ ~Served(t) /\ ~evt[t] /\ buf \in Seq(Threads) /\ IsInjective(buf)
  BY <1>1 DEF OneQuery, Typed
<1>3. /\ buf' \in Seq(Threads) /\ IsInjective(buf') /\ ToSet(buf') = ToSet(buf) \cup {t}
  BY <1>1, <1>2, AppendElements
<1>4. Typed'
  BY <1>1, <1>3 DEF Typed
<1>5. Index'
  BY <1>1, IndexKept
<1>6. OneQuery'
  BY <1>1, <1>2, <1>3 DEF OneQuery, Served, Typed
<1>7. Whole'
  BY <1>1 DEF Whole, FindInBucket
<1>8. Current' /\ Kept'
  BY <1>1 DEF Current, UpToDate, Kept, Answered, Typed
<1>9. QED
  BY <1>4, <1>5, <1>6, <1>7, <1>8

\* The wait on query.evt is over.
LEMMA WaitEvtStep ==
    ASSUME IInv, NEW t \in Threads, WaitEvt(t)
    PROVE  IInv'
<1> USE DEF IInv
<1>1. /\ client[t] = "wait" /\ evt[t]
      /\ client' = [client EXCEPT ![t] = "map"]
      /\ evt' = [evt EXCEPT ![t] = FALSE]
      /\ UNCHANGED <<opened, buf, got, server, mapping, users, hLastMapRequest, round,
                     failures, found, directory, unseen, changes, fileBuffer, hashTable, hMutex>>
  BY DEF WaitEvt, ring, maps, counts, index
<1>2. Typed'
  BY <1>1 DEF Typed
<1>3. Index'
  BY <1>1, IndexKept
<1>4. OneQuery'
  BY <1>1 DEF OneQuery, Served, Typed
<1>5. Whole'
  BY <1>1 DEF Whole, FindInBucket
<1>6. Current'
  <2>1. Answered(t)
    BY <1>1 DEF Answered
  <2>2. \A u \in Threads : Answered(u)' => Answered(u)
    BY <1>1, <2>1 DEF Answered, Typed
  <2>3. \A u \in Threads : client'[u] = "read" => u \in users'[u]
    BY <1>1 DEF Current, Typed
  <2>4. QED
    BY <1>1, <2>2, <2>3 DEF Current, UpToDate
<1>7. Kept'
  BY <1>1 DEF Kept
<1>8. QED
  BY <1>2, <1>3, <1>4, <1>5, <1>6, <1>7

\* OpenFileMapping.
LEMMA OpenAnswerStep ==
    ASSUME IInv, NEW t \in Threads, OpenAnswer(t)
    PROVE  IInv'
<1> USE DEF IInv
<1>1. /\ client[t] = "map"
      /\ \/ /\ users[t] # {}
            /\ users' = [users EXCEPT ![t] = @ \cup {t}]
            /\ client' = [client EXCEPT ![t] = "read"]
         \/ /\ client' \in {[client EXCEPT ![t] = c] : c \in {"done", "opened"}}
            /\ UNCHANGED users
      /\ UNCHANGED <<opened, buf, got, server, evt, mapping, hLastMapRequest, round,
                     failures, found, directory, unseen, changes, fileBuffer, hashTable, hMutex>>
  BY DEF OpenAnswer, Return, ring, counts, index
<1>2. Typed'
  <2>1. client' \in [Threads -> {"new", "opened", "put", "wait", "map", "read", "done"}]
    <3>1. client' \in {[client EXCEPT ![t] = c] : c \in {"read", "done", "opened"}}
      BY <1>1
    <3>2. QED
      BY <3>1 DEF Typed
  <2>2. users' \in [Threads -> SUBSET (Threads \cup {Server})]
    <3>1. users' = users \/ users' = [users EXCEPT ![t] = users[t] \cup {t}]
      BY <1>1
    <3>2. \A v \in Threads : users[v] \in SUBSET (Threads \cup {Server})
      BY DEF Typed
    <3>3. users[t] \cup {t} \in SUBSET (Threads \cup {Server})
      BY <3>2
    <3>4. users \in [Threads -> SUBSET (Threads \cup {Server})]
      BY DEF Typed
    <3>5. QED
      BY <3>1, <3>3, <3>4
  <2>3. QED
    BY <1>1, <2>1, <2>2 DEF Typed
<1>3. Index'
  BY <1>1, IndexKept
<1>4. OneQuery'
  BY <1>1 DEF OneQuery, Served, Typed
<1>5. Whole'
  BY <1>1 DEF Whole, FindInBucket
<1>6. Current'
  <2>1. \A u \in Threads : /\ Answered(u)' => Answered(u)
                           /\ users'[u] # {} /\ Answered(u)' => users[u] # {}
    BY <1>1 DEF Answered, Typed
  <2>2. ASSUME NEW u \in Threads, client'[u] = "read" PROVE u \in users'[u]
    <3>1. users[u] \subseteq users'[u]
      BY <1>1, ZenonT(30) DEF Typed
    <3>2. u = t => t \in users'[t]
      BY <1>1, <2>2 DEF Typed
    <3>3. u # t => client[u] = "read"
      BY <1>1, <2>2 DEF Typed
    <3>4. QED
      BY <3>1, <3>2, <3>3 DEF Current
  <2>3. QED
    BY <1>1, <2>1, <2>2 DEF Current, UpToDate
<1>7. Kept'
  <2>1. \A u \in Threads : users[u] \subseteq users'[u]
    BY <1>1, ZenonT(30) DEF Typed
  <2>2. server \in {"signal", "retire"} => got[Server] \in Threads
    BY DEF OneQuery, Serving
  <2>3. hLastMapRequest # NoThread => hLastMapRequest \in Threads
    BY DEF Typed
  <2>4. QED
    BY <1>1, <2>1, <2>2, <2>3 DEF Kept
<1>8. QED
  BY <1>2, <1>3, <1>4, <1>5, <1>6, <1>7

\* The answer is copied and the mapping closed.
LEMMA ReadAnswerStep ==
    ASSUME IInv, NEW t \in Threads, ReadAnswer(t)
    PROVE  IInv'
<1> USE DEF IInv
<1>1. /\ client[t] = "read"
      /\ client' \in {[client EXCEPT ![t] = c] : c \in {"done", "opened"}}
      /\ users' = Drop(users, t, t)
      /\ mapping' = Left(users')
      /\ UNCHANGED <<opened, buf, got, server, evt, hLastMapRequest, round,
                     failures, found, directory, unseen, changes, fileBuffer, hashTable, hMutex>>
  BY DEF ReadAnswer, Return, ring, counts, index
<1>2. /\ users' \in [Threads -> SUBSET (Threads \cup {Server})]
      /\ \A u \in Threads : \A q : q \in users'[u] <=> q \in users[u] /\ (u = t => q # t)
      /\ mapping' \in [Threads -> Mappings]
      /\ \A u \in Threads : WholeOrHidden(mapping'[u].answer)
      /\ \A u \in Threads : users'[u] # {} => mapping'[u] = mapping[u]
  <2>1. /\ users' \in [Threads -> SUBSET (Threads \cup {Server})]
        /\ \A u \in Threads : \A q : q \in users'[u] <=> q \in users[u] /\ (u = t => q # t)
    BY <1>1, DropFacts
  <2>2. QED
    BY <1>1, <2>1, DropFacts
<1>3. Typed'
  BY <1>1, <1>2 DEF Typed
<1>4. Index'
  BY <1>1, IndexKept
<1>5. OneQuery'
  BY <1>1 DEF OneQuery, Served, Typed
<1>6. Whole'
  BY <1>1, <1>2 DEF Whole, FindInBucket
<1>7. Current'
  <2>1. \A u \in Threads : /\ Answered(u)' => Answered(u)
                           /\ users'[u] # {} => users[u] # {}
    BY <1>1, <1>2 DEF Answered, Typed
  <2>2. \A u \in Threads : client'[u] = "read" => u # t /\ client[u] = "read"
    BY <1>1 DEF Typed
  <2>3. \A u \in Threads : client'[u] = "read" => u \in users'[u]
    BY <1>2, <2>2 DEF Current
  <2>4. QED
    BY <1>1, <1>2, <2>1, <2>3 DEF Current, UpToDate
<1>8. Kept'
  <2>1. \A u \in Threads : Server \in users[u] => Server \in users'[u]
    BY <1>2, ServiceAssumption
  <2>2. server \in {"signal", "retire"} => got[Server] \in Threads
    BY DEF OneQuery, Serving
  <2>3. hLastMapRequest # NoThread => hLastMapRequest \in Threads
    BY DEF Typed
  <2>4. QED
    BY <1>1, <2>1, <2>2, <2>3 DEF Kept
<1>9. QED
  BY <1>3, <1>4, <1>5, <1>6, <1>7, <1>8

\* The server reads whether the service is open.
LEMMA CheckOpenedStep == IInv /\ CheckOpened => IInv'
<1> SUFFICES ASSUME IInv, CheckOpened PROVE IInv'
  OBVIOUS
<1> USE DEF IInv
<1>1. /\ server = "check" /\ server' \in {"get", "ended"}
      /\ UNCHANGED <<opened, buf, got, client, evt, mapping, users, hLastMapRequest, round,
                     failures, found, directory, unseen, changes, fileBuffer, hashTable, hMutex>>
  BY DEF CheckOpened, ring, maps, counts, index
<1>2. Typed'
  BY <1>1 DEF Typed
<1>3. Index'
  BY <1>1, IndexKept
<1>4. OneQuery' /\ Whole'
  BY <1>1 DEF OneQuery, Served, Serving, Whole, FindInBucket
<1>5. Current' /\ Kept'
  BY <1>1 DEF Current, UpToDate, Kept, Answered
<1>6. QED
  BY <1>2, <1>3, <1>4, <1>5

\* RingGet: the server has the oldest query.
LEMMA GetQueryStep == IInv /\ GetQuery => IInv'
<1> SUFFICES ASSUME IInv, GetQuery PROVE IInv'
  OBVIOUS
<1> USE DEF IInv
<1>1. /\ server = "get" /\ server' = "lookup" /\ buf # <<>>
      /\ got' = [got EXCEPT ![Server] = Head(buf)] /\ buf' = Tail(buf)
      /\ UNCHANGED <<opened, client, evt, mapping, users, hLastMapRequest, round,
                     failures, found, directory, unseen, changes, fileBuffer, hashTable, hMutex>>
  BY DEF GetQuery, Ring!Get, maps, counts, index
<1>2. buf \in Seq(Threads) /\ IsInjective(buf) /\ got \in [{Server} -> Threads \cup {NoThread}]
  BY DEF OneQuery, Typed
<1>3. /\ Head(buf) \in Threads /\ Head(buf) \in ToSet(buf)
      /\ buf' \in Seq(Threads) /\ IsInjective(buf')
      /\ ToSet(buf) = {Head(buf)} \cup ToSet(buf') /\ Head(buf) \notin ToSet(buf')
  BY <1>1, <1>2, HeadTailElements
<1>4. got'[Server] = Head(buf) /\ got' \in [{Server} -> Threads \cup {NoThread}]
  BY <1>1, <1>2, <1>3
<1>5. Typed'
  BY <1>1, <1>3, <1>4 DEF Typed
<1>6. Index'
  BY <1>1, IndexKept
<1>7. OneQuery'
  BY <1>1, <1>3, <1>4 DEF OneQuery, Served, Serving
<1>8. Whole'
  BY <1>1 DEF Whole, FindInBucket
<1>9. Current' /\ Kept'
  BY <1>1 DEF Current, UpToDate, Kept, Answered
<1>10. QED
  BY <1>5, <1>6, <1>7, <1>8, <1>9

\* The entry of the name that is asked for, as every entry of the table.
LEMMA FindFacts ==
    ASSUME Typed, Index, OneQuery, server \in Serving
    PROVE  /\ FindInBucket.items \in Seq(Paths) /\ IsInjective(FindInBucket.items)
           /\ FindInBucket.countItems = Len(FindInBucket.items)
<1>1. got[Server] \in Threads /\ QueryName[got[Server]] \in Names
  BY ServiceAssumption DEF OneQuery
<1>2. Clean(hashTable)
  <2>1. fileBuffer \o changes \in Seq(Note)
    BY DEF Typed
  <2>2. Len(fileBuffer \o changes) \in Nat
    BY <2>1
  <2>3. 0 \in 0 .. Len(fileBuffer \o changes)
    BY <2>2
  <2>4. QED
    BY <2>3 DEF Index, Entered, Entering
<1>3. QED
  BY <1>1, <1>2 DEF FindInBucket, Typed, Tables, Bucket, Clean

\* HashTableGet takes the mutex and the number of items.
LEMMA CountItemsStep == IInv /\ CountItems => IInv'
<1> SUFFICES ASSUME IInv, CountItems PROVE IInv'
  OBVIOUS
<1> USE DEF IInv
<1>1. /\ server = "lookup" /\ server' = "copy" /\ hMutex' = Server
      /\ found' = [NoAnswer EXCEPT !.count = FindInBucket.countItems]
      /\ UNCHANGED <<opened, buf, got, client, evt, mapping, users, hLastMapRequest, round,
                     failures, directory, unseen, changes, fileBuffer, hashTable>>
  BY DEF CountItems, ring, maps, counts
<1>2. found' \in Answers /\ found'.count = FindInBucket.countItems
  <2>1. /\ FindInBucket.items \in Seq(Paths)
        /\ FindInBucket.countItems = Len(FindInBucket.items)
    BY <1>1, FindFacts DEF Serving
  <2>2. FindInBucket.countItems \in Int
    BY <2>1
  <2>3. found' = [count |-> FindInBucket.countItems, paths |-> <<>>]
    BY <1>1 DEF NoAnswer
  <2> HIDE DEF FindInBucket
  <2>4. QED
    BY <2>2, <2>3 DEF Answers
<1>3. FindInBucket' = FindInBucket
  BY <1>1 DEF FindInBucket
<1>4. Typed'
  BY <1>1, <1>2 DEF Typed
<1>5. Index'
  BY <1>1, IndexKept
<1>6. OneQuery'
  BY <1>1 DEF OneQuery, Served, Serving
<1>7. Whole'
  BY <1>1, <1>2, <1>3 DEF Whole
<1>8. Current' /\ Kept'
  BY <1>1 DEF Current, UpToDate, Kept, Answered
<1>9. QED
  BY <1>4, <1>5, <1>6, <1>7, <1>8

\* The items are copied while nobody can change the table: they go with their number.
LEMMA CopyToArrayStep == IInv /\ CopyToArray => IInv'
<1> SUFFICES ASSUME IInv, CopyToArray PROVE IInv'
  OBVIOUS
<1> USE DEF IInv
<1>1. /\ server = "copy" /\ server' = "reply" /\ hMutex' = NoThread
      /\ found' = [found EXCEPT !.paths = FindInBucket.items]
      /\ UNCHANGED <<opened, buf, got, client, evt, mapping, users, hLastMapRequest, round,
                     failures, directory, unseen, changes, fileBuffer, hashTable>>
  BY DEF CopyToArray, ring, maps, counts
<1>2. found' \in Answers /\ WholeAnswer(found')
  <2>1. /\ FindInBucket.items \in Seq(Paths) /\ IsInjective(FindInBucket.items)
        /\ FindInBucket.countItems = Len(FindInBucket.items)
    BY <1>1, FindFacts DEF Serving
  <2>2. found \in Answers /\ found.count = FindInBucket.countItems
    BY <1>1 DEF Typed, Whole
  <2> HIDE DEF FindInBucket
  <2>3. /\ found' \in Answers /\ found'.count = FindInBucket.countItems
        /\ found'.paths = FindInBucket.items
    BY <1>1, <2>1, <2>2 DEF Answers
  <2>4. QED
    BY <2>1, <2>3 DEF WholeAnswer
<1>3. Typed'
  BY <1>1, <1>2 DEF Typed
<1>4. Index'
  BY <1>1, IndexKept
<1>5. OneQuery'
  BY <1>1 DEF OneQuery, Served, Serving
<1>6. Whole'
  BY <1>1, <1>2, DirectoryAssumption DEF Whole
<1>7. Current' /\ Kept'
  BY <1>1 DEF Current, UpToDate, Kept, Answered
<1>8. QED
  BY <1>3, <1>4, <1>5, <1>6, <1>7

\* The answer is written into the mapping of the thread that asked.
LEMMA ReplyStep == IInv /\ Reply => IInv'
<1> SUFFICES ASSUME IInv, Reply PROVE IInv'
  OBVIOUS
<1> USE DEF IInv
<1> DEFINE t == got[Server]
<1>1. /\ server = "reply" /\ server' = "signal" /\ found' = NoAnswer
      /\ mapping' = [mapping EXCEPT ![t] = WriteAnswer(@, round[t])]
      /\ users' = [users EXCEPT ![t] = @ \cup {Server}]
      /\ UNCHANGED <<opened, buf, got, client, evt, hLastMapRequest, round, failures,
                     directory, unseen, changes, fileBuffer, hashTable, hMutex>>
  BY DEF Reply, ring, counts, index
<1>2. t \in Threads /\ WholeAnswer(found) /\ found \in Answers /\ round[t] \in Nat
  BY <1>1 DEF OneQuery, Serving, Whole, Typed
<1> DEFINE m == WriteAnswer(mapping[t], round[t])
<1>3. /\ m \in Mappings /\ WholeOrHidden(m.answer)
      /\ m.query = round[t] /\ (m.answer.count # 0 => m.pathsOf = round[t])
  <2>1. mapping[t] \in Mappings /\ WholeOrHidden(mapping[t].answer)
    BY <1>2 DEF Typed, Whole
  <2> HIDE DEF t
  <2>2. CASE found = NoAnswer
    <3>1. m = [mapping[t] EXCEPT !.query = round[t], !.answer.count = 0]
      BY <2>2 DEF WriteAnswer
    <3>2. m = [query |-> round[t], pathsOf |-> mapping[t].pathsOf,
               answer |-> [count |-> 0, paths |-> mapping[t].answer.paths]]
      BY <2>1, <3>1 DEF Mappings, Answers
    <3> HIDE DEF m
    <3>3. QED
      BY <1>2, <2>1, <3>2 DEF Mappings, Answers, WholeOrHidden
  <2>3. CASE found # NoAnswer
    <3>1. m = [query |-> round[t], pathsOf |-> round[t], answer |-> found]
      BY <2>3 DEF WriteAnswer
    <3> HIDE DEF m
    <3>2. QED
      BY <1>2, <3>1 DEF Mappings, WholeAnswer, WholeOrHidden
  <2>4. QED
    BY <2>2, <2>3
<1> HIDE DEF m
<1>4. /\ mapping'[t] = m
      /\ users'[t] = users[t] \cup {Server}
      /\ \A u \in Threads \ {t} : mapping'[u] = mapping[u] /\ users'[u] = users[u]
      /\ got'[Server] = t
  BY <1>1, <1>2 DEF Typed, m
<1>5. Typed'
  <2>1. NoAnswer \in Answers
    BY DEF NoAnswer, Answers
  <2>2. mapping' \in [Threads -> Mappings]
    BY <1>1, <1>3 DEF Typed, m
  <2>3. users' \in [Threads -> SUBSET (Threads \cup {Server})]
    BY <1>1, <1>2 DEF Typed
  <2>4. QED
    BY <1>1, <2>1, <2>2, <2>3 DEF Typed
<1> HIDE DEF t
<1>6. Index'
  BY <1>1, IndexKept
<1>7. OneQuery'
  BY <1>1 DEF OneQuery, Served, Serving
<1>8. Whole'
  <2>1. \A u \in Threads : WholeOrHidden(mapping'[u].answer)
    BY <1>3, <1>4 DEF Whole
  <2>2. QED
    BY <1>1, <2>1 DEF Whole
<1>9. Current'
  <2>1. \A u \in Threads \ {t} : Answered(u)' => Answered(u)
    BY <1>1, <1>4 DEF Answered
  <2>2. \A u \in Threads : client'[u] = "read" => u \in users'[u]
    BY <1>1, <1>4 DEF Current
  <2>3. QED
    BY <1>1, <1>3, <1>4, <2>1, <2>2 DEF Current, UpToDate
<1>10. Kept'
  <2>1. Server \in users'[got'[Server]]
    BY <1>4
  <2>2. hLastMapRequest # NoThread => hLastMapRequest \in Threads /\ Server \in users[hLastMapRequest]
    BY DEF Typed, Kept
  <2>3. QED
    BY <1>1, <1>4, <2>1, <2>2 DEF Kept
<1>11. QED
  BY <1>5, <1>6, <1>7, <1>8, <1>9, <1>10

\* The mapping could not be made.
LEMMA ReplyFailsStep == IInv /\ ReplyFails => IInv'
<1> SUFFICES ASSUME IInv, ReplyFails PROVE IInv'
  OBVIOUS
<1> USE DEF IInv
<1> DEFINE t == got[Server]
<1>1. /\ server = "reply" /\ server' = "ended" /\ found' = NoAnswer
      /\ failures' = failures + 1 /\ evt' = [evt EXCEPT ![t] = TRUE]
      /\ UNCHANGED <<opened, buf, got, client, mapping, users, hLastMapRequest, round,
                     directory, unseen, changes, fileBuffer, hashTable, hMutex>>
  BY DEF ReplyFails, ring, maps, index
<1>2. t \in Threads /\ Served(t)
  BY <1>1 DEF OneQuery, Serving, Served
<1>3. client[t] = "wait" /\ t \notin ToSet(buf)
  BY <1>2 DEF OneQuery
<1>4. evt' \in [Threads -> BOOLEAN] /\ \A u \in Threads \ {t} : evt'[u] = evt[u]
  BY <1>1, <1>2 DEF Typed
<1> HIDE DEF t
<1>5. Typed'
  <2>1. NoAnswer \in Answers
    BY DEF NoAnswer, Answers
  <2>2. QED
    BY <1>1, <1>4, <2>1 DEF Typed
<1>6. Index'
  BY <1>1, IndexKept
<1>7. OneQuery'
  BY <1>1, <1>3, <1>4 DEF OneQuery, Served, Serving
<1>8. Whole'
  BY <1>1 DEF Whole
<1>9. Current' /\ Kept'
  <2>1. failures' # 0
    BY <1>1 DEF Typed
  <2>2. QED
    BY <1>1, <2>1 DEF Current, Kept
<1>10. QED
  BY <1>5, <1>6, <1>7, <1>8, <1>9

\* The mapping could not be viewed.
LEMMA ViewFailsStep == IInv /\ ViewFails => IInv'
<1> SUFFICES ASSUME IInv, ViewFails PROVE IInv'
  OBVIOUS
<1> USE DEF IInv
<1> DEFINE t == got[Server]
<1>1. /\ server = "reply" /\ server' = "fail" /\ found' = NoAnswer
      /\ failures' = failures + 1 /\ evt' = [evt EXCEPT ![t] = TRUE]
      /\ users' = [users EXCEPT ![t] = @ \cup {Server}]
      /\ UNCHANGED <<opened, buf, got, client, mapping, hLastMapRequest, round,
                     directory, unseen, changes, fileBuffer, hashTable, hMutex>>
  BY DEF ViewFails, ring, index
<1>2. t \in Threads /\ Served(t)
  BY <1>1 DEF OneQuery, Serving, Served
<1>3. client[t] = "wait" /\ t \notin ToSet(buf)
  BY <1>2 DEF OneQuery
<1>4. /\ evt' \in [Threads -> BOOLEAN] /\ \A u \in Threads \ {t} : evt'[u] = evt[u]
      /\ users' \in [Threads -> SUBSET (Threads \cup {Server})]
      /\ \A u \in Threads : users[u] \subseteq users'[u]
      /\ got'[Server] = t
  <2>1. evt' \in [Threads -> BOOLEAN] /\ \A u \in Threads \ {t} : evt'[u] = evt[u]
    BY <1>1, <1>2 DEF Typed
  <2>2. users'[t] = users[t] \cup {Server} /\ \A u \in Threads \ {t} : users'[u] = users[u]
    BY <1>1, <1>2 DEF Typed
  <2>3. users' \in [Threads -> SUBSET (Threads \cup {Server})]
    BY <1>1, <1>2 DEF Typed
  <2>4. got'[Server] = t
    BY <1>1
  <2> HIDE DEF t
  <2>5. QED
    BY <2>1, <2>2, <2>3, <2>4
<1> HIDE DEF t
<1>5. Typed'
  <2>1. NoAnswer \in Answers
    BY DEF NoAnswer, Answers
  <2>2. QED
    BY <1>1, <1>4, <2>1 DEF Typed
<1>6. Index'
  BY <1>1, IndexKept
<1>7. OneQuery'
  BY <1>1, <1>2, <1>3, <1>4 DEF OneQuery, Served, Serving
<1>8. Whole'
  BY <1>1 DEF Whole
<1>9. Current' /\ Kept'
  <2>1. failures' # 0
    BY <1>1 DEF Typed
  <2>2. hLastMapRequest # NoThread => hLastMapRequest \in Threads
    BY DEF Typed
  <2>3. \A u \in Threads : client'[u] = "read" => u \in users'[u]
    BY <1>1, <1>4 DEF Current
  <2>4. QED
    BY <1>1, <1>4, <2>1, <2>2, <2>3 DEF Current, Kept
<1>10. QED
  BY <1>5, <1>6, <1>7, <1>8, <1>9

\* The server closes the mapping that it could not view; its last answer stays open.
LEMMA CloseMapRequestStep == IInv /\ CloseMapRequest => IInv'
<1> SUFFICES ASSUME IInv, CloseMapRequest PROVE IInv'
  OBVIOUS
<1> USE DEF IInv
<1>1. /\ server = "fail" /\ server' = "ended"
      /\ users' = IF hLastMapRequest = got[Server] THEN users
                  ELSE Drop(users, got[Server], Server)
      /\ mapping' = Left(users')
      /\ UNCHANGED <<opened, buf, got, client, evt, hLastMapRequest, round, failures, found,
                     directory, unseen, changes, fileBuffer, hashTable, hMutex>>
  BY DEF CloseMapRequest, ring, counts, index
<1>2. /\ got[Server] \in Threads /\ hLastMapRequest \in Threads \cup {NoThread}
      /\ users \in [Threads -> SUBSET (Threads \cup {Server})]
      /\ Server \notin Threads
  BY <1>1, ServiceAssumption DEF OneQuery, Typed
<1>3. /\ users' \in [Threads -> SUBSET (Threads \cup {Server})]
      /\ \A u \in Threads : \A q : q \in users'[u] => q \in users[u]
      /\ \A u, q \in Threads : q \in users[u] => q \in users'[u]
      /\ hLastMapRequest # NoThread =>
            (Server \in users[hLastMapRequest] => Server \in users'[hLastMapRequest])
  <2>1. CASE hLastMapRequest = got[Server]
    BY <1>1, <1>2, <2>1
  <2>2. CASE hLastMapRequest # got[Server]
    <3>1. users' = Drop(users, got[Server], Server)
      BY <1>1, <2>2
    <3>2. /\ users' \in [Threads -> SUBSET (Threads \cup {Server})]
          /\ \A u \in Threads : \A q :
                q \in users'[u] <=> q \in users[u] /\ (u = got[Server] => q # Server)
      BY <1>2, <3>1, DropFacts
    <3>3. QED
      BY <1>2, <2>2, <3>2
  <2>3. QED
    BY <2>1, <2>2
<1>4. /\ mapping' \in [Threads -> Mappings]
      /\ \A u \in Threads : WholeOrHidden(mapping'[u].answer)
      /\ \A u \in Threads : users'[u] # {} => mapping'[u] = mapping[u]
  BY <1>1, <1>2, <1>3, DropFacts
<1>5. Typed'
  BY <1>1, <1>2, <1>3, <1>4 DEF Typed
<1>6. Index'
  BY <1>1, IndexKept
<1>7. OneQuery' /\ Whole'
  BY <1>1, <1>4 DEF OneQuery, Whole, Served, Serving
<1>8. Current'
  <2>1. \A u \in Threads : /\ Answered(u)' => Answered(u)
                           /\ users'[u] # {} => users[u] # {}
    BY <1>1, <1>3 DEF Answered
  <2>2. \A u \in Threads : client'[u] = "read" => u \in users'[u]
    BY <1>1, <1>3 DEF Current
  <2>3. QED
    BY <1>1, <1>4, <2>1, <2>2 DEF Current, UpToDate
<1>9. Kept'
  BY <1>1, <1>3 DEF Kept
<1>10. QED
  BY <1>5, <1>6, <1>7, <1>8, <1>9

\* SetEvent: the answer is announced.
LEMMA SignalEvtStep == IInv /\ SignalEvt => IInv'
<1> SUFFICES ASSUME IInv, SignalEvt PROVE IInv'
  OBVIOUS
<1> USE DEF IInv
<1> DEFINE t == got[Server]
<1>1. /\ server = "signal" /\ server' = "retire" /\ evt' = [evt EXCEPT ![t] = TRUE]
      /\ UNCHANGED <<opened, buf, got, client, mapping, users, hLastMapRequest, round,
                     failures, found, directory, unseen, changes, fileBuffer, hashTable, hMutex>>
  BY DEF SignalEvt, ring, maps, counts, index
<1>2. t \in Threads /\ Served(t) /\ Answered(t)
  BY <1>1 DEF OneQuery, Serving, Served, Answered
<1>3. client[t] = "wait" /\ t \notin ToSet(buf)
  BY <1>2 DEF OneQuery
<1>4. evt' \in [Threads -> BOOLEAN] /\ \A u \in Threads \ {t} : evt'[u] = evt[u]
  BY <1>1, <1>2 DEF Typed
<1>5. got[Server] = t
  OBVIOUS
<1> HIDE DEF t
<1>6. Typed'
  BY <1>1, <1>4 DEF Typed
<1>7. Index'
  BY <1>1, IndexKept
<1>8. OneQuery'
  BY <1>1, <1>2, <1>3, <1>4, <1>5 DEF OneQuery, Served, Serving
<1>9. Whole'
  BY <1>1 DEF Whole
<1>10. Current'
  <2>1. \A u \in Threads : Answered(u)' => Answered(u)
    BY <1>1, <1>2, <1>4, <1>5 DEF Answered
  <2>2. QED
    BY <1>1, <2>1 DEF Current, UpToDate
<1>11. Kept'
  BY <1>1 DEF Kept
<1>12. QED
  BY <1>6, <1>7, <1>8, <1>9, <1>10, <1>11

\* The server lets go of its answer before the last.
LEMMA RetireStep == IInv /\ Retire => IInv'
<1> SUFFICES ASSUME IInv, Retire PROVE IInv'
  OBVIOUS
<1> USE DEF IInv
<1>1. /\ server = "retire" /\ server' = "check" /\ hLastMapRequest' = got[Server]
      /\ users' = IF hLastMapRequest = got[Server] THEN users
                  ELSE Drop(users, hLastMapRequest, Server)
      /\ mapping' = Left(users')
      /\ UNCHANGED <<opened, buf, got, client, evt, round, failures, found,
                     directory, unseen, changes, fileBuffer, hashTable, hMutex>>
  BY DEF Retire, ring, counts, index
<1>2. /\ got[Server] \in Threads /\ hLastMapRequest \in Threads \cup {NoThread}
      /\ users \in [Threads -> SUBSET (Threads \cup {Server})]
      /\ Server \notin Threads
  BY <1>1, ServiceAssumption DEF OneQuery, Typed
<1>3. /\ users' \in [Threads -> SUBSET (Threads \cup {Server})]
      /\ \A u \in Threads : \A q : q \in users'[u] =>  q \in users[u]
      /\ \A u, q \in Threads : q \in users[u] =>  q \in users'[u]
      /\ Server \in users[got[Server]] => Server \in users'[got[Server]]
  <2>1. CASE hLastMapRequest = got[Server]
    BY <1>1, <1>2, <2>1
  <2>2. CASE hLastMapRequest # got[Server]
    <3>1. users' = Drop(users, hLastMapRequest, Server)
      BY <1>1, <2>2
    <3>2. /\ users' \in [Threads -> SUBSET (Threads \cup {Server})]
          /\ \A u \in Threads : \A q :
                q \in users'[u] <=> q \in users[u] /\ (u = hLastMapRequest => q # Server)
      BY <1>2, <3>1, DropFacts
    <3>3. QED
      BY <1>2, <2>2, <3>2
  <2>3. QED
    BY <2>1, <2>2
<1>4. /\ mapping' \in [Threads -> Mappings]
      /\ \A u \in Threads : WholeOrHidden(mapping'[u].answer)
      /\ \A u \in Threads : users'[u] # {} => mapping'[u] = mapping[u]
  BY <1>1, <1>2, <1>3, DropFacts
<1>5. Typed'
  BY <1>1, <1>2, <1>3, <1>4 DEF Typed
<1>6. Index'
  BY <1>1, IndexKept
<1>7. OneQuery' /\ Whole'
  BY <1>1, <1>4 DEF OneQuery, Whole, Served, Serving
<1>8. Current'
  <2>1. \A u \in Threads : /\ Answered(u)' => Answered(u)
                           /\ users'[u] # {} => users[u] # {}
    BY <1>1, <1>3 DEF Answered
  <2>2. \A u \in Threads : client'[u] = "read" => u \in users'[u]
    BY <1>1, <1>3 DEF Current
  <2>3. QED
    BY <1>1, <1>4, <2>1, <2>2 DEF Current, UpToDate
<1>9. Kept'
  BY <1>1, <1>3 DEF Kept
<1>10. QED
  BY <1>5, <1>6, <1>7, <1>8, <1>9

\* The server's process is over, and what it had open is closed.
LEMMA ServerExitStep == IInv /\ ServerExit => IInv'
<1> SUFFICES ASSUME IInv, ServerExit PROVE IInv'
  OBVIOUS
<1> USE DEF IInv
<1>1. /\ server = "ended" /\ server' = "gone" /\ hLastMapRequest' = NoThread
      /\ users' = Drop(users, hLastMapRequest, Server)
      /\ mapping' = Left(users')
      /\ UNCHANGED <<opened, buf, got, client, evt, round, failures, found,
                     directory, unseen, changes, fileBuffer, hashTable, hMutex>>
  BY DEF ServerExit, ring, counts, index
<1>2. hLastMapRequest \in Threads \cup {NoThread} /\ Server \notin Threads
  BY ServiceAssumption DEF Typed
<1>3. /\ users' \in [Threads -> SUBSET (Threads \cup {Server})]
      /\ \A u \in Threads : \A q :
            q \in users'[u] <=> q \in users[u] /\ (u = hLastMapRequest => q # Server)
  BY <1>1, <1>2, DropFacts, ZenonT(30)
<1>4. /\ mapping' \in [Threads -> Mappings]
      /\ \A u \in Threads : WholeOrHidden(mapping'[u].answer)
      /\ \A u \in Threads : users'[u] # {} => mapping'[u] = mapping[u]
  BY <1>1, <1>2, <1>3, DropFacts
<1>5. Typed'
  BY <1>1, <1>3, <1>4 DEF Typed
<1>6. Index'
  BY <1>1, IndexKept
<1>7. OneQuery' /\ Whole'
  BY <1>1, <1>4 DEF OneQuery, Whole, Served, Serving
<1>8. Current'
  <2>1. \A u \in Threads : /\ Answered(u)' => Answered(u)
                           /\ users'[u] # {} => users[u] # {}
    BY <1>1, <1>3 DEF Answered
  <2>2. \A u \in Threads : client'[u] = "read" => u \in users'[u]
    BY <1>1, <1>2, <1>3 DEF Current
  <2>3. QED
    BY <1>1, <1>4, <2>1, <2>2 DEF Current, UpToDate
<1>9. Kept'
  BY <1>1 DEF Kept
<1>10. QED
  BY <1>5, <1>6, <1>7, <1>8, <1>9

\* StopIndexer, the monitor and the users of the directory; the table changes only while
\* nobody looks into it.
LEMMA OtherSteps == IInv /\ (StopIndexer \/ Monitor \/ Users) => IInv'
<1> SUFFICES ASSUME IInv, StopIndexer \/ Monitor \/ Users PROVE IInv'
  OBVIOUS
<1> USE DEF IInv
<1>1. /\ opened' \in BOOLEAN
      /\ UNCHANGED <<buf, got, server, client, evt, mapping, users, hLastMapRequest, round,
                     failures, found>>
  BY DEF Typed, StopIndexer, Monitor, Users, ring, maps, counts
<1>2. /\ directory' \in SUBSET Paths /\ unseen' \in SUBSET directory'
      /\ changes' \in Seq(Note) /\ fileBuffer' \in Seq(Note) /\ hashTable' \in Tables
      /\ hMutex' = hMutex
      /\ hMutex = NoThread \/ UNCHANGED hashTable
      /\ Index'
  <2>1. CASE StopIndexer
    BY <2>1, IndexKept DEF StopIndexer, Typed, index
  <2>2. CASE Monitor
    BY <2>2, NotifyFacts DEF Monitor, Typed
  <2>3. CASE Users
    BY <2>3, ChangeFacts DEF Users, Typed
  <2>4. QED
    BY <2>1, <2>2, <2>3
<1>3. Typed'
  BY <1>1, <1>2 DEF Typed
<1>4. Whole'
  BY <1>1, <1>2, DirectoryAssumption DEF Whole, FindInBucket
<1>5. OneQuery' /\ Current' /\ Kept'
  BY <1>1 DEF OneQuery, Current, UpToDate, Kept, Served, Answered
<1>6. QED
  BY <1>2, <1>3, <1>4, <1>5

\* Every step keeps the invariant.
LEMMA NextIInv == IInv /\ [Next]_vars => IInv'
<1> SUFFICES ASSUME IInv, [Next]_vars PROVE IInv'
  OBVIOUS
<1>1. CASE UNCHANGED vars
  <2>1. UNCHANGED <<opened, buf, got, server, client, evt, found, mapping, users,
                    hLastMapRequest, round, failures, directory, unseen, changes, fileBuffer,
                    hashTable, hMutex>>
    BY <1>1 DEF vars, index
  <2>2. Typed' /\ Index' /\ OneQuery'
    BY <2>1 DEF IInv, Typed, Index, OneQuery, Served
  <2>3. Whole' /\ Current' /\ Kept'
    BY <2>1 DEF IInv, Whole, FindInBucket, Current, UpToDate, Answered, Kept
  <2>4. QED
    BY <2>2, <2>3 DEF IInv
<1>2. CASE ProcessNextQuery
  BY <1>2, CheckOpenedStep, GetQueryStep, CountItemsStep, CopyToArrayStep, ReplyStep,
     ReplyFailsStep, ViewFailsStep, CloseMapRequestStep, SignalEvtStep, RetireStep DEF ProcessNextQuery
<1>3. CASE ServerExit \/ StopIndexer \/ Monitor \/ Users
  BY <1>3, ServerExitStep, OtherSteps
<1>4. ASSUME NEW t \in Threads, Query(t) PROVE IInv'
  BY <1>4, OpenFileIndexerStep, QueryCountStep, PutQueryStep, WaitEvtStep, OpenAnswerStep,
     ReadAnswerStep DEF Query
<1>5. QED
  BY <1>1, <1>2, <1>3, <1>4 DEF Next

(***************************************************************************)
(* The theorems.                                                           *)
(***************************************************************************)

\* The inductive invariant holds in every state of the service.
THEOREM IInvHolds == Spec => []IInv
<1>1. QED
  BY InitIInv, NextIInv, PTL DEF Spec

\* What the monitor has still to enter brings the table to what is in the directory, each
\* path once and under its own name: for every way the changes fall into batches
\* (FileNotifyInfo, ProcessNotifyInfos), and whatever the server does meanwhile.
THEOREM IndexConsistentAlways == Spec => []IndexConsistent
<1>1. IInv => IndexConsistent
  <2> SUFFICES ASSUME IInv PROVE IndexConsistent
    OBVIOUS
  <2> DEFINE s == fileBuffer \o changes
  <2>1. hashTable \in Tables /\ s \in Seq(Note)
    BY DEF IInv, Typed
  <2>2. PICK f : /\ Entering(hashTable, s, f)
                 /\ \A i \in 0 .. Len(s) : Clean(f[i])
                 /\ Contents(f[Len(s)]) = directory \ unseen
    BY DEF IInv, Index, Entered
  <2>3. FoldLeft(OperName, hashTable, s) = f[Len(s)]
    <3> HIDE DEF s
    <3> QED
      BY <2>1, <2>2, FoldEntries
  <2>4. Len(s) \in 0 .. Len(s)
    BY <2>1
  <2>5. QED
    BY <2>2, <2>3, <2>4 DEF IndexConsistent, Clean
<1>2. QED
  BY <1>1, IInvHolds, PTL

\* As long as every mapping could be made, a thread is shown the answer to its last query
\* and never an older one: not the count left in the mapping that all its queries share,
\* and not the paths that a query which found nothing leaves behind the count 0
\* (ProcessNextQuery, QueryCount, AnswerResultToQueryEnum, NextResult).
THEOREM AnswerIsCurrentAlways == Spec => []AnswerIsCurrent
<1>1. IInv => AnswerIsCurrent
  <2> SUFFICES ASSUME IInv, failures = 0, NEW t \in Threads, client[t] = "read"
               PROVE  /\ mapping[t].query = round[t]
                      /\ Shown(mapping[t].answer) # <<>> => mapping[t].pathsOf = round[t]
    BY DEF AnswerIsCurrent
  <2>1. UpToDate(t)
    BY DEF IInv, Current, Answered
  <2>2. mapping[t].answer.paths \in Seq(Paths)
    BY DEF IInv, Typed, Mappings, Answers
  <2>3. mapping[t].answer.count = 0 => Shown(mapping[t].answer) = <<>>
    BY <2>2 DEF Shown
  <2>4. QED
    BY <2>1, <2>3 DEF UpToDate
<1>2. QED
  BY <1>1, IInvHolds, PTL

\* What a thread is shown is none of the paths in its mapping or all of them, and then
\* they are the table's content of one moment, each once (HashTableGet, under the
\* service's mutex).
THEOREM AnswerIsWholeAlways == Spec => []AnswerIsWhole
<1>1. IInv => AnswerIsWhole
  <2> SUFFICES ASSUME IInv, NEW t \in Threads, client[t] = "read"
               PROVE  /\ mapping[t].answer.count \in {0, Len(mapping[t].answer.paths)}
                      /\ IsInjective(Shown(mapping[t].answer))
    BY DEF AnswerIsWhole
  <2> DEFINE answer == mapping[t].answer
  <2>1. WholeOrHidden(answer) /\ answer.paths \in Seq(Paths)
    BY DEF IInv, Typed, Mappings, Answers, Whole
  <2> HIDE DEF answer
  <2>2. Shown(answer) \in {<<>>, answer.paths}
    <3>1. CASE answer.count = 0
      BY <2>1, <3>1 DEF Shown
    <3>2. CASE answer.count = Len(answer.paths)
      <4>1. SubSeq(answer.paths, 1, Len(answer.paths)) = answer.paths
        BY <2>1
      <4>2. QED
        BY <3>2, <4>1 DEF Shown
    <3>3. QED
      BY <2>1, <3>1, <3>2 DEF WholeOrHidden
  <2>3. IsInjective(<<>>)
    BY DEF IsInjective
  <2>4. QED
    BY <2>1, <2>2, <2>3 DEF WholeOrHidden, answer
<1>2. QED
  BY <1>1, IInvHolds, PTL

\* The server's last answer stays open: a thread that was told of it and comes before the
\* next answer finds it (hLastMapRequest in ProcessNextQuery).
THEOREM AnswerKeptAlways == Spec => []AnswerKept
<1>1. IInv => AnswerKept
  BY ServiceAssumption DEF IInv, Typed, Kept, AnswerKept
<1>2. QED
  BY <1>1, IInvHolds, PTL
=============================================================================
