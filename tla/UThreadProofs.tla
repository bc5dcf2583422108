--------------------------- MODULE UThreadProofs ---------------------------
(***************************************************************************)
(* Theorems about UThread for any number of threads, any programs and any  *)
(* bounds: the types, that a thread is in exactly one place, that none is  *)
(* lost or reachable after it was freed, that NumberOfThreads counts the   *)
(* threads that are left, that the sleep queue is sorted and a sleeper is  *)
(* not woken early, that only the exit of the thread it joined lets a      *)
(* joiner go, and that UtRun ends when all threads have.                   *)
(***************************************************************************)
EXTENDS UThread, DataLemmas

ThreadsOf(q) == {q[i].thread : i \in DOMAIN q}
JoinersOf(q) == {q[i].joiner : i \in DOMAIN q}
DistinctThreads(q) == \A i, j \in DOMAIN q : q[i].thread = q[j].thread => i = j
DistinctJoiners(q) == \A i, j \in DOMAIN q : q[i].joiner = q[j].joiner => i = j

(***************************************************************************)
(* The list operations and the sets of threads the lists hold.             *)
(***************************************************************************)

\* UtActivate and UtYield add one thread behind the ready ones.
LEMMA ReadyAppend ==
    ASSUME NEW q \in Seq(Threads), NEW t \in Threads
    PROVE  /\ Append(q, t) \in Seq(Threads)
           /\ ToSet(Append(q, t)) = ToSet(q) \cup {t}
           /\ IsInjective(q) /\ t \notin ToSet(q) => IsInjective(Append(q, t))
<1> DEFINE r == Append(q, t)
           n == Len(q)
           f == [j \in 1 .. n |-> q[j]]
           g == [j \in 1 .. n + 1 |-> r[j]]
<1>a. Len(q) \in Nat
  OBVIOUS
<1>1. /\ r \in Seq(Threads) /\ Len(r) = n + 1 /\ n \in Nat
      /\ Inserted(q, r, n, n + 1, t)
  BY <1>a, AppendFacts
<1> HIDE DEF r, n
<1>2. DOMAIN r = 1 .. n + 1 /\ DOMAIN q = 1 .. n
  BY <1>1 DEF n
<1>3. n + 1 \in 1 .. n + 1
  BY <1>1
<1>4. Inserted(f, g, n, n + 1, t)
  BY <1>1 DEF Inserted
<1>5. /\ ToSet(r) = ValuesOf(g, n + 1) /\ ToSet(q) = ValuesOf(f, n)
      /\ IsInjective(r) <=> AllDifferent(g, n + 1)
      /\ IsInjective(q) <=> AllDifferent(f, n)
  BY <1>2 DEF ValuesOf, AllDifferent, ToSet, IsInjective
<1> HIDE DEF f, g
<1>6. /\ ValuesOf(g, n + 1) = ValuesOf(f, n) \cup {t}
      /\ AllDifferent(g, n + 1) <=> AllDifferent(f, n) /\ t \notin ValuesOf(f, n)
  BY <1>1, <1>3, <1>4, InsertImage
<1>7. ToSet(r) = ToSet(q) \cup {t}
  BY <1>5, <1>6
<1>8. IsInjective(q) /\ t \notin ToSet(q) => IsInjective(r)
  BY <1>5, <1>6
<1>9. QED
  BY <1>1, <1>7, <1>8 DEF r

\* WakeSleepThread adds one thread in front of the ready ones.
LEMMA ReadyCons ==
    ASSUME NEW q \in Seq(Threads), NEW t \in Threads
    PROVE  /\ Cons(t, q) \in Seq(Threads)
           /\ ToSet(Cons(t, q)) = ToSet(q) \cup {t}
           /\ IsInjective(q) /\ t \notin ToSet(q) => IsInjective(Cons(t, q))
<1> DEFINE r == Cons(t, q)
           n == Len(q)
           f == [j \in 1 .. n |-> q[j]]
           g == [j \in 1 .. n + 1 |-> r[j]]
<1>a. Len(q) \in Nat
  OBVIOUS
<1>1. /\ r \in Seq(Threads) /\ Len(r) = n + 1 /\ n \in Nat
      /\ Inserted(q, r, n, 1, t)
  BY <1>a, ConsFacts
<1> HIDE DEF r, n
<1>2. DOMAIN r = 1 .. n + 1 /\ DOMAIN q = 1 .. n
  BY <1>1 DEF n
<1>3. 1 \in 1 .. n + 1
  BY <1>1
<1>4. Inserted(f, g, n, 1, t)
  BY <1>1 DEF Inserted
<1>5. /\ ToSet(r) = ValuesOf(g, n + 1) /\ ToSet(q) = ValuesOf(f, n)
      /\ IsInjective(r) <=> AllDifferent(g, n + 1)
      /\ IsInjective(q) <=> AllDifferent(f, n)
  BY <1>2 DEF ValuesOf, AllDifferent, ToSet, IsInjective
<1> HIDE DEF f, g
<1>6. /\ ValuesOf(g, n + 1) = ValuesOf(f, n) \cup {t}
      /\ AllDifferent(g, n + 1) <=> AllDifferent(f, n) /\ t \notin ValuesOf(f, n)
  BY <1>1, <1>3, <1>4, InsertImage
<1>7. ToSet(r) = ToSet(q) \cup {t}
  BY <1>5, <1>6
<1>8. IsInjective(q) /\ t \notin ToSet(q) => IsInjective(r)
  BY <1>5, <1>6
<1>9. QED
  BY <1>1, <1>7, <1>8 DEF r

\* UtSleep puts one block somewhere into the sleep queue.
LEMMA SleepInsert ==
    ASSUME NEW q \in Seq(SleepBlock), NEW e \in SleepBlock, NEW i \in 1 .. Len(q) + 1
    PROVE  /\ InsertAt(q, i, e) \in Seq(SleepBlock)
           /\ ThreadsOf(InsertAt(q, i, e)) = ThreadsOf(q) \cup {e.thread}
           /\ DistinctThreads(q) /\ e.thread \notin ThreadsOf(q) => DistinctThreads(InsertAt(q, i, e))
<1> DEFINE r == InsertAt(q, i, e)
           n == Len(q)
           f == [j \in 1 .. n |-> q[j].thread]
           g == [j \in 1 .. n + 1 |-> r[j].thread]
<1>a. Len(q) \in Nat
  OBVIOUS
<1>1. /\ r \in Seq(SleepBlock) /\ Len(r) = n + 1 /\ n \in Nat
      /\ Inserted(q, r, n, i, e)
  BY <1>a, InsertAtFacts
<1> HIDE DEF r, n
<1>2. DOMAIN r = 1 .. n + 1 /\ DOMAIN q = 1 .. n
  BY <1>1 DEF n
<1>3. i \in 1 .. n + 1
  BY <1>1 DEF n
<1>4. Inserted(f, g, n, i, e.thread)
  <2>1. ASSUME NEW j \in 1 .. n + 1
        PROVE  g[j] = IF j < i THEN f[j] ELSE IF j = i THEN e.thread ELSE f[j - 1]
    <3>1. CASE j < i
      <4>1. j \in 1 .. n /\ r[j] = q[j]
        BY <1>1, <1>3, <3>1 DEF Inserted
      <4>2. QED
        BY <3>1, <4>1
    <3>2. CASE j = i
      BY <1>1, <3>2 DEF Inserted
    <3>3. CASE j > i
      <4>1. j - 1 \in 1 .. n /\ r[j] = q[j - 1]
        BY <1>1, <1>3, <3>3 DEF Inserted
      <4>2. QED
        BY <1>3, <3>3, <4>1
    <3>4. QED
      BY <1>3, <3>1, <3>2, <3>3
  <2>2. QED
    BY <2>1 DEF Inserted
<1>5. /\ ThreadsOf(r) = ValuesOf(g, n + 1) /\ ThreadsOf(q) = ValuesOf(f, n)
      /\ DistinctThreads(r) <=> AllDifferent(g, n + 1)
      /\ DistinctThreads(q) <=> AllDifferent(f, n)
  BY <1>2 DEF ValuesOf, AllDifferent, ThreadsOf, DistinctThreads
<1> HIDE DEF f, g
<1>6. /\ ValuesOf(g, n + 1) = ValuesOf(f, n) \cup {e.thread}
      /\ AllDifferent(g, n + 1) <=> AllDifferent(f, n) /\ e.thread \notin ValuesOf(f, n)
  BY <1>1, <1>3, <1>4, InsertImage
<1>7. ThreadsOf(r) = ThreadsOf(q) \cup {e.thread}
  BY <1>5, <1>6
<1>8. DistinctThreads(q) /\ e.thread \notin ThreadsOf(q) => DistinctThreads(r)
  BY <1>5, <1>6
<1>9. QED
  BY <1>1, <1>7, <1>8 DEF r

\* WaitInJoin puts one block in front of the wait queue.
LEMMA WaitCons ==
    ASSUME NEW q \in Seq(WaitBlock), NEW e \in WaitBlock
    PROVE  /\ Cons(e, q) \in Seq(WaitBlock)
           /\ JoinersOf(Cons(e, q)) = JoinersOf(q) \cup {e.joiner}
           /\ DistinctJoiners(q) /\ e.joiner \notin JoinersOf(q) => DistinctJoiners(Cons(e, q))
<1> DEFINE r == Cons(e, q)
           n == Len(q)
           f == [j \in 1 .. n |-> q[j].joiner]
           g == [j \in 1 .. n + 1 |-> r[j].joiner]
<1>a. Len(q) \in Nat
  OBVIOUS
<1>1. /\ r \in Seq(WaitBlock) /\ Len(r) = n + 1 /\ n \in Nat
      /\ Inserted(q, r, n, 1, e)
  BY <1>a, ConsFacts
<1> HIDE DEF r, n
<1>2. DOMAIN r = 1 .. n + 1 /\ DOMAIN q = 1 .. n
  BY <1>1 DEF n
<1>3. 1 \in 1 .. n + 1
  BY <1>1
<1>4. Inserted(f, g, n, 1, e.joiner)
  BY <1>1 DEF Inserted
<1>5. /\ JoinersOf(r) = ValuesOf(g, n + 1) /\ JoinersOf(q) = ValuesOf(f, n)
      /\ DistinctJoiners(r) <=> AllDifferent(g, n + 1)
      /\ DistinctJoiners(q) <=> AllDifferent(f, n)
  BY <1>2 DEF ValuesOf, AllDifferent, JoinersOf, DistinctJoiners
<1> HIDE DEF f, g
<1>6. /\ ValuesOf(g, n + 1) = ValuesOf(f, n) \cup {e.joiner}
      /\ AllDifferent(g, n + 1) <=> AllDifferent(f, n) /\ e.joiner \notin ValuesOf(f, n)
  BY <1>1, <1>3, <1>4, InsertImage
<1>7. JoinersOf(r) = JoinersOf(q) \cup {e.joiner}
  BY <1>5, <1>6
<1>8. DistinctJoiners(q) /\ e.joiner \notin JoinersOf(q) => DistinctJoiners(r)
  BY <1>5, <1>6
<1>9. QED
  BY <1>1, <1>7, <1>8 DEF r

\* ExtractNextReadyThread takes the first ready thread out.
LEMMA ReadyTail ==
    ASSUME NEW q \in Seq(Threads), q # <<>>
    PROVE  /\ Tail(q) \in Seq(Threads)
           /\ Head(q) \in Threads
           /\ ToSet(q) = ToSet(Tail(q)) \cup {Head(q)}
           /\ IsInjective(q) => IsInjective(Tail(q)) /\ Head(q) \notin ToSet(Tail(q))
<1> DEFINE r == Tail(q)
           n == Len(r)
           f == [j \in 1 .. n |-> r[j]]
           g == [j \in 1 .. n + 1 |-> q[j]]
<1>1. /\ r \in Seq(Threads) /\ Len(q) = n + 1 /\ n \in Nat
      /\ 1 \in 1 .. n + 1 /\ Head(q) = q[1] /\ Head(q) \in Threads
      /\ \A j \in 1 .. n : r[j] = q[j + 1]
  <2>1. Len(q) \in Nat
    OBVIOUS
  <2>2. QED
    BY <2>1, TailFacts
<1> HIDE DEF r, n
<1>2. DOMAIN q = 1 .. n + 1 /\ DOMAIN r = 1 .. n
  BY <1>1 DEF n
<1>3. Inserted(f, g, n, 1, Head(q))
  BY <1>1 DEF Inserted
<1>4. /\ ToSet(q) = ValuesOf(g, n + 1) /\ ToSet(r) = ValuesOf(f, n)
      /\ IsInjective(q) <=> AllDifferent(g, n + 1)
      /\ IsInjective(r) <=> AllDifferent(f, n)
  BY <1>2 DEF ValuesOf, AllDifferent, ToSet, IsInjective
<1> HIDE DEF f, g
<1>5. /\ ValuesOf(g, n + 1) = ValuesOf(f, n) \cup {Head(q)}
      /\ AllDifferent(g, n + 1) <=> AllDifferent(f, n) /\ Head(q) \notin ValuesOf(f, n)
  BY <1>1, <1>3, InsertImage
<1>6. ToSet(q) = ToSet(r) \cup {Head(q)}
  BY <1>4, <1>5
<1>7. IsInjective(q) => IsInjective(r) /\ Head(q) \notin ToSet(r)
  BY <1>4, <1>5
<1>8. QED
  BY <1>1, <1>6, <1>7 DEF r

\* WakeSleepThread takes the first sleep block out.
LEMMA SleepTail ==
    ASSUME NEW q \in Seq(SleepBlock), q # <<>>
    PROVE  /\ Tail(q) \in Seq(SleepBlock)
           /\ Head(q) \in SleepBlock
           /\ ThreadsOf(q) = ThreadsOf(Tail(q)) \cup {Head(q).thread}
           /\ DistinctThreads(q) => DistinctThreads(Tail(q)) /\ Head(q).thread \notin ThreadsOf(Tail(q))
<1> DEFINE r == Tail(q)
           n == Len(r)
           f == [j \in 1 .. n |-> r[j].thread]
           g == [j \in 1 .. n + 1 |-> q[j].thread]
<1>1. /\ r \in Seq(SleepBlock) /\ Len(q) = n + 1 /\ n \in Nat
      /\ 1 \in 1 .. n + 1 /\ Head(q) = q[1] /\ Head(q) \in SleepBlock
      /\ \A j \in 1 .. n : r[j] = q[j + 1]
  <2>1. Len(q) \in Nat
    OBVIOUS
  <2>2. QED
    BY <2>1, TailFacts
<1> HIDE DEF r, n
<1>2. DOMAIN q = 1 .. n + 1 /\ DOMAIN r = 1 .. n
  BY <1>1 DEF n
<1>3. Inserted(f, g, n, 1, Head(q).thread)
  BY <1>1 DEF Inserted
<1>4. /\ ThreadsOf(q) = ValuesOf(g, n + 1) /\ ThreadsOf(r) = ValuesOf(f, n)
      /\ DistinctThreads(q) <=> AllDifferent(g, n + 1)
      /\ DistinctThreads(r) <=> AllDifferent(f, n)
  BY <1>2 DEF ValuesOf, AllDifferent, ThreadsOf, DistinctThreads
<1> HIDE DEF f, g
<1>5. /\ ValuesOf(g, n + 1) = ValuesOf(f, n) \cup {Head(q).thread}
      /\ AllDifferent(g, n + 1) <=> AllDifferent(f, n) /\ Head(q).thread \notin ValuesOf(f, n)
  BY <1>1, <1>3, InsertImage
<1>6. ThreadsOf(q) = ThreadsOf(r) \cup {Head(q).thread}
  BY <1>4, <1>5
<1>7. DistinctThreads(q) => DistinctThreads(r) /\ Head(q).thread \notin ThreadsOf(r)
  BY <1>4, <1>5
<1>8. QED
  BY <1>1, <1>6, <1>7 DEF r

\* VerifyWait takes one wait block out.
LEMMA WaitRemove ==
    ASSUME NEW q \in Seq(WaitBlock), NEW i \in 1 .. Len(q)
    PROVE  /\ RemoveAt(q, i) \in Seq(WaitBlock)
           /\ q[i] \in WaitBlock
           /\ JoinersOf(q) = JoinersOf(RemoveAt(q, i)) \cup {q[i].joiner}
           /\ DistinctJoiners(q) => DistinctJoiners(RemoveAt(q, i)) /\ q[i].joiner \notin JoinersOf(RemoveAt(q, i))
<1> DEFINE r == RemoveAt(q, i)
           n == Len(r)
           f == [j \in 1 .. n |-> r[j].joiner]
           g == [j \in 1 .. n + 1 |-> q[j].joiner]
<1>1. /\ r \in Seq(WaitBlock) /\ Len(q) = n + 1 /\ n \in Nat
      /\ i \in 1 .. n + 1 /\ q[i] \in WaitBlock
      /\ \A j \in 1 .. n : r[j] = IF j < i THEN q[j] ELSE q[j + 1]
  <2>1. Len(q) \in Nat /\ i \in 1 .. Len(q) /\ q[i] \in WaitBlock
    OBVIOUS
  <2>2. /\ r \in Seq(WaitBlock) /\ Len(r) = Len(q) - 1
        /\ \A j \in 1 .. Len(q) - 1 : r[j] = IF j < i THEN q[j] ELSE q[j + 1]
    BY RemoveAtFacts
  <2> HIDE DEF r
  <2>3. QED
    BY <2>1, <2>2
<1> HIDE DEF r, n
<1>2. DOMAIN q = 1 .. n + 1 /\ DOMAIN r = 1 .. n
  BY <1>1 DEF n
<1>3. Inserted(f, g, n, i, q[i].joiner)
  BY <1>1 DEF Inserted
<1>4. /\ JoinersOf(q) = ValuesOf(g, n + 1) /\ JoinersOf(r) = ValuesOf(f, n)
      /\ DistinctJoiners(q) <=> AllDifferent(g, n + 1)
      /\ DistinctJoiners(r) <=> AllDifferent(f, n)
  BY <1>2 DEF ValuesOf, AllDifferent, JoinersOf, DistinctJoiners
<1> HIDE DEF f, g
<1>5. /\ ValuesOf(g, n + 1) = ValuesOf(f, n) \cup {q[i].joiner}
      /\ AllDifferent(g, n + 1) <=> AllDifferent(f, n) /\ q[i].joiner \notin ValuesOf(f, n)
  BY <1>1, <1>3, InsertImage
<1>6. JoinersOf(q) = JoinersOf(r) \cup {q[i].joiner}
  BY <1>4, <1>5
<1>7. DistinctJoiners(q) => DistinctJoiners(r) /\ q[i].joiner \notin JoinersOf(r)
  BY <1>4, <1>5
<1>8. QED
  BY <1>1, <1>6, <1>7 DEF r

(***************************************************************************)
(* The inductive invariant.  OnePlace is not inductive alone: that a newly *)
(* created thread is nowhere follows from NoThreadLost, that NumberOfThreads *)
(* is not decremented below 0 from CountMatches, that InternalExit frees a *)
(* user thread from ExitingThread.                                         *)
(***************************************************************************)
ExitingThread == phase = "exit" => RunningThread \in Threads
IInv == TypeOK /\ ExitingThread /\ OnePlace /\ NoThreadLost /\ CountMatches

LEMMA ModTick == \A n \in Nat : n % TickModulus \in Nat
BY BoundAssumption

\* The lists OnePlace is about, in terms of the set operators of the lemmas.
LEMMA OnePlaceLists ==
    OnePlace <=> /\ IsInjective(ReadyQueue)
                 /\ DistinctThreads(SleepQueue)
                 /\ DistinctJoiners(WaitQueue)
                 /\ ToSet(ReadyQueue) \cap (Sleepers \cup Joiners \cup parked \cup Executing) = {}
                 /\ Sleepers \cap (Joiners \cup parked \cup Executing) = {}
                 /\ Joiners \cap (parked \cup Executing) = {}
                 /\ parked \cap Executing = {}
BY DEF OnePlace, DistinctThreads, DistinctJoiners

LEMMA SetsOfLists == Sleepers = ThreadsOf(SleepQueue) /\ Joiners = JoinersOf(WaitQueue)
BY DEF Sleepers, Joiners, ThreadsOf, JoinersOf

\* The walk of UtSleep ends somewhere in the list: behind blocks that are due no
\* later than the new one and before one that is due later.
LEMMA SleepPositionInList ==
    ASSUME SleepQueue \in Seq(SleepBlock), NEW w \in Nat
    PROVE  /\ SleepPosition(w) \in 1 .. Len(SleepQueue) + 1
           /\ \A j \in 1 .. SleepPosition(w) - 1 : SleepQueue[j].wake <= w
           /\ SleepPosition(w) <= Len(SleepQueue) => SleepQueue[SleepPosition(w)].wake > w
<1> DEFINE n == Len(SleepQueue)
           Stops == {i \in 1 .. n + 1 : i <= n => SleepQueue[i].wake > w}
<1>1. n \in Nat
  OBVIOUS
<1>2. \A i \in 1 .. n : SleepQueue[i].wake \in Nat
  <2>1. \A i \in 1 .. n : SleepQueue[i] \in SleepBlock
    OBVIOUS
  <2>2. QED
    BY <2>1 DEF SleepBlock
<1>3. PICK m \in Stops : \A k \in Stops : m <= k
  <2>1. n + 1 \in Stops /\ Stops \in SUBSET Nat
    BY <1>1
  <2>2. QED
    <3> HIDE DEF Stops
    <3> QED BY <2>1, LeastNatural
<1>4. \A j \in 1 .. m - 1 : SleepQueue[j].wake <= w
  <2>1. ASSUME NEW j \in 1 .. m - 1
        PROVE  SleepQueue[j].wake <= w
    <3>1. j \in 1 .. n /\ j \notin Stops
      BY <1>1, <1>3
    <3>2. QED
      BY <1>2, <3>1
  <2>2. QED
    BY <2>1
<1>5. \E i \in 1 .. Len(SleepQueue) + 1 :
         /\ \A j \in 1 .. i - 1 : SleepQueue[j].wake <= w
         /\ i <= Len(SleepQueue) => SleepQueue[i].wake > w
  BY <1>3, <1>4
<1>6. QED
  BY <1>5 DEF SleepPosition

(***************************************************************************)
(* What the internal operations do to the lists.                           *)
(***************************************************************************)

\* WakeSleepThread moves threads between the sleep and the ready queue only.
LEMMA WakeFacts ==
    ASSUME TypeOK, OnePlace, WakeSleepThread
    PROVE  /\ ReadyQueue' \in Seq(Threads) /\ SleepQueue' \in Seq(SleepBlock)
           /\ IsInjective(ReadyQueue') /\ DistinctThreads(SleepQueue')
           /\ ToSet(ReadyQueue') \cap ThreadsOf(SleepQueue') = {}
           /\ ToSet(ReadyQueue') \cup ThreadsOf(SleepQueue')
                 = ToSet(ReadyQueue) \cup ThreadsOf(SleepQueue)
<1>1. /\ ReadyQueue \in Seq(Threads) /\ SleepQueue \in Seq(SleepBlock)
      /\ IsInjective(ReadyQueue) /\ DistinctThreads(SleepQueue)
      /\ ToSet(ReadyQueue) \cap ThreadsOf(SleepQueue) = {}
  BY OnePlaceLists, SetsOfLists DEF TypeOK
<1>2. CASE SleeperDue
  <2> DEFINE t == Head(SleepQueue).thread
  <2>1. SleepQueue # <<>>
    BY <1>2 DEF SleeperDue
  <2>2. /\ t \in Threads
        /\ Tail(SleepQueue) \in Seq(SleepBlock)
        /\ ThreadsOf(SleepQueue) = ThreadsOf(Tail(SleepQueue)) \cup {t}
        /\ DistinctThreads(Tail(SleepQueue))
        /\ t \notin ThreadsOf(Tail(SleepQueue))
    BY <1>1, <2>1, SleepTail DEF SleepBlock
  <2> HIDE DEF t
  <2>3. /\ Cons(t, ReadyQueue) \in Seq(Threads)
        /\ ToSet(Cons(t, ReadyQueue)) = ToSet(ReadyQueue) \cup {t}
        /\ IsInjective(Cons(t, ReadyQueue))
    BY <1>1, <2>2, ReadyCons
  <2>4. ReadyQueue' = Cons(t, ReadyQueue) /\ SleepQueue' = Tail(SleepQueue)
    BY <1>2 DEF WakeSleepThread, t
  <2>5. QED
    BY <1>1, <2>2, <2>3, <2>4
<1>3. CASE ~ SleeperDue
  BY <1>1, <1>3 DEF WakeSleepThread
<1>4. QED
  BY <1>2, <1>3

\* ExtractNextReadyThread takes the next thread out of the lists, or finds none.
LEMMA ExtractFacts ==
    ASSUME TypeOK, OnePlace, ExtractNextReadyThread
    PROVE  /\ ReadyQueue' \in Seq(Threads) /\ SleepQueue' \in Seq(SleepBlock)
           /\ RunningThread' \in Threads \cup {Main, NoThread}
           /\ IsInjective(ReadyQueue') /\ DistinctThreads(SleepQueue')
           /\ ToSet(ReadyQueue') \cap ThreadsOf(SleepQueue') = {}
           /\ RunningThread' \notin ToSet(ReadyQueue') \cup ThreadsOf(SleepQueue')
           /\ ToSet(ReadyQueue') \cup ThreadsOf(SleepQueue') \cup ({RunningThread'} \cap Threads)
                 = ToSet(ReadyQueue) \cup ThreadsOf(SleepQueue)
<1>1. /\ ReadyQueue \in Seq(Threads) /\ SleepQueue \in Seq(SleepBlock)
      /\ MainThread \in {Main, NoThread}
      /\ IsInjective(ReadyQueue) /\ DistinctThreads(SleepQueue)
      /\ ToSet(ReadyQueue) \cap ThreadsOf(SleepQueue) = {}
  BY OnePlaceLists, SetsOfLists DEF TypeOK
<1>2. CASE /\ ReadyQueue # <<>>
           /\ RunningThread' = Head(ReadyQueue)
           /\ ReadyQueue' = Tail(ReadyQueue)
           /\ SleepQueue' = SleepQueue
  <2>1. /\ Head(ReadyQueue) \in Threads
        /\ Tail(ReadyQueue) \in Seq(Threads)
        /\ ToSet(ReadyQueue) = ToSet(Tail(ReadyQueue)) \cup {Head(ReadyQueue)}
        /\ IsInjective(Tail(ReadyQueue))
        /\ Head(ReadyQueue) \notin ToSet(Tail(ReadyQueue))
    BY <1>1, <1>2, ReadyTail
  <2>2. QED
    BY <1>1, <1>2, <2>1
<1>3. CASE /\ ReadyQueue = <<>> /\ SleepQueue = <<>>
           /\ RunningThread' = MainThread
           /\ ReadyQueue' = ReadyQueue /\ SleepQueue' = SleepQueue
  <2>1. ToSet(ReadyQueue) = {} /\ ThreadsOf(SleepQueue) = {}
    BY <1>3 DEF ToSet, ThreadsOf
  <2>2. MainThread \notin Threads
    BY <1>1, ThreadsAssumption
  <2>3. QED
    BY <1>1, <1>3, <2>1, <2>2
<1>4. CASE /\ ReadyQueue = <<>> /\ SleeperDue
           /\ RunningThread' = Head(SleepQueue).thread
           /\ SleepQueue' = Tail(SleepQueue)
           /\ ReadyQueue' = ReadyQueue
  <2> DEFINE t == Head(SleepQueue).thread
  <2>1. SleepQueue # <<>>
    BY <1>4 DEF SleeperDue
  <2>2. /\ t \in Threads
        /\ Tail(SleepQueue) \in Seq(SleepBlock)
        /\ ThreadsOf(SleepQueue) = ThreadsOf(Tail(SleepQueue)) \cup {t}
        /\ DistinctThreads(Tail(SleepQueue))
        /\ t \notin ThreadsOf(Tail(SleepQueue))
    BY <1>1, <2>1, SleepTail DEF SleepBlock
  <2>3. RunningThread' = t
    BY <1>4
  <2>4. t \notin ToSet(ReadyQueue)
    BY <1>1, <2>2
  <2> HIDE DEF t
  <2>5. QED
    BY <1>1, <1>4, <2>2, <2>3, <2>4
<1>5. QED
  BY <1>2, <1>3, <1>4 DEF ExtractNextReadyThread

\* VerifyWait moves threads from the wait queue to the ready queue only.
LEMMA VerifyFacts ==
    ASSUME TypeOK, OnePlace, VerifyWait
    PROVE  /\ ReadyQueue' \in Seq(Threads) /\ WaitQueue' \in Seq(WaitBlock)
           /\ IsInjective(ReadyQueue') /\ DistinctJoiners(WaitQueue')
           /\ ToSet(ReadyQueue') \cap JoinersOf(WaitQueue') = {}
           /\ ToSet(ReadyQueue') \cup JoinersOf(WaitQueue')
                 = ToSet(ReadyQueue) \cup JoinersOf(WaitQueue)
<1>1. /\ ReadyQueue \in Seq(Threads) /\ WaitQueue \in Seq(WaitBlock)
      /\ IsInjective(ReadyQueue) /\ DistinctJoiners(WaitQueue)
      /\ ToSet(ReadyQueue) \cap JoinersOf(WaitQueue) = {}
  BY OnePlaceLists, SetsOfLists DEF TypeOK
<1>2. CASE \E i \in DOMAIN WaitQueue : IsFirstWaiter(RunningThread, i)
  <2> DEFINE i == CHOOSE k \in DOMAIN WaitQueue : IsFirstWaiter(RunningThread, k)
             t == WaitQueue[i].joiner
  <2>1. i \in DOMAIN WaitQueue
    BY <1>2
  <2>2. WaitQueue' = RemoveAt(WaitQueue, i) /\ ReadyQueue' = Append(ReadyQueue, t)
    BY <1>2 DEF VerifyWait
  <2> HIDE DEF i
  <2>3. i \in 1 .. Len(WaitQueue)
    BY <1>1, <2>1
  <2>4. /\ RemoveAt(WaitQueue, i) \in Seq(WaitBlock)
        /\ WaitQueue[i] \in WaitBlock
        /\ JoinersOf(WaitQueue) = JoinersOf(RemoveAt(WaitQueue, i)) \cup {t}
        /\ DistinctJoiners(RemoveAt(WaitQueue, i))
        /\ t \notin JoinersOf(RemoveAt(WaitQueue, i))
    BY <1>1, <2>3, WaitRemove
  <2>5. t \in Threads
    BY <2>4 DEF WaitBlock
  <2> HIDE DEF t
  <2>6. /\ Append(ReadyQueue, t) \in Seq(Threads)
        /\ ToSet(Append(ReadyQueue, t)) = ToSet(ReadyQueue) \cup {t}
        /\ IsInjective(Append(ReadyQueue, t))
    BY <1>1, <2>4, <2>5, ReadyAppend
  <2>7. QED
    BY <1>1, <2>2, <2>4, <2>6
<1>3. CASE ~ \E i \in DOMAIN WaitQueue : IsFirstWaiter(RunningThread, i)
  <2>1. ReadyQueue' = ReadyQueue /\ WaitQueue' = WaitQueue
    BY <1>3 DEF VerifyWait
  <2>2. QED
    BY <1>1, <2>1
<1>4. QED
  BY <1>2, <1>3

(***************************************************************************)
(* The invariant holds in the state UtInit() leaves and every step of the  *)
(* library, the programs and the clock keeps it.                           *)
(***************************************************************************)
LEMMA InitIInv == Init => IInv
<1> SUFFICES ASSUME Init PROVE IInv
  OBVIOUS
<1>1. ReadyQueue = <<>> /\ SleepQueue = <<>> /\ WaitQueue = <<>> /\ live = {} /\ parked = {}
  BY DEF Init
<1>2. ToSet(ReadyQueue) = {} /\ Sleepers = {} /\ Joiners = {} /\ Executing = {}
  BY <1>1, ThreadsAssumption DEF Init, ToSet, Sleepers, Joiners, Executing
<1>3. TypeOK
  BY BoundAssumption DEF Init, TypeOK
<1>4. ExitingThread
  BY DEF Init, ExitingThread
<1>5. OnePlace
  BY <1>1, <1>2 DEF OnePlace, IsInjective
<1>6. NoThreadLost
  BY <1>1, <1>2 DEF NoThreadLost
<1>7. CountMatches
  BY <1>1, FS_EmptySet DEF Init, CountMatches
<1>8. QED
  BY <1>3, <1>4, <1>5, <1>6, <1>7 DEF IInv

\* The sets OnePlace and NoThreadLost speak about, in the next state.
LEMMA SetsOfListsNext ==
    Sleepers' = ThreadsOf(SleepQueue') /\ Joiners' = JoinersOf(WaitQueue')
BY DEF Sleepers, Joiners, ThreadsOf, JoinersOf

LEMMA OnePlaceNext ==
    ASSUME IsInjective(ReadyQueue'), DistinctThreads(SleepQueue'),
           DistinctJoiners(WaitQueue'),
           ToSet(ReadyQueue') \cap (ThreadsOf(SleepQueue') \cup JoinersOf(WaitQueue')
                                    \cup parked' \cup Executing') = {},
           ThreadsOf(SleepQueue') \cap (JoinersOf(WaitQueue') \cup parked' \cup Executing') = {},
           JoinersOf(WaitQueue') \cap (parked' \cup Executing') = {},
           parked' \cap Executing' = {}
    PROVE  OnePlace'
BY SetsOfListsNext DEF OnePlace, DistinctThreads, DistinctJoiners

LEMMA NoThreadLostNext ==
    ASSUME live' = ToSet(ReadyQueue') \cup ThreadsOf(SleepQueue') \cup JoinersOf(WaitQueue')
                   \cup parked' \cup Executing'
    PROVE  NoThreadLost'
BY SetsOfListsNext DEF NoThreadLost

LEMMA CountMatchesNext ==
    ASSUME live' = live, NumberOfThreads' = NumberOfThreads, CountMatches,
           phase # "exit", phase' # "exit"
    PROVE  CountMatches'
BY DEF CountMatches

LEMMA NextIInv == IInv /\ [Next]_vars => IInv'
<1> SUFFICES ASSUME IInv, [Next]_vars PROVE IInv'
  OBVIOUS
<1> DEFINE R == ToSet(ReadyQueue)
           S == ThreadsOf(SleepQueue)
           J == JoinersOf(WaitQueue)
<1>0. /\ TypeOK /\ ExitingThread /\ OnePlace /\ NoThreadLost /\ CountMatches
      /\ IsInjective(ReadyQueue) /\ DistinctThreads(SleepQueue) /\ DistinctJoiners(WaitQueue)
      /\ R \cap (S \cup J \cup parked \cup Executing) = {}
      /\ S \cap (J \cup parked \cup Executing) = {}
      /\ J \cap (parked \cup Executing) = {}
      /\ parked \cap Executing = {}
      /\ live = R \cup S \cup J \cup parked \cup Executing
  BY OnePlaceLists, SetsOfLists DEF IInv, NoThreadLost
<1>t. /\ NumberOfThreads \in Nat
      /\ SwitchCount \in 0 .. CounterModulus - 1
      /\ ReadyQueue \in Seq(Threads)
      /\ SleepQueue \in Seq(SleepBlock)
      /\ WaitQueue \in Seq(WaitBlock)
      /\ RunningThread \in Threads \cup {Main, NoThread}
      /\ MainThread \in {Main, NoThread}
      /\ phase \in {"user", "schedule", "extract", "exit"}
      /\ live \subseteq Threads
      /\ parked \subseteq Threads
      /\ created \in 0 .. MaxCreates
      /\ now \in 0 .. MaxTick
  BY <1>0 DEF TypeOK
<1>f. IsFiniteSet(live) /\ Cardinality(live) \in Nat
  BY <1>t, ThreadsAssumption, FS_Subset, FS_CardinalityType
<1>c. CountSwitch => SwitchCount' \in 0 .. CounterModulus - 1
  BY <1>t, BoundAssumption DEF CountSwitch
<1> HIDE DEF R, S, J
<1>1. ASSUME NEW t \in Threads, UtCreate(t)
      PROVE  IInv'
  <2>1. /\ phase = "user" /\ phase' = phase /\ RunningThread' = RunningThread
        /\ t \notin live /\ created < MaxCreates
        /\ live' = live \cup {t} /\ created' = created + 1
        /\ NumberOfThreads' = NumberOfThreads + 1
        /\ ReadyQueue' = Append(ReadyQueue, t)
        /\ SleepQueue' = SleepQueue /\ WaitQueue' = WaitQueue /\ parked' = parked
        /\ SwitchCount' = SwitchCount /\ MainThread' = MainThread /\ now' = now
    BY <1>1 DEF UtCreate
  <2>2. Executing' = Executing
    BY <2>1 DEF Executing
  <2>3. /\ ReadyQueue' \in Seq(Threads) /\ ToSet(ReadyQueue') = R \cup {t}
        /\ IsInjective(ReadyQueue')
    BY <1>0, <1>t, <2>1, ReadyAppend DEF R
  <2>4. ThreadsOf(SleepQueue') = S /\ JoinersOf(WaitQueue') = J
    BY <2>1 DEF S, J
  <2>5. TypeOK'
    BY <1>t, <2>1, <2>3, BoundAssumption DEF TypeOK
  <2>6. ExitingThread'
    BY <2>1 DEF ExitingThread
  <2>7. OnePlace'
    BY <1>0, <2>1, <2>2, <2>3, <2>4, OnePlaceNext
  <2>8. NoThreadLost'
    BY <1>0, <2>1, <2>2, <2>3, <2>4, NoThreadLostNext
  <2>9. CountMatches'
    <3>1. Cardinality(live') = Cardinality(live) + 1
      BY <1>f, <2>1, FS_AddElement
    <3>2. QED
      BY <1>0, <1>t, <2>1, <3>1 DEF CountMatches
  <2>10. QED
    BY <2>5, <2>6, <2>7, <2>8, <2>9 DEF IInv
<1>2. ASSUME NEW t \in Threads, UtActivate(t)
      PROVE  IInv'
  <2>1. /\ phase = "user" /\ phase' = phase /\ RunningThread' = RunningThread
        /\ t \in parked /\ parked' = parked \ {t}
        /\ ReadyQueue' = Append(ReadyQueue, t)
        /\ SleepQueue' = SleepQueue /\ WaitQueue' = WaitQueue
        /\ live' = live /\ created' = created /\ NumberOfThreads' = NumberOfThreads
        /\ SwitchCount' = SwitchCount /\ MainThread' = MainThread /\ now' = now
    BY <1>2 DEF UtActivate
  <2>2. Executing' = Executing
    BY <2>1 DEF Executing
  <2>3. /\ ReadyQueue' \in Seq(Threads) /\ ToSet(ReadyQueue') = R \cup {t}
        /\ IsInjective(ReadyQueue')
    BY <1>0, <1>t, <2>1, ReadyAppend DEF R
  <2>4. ThreadsOf(SleepQueue') = S /\ JoinersOf(WaitQueue') = J
    BY <2>1 DEF S, J
  <2>5. TypeOK'
    BY <1>t, <2>1, <2>3 DEF TypeOK
  <2>6. ExitingThread'
    BY <2>1 DEF ExitingThread
  <2>7. OnePlace'
    BY <1>0, <2>1, <2>2, <2>3, <2>4, OnePlaceNext
  <2>8. NoThreadLost'
    BY <1>0, <2>1, <2>2, <2>3, <2>4, NoThreadLostNext
  <2>9. CountMatches'
    BY <1>0, <2>1, CountMatchesNext
  <2>10. QED
    BY <2>5, <2>6, <2>7, <2>8, <2>9 DEF IInv
<1>3. ASSUME NEW t \in Threads, UtJoin(t)
      PROVE  IInv'
  <2> DEFINE e == [target |-> t, joiner |-> RunningThread]
  <2>1. /\ phase = "user" /\ phase' = "schedule" /\ RunningThread \in Threads
        /\ RunningThread' = RunningThread
        /\ WaitQueue' = Cons(e, WaitQueue)
        /\ ReadyQueue' = ReadyQueue /\ SleepQueue' = SleepQueue /\ parked' = parked
        /\ live' = live /\ created' = created /\ NumberOfThreads' = NumberOfThreads
        /\ SwitchCount' = SwitchCount /\ MainThread' = MainThread /\ now' = now
    BY <1>3 DEF UtJoin, InUserThread, clients
  <2>2. Executing = {RunningThread} /\ Executing' = {}
    BY <2>1 DEF Executing
  <2>3. e \in WaitBlock /\ e.joiner = RunningThread
    BY <2>1 DEF WaitBlock
  <2> HIDE DEF e
  <2>4. /\ WaitQueue' \in Seq(WaitBlock) /\ JoinersOf(WaitQueue') = J \cup {RunningThread}
        /\ DistinctJoiners(WaitQueue')
    BY <1>0, <1>t, <2>1, <2>2, <2>3, WaitCons DEF J
  <2>5. ToSet(ReadyQueue') = R /\ ThreadsOf(SleepQueue') = S
    BY <2>1 DEF R, S
  <2>6. TypeOK'
    BY <1>t, <2>1, <2>4 DEF TypeOK
  <2>7. ExitingThread'
    BY <2>1 DEF ExitingThread
  <2>8. OnePlace'
    BY <1>0, <2>1, <2>2, <2>4, <2>5, OnePlaceNext
  <2>9. NoThreadLost'
    BY <1>0, <2>1, <2>2, <2>4, <2>5, NoThreadLostNext
  <2>10. CountMatches'
    BY <1>0, <2>1, CountMatchesNext
  <2>11. QED
    BY <2>6, <2>7, <2>8, <2>9, <2>10 DEF IInv
<1>4. ASSUME NEW ms \in SleepTimes, UtSleep(ms)
      PROVE  IInv'
  <2> DEFINE w == (GetTickCount + ms) % TickModulus
             e == [thread |-> RunningThread, wake |-> w, due |-> now + ms]
  <2>1. /\ phase = "user" /\ phase' = "schedule" /\ RunningThread \in Threads
        /\ RunningThread' = RunningThread
        /\ SleepQueue' = InsertAt(SleepQueue, SleepPosition(w), e)
        /\ ReadyQueue' = ReadyQueue /\ WaitQueue' = WaitQueue /\ parked' = parked
        /\ live' = live /\ created' = created /\ NumberOfThreads' = NumberOfThreads
        /\ SwitchCount' = SwitchCount /\ MainThread' = MainThread /\ now' = now
    BY <1>4 DEF UtSleep, InUserThread, clients
  <2>2. Executing = {RunningThread} /\ Executing' = {}
    BY <2>1 DEF Executing
  <2>3. w \in Nat /\ now + ms \in Nat
    <3>1. ms \in Nat /\ now \in Nat
      BY <1>t, ClientAssumption, BoundAssumption
    <3>2. GetTickCount \in Nat
      BY <3>1, ModTick DEF GetTickCount
    <3>3. GetTickCount + ms \in Nat
      BY <3>1, <3>2
    <3>4. QED
      BY <3>1, <3>3, ModTick
  <2> HIDE DEF w
  <2>4. e \in SleepBlock /\ e.thread = RunningThread
    BY <2>1, <2>3 DEF SleepBlock
  <2> HIDE DEF e
  <2>5. SleepPosition(w) \in 1 .. Len(SleepQueue) + 1
    BY <1>t, <2>3, SleepPositionInList
  <2>6. /\ SleepQueue' \in Seq(SleepBlock) /\ ThreadsOf(SleepQueue') = S \cup {RunningThread}
        /\ DistinctThreads(SleepQueue')
    BY <1>0, <1>t, <2>1, <2>2, <2>4, <2>5, SleepInsert DEF S
  <2>7. ToSet(ReadyQueue') = R /\ JoinersOf(WaitQueue') = J
    BY <2>1 DEF R, J
  <2>8. TypeOK'
    BY <1>t, <2>1, <2>6 DEF TypeOK
  <2>9. ExitingThread'
    BY <2>1 DEF ExitingThread
  <2>10. OnePlace'
    BY <1>0, <2>1, <2>2, <2>6, <2>7, OnePlaceNext
  <2>11. NoThreadLost'
    BY <1>0, <2>1, <2>2, <2>6, <2>7, NoThreadLostNext
  <2>12. CountMatches'
    BY <1>0, <2>1, CountMatchesNext
  <2>13. QED
    BY <2>8, <2>9, <2>10, <2>11, <2>12 DEF IInv
<1>5. CASE UtRun
  <2>1. /\ phase = "user" /\ phase' = "schedule" /\ RunningThread = NoThread
        /\ RunningThread' = Main /\ MainThread' = Main
        /\ ReadyQueue' = ReadyQueue /\ SleepQueue' = SleepQueue
        /\ WaitQueue' = WaitQueue /\ parked' = parked /\ live' = live
        /\ created' = created /\ NumberOfThreads' = NumberOfThreads
        /\ SwitchCount' = SwitchCount /\ now' = now
    BY <1>5 DEF UtRun, queues, clients
  <2>2. Executing = {} /\ Executing' = {}
    BY <2>1, ThreadsAssumption DEF Executing
  <2>3. ToSet(ReadyQueue') = R /\ ThreadsOf(SleepQueue') = S /\ JoinersOf(WaitQueue') = J
    BY <2>1 DEF R, S, J
  <2>4. TypeOK'
    BY <1>t, <2>1 DEF TypeOK
  <2>5. ExitingThread'
    BY <2>1 DEF ExitingThread
  <2>6. OnePlace'
    BY <1>0, <2>1, <2>2, <2>3, OnePlaceNext
  <2>7. NoThreadLost'
    BY <1>0, <2>1, <2>2, <2>3, NoThreadLostNext
  <2>8. CountMatches'
    BY <1>0, <2>1, CountMatchesNext
  <2>9. QED
    BY <2>4, <2>5, <2>6, <2>7, <2>8 DEF IInv
<1>6. CASE UtRunReturn
  <2>1. /\ phase = "user" /\ phase' = phase /\ RunningThread = Main
        /\ RunningThread' = NoThread /\ MainThread' = NoThread
        /\ ReadyQueue' = ReadyQueue /\ SleepQueue' = SleepQueue
        /\ WaitQueue' = WaitQueue /\ parked' = parked /\ live' = live
        /\ created' = created /\ NumberOfThreads' = NumberOfThreads
        /\ SwitchCount' = SwitchCount /\ now' = now
    BY <1>6 DEF UtRunReturn, queues, clients
  <2>2. Executing = {} /\ Executing' = {}
    BY <2>1, ThreadsAssumption DEF Executing
  <2>3. ToSet(ReadyQueue') = R /\ ThreadsOf(SleepQueue') = S /\ JoinersOf(WaitQueue') = J
    BY <2>1 DEF R, S, J
  <2>4. TypeOK'
    BY <1>t, <2>1 DEF TypeOK
  <2>5. ExitingThread'
    BY <2>1 DEF ExitingThread
  <2>6. OnePlace'
    BY <1>0, <2>1, <2>2, <2>3, OnePlaceNext
  <2>7. NoThreadLost'
    BY <1>0, <2>1, <2>2, <2>3, NoThreadLostNext
  <2>8. CountMatches'
    BY <1>0, <2>1, CountMatchesNext
  <2>9. QED
    BY <2>4, <2>5, <2>6, <2>7, <2>8 DEF IInv
<1>7. CASE UtYield
  <2>1. /\ phase = "user" /\ phase' = "schedule" /\ RunningThread \in Threads
        /\ RunningThread' = RunningThread
        /\ ReadyQueue' = Append(ReadyQueue, RunningThread)
        /\ SleepQueue' = SleepQueue /\ WaitQueue' = WaitQueue /\ parked' = parked
        /\ live' = live /\ created' = created /\ NumberOfThreads' = NumberOfThreads
        /\ SwitchCount' = SwitchCount /\ MainThread' = MainThread /\ now' = now
    BY <1>7 DEF UtYield, InUserThread, clients
  <2>2. Executing = {RunningThread} /\ Executing' = {}
    BY <2>1 DEF Executing
  <2>3. /\ ReadyQueue' \in Seq(Threads) /\ ToSet(ReadyQueue') = R \cup {RunningThread}
        /\ IsInjective(ReadyQueue')
    BY <1>0, <1>t, <2>1, <2>2, ReadyAppend DEF R
  <2>4. ThreadsOf(SleepQueue') = S /\ JoinersOf(WaitQueue') = J
    BY <2>1 DEF S, J
  <2>5. TypeOK'
    BY <1>t, <2>1, <2>3 DEF TypeOK
  <2>6. ExitingThread'
    BY <2>1 DEF ExitingThread
  <2>7. OnePlace'
    BY <1>0, <2>1, <2>2, <2>3, <2>4, OnePlaceNext
  <2>8. NoThreadLost'
    BY <1>0, <2>1, <2>2, <2>3, <2>4, NoThreadLostNext
  <2>9. CountMatches'
    BY <1>0, <2>1, CountMatchesNext
  <2>10. QED
    BY <2>5, <2>6, <2>7, <2>8, <2>9 DEF IInv
<1>8. CASE UtDeactivate
  <2>1. /\ phase = "user" /\ phase' = "schedule" /\ RunningThread \in Threads
        /\ RunningThread' = RunningThread
        /\ parked' = parked \cup {RunningThread}
        /\ ReadyQueue' = ReadyQueue /\ SleepQueue' = SleepQueue /\ WaitQueue' = WaitQueue
        /\ live' = live /\ created' = created /\ NumberOfThreads' = NumberOfThreads
        /\ SwitchCount' = SwitchCount /\ MainThread' = MainThread /\ now' = now
    BY <1>8 DEF UtDeactivate, InUserThread, queues
  <2>2. Executing = {RunningThread} /\ Executing' = {}
    BY <2>1 DEF Executing
  <2>3. ToSet(ReadyQueue') = R /\ ThreadsOf(SleepQueue') = S /\ JoinersOf(WaitQueue') = J
    BY <2>1 DEF R, S, J
  <2>4. TypeOK'
    BY <1>t, <2>1 DEF TypeOK
  <2>5. ExitingThread'
    BY <2>1 DEF ExitingThread
  <2>6. OnePlace'
    BY <1>0, <2>1, <2>2, <2>3, OnePlaceNext
  <2>7. NoThreadLost'
    BY <1>0, <2>1, <2>2, <2>3, NoThreadLostNext
  <2>8. CountMatches'
    BY <1>0, <2>1, CountMatchesNext
  <2>9. QED
    BY <2>4, <2>5, <2>6, <2>7, <2>8 DEF IInv
<1>9. CASE UtExit
  <2>1. /\ phase = "user" /\ phase' = "exit" /\ RunningThread \in Threads
        /\ RunningThread' = RunningThread
        /\ NumberOfThreads' = NumberOfThreads - 1
        /\ CountSwitch /\ VerifyWait
        /\ SleepQueue' = SleepQueue /\ parked' = parked
        /\ live' = live /\ created' = created
        /\ MainThread' = MainThread /\ now' = now
    BY <1>9 DEF UtExit, InUserThread, clients
  <2>2. Executing = {RunningThread} /\ Executing' = {RunningThread}
    BY <2>1 DEF Executing
  <2>3. /\ ReadyQueue' \in Seq(Threads) /\ WaitQueue' \in Seq(WaitBlock)
        /\ IsInjective(ReadyQueue') /\ DistinctJoiners(WaitQueue')
        /\ ToSet(ReadyQueue') \cap JoinersOf(WaitQueue') = {}
        /\ ToSet(ReadyQueue') \cup JoinersOf(WaitQueue') = R \cup J
    BY <1>0, <2>1, VerifyFacts DEF R, J
  <2>4. ThreadsOf(SleepQueue') = S
    BY <2>1 DEF S
  <2>5. NumberOfThreads = Cardinality(live) /\ NumberOfThreads # 0
    <3>1. NumberOfThreads = Cardinality(live)
      BY <1>0, <1>t, <2>1 DEF CountMatches
    <3>2. live # {}
      BY <1>0, <2>2
    <3>3. QED
      BY <1>f, <3>1, <3>2, FS_EmptySet
  <2>6. TypeOK'
    BY <1>t, <1>c, <2>1, <2>3, <2>5, SMTT(30) DEF TypeOK
  <2>7. ExitingThread'
    BY <2>1 DEF ExitingThread
  <2>8. OnePlace'
    <3>1. ToSet(ReadyQueue') \cap (S \cup JoinersOf(WaitQueue') \cup parked \cup {RunningThread}) = {}
      BY <1>0, <2>2, <2>3
    <3>2. /\ S \cap (JoinersOf(WaitQueue') \cup parked \cup {RunningThread}) = {}
          /\ JoinersOf(WaitQueue') \cap (parked \cup {RunningThread}) = {}
      BY <1>0, <2>2, <2>3
    <3>3. QED
      BY <1>0, <2>1, <2>2, <2>3, <2>4, <3>1, <3>2, OnePlaceNext
  <2>9. NoThreadLost'
    <3>1. live = ToSet(ReadyQueue') \cup S \cup JoinersOf(WaitQueue') \cup parked \cup {RunningThread}
      BY <1>0, <2>2, <2>3
    <3>2. QED
      BY <2>1, <2>2, <2>4, <3>1, NoThreadLostNext
  <2>10. CountMatches'
    BY <1>t, <2>1, <2>5 DEF CountMatches
  <2>11. QED
    BY <2>6, <2>7, <2>8, <2>9, <2>10 DEF IInv
<1>10. CASE Schedule
  <2>1. /\ phase = "schedule" /\ phase' = "extract" /\ RunningThread' = RunningThread
        /\ WakeSleepThread
        /\ WaitQueue' = WaitQueue /\ parked' = parked
        /\ live' = live /\ created' = created /\ NumberOfThreads' = NumberOfThreads
        /\ SwitchCount' = SwitchCount /\ MainThread' = MainThread /\ now' = now
    BY <1>10 DEF Schedule, clients
  <2>2. Executing = {} /\ Executing' = {}
    BY <2>1 DEF Executing
  <2>3. /\ ReadyQueue' \in Seq(Threads) /\ SleepQueue' \in Seq(SleepBlock)
        /\ IsInjective(ReadyQueue') /\ DistinctThreads(SleepQueue')
        /\ ToSet(ReadyQueue') \cap ThreadsOf(SleepQueue') = {}
        /\ ToSet(ReadyQueue') \cup ThreadsOf(SleepQueue') = R \cup S
    BY <1>0, <2>1, WakeFacts DEF R, S
  <2>4. JoinersOf(WaitQueue') = J
    BY <2>1 DEF J
  <2>5. TypeOK'
    BY <1>t, <2>1, <2>3 DEF TypeOK
  <2>6. ExitingThread'
    BY <2>1 DEF ExitingThread
  <2>7. OnePlace'
    <3>1. /\ ToSet(ReadyQueue') \cap (ThreadsOf(SleepQueue') \cup J \cup parked) = {}
          /\ ThreadsOf(SleepQueue') \cap (J \cup parked) = {}
      BY <1>0, <2>3
    <3>2. QED
      BY <1>0, <2>1, <2>2, <2>3, <2>4, <3>1, OnePlaceNext
  <2>8. NoThreadLost'
    BY <1>0, <2>1, <2>2, <2>3, <2>4, NoThreadLostNext
  <2>9. CountMatches'
    BY <1>0, <2>1, CountMatchesNext
  <2>10. QED
    BY <2>5, <2>6, <2>7, <2>8, <2>9 DEF IInv
<1>11. CASE ContextSwitch
  <2>1. /\ phase = "extract" /\ phase' = "user"
        /\ ExtractNextReadyThread /\ CountSwitch
        /\ WaitQueue' = WaitQueue /\ parked' = parked
        /\ live' = live /\ created' = created /\ NumberOfThreads' = NumberOfThreads
        /\ MainThread' = MainThread /\ now' = now
    BY <1>11 DEF ContextSwitch, clients
  <2>2. Executing = {} /\ Executing' = {RunningThread'} \cap Threads
    BY <2>1 DEF Executing
  <2>3. /\ ReadyQueue' \in Seq(Threads) /\ SleepQueue' \in Seq(SleepBlock)
        /\ RunningThread' \in Threads \cup {Main, NoThread}
        /\ IsInjective(ReadyQueue') /\ DistinctThreads(SleepQueue')
        /\ ToSet(ReadyQueue') \cap ThreadsOf(SleepQueue') = {}
        /\ RunningThread' \notin ToSet(ReadyQueue') \cup ThreadsOf(SleepQueue')
        /\ ToSet(ReadyQueue') \cup ThreadsOf(SleepQueue') \cup Executing' = R \cup S
    BY <1>0, <2>1, <2>2, ExtractFacts DEF R, S
  <2>4. JoinersOf(WaitQueue') = J
    BY <2>1 DEF J
  <2>5. TypeOK'
    BY <1>t, <1>c, <2>1, <2>3 DEF TypeOK
  <2>6. ExitingThread'
    BY <2>1 DEF ExitingThread
  <2>7. OnePlace'
    <3>1. /\ ToSet(ReadyQueue') \cap (ThreadsOf(SleepQueue') \cup J \cup parked \cup Executing') = {}
          /\ ThreadsOf(SleepQueue') \cap (J \cup parked \cup Executing') = {}
          /\ J \cap (parked \cup Executing') = {} /\ parked \cap Executing' = {}
      BY <1>0, <2>2, <2>3
    <3>2. QED
      BY <1>0, <2>1, <2>3, <2>4, <3>1, OnePlaceNext
  <2>8. NoThreadLost'
    <3>1. live = ToSet(ReadyQueue') \cup ThreadsOf(SleepQueue') \cup J \cup parked \cup Executing'
      BY <1>0, <2>2, <2>3
    <3>2. QED
      BY <2>1, <2>4, <3>1, NoThreadLostNext
  <2>9. CountMatches'
    BY <1>0, <2>1, CountMatchesNext
  <2>10. QED
    BY <2>5, <2>6, <2>7, <2>8, <2>9 DEF IInv
<1>12. CASE InternalExit
  <2>1. /\ phase = "exit" /\ phase' = "user"
        /\ ExtractNextReadyThread /\ live' = live \ {RunningThread}
        /\ WaitQueue' = WaitQueue /\ parked' = parked
        /\ created' = created /\ NumberOfThreads' = NumberOfThreads
        /\ SwitchCount' = SwitchCount /\ MainThread' = MainThread /\ now' = now
    BY <1>12 DEF InternalExit
  <2>2. RunningThread \in Threads /\ Executing = {RunningThread}
    BY <1>0, <2>1 DEF ExitingThread, Executing
  <2>3. Executing' = {RunningThread'} \cap Threads
    BY <2>1 DEF Executing
  <2>4. /\ ReadyQueue' \in Seq(Threads) /\ SleepQueue' \in Seq(SleepBlock)
        /\ RunningThread' \in Threads \cup {Main, NoThread}
        /\ IsInjective(ReadyQueue') /\ DistinctThreads(SleepQueue')
        /\ ToSet(ReadyQueue') \cap ThreadsOf(SleepQueue') = {}
        /\ RunningThread' \notin ToSet(ReadyQueue') \cup ThreadsOf(SleepQueue')
        /\ ToSet(ReadyQueue') \cup ThreadsOf(SleepQueue') \cup Executing' = R \cup S
    BY <1>0, <2>1, <2>3, ExtractFacts DEF R, S
  <2>5. JoinersOf(WaitQueue') = J
    BY <2>1 DEF J
  <2>6. TypeOK'
    BY <1>t, <2>1, <2>4 DEF TypeOK
  <2>7. ExitingThread'
    BY <2>1 DEF ExitingThread
  <2>8. OnePlace'
    <3>1. /\ ToSet(ReadyQueue') \cap (ThreadsOf(SleepQueue') \cup J \cup parked \cup Executing') = {}
          /\ ThreadsOf(SleepQueue') \cap (J \cup parked \cup Executing') = {}
          /\ J \cap (parked \cup Executing') = {} /\ parked \cap Executing' = {}
      BY <1>0, <2>3, <2>4
    <3>2. QED
      BY <1>0, <2>1, <2>4, <2>5, <3>1, OnePlaceNext
  <2>9. NoThreadLost'
    <3>1. live \ {RunningThread}
            = ToSet(ReadyQueue') \cup ThreadsOf(SleepQueue') \cup J \cup parked \cup Executing'
      BY <1>0, <2>2, <2>4
    <3>2. QED
      BY <2>1, <2>5, <3>1, NoThreadLostNext
  <2>10. CountMatches'
    <3>1. Cardinality(live') = Cardinality(live) - 1
      BY <1>0, <1>f, <2>1, <2>2, FS_RemoveElement
    <3>2. Cardinality(live) = NumberOfThreads + 1
      BY <1>0, <2>1 DEF CountMatches
    <3>3. QED
      BY <1>t, <2>1, <3>1, <3>2 DEF CountMatches
  <2>11. QED
    BY <2>6, <2>7, <2>8, <2>9, <2>10 DEF IInv
<1>13. ASSUME now' \in 0 .. MaxTick,
              UNCHANGED <<NumberOfThreads, SwitchCount, queues, RunningThread,
                          MainThread, phase, clients>>
       PROVE  IInv'
  <2>1. /\ phase' = phase /\ RunningThread' = RunningThread
        /\ ReadyQueue' = ReadyQueue /\ SleepQueue' = SleepQueue
        /\ WaitQueue' = WaitQueue /\ parked' = parked /\ live' = live
        /\ created' = created /\ NumberOfThreads' = NumberOfThreads
        /\ SwitchCount' = SwitchCount /\ MainThread' = MainThread
    BY <1>13 DEF queues, clients
  <2>2. Executing' = Executing
    BY <2>1 DEF Executing
  <2>3. ToSet(ReadyQueue') = R /\ ThreadsOf(SleepQueue') = S /\ JoinersOf(WaitQueue') = J
    BY <2>1 DEF R, S, J
  <2>4. TypeOK'
    BY <1>t, <1>13, <2>1 DEF TypeOK
  <2>5. ExitingThread'
    BY <1>0, <2>1 DEF ExitingThread
  <2>6. OnePlace'
    BY <1>0, <2>1, <2>2, <2>3, OnePlaceNext
  <2>7. NoThreadLost'
    BY <1>0, <2>1, <2>2, <2>3, NoThreadLostNext
  <2>8. CountMatches'
    BY <1>0, <2>1 DEF CountMatches
  <2>9. QED
    BY <2>4, <2>5, <2>6, <2>7, <2>8 DEF IInv
<1>14. CASE Tick
  <2>1. now' \in 0 .. MaxTick
    BY <1>t, <1>14, BoundAssumption DEF Tick
  <2>2. QED
    BY <1>13, <1>14, <2>1 DEF Tick
<1>15. CASE UNCHANGED vars
  <2>1. now' \in 0 .. MaxTick
    BY <1>t, <1>15 DEF vars
  <2>2. QED
    BY <1>13, <1>15, <2>1 DEF vars, queues, clients
<1>16. QED
  BY <1>1, <1>2, <1>3, <1>4, <1>5, <1>6, <1>7, <1>8, <1>9, <1>10, <1>11, <1>12,
     <1>14, <1>15 DEF Next

(***************************************************************************)
(* Theorems.                                                               *)
(***************************************************************************)

\* The strengthened invariant holds in every reachable state.
THEOREM IInvHolds == Spec => []IInv
BY InitIInv, NextIInv, PTL DEF Spec

\* Every variable keeps its type; in particular NumberOfThreads never goes
\* below zero and MainThread is never dereferenced as a user thread.
THEOREM TypeCorrect == Spec => []TypeOK
<1>1. IInv => TypeOK
  BY DEF IInv
<1>2. QED
  BY <1>1, IInvHolds, PTL

\* Every thread is in exactly one place: no UTHREAD link is in two lists and no
\* suspended thread has two wakers (ReadyQueue, SleepQueue, WaitQueue of
\* UThread.c and WaitJoin.h).
THEOREM OnePlaceAlways == Spec => []OnePlace
<1>1. IInv => OnePlace
  BY DEF IInv
<1>2. QED
  BY <1>1, IInvHolds, PTL

\* No allocated thread is lost and no list refers to a freed one, whatever
\* addresses malloc() reuses.
THEOREM NoThreadLostAlways == Spec => []NoThreadLost
<1>1. IInv => NoThreadLost
  BY DEF IInv
<1>2. QED
  BY <1>1, IInvHolds, PTL

\* NumberOfThreads counts the threads that have not exited.
THEOREM CountMatchesAlways == Spec => []CountMatches
<1>1. IInv => CountMatches
  BY DEF IInv
<1>2. QED
  BY <1>1, IInvHolds, PTL

(***************************************************************************)
(* The clock.                                                              *)
(***************************************************************************)

\* A time on the unwrapped clock is its epoch and what GetTickCount() shows.
LEMMA EpochAndTick ==
    ASSUME NEW a \in Nat
    PROVE  /\ Epoch(a) \in Nat /\ TickModulus * Epoch(a) \in Nat
           /\ a % TickModulus \in 0 .. TickModulus - 1
           /\ a = TickModulus * Epoch(a) + (a % TickModulus)
<1> DEFINE m == TickModulus
<1>1. m \in Nat \ {0}
  BY BoundAssumption
<1> HIDE DEF m
<1>2. /\ a \div m \in Nat /\ a % m \in 0 .. m - 1
      /\ a = m * (a \div m) + (a % m)
  BY <1>1
<1>3. m * (a \div m) \in Nat
  BY <1>1, <1>2
<1>4. QED
  BY <1>2, <1>3 DEF m, Epoch

\* A later epoch starts at least one whole period of the clock later.
LEMMA EpochStarts ==
    ASSUME NEW p \in Int, NEW q \in Int
    PROVE  /\ TickModulus * p \in Int /\ TickModulus * q \in Int
           /\ p + 1 <= q => TickModulus * p + TickModulus <= TickModulus * q
           /\ p <= q => TickModulus * p <= TickModulus * q
<1> DEFINE m == TickModulus
<1>1. m \in Nat \ {0}
  BY BoundAssumption
<1> HIDE DEF m
<1>2. ASSUME NEW d \in Nat
      PROVE  m * d \in Nat
  BY <1>1, <1>2
<1>3. m * p \in Int /\ m * q \in Int
  BY <1>1
<1>4. ASSUME p <= q
      PROVE  m * p <= m * q
  <2>1. m * (q - p) \in Nat
    BY <1>2, <1>4
  <2>2. m * (q - p) = m * q - m * p
    BY <1>1
  <2>3. QED
    BY <1>3, <2>1, <2>2
<1>5. ASSUME p + 1 <= q
      PROVE  m * p + m <= m * q
  <2>1. m * (q - (p + 1)) \in Nat
    BY <1>2, <1>5
  <2>2. m * (q - (p + 1)) = m * q - m * p - m
    BY <1>1
  <2>3. QED
    BY <1>1, <1>3, <2>1, <2>2
<1>6. QED
  BY <1>3, <1>4, <1>5 DEF m

\* A number has one epoch and one tick.
LEMMA OneTick ==
    ASSUME NEW p \in Int, NEW q \in Int,
           NEW r \in 0 .. TickModulus - 1, NEW s \in 0 .. TickModulus - 1,
           TickModulus * p + r = TickModulus * q + s
    PROVE  r = s
<1>1. TickModulus \in Nat \ {0} /\ TickModulus * p \in Int /\ TickModulus * q \in Int
  BY BoundAssumption, EpochStarts
<1>2. ~ p + 1 <= q
  BY <1>1, EpochStarts
<1>3. ~ q + 1 <= p
  BY <1>1, EpochStarts
<1>4. p = q
  BY <1>2, <1>3
<1>5. QED
  BY <1>1, <1>4

\* Adding to what GetTickCount() shows, in the width of the clock, gives what it
\* will show that much later.
LEMMA LaterTick ==
    ASSUME NEW a \in Nat, NEW b \in Nat
    PROVE  ((a % TickModulus) + b) % TickModulus = (a + b) % TickModulus
<1> DEFINE m == TickModulus
           r == a % m
           p == Epoch(a)
           q == Epoch(r + b)
           s == (r + b) % m
           e == Epoch(a + b)
           f == (a + b) % m
<1>1. p \in Nat /\ r \in 0 .. m - 1 /\ m * p \in Nat /\ a = m * p + r
  BY EpochAndTick
<1>2. m \in Nat \ {0} /\ a + b \in Nat
  BY BoundAssumption
<1>3. r + b \in Nat
  BY <1>1, <1>2
<1>4. q \in Nat /\ s \in 0 .. m - 1 /\ m * q \in Nat /\ r + b = m * q + s
  BY <1>3, EpochAndTick
<1>5. e \in Nat /\ f \in 0 .. m - 1 /\ m * e \in Nat /\ a + b = m * e + f
  BY <1>2, EpochAndTick
<1> HIDE DEF m, r, p, q, s, e, f
<1>6. m * (p + q) = m * p + m * q
  BY <1>1, <1>2, <1>4
<1>7. m * (p + q) + s = m * e + f
  BY <1>1, <1>2, <1>4, <1>5, <1>6
<1>8. s = f
  BY <1>1, <1>4, <1>5, <1>7, OneTick DEF m
<1>9. QED
  BY <1>8 DEF m, r, s, f

(***************************************************************************)
(* The sleep queue.                                                        *)
(***************************************************************************)

\* UtSleep writes the wrapped time into the block.
WakesAreTicks(q) == \A i \in DOMAIN q : q[i].wake = q[i].due % TickModulus

\* UtSleep's walk keeps the list in the order of the wrapped times.
WakesSorted(q) == \A i, j \in DOMAIN q : i < j => q[i].wake <= q[j].wake

SleepOrder == WakesAreTicks(SleepQueue) /\ WakesSorted(SleepQueue)

Block(ms) == [thread |-> RunningThread, wake |-> (GetTickCount + ms) % TickModulus,
              due |-> now + ms]

\* The sleep queue changes by one UtSleep or by the wake-up of its head.
LEMMA SleepSteps ==
    ASSUME IInv, [Next]_vars
    PROVE  \/ SleepQueue' = SleepQueue
           \/ SleeperDue /\ SleepQueue' = Tail(SleepQueue)
           \/ \E ms \in SleepTimes :
                 /\ RunningThread \in Threads
                 /\ SleepQueue' = InsertAt(SleepQueue, SleepPosition(Block(ms).wake), Block(ms))
<1>1. ASSUME NEW t \in Threads, UtCreate(t) \/ UtActivate(t) \/ UtJoin(t)
      PROVE  SleepQueue' = SleepQueue
  BY <1>1 DEF UtCreate, UtActivate, UtJoin
<1>2. ASSUME NEW ms \in SleepTimes, UtSleep(ms)
      PROVE  /\ RunningThread \in Threads
             /\ SleepQueue' = InsertAt(SleepQueue, SleepPosition(Block(ms).wake), Block(ms))
  BY <1>2 DEF UtSleep, InUserThread, Block
<1>3. ASSUME UtRun \/ UtRunReturn \/ UtYield \/ UtDeactivate \/ UtExit \/ Tick \/ UNCHANGED vars
      PROVE  SleepQueue' = SleepQueue
  BY <1>3 DEF UtRun, UtRunReturn, UtYield, UtDeactivate, UtExit, Tick, vars, queues
<1>4. ASSUME Schedule \/ ContextSwitch \/ InternalExit
      PROVE  SleepQueue' = SleepQueue \/ (SleeperDue /\ SleepQueue' = Tail(SleepQueue))
  <2>1. CASE Schedule
    BY <2>1 DEF Schedule, WakeSleepThread
  <2>2. CASE ContextSwitch
    BY <2>2 DEF ContextSwitch, ExtractNextReadyThread
  <2>3. CASE InternalExit
    BY <2>3 DEF InternalExit, ExtractNextReadyThread
  <2>4. QED
    BY <1>4, <2>1, <2>2, <2>3
<1>5. QED
  BY <1>1, <1>2, <1>3, <1>4 DEF Next

\* The fields of the blocks are numbers.
LEMMA BlockFields ==
    ASSUME NEW q \in Seq(SleepBlock), NEW i \in DOMAIN q
    PROVE  q[i].thread \in Threads /\ q[i].wake \in Nat /\ q[i].due \in Nat
<1>1. q[i] \in SleepBlock
  OBVIOUS
<1>2. QED
  BY <1>1 DEF SleepBlock

\* The block that UtSleep links holds the tick of the time it is due.
LEMMA NewBlock ==
    ASSUME TypeOK, NEW ms \in SleepTimes, RunningThread \in Threads
    PROVE  /\ Block(ms) \in SleepBlock /\ Block(ms).wake \in Nat
           /\ Block(ms).wake = Block(ms).due % TickModulus
<1>1. now \in Nat /\ ms \in Nat /\ now + ms \in Nat
  BY ClientAssumption, BoundAssumption DEF TypeOK
<1>2. (GetTickCount + ms) % TickModulus = (now + ms) % TickModulus
  BY <1>1, LaterTick DEF GetTickCount
<1>3. (now + ms) % TickModulus \in Nat
  BY <1>1, ModTick
<1>4. QED
  BY <1>1, <1>2, <1>3 DEF Block, SleepBlock

\* One block linked at the place UtSleep finds leaves the list in order.
LEMMA InsertKeepsOrder ==
    ASSUME TypeOK, SleepOrder, NEW e \in SleepBlock, e.wake = e.due % TickModulus,
           SleepQueue' = InsertAt(SleepQueue, SleepPosition(e.wake), e)
    PROVE  SleepOrder'
<1> DEFINE n == Len(SleepQueue)
           p == SleepPosition(e.wake)
           q == SleepQueue
           r == SleepQueue'
<1>1. q \in Seq(SleepBlock) /\ n \in Nat /\ DOMAIN q = 1 .. n /\ e.wake \in Nat
  BY DEF TypeOK, SleepBlock
<1>2. /\ p \in 1 .. n + 1
      /\ \A j \in 1 .. p - 1 : q[j].wake <= e.wake
      /\ p <= n => q[p].wake > e.wake
  BY <1>1, SleepPositionInList
<1> HIDE DEF n, p
<1>3. /\ r \in Seq(SleepBlock) /\ Len(r) = n + 1 /\ DOMAIN r = 1 .. n + 1
      /\ Inserted(q, r, n, p, e)
  <2>1. /\ r \in Seq(SleepBlock) /\ Len(r) = n + 1 /\ Inserted(q, r, n, p, e)
    BY <1>1, <1>2, InsertAtFacts DEF n, p
  <2>2. QED
    BY <2>1
<1>4. \A j \in 1 .. n + 1 :
         r[j] = IF j < p THEN q[j] ELSE IF j = p THEN e ELSE q[j - 1]
  BY <1>3 DEF Inserted
<1> HIDE DEF q, r
<1>5. \A j \in 1 .. n : q[j].wake \in Nat
  BY <1>1, BlockFields
<1>6. /\ \A j \in 1 .. n : q[j].wake = q[j].due % TickModulus
      /\ \A i, j \in 1 .. n : i < j => q[i].wake <= q[j].wake
  BY <1>1 DEF SleepOrder, WakesAreTicks, WakesSorted, q
<1>7. \A j \in 1 .. n : p <= j => q[j].wake > e.wake
  <2>1. ASSUME NEW j \in 1 .. n, p <= j
        PROVE  q[j].wake > e.wake
    <3>1. p \in 1 .. n /\ q[p].wake <= q[j].wake
      BY <1>1, <1>2, <1>5, <1>6, <2>1
    <3>2. QED
      BY <1>1, <1>2, <1>5, <3>1
  <2>2. QED
    BY <2>1
<1>8. ASSUME NEW j \in 1 .. n + 1
      PROVE  r[j].wake = r[j].due % TickModulus
  <2>1. CASE j < p
    BY <1>1, <1>2, <1>4, <1>6, <2>1
  <2>2. CASE j = p
    BY <1>4, <2>2
  <2>3. CASE j > p
    <3>1. j - 1 \in 1 .. n /\ r[j] = q[j - 1]
      BY <1>1, <1>2, <1>4, <2>3
    <3>2. QED
      BY <1>6, <3>1
  <2>4. QED
    BY <1>2, <2>1, <2>2, <2>3
<1>9. ASSUME NEW i \in 1 .. n + 1, NEW j \in 1 .. n + 1, i < j
      PROVE  r[i].wake <= r[j].wake
  <2>1. CASE j < p
    BY <1>1, <1>2, <1>4, <1>6, <1>9, <2>1
  <2>2. CASE j = p
    BY <1>1, <1>2, <1>4, <1>9, <2>2
  <2>3. CASE j > p /\ i < p
    <3>1. j - 1 \in 1 .. n /\ p <= j - 1 /\ r[j] = q[j - 1]
      BY <1>1, <1>2, <1>4, <2>3
    <3>2. i \in 1 .. n /\ i \in 1 .. p - 1 /\ r[i] = q[i]
      BY <1>1, <1>2, <1>4, <2>3
    <3>3. q[i].wake <= e.wake /\ e.wake < q[j - 1].wake
      BY <1>2, <1>7, <3>1, <3>2
    <3>4. QED
      BY <1>1, <1>5, <3>1, <3>2, <3>3
  <2>4. CASE i = p
    <3>1. j - 1 \in 1 .. n /\ p <= j - 1 /\ r[j] = q[j - 1] /\ r[i] = e
      BY <1>1, <1>2, <1>4, <1>9, <2>4
    <3>2. QED
      BY <1>1, <1>5, <1>7, <3>1
  <2>5. CASE i > p
    <3>1. /\ i - 1 \in 1 .. n /\ r[i] = q[i - 1]
          /\ j - 1 \in 1 .. n /\ r[j] = q[j - 1] /\ i - 1 < j - 1
      BY <1>1, <1>2, <1>4, <1>9, <2>5
    <3>2. QED
      BY <1>6, <3>1
  <2>6. QED
    BY <1>2, <2>1, <2>2, <2>3, <2>4, <2>5
<1>10. QED
  BY <1>3, <1>8, <1>9 DEF SleepOrder, WakesAreTicks, WakesSorted, r

\* The tail of an ordered list is ordered.
LEMMA TailKeepsOrder ==
    ASSUME TypeOK, SleepOrder, SleepQueue # <<>>, SleepQueue' = Tail(SleepQueue)
    PROVE  SleepOrder'
<1> DEFINE n == Len(SleepQueue) - 1
           q == SleepQueue
           r == SleepQueue'
<1>1. /\ n \in Nat /\ DOMAIN q = 1 .. n + 1 /\ DOMAIN r = 1 .. n
      /\ \A j \in 1 .. n : r[j] = q[j + 1]
  <2>1. q \in Seq(SleepBlock) /\ Len(q) \in Nat
    BY DEF TypeOK
  <2>2. /\ Len(q) \in Nat \ {0} /\ Tail(q) \in Seq(SleepBlock) /\ Len(Tail(q)) = n
        /\ \A j \in 1 .. Len(q) - 1 : Tail(q)[j] = q[j + 1]
    BY <2>1, TailFacts
  <2>3. QED
    BY <2>1, <2>2
<1> HIDE DEF n, q, r
<1>2. \A j \in 1 .. n : j + 1 \in 1 .. n + 1
  BY <1>1
<1>3. /\ \A j \in 1 .. n + 1 : q[j].wake = q[j].due % TickModulus
      /\ \A i, j \in 1 .. n + 1 : i < j => q[i].wake <= q[j].wake
  BY <1>1 DEF SleepOrder, WakesAreTicks, WakesSorted, q
<1>4. \A j \in 1 .. n : r[j].wake = r[j].due % TickModulus
  BY <1>1, <1>2, <1>3
<1>5. \A i, j \in 1 .. n : i < j => r[i].wake <= r[j].wake
  BY <1>1, <1>2, <1>3
<1>6. QED
  BY <1>1, <1>4, <1>5 DEF SleepOrder, WakesAreTicks, WakesSorted, r

LEMMA NextSleepOrder == IInv /\ SleepOrder /\ [Next]_vars => SleepOrder'
<1> SUFFICES ASSUME IInv, SleepOrder, [Next]_vars PROVE SleepOrder'
  OBVIOUS
<1>1. TypeOK
  BY DEF IInv
<1>2. CASE SleepQueue' = SleepQueue
  BY <1>2 DEF SleepOrder, WakesAreTicks, WakesSorted
<1>3. CASE SleeperDue /\ SleepQueue' = Tail(SleepQueue)
  BY <1>1, <1>3, TailKeepsOrder DEF SleeperDue
<1>4. ASSUME NEW ms \in SleepTimes, RunningThread \in Threads,
             SleepQueue' = InsertAt(SleepQueue, SleepPosition(Block(ms).wake), Block(ms))
      PROVE  SleepOrder'
  <2>1. Block(ms) \in SleepBlock /\ Block(ms).wake = Block(ms).due % TickModulus
    BY <1>1, <1>4, NewBlock
  <2>2. QED
    BY <1>1, <1>4, <2>1, InsertKeepsOrder
<1>5. QED
  BY <1>2, <1>3, <1>4, SleepSteps

LEMMA SleepOrderHolds == Spec => []SleepOrder
<1>1. Init => SleepOrder
  BY DEF Init, SleepOrder, WakesAreTicks, WakesSorted
<1>2. QED
  BY <1>1, NextSleepOrder, IInvHolds, PTL DEF Spec

\* Of the blocks of one epoch the first is due first, so that it is enough for
\* WakeSleepThread to look at the head.
THEOREM SleepQueueSortedAlways == Spec => []SleepQueueSorted
<1>1. TypeOK /\ SleepOrder => SleepQueueSorted
  <2> SUFFICES ASSUME TypeOK, SleepOrder,
                      NEW i \in DOMAIN SleepQueue, NEW j \in DOMAIN SleepQueue, i < j,
                      Epoch(SleepQueue[i].due) = Epoch(SleepQueue[j].due)
               PROVE  SleepQueue[i].due <= SleepQueue[j].due
    BY DEF SleepQueueSorted
  <2>1. /\ SleepQueue[i].due \in Nat /\ SleepQueue[j].due \in Nat
        /\ SleepQueue[i].wake \in Nat /\ SleepQueue[j].wake \in Nat
    BY BlockFields DEF TypeOK
  <2>2. /\ SleepQueue[i].wake <= SleepQueue[j].wake
        /\ SleepQueue[i].wake = SleepQueue[i].due % TickModulus
        /\ SleepQueue[j].wake = SleepQueue[j].due % TickModulus
    BY DEF SleepOrder, WakesAreTicks, WakesSorted
  <2> DEFINE x == TickModulus * Epoch(SleepQueue[i].due)
  <2>3. /\ x \in Nat /\ SleepQueue[i].due = x + SleepQueue[i].wake
        /\ SleepQueue[j].due = x + SleepQueue[j].wake
    BY <2>1, <2>2, EpochAndTick
  <2> HIDE DEF x
  <2>4. QED
    BY <2>1, <2>2, <2>3
<1>2. IInv => TypeOK
  BY DEF IInv
<1>3. QED
  BY <1>1, <1>2, SleepOrderHolds, IInvHolds, PTL

\* What leaves the sleep queue was due, but for sleeps across a wrap.
LEMMA WakeIsDue ==
    ASSUME IInv, SleepOrder, [Next]_vars,
           NEW i \in DOMAIN SleepQueue, SleepQueue[i].thread \notin Sleepers'
    PROVE  SleepQueue[i].due <= now \/ Epoch(SleepQueue[i].due) > Epoch(now)
<1>1. /\ TypeOK /\ SleepQueue \in Seq(SleepBlock) /\ now \in Nat
      /\ SleepQueue[i].thread \in ThreadsOf(SleepQueue)
      /\ SleepQueue[i].thread \notin ThreadsOf(SleepQueue')
  BY BoundAssumption, SetsOfListsNext DEF IInv, TypeOK, ThreadsOf
<1>2. CASE SleepQueue' = SleepQueue
  BY <1>1, <1>2
<1>3. CASE SleeperDue /\ SleepQueue' = Tail(SleepQueue)
  <2>1. SleepQueue # <<>> /\ Head(SleepQueue).wake <= GetTickCount
    BY <1>3 DEF SleeperDue
  <2>2. 1 \in DOMAIN SleepQueue /\ Head(SleepQueue) = SleepQueue[1]
    BY <1>1, <2>1
  <2>3. SleepQueue[i].thread = SleepQueue[1].thread
    BY <1>1, <1>3, <2>1, <2>2, SleepTail
  <2>4. i = 1
    BY <2>2, <2>3 DEF IInv, OnePlace
  <2>5. SleepQueue[i].due \in Nat /\ SleepQueue[i].wake \in Nat
    BY <1>1, BlockFields
  <2>6. SleepQueue[i].due % TickModulus <= now % TickModulus
    BY <2>1, <2>2, <2>4 DEF SleepOrder, WakesAreTicks, GetTickCount
  <2> DEFINE d == SleepQueue[i].due
  <2>7. /\ Epoch(d) \in Nat /\ TickModulus * Epoch(d) \in Nat
        /\ d % TickModulus \in Nat /\ d = TickModulus * Epoch(d) + (d % TickModulus)
    BY <2>5, EpochAndTick, ModTick
  <2>8. /\ Epoch(now) \in Nat /\ TickModulus * Epoch(now) \in Nat
        /\ now % TickModulus \in Nat
        /\ now = TickModulus * Epoch(now) + (now % TickModulus)
    BY <1>1, EpochAndTick, ModTick
  <2>9. ASSUME Epoch(d) <= Epoch(now)
        PROVE  d <= now
    <3>1. TickModulus * Epoch(d) <= TickModulus * Epoch(now)
      BY <2>7, <2>8, <2>9, EpochStarts
    <3>2. QED
      BY <2>6, <2>7, <2>8, <3>1
  <2>10. QED
    BY <2>7, <2>8, <2>9
<1>4. ASSUME NEW ms \in SleepTimes, RunningThread \in Threads,
             SleepQueue' = InsertAt(SleepQueue, SleepPosition(Block(ms).wake), Block(ms))
      PROVE  FALSE
  <2>1. Block(ms) \in SleepBlock /\ Block(ms).wake \in Nat
    BY <1>1, <1>4, NewBlock
  <2>2. SleepPosition(Block(ms).wake) \in 1 .. Len(SleepQueue) + 1
    BY <1>1, <2>1, SleepPositionInList
  <2>3. ThreadsOf(SleepQueue) \subseteq ThreadsOf(SleepQueue')
    BY <1>1, <1>4, <2>1, <2>2, SleepInsert
  <2>4. QED
    BY <1>1, <2>3
<1>5. QED
  BY <1>2, <1>3, <1>4, SleepSteps

\* UtSleep is a timed wait, for every width of the clock.
THEOREM NoEarlyWakeAlways == Spec => NoEarlyWake
<1> DEFINE A == \A i \in DOMAIN SleepQueue :
                   SleepQueue[i].thread \notin Sleepers' =>
                       SleepQueue[i].due <= now \/ Epoch(SleepQueue[i].due) > Epoch(now)
<1>1. IInv /\ SleepOrder /\ [Next]_vars => A
  BY WakeIsDue
<1>2. Spec => [][A]_vars
  <2> HIDE DEF A
  <2> QED BY <1>1, SleepOrderHolds, IInvHolds, PTL DEF Spec
<1>3. QED
  BY <1>2 DEF NoEarlyWake

(***************************************************************************)
(* The wait queue.                                                         *)
(***************************************************************************)

\* A joiner is let go in UtExit only, by VerifyWait.
LEMMA JoinerLetGo ==
    ASSUME IInv, [Next]_vars,
           NEW i \in DOMAIN WaitQueue, WaitQueue[i].joiner \notin Joiners'
    PROVE  UtExit
<1>1. /\ WaitQueue \in Seq(WaitBlock)
      /\ WaitQueue[i].joiner \in JoinersOf(WaitQueue)
      /\ WaitQueue[i].joiner \notin JoinersOf(WaitQueue')
  BY SetsOfListsNext DEF IInv, TypeOK, JoinersOf
<1>2. ASSUME NEW t \in Threads, UtCreate(t) \/ UtActivate(t)
      PROVE  FALSE
  BY <1>1, <1>2 DEF UtCreate, UtActivate
<1>3. ASSUME NEW t \in Threads, UtJoin(t)
      PROVE  FALSE
  <2> DEFINE e == [target |-> t, joiner |-> RunningThread]
  <2>1. e \in WaitBlock /\ WaitQueue' = Cons(e, WaitQueue)
    BY <1>3 DEF UtJoin, InUserThread, WaitBlock
  <2> HIDE DEF e
  <2>2. JoinersOf(WaitQueue) \subseteq JoinersOf(WaitQueue')
    BY <1>1, <2>1, WaitCons
  <2>3. QED
    BY <1>1, <2>2
<1>4. ASSUME NEW ms \in SleepTimes, UtSleep(ms)
      PROVE  FALSE
  BY <1>1, <1>4 DEF UtSleep
<1>5. ASSUME \/ UtRun \/ UtRunReturn \/ UtYield \/ UtDeactivate \/ Schedule
             \/ ContextSwitch \/ InternalExit \/ Tick \/ UNCHANGED vars
      PROVE  FALSE
  BY <1>1, <1>5 DEF UtRun, UtRunReturn, UtYield, UtDeactivate, Schedule, ContextSwitch,
                    InternalExit, Tick, vars, queues
<1>6. QED
  BY <1>2, <1>3, <1>4, <1>5 DEF Next

\* VerifyWait lets go of one thread, which joined the exiting one, and makes it
\* ready.
LEMMA VerifyReleases ==
    ASSUME TypeOK, OnePlace, VerifyWait,
           NEW i \in DOMAIN WaitQueue, WaitQueue[i].joiner \notin Joiners'
    PROVE  /\ WaitQueue[i].target = RunningThread
           /\ WaitQueue[i].joiner \in ToSet(ReadyQueue')
<1>1. /\ ReadyQueue \in Seq(Threads) /\ WaitQueue \in Seq(WaitBlock)
      /\ WaitQueue[i].joiner \in JoinersOf(WaitQueue)
      /\ WaitQueue[i].joiner \notin JoinersOf(WaitQueue')
  BY SetsOfListsNext DEF TypeOK, JoinersOf
<1>2. \E k \in DOMAIN WaitQueue : IsFirstWaiter(RunningThread, k)
  BY <1>1 DEF VerifyWait
<1> DEFINE k == CHOOSE j \in DOMAIN WaitQueue : IsFirstWaiter(RunningThread, j)
<1>3. k \in DOMAIN WaitQueue /\ IsFirstWaiter(RunningThread, k)
  BY <1>2
<1>4. /\ WaitQueue' = RemoveAt(WaitQueue, k)
      /\ ReadyQueue' = Append(ReadyQueue, WaitQueue[k].joiner)
  BY <1>2 DEF VerifyWait
<1> HIDE DEF k
<1>5. k \in 1 .. Len(WaitQueue)
  BY <1>1, <1>3
<1>6. /\ WaitQueue[k] \in WaitBlock
      /\ JoinersOf(WaitQueue) = JoinersOf(WaitQueue') \cup {WaitQueue[k].joiner}
  BY <1>1, <1>4, <1>5, WaitRemove
<1>7. i = k
  BY <1>1, <1>3, <1>6 DEF OnePlace
<1>8. WaitQueue[k].joiner \in Threads
  BY <1>6 DEF WaitBlock
<1>9. ToSet(ReadyQueue') = ToSet(ReadyQueue) \cup {WaitQueue[k].joiner}
  BY <1>1, <1>4, <1>8, ReadyAppend
<1>10. QED
  BY <1>3, <1>7, <1>9 DEF IsFirstWaiter

\* UtJoin comes back only after the exit of the thread it joined.
THEOREM JoinOnlyAfterExitAlways == Spec => JoinOnlyAfterExit
<1> DEFINE A == \A i \in DOMAIN WaitQueue :
                   WaitQueue[i].joiner \notin Joiners' =>
                      /\ phase' = "exit" /\ RunningThread = WaitQueue[i].target
                      /\ WaitQueue[i].joiner \in ToSet(ReadyQueue)'
<1>1. IInv /\ [Next]_vars => A
  <2> SUFFICES ASSUME IInv, [Next]_vars,
                      NEW i \in DOMAIN WaitQueue, WaitQueue[i].joiner \notin Joiners'
               PROVE  /\ phase' = "exit" /\ RunningThread = WaitQueue[i].target
                      /\ WaitQueue[i].joiner \in ToSet(ReadyQueue)'
    OBVIOUS
  <2>1. UtExit
    BY JoinerLetGo
  <2>2. phase' = "exit" /\ VerifyWait
    BY <2>1 DEF UtExit
  <2>3. /\ WaitQueue[i].target = RunningThread
        /\ WaitQueue[i].joiner \in ToSet(ReadyQueue')
    BY <2>2, VerifyReleases DEF IInv
  <2>4. ToSet(ReadyQueue)' = ToSet(ReadyQueue')
    BY DEF ToSet
  <2>5. QED
    BY <2>2, <2>3, <2>4
<1>2. Spec => [][A]_vars
  <2> HIDE DEF A
  <2> QED BY <1>1, IInvHolds, PTL DEF Spec
<1>3. QED
  BY <1>2 DEF JoinOnlyAfterExit

(***************************************************************************)
(* The end of UtRun.                                                       *)
(***************************************************************************)

\* Programs that do not wait for ever: no thread parks itself, each is joined by one
\* other at most, and nobody waits, along a chain of joins, for itself.
JoinsEnd ==
    /\ Parkers = {}
    /\ \A p, q \in JoinPairs : p[2] = q[2] => p[1] = q[1]
    /\ \E rank \in [Threads -> Nat] : \A p \in JoinPairs : rank[p[2]] < rank[p[1]]

\* A thread that is waited for is still there, and whoever joined it is let go when
\* it exits; the scheduler comes back to UtRun only when nobody is ready or asleep.
AwaitedLives ==
    \A w \in ToSet(WaitQueue) :
        /\ <<w.joiner, w.target>> \in JoinPairs
        /\ w.target \in live
        /\ phase = "exit" => w.target # RunningThread
BackInMain == phase = "user" /\ RunningThread = Main => ReadyQueue = <<>> /\ SleepQueue = <<>>
Awaited == AwaitedLives /\ BackInMain /\ parked = {}

LEMMA InitAwaited == Init => Awaited
<1> SUFFICES ASSUME Init PROVE Awaited
  OBVIOUS
<1>1. ToSet(WaitQueue) = {}
  BY DEF Init, ToSet
<1>2. QED
  BY <1>1 DEF Init, Awaited, AwaitedLives, BackInMain

\* A step that leaves the waiting alone and does not come back to UtRun.
LEMMA AwaitedKept ==
    ASSUME Awaited, live \subseteq live', WaitQueue' = WaitQueue, parked' = parked,
           (phase' = phase /\ RunningThread' = RunningThread) \/ phase' # "exit",
           BackInMain'
    PROVE  Awaited'
<1>1. ToSet(WaitQueue') = ToSet(WaitQueue)
  OBVIOUS
<1>2. QED
  BY <1>1 DEF Awaited, AwaitedLives

\* The next thread is a user thread, or nobody is left in the queues.
LEMMA ExtractComesBack ==
    ASSUME IInv, ExtractNextReadyThread
    PROVE  BackInMain'
<1>1. /\ ReadyQueue \in Seq(Threads) /\ SleepQueue \in Seq(SleepBlock)
      /\ Main \notin Threads
  BY ThreadsAssumption DEF IInv, TypeOK
<1>2. ReadyQueue # <<>> => Head(ReadyQueue) \in Threads
  BY <1>1
<1>3. SleepQueue # <<>> => Head(SleepQueue).thread \in Threads
  <2>1. SleepQueue # <<>> => Head(SleepQueue) \in SleepBlock
    BY <1>1
  <2>2. QED
    BY <2>1 DEF SleepBlock
<1>4. QED
  BY <1>1, <1>2, <1>3 DEF ExtractNextReadyThread, SleeperDue, BackInMain

\* UtJoin waits for a thread that is allocated.
LEMMA JoinAwaited ==
    ASSUME IInv, Awaited, NEW t \in Threads, UtJoin(t)
    PROVE  Awaited'
<1> DEFINE e == [target |-> t, joiner |-> RunningThread]
<1>1. /\ phase = "user" /\ RunningThread \in Threads /\ <<RunningThread, t>> \in JoinPairs
      /\ UtAlive(t) /\ WaitQueue' = Cons(e, WaitQueue) /\ phase' = "schedule"
      /\ live' = live /\ parked' = parked
  BY DEF UtJoin, InUserThread, clients
<1>2. t \in live
  BY <1>1 DEF IInv, NoThreadLost, UtAlive, Executing
<1>3. e \in WaitBlock /\ WaitQueue \in Seq(WaitBlock)
  BY <1>1 DEF WaitBlock, IInv, TypeOK
<1>4. e.target = t /\ e.joiner = RunningThread
  OBVIOUS
<1> HIDE DEF e
<1>5. ToSet(WaitQueue') = ToSet(WaitQueue) \cup {e}
  <2> DEFINE r == Cons(e, WaitQueue)
             n == Len(WaitQueue)
  <2>1. /\ r \in Seq(WaitBlock) /\ n \in Nat /\ Len(r) = n + 1 /\ Inserted(WaitQueue, r, n, 1, e)
    BY <1>3, ConsFacts
  <2>2. ValuesOf(r, n + 1) = ValuesOf(WaitQueue, n) \cup {e}
    BY <2>1, InsertImage
  <2>3. ToSet(r) = ValuesOf(r, n + 1) /\ ToSet(WaitQueue) = ValuesOf(WaitQueue, n)
    BY <1>3, <2>1 DEF ToSet, ValuesOf
  <2>4. QED
    BY <1>1, <2>2, <2>3
<1>6. QED
  BY <1>1, <1>2, <1>4, <1>5 DEF Awaited, AwaitedLives, BackInMain

\* UtExit lets the one thread go that joined the exiting one.
LEMMA ExitAwaited ==
    ASSUME JoinsEnd, IInv, Awaited, UtExit
    PROVE  Awaited'
<1> DEFINE t == RunningThread
<1>1. /\ phase' = "exit" /\ RunningThread' = t /\ live' = live /\ parked' = parked /\ VerifyWait
  BY DEF UtExit, clients
<1>2. WaitQueue \in Seq(WaitBlock) /\ Len(WaitQueue) \in Nat /\ DOMAIN WaitQueue = 1 .. Len(WaitQueue)
  BY DEF IInv, TypeOK
<1>3. \A i, j \in 1 .. Len(WaitQueue) :
          WaitQueue[i].target = t /\ WaitQueue[j].target = t => i = j
  <2> SUFFICES ASSUME NEW i \in 1 .. Len(WaitQueue), NEW j \in 1 .. Len(WaitQueue),
                      WaitQueue[i].target = t, WaitQueue[j].target = t
               PROVE  i = j
    OBVIOUS
  <2>1. WaitQueue[i] \in ToSet(WaitQueue) /\ WaitQueue[j] \in ToSet(WaitQueue)
    BY <1>2 DEF ToSet
  <2>2. <<WaitQueue[i].joiner, t>> \in JoinPairs /\ <<WaitQueue[j].joiner, t>> \in JoinPairs
    BY <2>1 DEF Awaited, AwaitedLives
  <2>3. WaitQueue[i].joiner = WaitQueue[j].joiner
    BY <2>2 DEF JoinsEnd
  <2>4. QED
    BY <1>2, <2>3 DEF IInv, OnePlace
<1>4. /\ ToSet(WaitQueue') \subseteq ToSet(WaitQueue)
      /\ \A w \in ToSet(WaitQueue') : w.target # t
  <2>1. CASE \E i \in DOMAIN WaitQueue : IsFirstWaiter(t, i)
    <3> DEFINE i == CHOOSE k \in DOMAIN WaitQueue : IsFirstWaiter(t, k)
               n == Len(WaitQueue)
               r == RemoveAt(WaitQueue, i)
    <3>1. i \in 1 .. n /\ WaitQueue[i].target = t /\ WaitQueue' = r
      BY <1>1, <1>2, <2>1 DEF VerifyWait, IsFirstWaiter
    <3> HIDE DEF i
    <3>2. /\ r \in Seq(WaitBlock) /\ Len(r) = n - 1
          /\ \A j \in 1 .. n - 1 : r[j] = IF j < i THEN WaitQueue[j] ELSE WaitQueue[j + 1]
      BY <1>2, <3>1, RemoveAtFacts
    <3> HIDE DEF r
    <3>3. ASSUME NEW j \in 1 .. n - 1
          PROVE  \E k \in 1 .. n : k # i /\ r[j] = WaitQueue[k]
      <4>1. CASE j < i
        BY <1>2, <3>2, <4>1
      <4>2. CASE ~ j < i
        <5>1. j + 1 \in 1 .. n /\ j + 1 # i /\ r[j] = WaitQueue[j + 1]
          BY <1>2, <3>1, <3>2, <4>2
        <5>2. QED
          BY <5>1
      <4>3. QED
        BY <4>1, <4>2
    <3>4. ToSet(WaitQueue') = {r[j] : j \in 1 .. n - 1}
      BY <1>2, <3>1, <3>2 DEF ToSet
    <3>5. \A k \in 1 .. n : WaitQueue[k] \in ToSet(WaitQueue)
      BY <1>2 DEF ToSet
    <3>6. QED
      BY <1>3, <3>1, <3>3, <3>4, <3>5, SMTT(30)
  <2>2. CASE ~ \E i \in DOMAIN WaitQueue : IsFirstWaiter(t, i)
    <3>1. WaitQueue' = WaitQueue
      BY <1>1, <2>2 DEF VerifyWait
    <3>2. ASSUME NEW i \in 1 .. Len(WaitQueue), WaitQueue[i].target = t
          PROVE  FALSE
      <4>1. ASSUME NEW j \in 1 .. i - 1 PROVE WaitQueue[j].target # t
        <5>1. j \in 1 .. Len(WaitQueue) /\ j # i
          BY <1>2
        <5>2. QED
          BY <1>3, <3>2, <5>1
      <4>2. QED
        BY <1>2, <2>2, <3>2, <4>1 DEF IsFirstWaiter
    <3>3. QED
      BY <1>2, <3>1, <3>2 DEF ToSet
  <2>3. QED
    BY <2>1, <2>2
<1>5. AwaitedLives'
  BY <1>1, <1>4 DEF Awaited, AwaitedLives
<1>6. QED
  BY <1>1, <1>5 DEF Awaited, BackInMain

\* InternalExit frees a thread that nobody waits for.
LEMMA FreedAwaited ==
    ASSUME IInv, Awaited, InternalExit
    PROVE  Awaited'
<1>1. /\ phase = "exit" /\ phase' = "user" /\ live' = live \ {RunningThread}
      /\ WaitQueue' = WaitQueue /\ parked' = parked /\ ExtractNextReadyThread
  BY DEF InternalExit
<1>2. BackInMain'
  BY <1>1, ExtractComesBack
<1>3. AwaitedLives'
  BY <1>1 DEF Awaited, AwaitedLives
<1>4. QED
  BY <1>1, <1>2, <1>3 DEF Awaited

LEMMA NextAwaited == ASSUME JoinsEnd PROVE IInv /\ Awaited /\ [Next]_vars => Awaited'
<1> SUFFICES ASSUME IInv, Awaited, [Next]_vars PROVE Awaited'
  OBVIOUS
<1>1. ASSUME NEW t \in Threads, UtCreate(t) PROVE Awaited'
  <2>1. /\ RunningThread # Main /\ RunningThread' = RunningThread /\ phase' = phase
        /\ live \subseteq live' /\ WaitQueue' = WaitQueue /\ parked' = parked
    BY <1>1 DEF UtCreate
  <2>2. BackInMain'
    BY <2>1 DEF BackInMain
  <2>3. QED
    BY <2>1, <2>2, AwaitedKept
<1>2. ASSUME NEW t \in Threads, UtActivate(t) PROVE Awaited'
  BY <1>2 DEF UtActivate, Awaited
<1>3. ASSUME NEW t \in Threads, UtJoin(t) PROVE Awaited'
  BY <1>3, JoinAwaited
<1>4. CASE UtExit
  BY <1>4, ExitAwaited
<1>5. CASE InternalExit
  BY <1>5, FreedAwaited
<1>6. CASE UtDeactivate
  BY <1>6 DEF UtDeactivate, JoinsEnd
<1>7. ASSUME \/ \E ms \in SleepTimes : UtSleep(ms)
             \/ UtRun \/ UtYield \/ Schedule
      PROVE  Awaited'
  <2>1. /\ phase' \in {"schedule", "extract"} /\ WaitQueue' = WaitQueue
        /\ parked' = parked /\ live' = live
    BY <1>7 DEF UtSleep, UtRun, UtYield, Schedule, queues, clients
  <2>2. BackInMain' /\ phase' # "exit"
    BY <2>1 DEF BackInMain
  <2>3. QED
    BY <2>1, <2>2, AwaitedKept
<1>8. CASE UtRunReturn
  <2>1. /\ phase' = "user" /\ RunningThread' = NoThread /\ WaitQueue' = WaitQueue
        /\ parked' = parked /\ live' = live
    BY <1>8 DEF UtRunReturn, queues, clients
  <2>2. BackInMain' /\ phase' # "exit"
    BY <2>1, ThreadsAssumption DEF BackInMain
  <2>3. QED
    BY <2>1, <2>2, AwaitedKept
<1>9. CASE ContextSwitch
  <2>1. /\ phase' = "user" /\ WaitQueue' = WaitQueue /\ parked' = parked /\ live' = live
        /\ ExtractNextReadyThread
    BY <1>9 DEF ContextSwitch, clients
  <2>2. BackInMain' /\ phase' # "exit"
    BY <2>1, ExtractComesBack
  <2>3. QED
    BY <2>1, <2>2, AwaitedKept
<1>10. CASE Tick \/ UNCHANGED vars
  <2>1. UNCHANGED <<phase, RunningThread, ReadyQueue, SleepQueue, WaitQueue, parked, live>>
    BY <1>10 DEF Tick, vars, queues, clients
  <2>2. BackInMain'
    BY <2>1 DEF Awaited, BackInMain
  <2>3. QED
    BY <2>1, <2>2, AwaitedKept
<1>11. QED
  BY <1>1, <1>2, <1>3, <1>4, <1>5, <1>6, <1>7, <1>8, <1>9, <1>10 DEF Next

\* If somebody were left when UtRun comes back, everybody left would wait for another
\* of them, along joins that go down in rank for ever.
LEMMA NobodyLeft == ASSUME JoinsEnd PROVE IInv /\ Awaited => RunEndsClean
<1> SUFFICES ASSUME IInv, Awaited, phase = "user", RunningThread = Main
             PROVE  ReadyQueue = <<>> /\ SleepQueue = <<>> /\ NumberOfThreads = 0
  BY DEF RunEndsClean
<1>1. ReadyQueue = <<>> /\ SleepQueue = <<>> /\ parked = {}
  BY DEF Awaited, BackInMain
<1>2. ToSet(ReadyQueue) = {} /\ Sleepers = {} /\ Executing = {}
  BY <1>1, ThreadsAssumption DEF ToSet, Sleepers, Executing
<1>3. live = Joiners
  BY <1>1, <1>2 DEF IInv, NoThreadLost
<1>4. PICK rank \in [Threads -> Nat] : \A p \in JoinPairs : rank[p[2]] < rank[p[1]]
  BY DEF JoinsEnd
<1>5. live = {}
  <2> SUFFICES ASSUME live # {} PROVE FALSE
    OBVIOUS
  <2> DEFINE T == {rank[t] : t \in live}
  <2>1. live \subseteq Threads
    BY DEF IInv, TypeOK
  <2>2. T \in SUBSET Nat /\ T # {}
    BY <2>1
  <2>3. PICK m \in T : \A k \in T : m <= k
    BY <2>2, LeastNatural
  <2>4. PICK t \in live : rank[t] = m
    BY <2>3
  <2>5. PICK i \in DOMAIN WaitQueue : WaitQueue[i].joiner = t
    BY <1>3, <2>4 DEF Joiners
  <2> DEFINE u == WaitQueue[i].target
  <2>6. WaitQueue[i] \in ToSet(WaitQueue)
    BY <2>5 DEF ToSet
  <2>7. <<t, u>> \in JoinPairs /\ u \in live
    BY <2>5, <2>6 DEF Awaited, AwaitedLives
  <2> HIDE DEF u
  <2>8. rank[u] < rank[t]
    BY <1>4, <2>7
  <2>9. rank[u] \in T /\ rank[u] \in Nat /\ rank[t] \in Nat
    BY <2>1, <2>4, <2>7
  <2>10. QED
    BY <2>3, <2>4, <2>8, <2>9
<1>6. Cardinality(live) = NumberOfThreads /\ NumberOfThreads \in Nat
  BY DEF IInv, CountMatches, TypeOK
<1>7. QED
  BY <1>1, <1>5, <1>6, FS_EmptySet

\* UtRun's assertions: it comes back when all threads have exited, for all programs that do
\* not wait for ever, however they yield, sleep, create threads and join them.
THEOREM RunEndsCleanAlways == ASSUME JoinsEnd PROVE Spec => []RunEndsClean
<1>1. IInv /\ Awaited => RunEndsClean
  BY NobodyLeft
<1>2. IInv /\ Awaited /\ [Next]_vars => Awaited'
  BY NextAwaited
<1>3. Spec => []Awaited
  BY <1>2, InitAwaited, IInvHolds, PTL DEF Spec
<1>4. QED
  BY <1>1, <1>3, IInvHolds, PTL
=============================================================================
