----------------------------- MODULE DataLemmas -----------------------------
(***************************************************************************)
(* Lemmas about the data that the modules are made of: numbers, sizes of   *)
(* finite sets, functions computed by recursion over a finite set, and     *)
(* lists.                                                                  *)
(***************************************************************************)
EXTENDS Integers, Sequences, FiniteSets, SequencesExt, FiniteSetsExt, Functions,
        SequenceTheorems, FiniteSetTheorems, TLAPS

(***************************************************************************)
(* Numbers.                                                                *)
(***************************************************************************)

\* A walk along a list that can stop stops somewhere first.
LEMMA LeastNatural ==
    ASSUME NEW T \in SUBSET Nat, T # {}
    PROVE  \E m \in T : \A k \in T : m <= k
<1> DEFINE R == StrictSubsetOrdering(Nat)
           F == {1 .. k : k \in T}
<1>1. F \subseteq FiniteSubsetsOf(Nat) /\ F # {}
  <2>1. ASSUME NEW k \in T
        PROVE  1 .. k \in FiniteSubsetsOf(Nat)
    <3>1. k \in Int /\ 1 .. k \subseteq Nat
      OBVIOUS
    <3>2. QED
      BY <3>1, FS_Interval DEF FiniteSubsetsOf
  <2>2. QED
    BY <2>1
<1>2. PICK x \in F : \A y \in F : <<y, x>> \notin R
  <2> HIDE DEF F, R
  <2> QED
    BY <1>1, WFMin, FS_StrictSubsetOrderingWellFounded DEF R
<1>3. PICK m \in T : x = 1 .. m
  OBVIOUS
<1>4. ASSUME NEW k \in T, k < m
      PROVE  FALSE
  <2>1. 1 .. k \subseteq 1 .. m /\ m \in 1 .. m /\ m \notin 1 .. k
    BY <1>4
  <2>2. <<1 .. k, x>> \in R
    BY <1>3, <2>1 DEF StrictSubsetOrdering
  <2>3. QED
    BY <1>2, <2>2
<1>5. QED
  BY <1>4

\* Induction: the theorems of NaturalsInduction in terms of a set.
LEMMA InductiveSet ==
    ASSUME NEW S, 0 \in S, \A n \in Nat : n \in S => n + 1 \in S
    PROVE  \A n \in Nat : n \in S
<1> DEFINE T == Nat \ S
<1>1. SUFFICES ASSUME T # {} PROVE FALSE
  OBVIOUS
<1>2. PICK m \in T : \A k \in T : m <= k
  BY <1>1, LeastNatural
<1>3. m # 0 /\ m - 1 \in Nat /\ m - 1 \in S
  BY <1>2
<1>4. QED BY <1>2, <1>3

(***************************************************************************)
(* Sizes of subsets of a finite set.                                       *)
(***************************************************************************)

\* A subset has a size, and one that is not empty has a size above zero.
LEMMA CountMembers ==
    ASSUME NEW U, IsFiniteSet(U), NEW A \in SUBSET U
    PROVE  Cardinality(A) \in Nat /\ \A t \in A : Cardinality(A) > 0
<1>1. IsFiniteSet(A)
  BY FS_Subset
<1>2. Cardinality(A) \in Nat /\ (Cardinality(A) = 0 <=> A = {})
  BY <1>1, FS_CardinalityType, FS_EmptySet
<1>3. QED
  BY <1>2

\* The sizes of two subsets that agree but for one element.
LEMMA CountMove ==
    ASSUME NEW U, IsFiniteSet(U), NEW A \in SUBSET U, NEW B \in SUBSET U, NEW t,
           A \ {t} = B \ {t}
    PROVE  Cardinality(B) = Cardinality(A) + (IF t \in B THEN 1 ELSE 0)
                                           - (IF t \in A THEN 1 ELSE 0)
<1>1. IsFiniteSet(A) /\ IsFiniteSet(B)
  BY FS_Subset
<1>2. Cardinality(A) \in Nat /\ Cardinality(B) \in Nat
  BY <1>1, FS_CardinalityType
<1>3. Cardinality(A \ {t}) = IF t \in A THEN Cardinality(A) - 1 ELSE Cardinality(A)
  BY <1>1, FS_RemoveElement, Zenon
<1>4. Cardinality(B \ {t}) = IF t \in B THEN Cardinality(B) - 1 ELSE Cardinality(B)
  BY <1>1, FS_RemoveElement, Zenon
<1>5. QED
  BY <1>2, <1>3, <1>4

(***************************************************************************)
(* Functions computed by recursion over the subsets of a finite set.       *)
(***************************************************************************)

\* The equation of a fold over the subsets of U: pick chooses the element that is
\* taken last, step[x] adds x to what has been computed without it.
FoldsTo(U, base, pick, step, g) ==
    \A s \in SUBSET U :
        g[s] = IF s = {} THEN base ELSE step[pick[s]][g[s \ {pick[s]}]]

Picks(U, pick) == \A s \in SUBSET U : s # {} => pick[s] \in s

\* A subset without one of its elements.
LEMMA SmallerSet ==
    ASSUME NEW U, IsFiniteSet(U), NEW s \in SUBSET U, NEW x \in s
    PROVE  /\ s \ {x} \in SUBSET U
           /\ Cardinality(s) \in Nat /\ Cardinality(s \ {x}) = Cardinality(s) - 1
<1>1. IsFiniteSet(s)
  BY FS_Subset
<1>2. QED
  BY <1>1, FS_CardinalityType, FS_RemoveElement

\* There is such a function.
LEMMA FoldExists ==
    ASSUME NEW U, IsFiniteSet(U), NEW V, NEW base \in V, NEW pick, Picks(U, pick),
           NEW step, \A x \in U, v \in V : step[x][v] \in V
    PROVE  \E g \in [SUBSET U -> V] : FoldsTo(U, base, pick, step, g)
<1> DEFINE Small(n) == {s \in SUBSET U : Cardinality(s) <= n}
           Next(g, s) == IF s = {} THEN base ELSE step[pick[s]][g[s \ {pick[s]}]]
           Good == {n \in Nat : \E g \in [Small(n) -> V] : \A s \in Small(n) : g[s] = Next(g, s)}
<1>1. \A s \in SUBSET U : Cardinality(s) \in Nat /\ (Cardinality(s) = 0 <=> s = {})
  <2>1. \A s \in SUBSET U : IsFiniteSet(s)
    BY FS_Subset
  <2>2. QED
    BY <2>1, FS_CardinalityType, FS_EmptySet
<1>2. \A s \in SUBSET U : s # {} =>
         /\ pick[s] \in s /\ pick[s] \in U /\ s \ {pick[s]} \in SUBSET U
         /\ Cardinality(s \ {pick[s]}) = Cardinality(s) - 1
  BY SmallerSet DEF Picks
<1>3. 0 \in Good
  <2> DEFINE g == [s \in Small(0) |-> base]
  <2>1. \A s \in Small(0) : s = {}
    BY <1>1
  <2>2. g \in [Small(0) -> V] /\ \A s \in Small(0) : g[s] = Next(g, s)
    BY <2>1
  <2>3. QED
    BY <2>2
<1>4. ASSUME NEW n \in Nat, n \in Good PROVE n + 1 \in Good
  <2>1. PICK g \in [Small(n) -> V] : \A s \in Small(n) : g[s] = Next(g, s)
    BY <1>4
  <2> DEFINE h == [s \in Small(n + 1) |-> Next(g, s)]
  <2>2. ASSUME NEW s \in Small(n + 1), s # {}
        PROVE  s \ {pick[s]} \in Small(n) /\ s \ {pick[s]} \in Small(n + 1)
    <3>1. /\ s \ {pick[s]} \in SUBSET U /\ Cardinality(s) \in Nat
          /\ Cardinality(s \ {pick[s]}) = Cardinality(s) - 1
      BY <1>1, <1>2, <2>2
    <3>2. Cardinality(s) <= n + 1
      OBVIOUS
    <3>3. QED
      BY <3>1, <3>2
  <2>3. \A s \in Small(n + 1) : h[s] \in V
    BY <1>2, <2>1, <2>2
  <2>4. \A s \in Small(n) : s \in Small(n + 1) /\ h[s] = g[s]
    <3>1. Small(n) \subseteq Small(n + 1)
      BY <1>1
    <3> HIDE DEF Small
    <3>2. QED
      BY <2>1, <3>1
  <2>5. \A s \in Small(n + 1) : h[s] = Next(h, s)
    BY <2>2, <2>4
  <2>6. h \in [Small(n + 1) -> V]
    BY <2>3
  <2>7. \E f \in [Small(n + 1) -> V] : \A s \in Small(n + 1) : f[s] = Next(f, s)
    <3> HIDE DEF h, Small, Next
    <3> QED
      BY <2>5, <2>6
  <2>8. QED
    <3> HIDE DEF h, Small, Next
    <3> QED
      BY <2>7
<1>5. Cardinality(U) \in Good
  <2> HIDE DEF Good
  <2>1. Cardinality(U) \in Nat
    BY FS_CardinalityType
  <2>2. QED
    BY <1>3, <1>4, <2>1, InductiveSet
<1>6. Small(Cardinality(U)) = SUBSET U
  BY FS_Subset
<1>7. PICK g \in [SUBSET U -> V] : \A s \in SUBSET U : g[s] = Next(g, s)
  <2> HIDE DEF Small
  <2> QED
    BY <1>5, <1>6
<1>8. QED
  BY <1>7 DEF FoldsTo

\* There is only one.
LEMMA FoldUnique ==
    ASSUME NEW U, IsFiniteSet(U), NEW base, NEW pick, Picks(U, pick), NEW step,
           NEW g, FoldsTo(U, base, pick, step, g), NEW h, FoldsTo(U, base, pick, step, h)
    PROVE  \A s \in SUBSET U : g[s] = h[s]
<1> DEFINE Good == {n \in Nat : \A s \in SUBSET U : Cardinality(s) = n => g[s] = h[s]}
<1>1. \A s \in SUBSET U : Cardinality(s) \in Nat /\ (Cardinality(s) = 0 <=> s = {})
  <2>1. \A s \in SUBSET U : IsFiniteSet(s)
    BY FS_Subset
  <2>2. QED
    BY <2>1, FS_CardinalityType, FS_EmptySet
<1>2. 0 \in Good
  BY <1>1 DEF FoldsTo
<1>3. ASSUME NEW n \in Nat, n \in Good PROVE n + 1 \in Good
  <2>1. ASSUME NEW s \in SUBSET U, Cardinality(s) = n + 1 PROVE g[s] = h[s]
    <3>1. s # {} /\ pick[s] \in s
      BY <1>1, <2>1 DEF Picks
    <3>2. s \ {pick[s]} \in SUBSET U /\ Cardinality(s \ {pick[s]}) = n
      BY <2>1, <3>1, SmallerSet
    <3>3. g[s \ {pick[s]}] = h[s \ {pick[s]}]
      BY <1>3, <3>2
    <3>4. QED
      BY <3>1, <3>3 DEF FoldsTo
  <2>2. QED
    BY <2>1
<1>4. \A n \in Nat : n \in Good
  <2> HIDE DEF Good
  <2> QED
    BY <1>2, <1>3, InductiveSet
<1>5. QED
  BY <1>1, <1>4

(***************************************************************************)
(* Sums.                                                                   *)
(***************************************************************************)

\* F gives for each subset of U the sum of f over it, in whatever order it is formed.
Summing(f, U, F) ==
    /\ F \in [SUBSET U -> Int]
    /\ F[{}] = 0
    /\ \A s \in SUBSET U : \A x \in s : F[s] = f[x] + F[s \ {x}]

\* SumFunction is such a sum.
LEMMA SumExists ==
    ASSUME NEW U, IsFiniteSet(U), NEW f \in [U -> Int]
    PROVE  \E F : Summing(f, U, F) /\ SumFunction(f) = F[U]
<1> DEFINE Taken(s) == CHOOSE x \in s : TRUE
           pick == [s \in SUBSET U |-> Taken(s)]
           step == [x \in U |-> [v \in Int |-> f[x] + v]]
           iter == CHOOSE F : F = [s \in SUBSET U |->
                       IF s = {} THEN 0 ELSE f[Taken(s)] + F[s \ {Taken(s)}]]
<1>1. SumFunction(f) = iter[U]
  <2>1. DOMAIN f = U
    OBVIOUS
  <2>2. QED
    BY <2>1 DEF SumFunction, SumFunctionOnSet, FoldFunctionOnSet, MapThenFoldSet
<1>2. Picks(U, pick) /\ \A s \in SUBSET U : s # {} => pick[s] = Taken(s) /\ Taken(s) \in s
  BY DEF Picks
<1>3. \A x \in U, v \in Int : step[x][v] \in Int /\ step[x][v] = f[x] + v
  OBVIOUS
<1>4. PICK F \in [SUBSET U -> Int] : FoldsTo(U, 0, pick, step, F)
  <2> HIDE DEF pick, step
  <2>1. 0 \in Int /\ \A x \in U, v \in Int : step[x][v] \in Int
    BY <1>3
  <2>2. Picks(U, pick)
    BY <1>2
  <2>3. QED
    BY <2>1, <2>2, FoldExists
<1> HIDE DEF pick, step
<1>5. F = [s \in SUBSET U |-> IF s = {} THEN 0 ELSE f[Taken(s)] + F[s \ {Taken(s)}]]
  <2>1. ASSUME NEW s \in SUBSET U, s # {}
        PROVE  F[s] = f[Taken(s)] + F[s \ {Taken(s)}]
    <3>1. F[s] = step[pick[s]][F[s \ {pick[s]}]]
      BY <1>4, <2>1 DEF FoldsTo
    <3>2. pick[s] = Taken(s) /\ Taken(s) \in U /\ s \ {Taken(s)} \in SUBSET U
      BY <1>2, <2>1
    <3> HIDE DEF Taken
    <3>3. F[s \ {Taken(s)}] \in Int
      BY <3>2
    <3>4. QED
      BY <1>3, <3>1, <3>2, <3>3
  <2>2. F[{}] = 0
    BY <1>4 DEF FoldsTo
  <2> HIDE DEF Taken
  <2>3. QED
    BY <2>1, <2>2
<1>6. iter = [s \in SUBSET U |-> IF s = {} THEN 0 ELSE f[Taken(s)] + iter[s \ {Taken(s)}]]
  <2> HIDE DEF Taken
  <2> QED
    BY <1>5
<1>7. \A s \in SUBSET U : s # {} => iter[s] = f[Taken(s)] + iter[s \ {Taken(s)}]
  <2> HIDE DEF iter, Taken
  <2> QED
    BY <1>6
<1>8. iter[{}] = 0
  <2> HIDE DEF iter, Taken
  <2> QED
    BY <1>6
<1> HIDE DEF iter
<1> DEFINE Typed == {n \in Nat : \A s \in SUBSET U : Cardinality(s) = n => iter[s] \in Int}
           Good == {n \in Nat : \A s \in SUBSET U : Cardinality(s) = n =>
                                    \A x \in s : iter[s] = f[x] + iter[s \ {x}]}
<1>9. \A s \in SUBSET U : Cardinality(s) \in Nat /\ (Cardinality(s) = 0 <=> s = {})
  <2>1. \A s \in SUBSET U : IsFiniteSet(s)
    BY FS_Subset
  <2>2. QED
    BY <2>1, FS_CardinalityType, FS_EmptySet
<1>10. \A n \in Nat : n \in Typed
  <2>1. 0 \in Typed
    BY <1>8, <1>9
  <2>2. ASSUME NEW n \in Nat, n \in Typed PROVE n + 1 \in Typed
    <3>1. ASSUME NEW s \in SUBSET U, Cardinality(s) = n + 1 PROVE iter[s] \in Int
      <4>1. s # {}
        BY <1>9, <3>1
      <4>2. Taken(s) \in s
        BY <1>2, <4>1
      <4> HIDE DEF Taken
      <4>3. s \ {Taken(s)} \in SUBSET U /\ Cardinality(s \ {Taken(s)}) = n
        BY <3>1, <4>2, SmallerSet
      <4>4. iter[s \ {Taken(s)}] \in Int
        BY <2>2, <4>3
      <4>5. f[Taken(s)] \in Int
        BY <4>2
      <4>6. QED
        BY <1>7, <4>1, <4>4, <4>5
    <3>2. QED
      BY <3>1
  <2> HIDE DEF Typed
  <2>3. QED
    BY <2>1, <2>2, InductiveSet
<1>11. \A s \in SUBSET U : iter[s] \in Int
  BY <1>9, <1>10
<1> HIDE DEF Typed
<1>12. \A n \in Nat : n \in Good
  <2>1. 0 \in Good
    BY <1>9
  <2>2. ASSUME NEW n \in Nat, n \in Good PROVE n + 1 \in Good
    <3>1. ASSUME NEW s \in SUBSET U, Cardinality(s) = n + 1, NEW x \in s
          PROVE  iter[s] = f[x] + iter[s \ {x}]
      <4>1. s # {}
        OBVIOUS
      <4>2. PICK c \in s : c = Taken(s)
        BY <1>2, <4>1
      <4> HIDE DEF Taken
      <4>3. iter[s] = f[c] + iter[s \ {c}]
        BY <1>7, <4>1, <4>2
      <4>4. CASE x = c
        BY <4>3, <4>4
      <4>5. CASE x # c
        <5>1. /\ s \ {c} \in SUBSET U /\ Cardinality(s \ {c}) = n /\ x \in s \ {c}
              /\ s \ {x} \in SUBSET U /\ Cardinality(s \ {x}) = n /\ c \in s \ {x}
          BY <3>1, <4>5, SmallerSet
        <5>2. iter[s \ {c}] = f[x] + iter[(s \ {c}) \ {x}]
          BY <2>2, <5>1
        <5>3. iter[s \ {x}] = f[c] + iter[(s \ {x}) \ {c}]
          BY <2>2, <5>1
        <5>4. PICK r \in SUBSET U : r = (s \ {c}) \ {x} /\ r = (s \ {x}) \ {c}
          OBVIOUS
        <5>5. f[x] \in Int /\ f[c] \in Int /\ iter[r] \in Int
          BY <1>11
        <5>6. iter[s \ {c}] = f[x] + iter[r] /\ iter[s \ {x}] = f[c] + iter[r]
          BY <5>2, <5>3, <5>4
        <5> HIDE DEF Good
        <5>7. QED
          BY <4>3, <5>5, <5>6
      <4>6. QED
        BY <4>4, <4>5
    <3>2. QED
      BY <3>1
  <2> HIDE DEF Good
  <2>3. QED
    BY <2>1, <2>2, InductiveSet
<1>13. \A s \in SUBSET U : \A x \in s : iter[s] = f[x] + iter[s \ {x}]
  BY <1>9, <1>12
<1>14. iter \in [SUBSET U -> Int]
  <2> HIDE DEF Taken
  <2> QED
    BY <1>6, <1>11
<1> HIDE DEF Good
<1>15. QED
  BY <1>1, <1>8, <1>13, <1>14 DEF Summing

\* A sum depends on what is summed only.
LEMMA SumUnique ==
    ASSUME NEW U, IsFiniteSet(U), NEW W \in SUBSET U,
           NEW f, NEW F, Summing(f, U, F), NEW g, NEW G, Summing(g, W, G),
           \A x \in W : f[x] = g[x]
    PROVE  \A s \in SUBSET W : F[s] = G[s]
<1> DEFINE Good == {n \in Nat : \A s \in SUBSET W : Cardinality(s) = n => F[s] = G[s]}
<1>1. \A s \in SUBSET W : Cardinality(s) \in Nat /\ (Cardinality(s) = 0 <=> s = {})
  <2>1. \A s \in SUBSET W : IsFiniteSet(s)
    BY FS_Subset
  <2>2. QED
    BY <2>1, FS_CardinalityType, FS_EmptySet
<1>2. 0 \in Good
  BY <1>1 DEF Summing
<1>3. ASSUME NEW n \in Nat, n \in Good PROVE n + 1 \in Good
  <2>1. ASSUME NEW s \in SUBSET W, Cardinality(s) = n + 1 PROVE F[s] = G[s]
    <3>1. PICK x \in s : TRUE
      BY <1>1, <2>1
    <3>2. s \ {x} \in SUBSET W /\ Cardinality(s \ {x}) = n
      BY <2>1, FS_Subset, SmallerSet
    <3>3. F[s \ {x}] = G[s \ {x}]
      BY <1>3, <3>2
    <3>4. s \in SUBSET U /\ f[x] = g[x]
      OBVIOUS
    <3>5. F[s] = f[x] + F[s \ {x}] /\ G[s] = g[x] + G[s \ {x}]
      BY <3>4 DEF Summing
    <3>6. QED
      BY <3>3, <3>4, <3>5
  <2>2. QED
    BY <2>1
<1>4. \A n \in Nat : n \in Good
  <2> HIDE DEF Good
  <2> QED
    BY <1>2, <1>3, InductiveSet
<1>5. QED
  BY <1>1, <1>4

\* What is added last.
LEMMA SumFacts ==
    ASSUME NEW U, IsFiniteSet(U), NEW f \in [U -> Int]
    PROVE  /\ SumFunction(f) \in Int
           /\ U = {} => SumFunction(f) = 0
           /\ \A x \in U : SumFunction(f) = f[x] + SumFunction([y \in U \ {x} |-> f[y]])
<1>1. PICK F : Summing(f, U, F) /\ SumFunction(f) = F[U]
  BY SumExists
<1>2. F \in [SUBSET U -> Int] /\ F[{}] = 0
  BY <1>1 DEF Summing
<1>3. ASSUME NEW x \in U
      PROVE  SumFunction(f) = f[x] + SumFunction([y \in U \ {x} |-> f[y]])
  <2> DEFINE W == U \ {x}
             g == [y \in W |-> f[y]]
  <2>1. IsFiniteSet(W) /\ g \in [W -> Int] /\ W \in SUBSET U
    BY FS_Subset
  <2>2. \A y \in W : f[y] = g[y]
    OBVIOUS
  <2> HIDE DEF W, g
  <2>3. PICK G : Summing(g, W, G) /\ SumFunction(g) = G[W]
    BY <2>1, SumExists
  <2>4. F[W] = G[W]
    BY <1>1, <2>1, <2>2, <2>3, SumUnique
  <2>5. F[U] = f[x] + F[W]
    BY <1>1 DEF Summing, W
  <2>6. QED
    BY <1>1, <2>3, <2>4, <2>5 DEF W, g
<1>4. QED
  BY <1>1, <1>2, <1>3

\* One place of what is summed changes.
LEMMA SumChange ==
    ASSUME NEW U, IsFiniteSet(U), NEW f \in [U -> Int], NEW g \in [U -> Int], NEW x \in U,
           \A y \in U \ {x} : f[y] = g[y]
    PROVE  SumFunction(g) = SumFunction(f) - f[x] + g[x]
<1> DEFINE r == [y \in U \ {x} |-> f[y]]
<1>1. r = [y \in U \ {x} |-> g[y]]
  OBVIOUS
<1>2. IsFiniteSet(U \ {x}) /\ r \in [U \ {x} -> Int]
  BY FS_Subset
<1> HIDE DEF r
<1>3. SumFunction(r) \in Int
  BY <1>2, SumFacts
<1>4. SumFunction(f) = f[x] + SumFunction(r)
  BY SumFacts DEF r
<1>5. SumFunction(g) = g[x] + SumFunction(r)
  <2>1. SumFunction(g) = g[x] + SumFunction([y \in U \ {x} |-> g[y]])
    BY SumFacts
  <2>2. QED
    BY <1>1, <2>1
<1>6. f[x] \in Int /\ g[x] \in Int
  OBVIOUS
<1>7. QED
  BY <1>3, <1>4, <1>5, <1>6

\* What no negative number is added to.
LEMMA SumNatural ==
    ASSUME NEW U, IsFiniteSet(U), NEW f \in [U -> Nat]
    PROVE  SumFunction(f) \in Nat
<1>1. f \in [U -> Int]
  OBVIOUS
<1>2. PICK F : Summing(f, U, F) /\ SumFunction(f) = F[U]
  BY <1>1, SumExists
<1> DEFINE Good == {n \in Nat : \A s \in SUBSET U : Cardinality(s) = n => F[s] \in Nat}
<1>3. \A s \in SUBSET U : Cardinality(s) \in Nat /\ (Cardinality(s) = 0 <=> s = {})
  <2>1. \A s \in SUBSET U : IsFiniteSet(s)
    BY FS_Subset
  <2>2. QED
    BY <2>1, FS_CardinalityType, FS_EmptySet
<1>4. 0 \in Good
  BY <1>2, <1>3, ZenonT(30) DEF Summing
<1>5. ASSUME NEW n \in Nat, n \in Good PROVE n + 1 \in Good
  <2>1. ASSUME NEW s \in SUBSET U, Cardinality(s) = n + 1 PROVE F[s] \in Nat
    <3>1. PICK x \in s : TRUE
      BY <1>3, <2>1
    <3>2. s \ {x} \in SUBSET U /\ Cardinality(s \ {x}) = n
      BY <2>1, SmallerSet
    <3>3. F[s \ {x}] \in Nat
      BY <1>5, <3>2
    <3>4. F[s] = f[x] + F[s \ {x}] /\ f[x] \in Nat
      BY <1>2 DEF Summing
    <3>5. QED
      BY <3>3, <3>4
  <2>2. QED
    BY <2>1
<1>6. \A n \in Nat : n \in Good
  <2> HIDE DEF Good
  <2> QED
    BY <1>4, <1>5, InductiveSet
<1>7. U \in SUBSET U
  OBVIOUS
<1>8. QED
  BY <1>2, <1>3, <1>6, <1>7

\* Nothing is added.
LEMMA SumZero ==
    ASSUME NEW U, IsFiniteSet(U), NEW f \in [U -> Int], \A x \in U : f[x] = 0
    PROVE  SumFunction(f) = 0
<1>1. PICK F : Summing(f, U, F) /\ SumFunction(f) = F[U]
  BY SumExists
<1> DEFINE zero == [s \in SUBSET U |-> 0]
<1>2. Summing(f, U, zero)
  BY DEF Summing
<1>3. U \in SUBSET U /\ zero[U] = 0
  OBVIOUS
<1> HIDE DEF zero
<1>4. F[U] = zero[U]
  BY <1>1, <1>2, <1>3, SumUnique
<1>5. QED
  BY <1>1, <1>3, <1>4

\* One place more is summed.
LEMMA SumMore ==
    ASSUME NEW U, IsFiniteSet(U), NEW x, x \notin U, NEW w, \A y \in U \cup {x} : w[y] \in Int
    PROVE  /\ SumFunction([y \in U |-> w[y]]) \in Int
           /\ SumFunction([y \in U \cup {x} |-> w[y]]) = w[x] + SumFunction([y \in U |-> w[y]])
<1> DEFINE W == U \cup {x}
           f == [y \in W |-> w[y]]
           g == [y \in U |-> w[y]]
           r == [y \in W \ {x} |-> f[y]]
<1>1. IsFiniteSet(W) /\ f \in [W -> Int] /\ g \in [U -> Int] /\ x \in W /\ f[x] = w[x]
  BY FS_AddElement
<1>2. r = g
  BY W \ {x} = U
<1> HIDE DEF W, f, g
<1>3. SumFunction(f) = f[x] + SumFunction(r)
  <2>1. \A z \in W : SumFunction(f) = f[z] + SumFunction([y \in W \ {z} |-> f[y]])
    BY <1>1, SumFacts, ZenonT(30)
  <2>2. QED
    BY <1>1, <2>1
<1>4. SumFunction(g) \in Int
  BY <1>1, SumFacts
<1>5. QED
  BY <1>1, <1>2, <1>3, <1>4 DEF W, f, g

(***************************************************************************)
(* Functions computed by recursion over the numbers up to n.               *)
(***************************************************************************)

\* The equation of a function whose value at i is computed from the one before.
Recurring(n, base, step, f) == f[0] = base /\ \A i \in 1 .. n : f[i] = step[i][f[i - 1]]

\* Such a function exists.
LEMMA RecursionExists ==
    ASSUME NEW n \in Nat, NEW V, NEW base \in V, NEW step,
           \A i \in 1 .. n, v \in V : step[i][v] \in V
    PROVE  \E f \in [0 .. n -> V] : Recurring(n, base, step, f)
<1> DEFINE Done(f, k) == /\ f \in [0 .. k -> V]
                         /\ f[0] = base
                         /\ \A i \in 1 .. k : f[i] = step[i][f[i - 1]]
           Good == {k \in Nat : k <= n => \E f : Done(f, k)}
<1>1. 0 \in Good
  <2> DEFINE f == [i \in 0 .. 0 |-> base]
  <2>1. Done(f, 0)
    OBVIOUS
  <2>2. \E g : Done(g, 0)
    <3> HIDE DEF f, Done
    <3> QED
      BY <2>1
  <2>3. QED
    <3> HIDE DEF Done
    <3> QED
      BY <2>2
<1>2. ASSUME NEW k \in Nat, k \in Good PROVE k + 1 \in Good
  <2>1. SUFFICES ASSUME k + 1 <= n PROVE \E g : Done(g, k + 1)
    <3> HIDE DEF Done
    <3> QED
      OBVIOUS
  <2>2. PICK f : Done(f, k)
    <3> HIDE DEF Done
    <3> QED
      BY <1>2, <2>1
  <2>3. f[k] \in V /\ step[k + 1][f[k]] \in V
    <3>1. k \in 0 .. k /\ k + 1 \in 1 .. n
      BY <2>1
    <3>2. QED
      BY <2>2, <3>1
  <2> DEFINE g == [i \in 0 .. k + 1 |-> IF i = k + 1 THEN step[k + 1][f[k]] ELSE f[i]]
  <2>4. \A i \in 0 .. k + 1 : g[i] = IF i = k + 1 THEN step[k + 1][f[k]] ELSE f[i]
    OBVIOUS
  <2>5. g \in [0 .. k + 1 -> V]
    BY <2>2, <2>3
  <2> HIDE DEF g
  <2>6. g[0] = base
    BY <2>2, <2>4
  <2>7. ASSUME NEW i \in 1 .. k + 1 PROVE g[i] = step[i][g[i - 1]]
    <3>1. i \in 0 .. k + 1 /\ i - 1 \in 0 .. k + 1 /\ i - 1 # k + 1
      OBVIOUS
    <3>2. g[i - 1] = f[i - 1]
      BY <2>4, <3>1
    <3>3. CASE i = k + 1
      <4>1. g[i] = step[k + 1][f[k]] /\ i - 1 = k
        BY <2>4, <3>1, <3>3
      <4>2. QED
        BY <3>2, <3>3, <4>1
    <3>4. CASE i # k + 1
      <4>1. i \in 1 .. k /\ g[i] = f[i]
        BY <2>4, <3>1, <3>4
      <4>2. QED
        BY <2>2, <3>2, <4>1
    <3>5. QED
      BY <3>3, <3>4
  <2>8. Done(g, k + 1)
    BY <2>5, <2>6, <2>7
  <2>9. QED
    <3> HIDE DEF Done
    <3> QED
      BY <2>8
<1>3. n \in Good
  <2> HIDE DEF Good
  <2> QED
    BY <1>1, <1>2, InductiveSet
<1>4. PICK f : Done(f, n)
  <2> HIDE DEF Done
  <2> QED
    BY <1>3
<1>5. QED
  BY <1>4 DEF Recurring

(***************************************************************************)
(* What the operations of List.h do to a doubly linked list, seen as the   *)
(* sequence of its entries.  The modules write InsertTailList as Append,   *)
(* InsertHeadList as Cons on the list head and as InsertAt on an inner     *)
(* entry, RemoveHeadList as Head and Tail, RemoveEntryList as RemoveAt.    *)
(***************************************************************************)

\* Every list operation inserts one value v into the values f of a list of
\* length n, at place i, or takes it out again.
Inserted(f, g, n, i, v) ==
    \A j \in 1 .. n + 1 :
        g[j] = IF j < i THEN f[j] ELSE IF j = i THEN v ELSE f[j - 1]

\* InsertTailList links one entry behind the others.
LEMMA AppendFacts ==
    ASSUME NEW S, NEW s \in Seq(S), NEW e \in S
    PROVE  /\ Append(s, e) \in Seq(S)
           /\ Len(Append(s, e)) = Len(s) + 1
           /\ Inserted(s, Append(s, e), Len(s), Len(s) + 1, e)
BY DEF Inserted

\* InsertHeadList on the list head links one entry in front of the others.
LEMMA ConsFacts ==
    ASSUME NEW S, NEW s \in Seq(S), NEW e \in S
    PROVE  /\ Cons(e, s) \in Seq(S)
           /\ Len(Cons(e, s)) = Len(s) + 1
           /\ Inserted(s, Cons(e, s), Len(s), 1, e)
<1>1. <<e>> \in Seq(S) /\ Len(<<e>>) = 1 /\ <<e>>[1] = e
  OBVIOUS
<1>2. QED
  BY <1>1 DEF Cons, Inserted

\* RemoveHeadList takes the first entry away.
LEMMA TailFacts ==
    ASSUME NEW S, NEW s \in Seq(S), s # <<>>
    PROVE  /\ Len(s) \in Nat \ {0}
           /\ Head(s) \in S /\ Head(s) = s[1]
           /\ Tail(s) \in Seq(S)
           /\ Len(Tail(s)) = Len(s) - 1
           /\ \A j \in 1 .. Len(s) - 1 : Tail(s)[j] = s[j + 1]
OBVIOUS

\* InsertHeadList on an inner entry links the new one behind it.
LEMMA InsertAtFacts ==
    ASSUME NEW S, NEW s \in Seq(S), NEW e \in S, NEW i \in 1 .. Len(s) + 1
    PROVE  /\ InsertAt(s, i, e) \in Seq(S)
           /\ Len(InsertAt(s, i, e)) = Len(s) + 1
           /\ Inserted(s, InsertAt(s, i, e), Len(s), i, e)
<1> DEFINE p == SubSeq(s, 1, i - 1)
           q == SubSeq(s, i, Len(s))
<1>1. /\ p \in Seq(S) /\ Len(p) = i - 1
      /\ \A j \in 1 .. i - 1 : p[j] = s[j]
  OBVIOUS
<1>2. /\ q \in Seq(S) /\ Len(q) = Len(s) - i + 1
      /\ \A j \in 1 .. Len(s) - i + 1 : q[j] = s[j + i - 1]
  OBVIOUS
<1>3. <<e>> \in Seq(S) /\ Len(<<e>>) = 1 /\ <<e>>[1] = e
  OBVIOUS
<1>4. InsertAt(s, i, e) = p \o <<e>> \o q
  BY DEF InsertAt
<1> HIDE DEF p, q
<1> DEFINE r == p \o <<e>>
<1>5. /\ r \in Seq(S) /\ Len(r) = i
      /\ \A j \in 1 .. i : r[j] = IF j < i THEN s[j] ELSE e
  BY <1>1, <1>3
<1> HIDE DEF r
<1>6. /\ r \o q \in Seq(S) /\ Len(r \o q) = Len(s) + 1
      /\ \A j \in 1 .. Len(s) + 1 : (r \o q)[j] = IF j <= i THEN r[j] ELSE q[j - i]
  <2>1. /\ r \o q \in Seq(S) /\ Len(r \o q) = Len(r) + Len(q)
        /\ \A j \in 1 .. Len(r) + Len(q) :
              (r \o q)[j] = IF j <= Len(r) THEN r[j] ELSE q[j - Len(r)]
    BY <1>2, <1>5, ConcatProperties
  <2>2. Len(r) + Len(q) = Len(s) + 1
    BY <1>2, <1>5
  <2>3. QED
    BY <2>1, <2>2, <1>5
<1>7. InsertAt(s, i, e) = r \o q
  BY <1>4 DEF r
<1>8. ASSUME NEW j \in 1 .. Len(s) + 1
      PROVE  (r \o q)[j] = IF j < i THEN s[j] ELSE IF j = i THEN e ELSE s[j - 1]
  BY <1>2, <1>5, <1>6
<1>9. QED
  BY <1>6, <1>7, <1>8 DEF Inserted

\* RemoveEntryList unlinks one entry and keeps the others in order.
LEMMA RemoveAtFacts ==
    ASSUME NEW S, NEW s \in Seq(S), NEW i \in 1 .. Len(s)
    PROVE  /\ RemoveAt(s, i) \in Seq(S)
           /\ Len(RemoveAt(s, i)) = Len(s) - 1
           /\ \A j \in 1 .. Len(s) - 1 :
                 RemoveAt(s, i)[j] = IF j < i THEN s[j] ELSE s[j + 1]
<1> DEFINE p == SubSeq(s, 1, i - 1)
           q == SubSeq(s, i + 1, Len(s))
<1>1. /\ p \in Seq(S) /\ Len(p) = i - 1
      /\ \A j \in 1 .. i - 1 : p[j] = s[j]
  OBVIOUS
<1>2. /\ q \in Seq(S) /\ Len(q) = Len(s) - i
      /\ \A j \in 1 .. Len(s) - i : q[j] = s[j + i]
  OBVIOUS
<1>3. RemoveAt(s, i) = p \o q
  BY DEF RemoveAt
<1> HIDE DEF p, q
<1>4. /\ p \o q \in Seq(S) /\ Len(p \o q) = Len(s) - 1
      /\ \A j \in 1 .. Len(s) - 1 : (p \o q)[j] = IF j < i THEN p[j] ELSE q[j - i + 1]
  <2>1. /\ p \o q \in Seq(S) /\ Len(p \o q) = Len(p) + Len(q)
        /\ \A j \in 1 .. Len(p) + Len(q) :
              (p \o q)[j] = IF j <= Len(p) THEN p[j] ELSE q[j - Len(p)]
    BY <1>1, <1>2, ConcatProperties
  <2>2. Len(p) + Len(q) = Len(s) - 1
    BY <1>1, <1>2
  <2>3. ASSUME NEW j \in 1 .. Len(s) - 1
        PROVE  (p \o q)[j] = IF j < i THEN p[j] ELSE q[j - i + 1]
    BY <1>1, <2>1, <2>2
  <2>4. QED
    BY <2>1, <2>2, <2>3
<1>5. ASSUME NEW j \in 1 .. Len(s) - 1
      PROVE  (p \o q)[j] = IF j < i THEN s[j] ELSE s[j + 1]
  BY <1>1, <1>2, <1>4
<1>6. QED
  BY <1>3, <1>4, <1>5

ValuesOf(f, n) == {f[j] : j \in 1 .. n}
AllDifferent(f, n) == \A j, k \in 1 .. n : f[j] = f[k] => j = k

\* The values held change by v only, and they are all different exactly if
\* they were before and v was not among them.
LEMMA InsertImage ==
    ASSUME NEW n \in Nat, NEW i \in 1 .. n + 1, NEW f, NEW g, NEW v,
           Inserted(f, g, n, i, v)
    PROVE  /\ ValuesOf(g, n + 1) = ValuesOf(f, n) \cup {v}
           /\ AllDifferent(g, n + 1) <=> AllDifferent(f, n) /\ v \notin ValuesOf(f, n)
<1> USE DEF Inserted
<1>1. \A j \in 1 .. n : IF j < i THEN g[j] = f[j] ELSE g[j + 1] = f[j]
  OBVIOUS
<1>2. i \in 1 .. n + 1 /\ g[i] = v
  OBVIOUS
<1>3. ASSUME NEW x
      PROVE  (\E j \in 1 .. n + 1 : g[j] = x) <=> (x = v \/ \E j \in 1 .. n : f[j] = x)
  <2>1. ASSUME NEW j \in 1 .. n + 1, g[j] = x
        PROVE  x = v \/ \E k \in 1 .. n : f[k] = x
    <3>1. CASE j < i
      BY <2>1, <3>1
    <3>2. CASE j = i
      BY <2>1, <3>2
    <3>3. CASE j > i
      <4>1. j - 1 \in 1 .. n /\ g[j] = f[j - 1]
        BY <3>3
      <4>2. QED
        BY <2>1, <4>1
    <3>4. QED
      BY <3>1, <3>2, <3>3
  <2>2. ASSUME NEW j \in 1 .. n, f[j] = x
        PROVE  \E k \in 1 .. n + 1 : g[k] = x
    <3>1. j \in 1 .. n + 1 /\ j + 1 \in 1 .. n + 1
      OBVIOUS
    <3>2. QED
      BY <1>1, <2>2, <3>1
  <2>3. QED
    BY <1>2, <2>1, <2>2
<1>4. {g[j] : j \in 1 .. n + 1} = {f[j] : j \in 1 .. n} \cup {v}
  BY <1>3, Zenon
<1>5. ASSUME \A j, k \in 1 .. n + 1 : g[j] = g[k] => j = k
      PROVE  /\ \A j, k \in 1 .. n : f[j] = f[k] => j = k
             /\ ~ \E j \in 1 .. n : v = f[j]
  <2>1. ASSUME NEW j \in 1 .. n, NEW k \in 1 .. n, f[j] = f[k]
        PROVE  j = k
    <3> DEFINE up(m) == IF m < i THEN m ELSE m + 1
    <3>1. /\ up(j) \in 1 .. n + 1 /\ g[up(j)] = f[j]
          /\ up(k) \in 1 .. n + 1 /\ g[up(k)] = f[k]
      BY <1>1
    <3>2. up(j) = up(k)
      <4> HIDE DEF up
      <4> QED BY <3>1, <1>5, <2>1
    <3>3. QED
      BY <3>2
  <2>2. ASSUME NEW j \in 1 .. n, v = f[j]
        PROVE  FALSE
    <3>1. CASE j < i
      BY <1>1, <1>2, <1>5, <2>2, <3>1
    <3>2. CASE j >= i
      <4>1. j + 1 \in 1 .. n + 1 /\ g[j + 1] = g[i] /\ j + 1 # i
        BY <1>1, <1>2, <2>2, <3>2
      <4>2. QED
        BY <1>2, <1>5, <4>1
    <3>3. QED
      BY <3>1, <3>2
  <2>3. QED
    BY <2>1, <2>2
<1>6. ASSUME \A j, k \in 1 .. n : f[j] = f[k] => j = k,
             ~ \E j \in 1 .. n : v = f[j],
             NEW j \in 1 .. n + 1, NEW k \in 1 .. n + 1, g[j] = g[k]
      PROVE  j = k
  <2> DEFINE down(m) == IF m < i THEN m ELSE m - 1
  <2>1. CASE j # i /\ k # i
    <3>1. /\ down(j) \in 1 .. n /\ f[down(j)] = g[j]
          /\ down(k) \in 1 .. n /\ f[down(k)] = g[k]
      BY <2>1
    <3>2. down(j) = down(k)
      <4> HIDE DEF down
      <4> QED BY <1>6, <3>1
    <3>3. QED
      BY <2>1, <3>2
  <2>2. CASE j = i /\ k # i
    <3>1. down(k) \in 1 .. n /\ f[down(k)] = g[k]
      BY <2>2
    <3>2. QED
      BY <1>2, <1>6, <2>2, <3>1
  <2>3. CASE j # i /\ k = i
    <3>1. down(j) \in 1 .. n /\ f[down(j)] = g[j]
      BY <2>3
    <3>2. QED
      BY <1>2, <1>6, <2>3, <3>1
  <2>4. QED
    BY <2>1, <2>2, <2>3
<1>7. (v \notin {f[j] : j \in 1 .. n}) <=> ~ \E j \in 1 .. n : v = f[j]
  BY Zenon
<1>8. QED
  BY <1>4, <1>5, <1>6, <1>7, Zenon DEF ValuesOf, AllDifferent

(***************************************************************************)
(* The elements of a list.                                                 *)
(***************************************************************************)

\* Min and Max are defined by a choice, which these sets justify.
LEMMA MinFacts ==
    ASSUME NEW T \in SUBSET Nat, T # {}
    PROVE  Min(T) \in T /\ \A k \in T : Min(T) <= k
BY LeastNatural DEF Min

\* The same for the greatest of some numbers up to n.
LEMMA MaxFacts ==
    ASSUME NEW n \in Nat, NEW T \in SUBSET (1 .. n), T # {}
    PROVE  Max(T) \in T /\ \A k \in T : k <= Max(T)
<1> DEFINE D == {n - k : k \in T}
<1>1. /\ \A k \in T : k \in Int /\ n - k \in Nat
      /\ D \in SUBSET Nat /\ D # {}
  <2>1. \A k \in T : k \in Int /\ n - k \in Nat
    OBVIOUS
  <2>2. QED
    BY <2>1
<1>2. PICK d \in D : \A e \in D : d <= e
  <2> HIDE DEF D
  <2> QED
    BY <1>1, LeastNatural
<1>3. PICK m \in T : d = n - m
  OBVIOUS
<1>4. \A k \in T : m >= k
  <2>1. ASSUME NEW k \in T PROVE m >= k
    <3>1. n - m <= n - k
      BY <1>2, <1>3
    <3>2. QED
      BY <1>1, <3>1
  <2>2. QED
    BY <2>1
<1>5. QED
  BY <1>4 DEF Max

\* The elements of a list, and whether they are all different, in other words.
LEMMA ElementsOf ==
    ASSUME NEW S, NEW s \in Seq(S)
    PROVE  /\ Len(s) \in Nat /\ DOMAIN s = 1 .. Len(s)
           /\ ToSet(s) \in SUBSET S
           /\ \A x : x \in ToSet(s) <=> \E i \in 1 .. Len(s) : s[i] = x
           /\ IsInjective(s) <=> \A i, j \in 1 .. Len(s) : s[i] = s[j] => i = j
<1>1. Len(s) \in Nat /\ DOMAIN s = 1 .. Len(s) /\ \A i \in 1 .. Len(s) : s[i] \in S
  OBVIOUS
<1>2. QED
  BY <1>1 DEF ToSet, IsInjective

\* An element more, behind the others.
LEMMA AppendElements ==
    ASSUME NEW S, NEW s \in Seq(S), NEW e \in S
    PROVE  /\ Append(s, e) \in Seq(S) /\ Len(Append(s, e)) = Len(s) + 1
           /\ ToSet(Append(s, e)) = ToSet(s) \cup {e}
           /\ IsInjective(s) /\ e \notin ToSet(s) => IsInjective(Append(s, e))
<1> DEFINE r == Append(s, e)
           n == Len(s)
<1>1. /\ r \in Seq(S) /\ Len(r) = n + 1 /\ n \in Nat
      /\ \A i \in 1 .. n + 1 : r[i] = IF i = n + 1 THEN e ELSE s[i]
  OBVIOUS
<1> HIDE DEF r, n
<1>2. ASSUME NEW x PROVE x \in ToSet(r) <=> x \in ToSet(s) \cup {e}
  <2>1. x \in ToSet(r) <=> \E i \in 1 .. n + 1 : r[i] = x
    BY <1>1, ElementsOf
  <2>2. x \in ToSet(s) <=> \E i \in 1 .. n : s[i] = x
    BY ElementsOf DEF n
  <2>3. n + 1 \in 1 .. n + 1 /\ \A i \in 1 .. n : i \in 1 .. n + 1 /\ i # n + 1
    BY <1>1
  <2>4. QED
    BY <1>1, <2>1, <2>2, <2>3
<1>3. ASSUME IsInjective(s), e \notin ToSet(s) PROVE IsInjective(r)
  <2>1. /\ \A i, j \in 1 .. n : s[i] = s[j] => i = j
        /\ \A i \in 1 .. n : s[i] # e
    BY <1>3, ElementsOf DEF n
  <2>2. \A i, j \in 1 .. n + 1 : r[i] = r[j] => i = j
    BY <1>1, <2>1
  <2>3. QED
    BY <1>1, <2>2, ElementsOf
<1>4. QED
  BY <1>1, <1>2, <1>3 DEF r, n

\* The first element and the others.
LEMMA HeadTailElements ==
    ASSUME NEW S, NEW s \in Seq(S), s # <<>>
    PROVE  /\ Head(s) \in S /\ Head(s) \in ToSet(s)
           /\ Tail(s) \in Seq(S) /\ Len(Tail(s)) = Len(s) - 1
           /\ ToSet(s) = {Head(s)} \cup ToSet(Tail(s))
           /\ IsInjective(s) => IsInjective(Tail(s)) /\ Head(s) \notin ToSet(Tail(s))
<1> DEFINE r == Tail(s)
           n == Len(s)
<1>1. /\ n \in Nat \ {0} /\ Head(s) \in S /\ Head(s) = s[1]
      /\ r \in Seq(S) /\ Len(r) = n - 1
      /\ \A i \in 1 .. n - 1 : r[i] = s[i + 1]
  BY TailFacts
<1> HIDE DEF r, n
<1>2. ASSUME NEW x PROVE x \in ToSet(s) <=> x \in {Head(s)} \cup ToSet(r)
  <2>1. x \in ToSet(r) <=> \E i \in 1 .. n - 1 : r[i] = x
    BY <1>1, ElementsOf
  <2>2. x \in ToSet(s) <=> \E i \in 1 .. n : s[i] = x
    BY ElementsOf DEF n
  <2>3. 1 \in 1 .. n /\ \A i \in 1 .. n : i = 1 \/ (i - 1 \in 1 .. n - 1 /\ (i - 1) + 1 = i)
    BY <1>1
  <2>4. \A i \in 1 .. n - 1 : i + 1 \in 1 .. n
    BY <1>1
  <2>5. ASSUME x \in ToSet(s) PROVE x \in {Head(s)} \cup ToSet(r)
    <3>1. PICK i \in 1 .. n : s[i] = x
      BY <2>2, <2>5
    <3>2. CASE i = 1
      BY <1>1, <3>1, <3>2
    <3>3. CASE i # 1
      <4>1. i - 1 \in 1 .. n - 1 /\ r[i - 1] = x
        BY <1>1, <2>3, <3>1, <3>3
      <4>2. QED
        BY <2>1, <4>1
    <3>4. QED
      BY <3>2, <3>3
  <2>6. ASSUME x \in {Head(s)} \cup ToSet(r) PROVE x \in ToSet(s)
    BY <1>1, <2>1, <2>2, <2>3, <2>4, <2>6
  <2>7. QED
    BY <2>5, <2>6
<1>3. ASSUME IsInjective(s) PROVE IsInjective(r) /\ Head(s) \notin ToSet(r)
  <2>1. \A i, j \in 1 .. n : s[i] = s[j] => i = j
    BY <1>3, ElementsOf DEF n
  <2>2. \A i, j \in 1 .. n - 1 : r[i] = r[j] => i = j
    BY <1>1, <2>1
  <2>3. \A i \in 1 .. n - 1 : r[i] # Head(s)
    BY <1>1, <2>1
  <2>4. QED
    BY <1>1, <2>2, <2>3, ElementsOf
<1>4. QED
  BY <1>1, <1>2, <1>3 DEF r, n

\* Without the i-th element, the others are still there.
LEMMA RemoveAtElements ==
    ASSUME NEW S, NEW s \in Seq(S), NEW i \in 1 .. Len(s)
    PROVE  /\ RemoveAt(s, i) \in Seq(S) /\ Len(RemoveAt(s, i)) = Len(s) - 1
           /\ ToSet(RemoveAt(s, i)) \cup {s[i]} = ToSet(s)
           /\ IsInjective(s) => /\ IsInjective(RemoveAt(s, i))
                                /\ ToSet(RemoveAt(s, i)) = ToSet(s) \ {s[i]}
<1> DEFINE r == RemoveAt(s, i)
           n == Len(s)
<1>1. /\ n \in Nat \ {0} /\ i \in 1 .. n
      /\ r \in Seq(S) /\ Len(r) = n - 1
      /\ \A j \in 1 .. n - 1 : r[j] = IF j < i THEN s[j] ELSE s[j + 1]
  BY RemoveAtFacts
<1> HIDE DEF r, n
<1>2. ASSUME NEW x PROVE x \in ToSet(s) <=> x \in {s[i]} \cup ToSet(r)
  <2>1. x \in ToSet(r) <=> \E j \in 1 .. n - 1 : r[j] = x
    BY <1>1, ElementsOf
  <2>2. x \in ToSet(s) <=> \E j \in 1 .. n : s[j] = x
    BY ElementsOf DEF n
  <2>3. ASSUME NEW j \in 1 .. n, s[j] = x, j # i PROVE x \in ToSet(r)
    <3>1. CASE j < i
      <4>1. j \in 1 .. n - 1 /\ r[j] = x
        BY <1>1, <2>3, <3>1
      <4>2. QED
        BY <2>1, <4>1
    <3>2. CASE j > i
      <4>1. j - 1 \in 1 .. n - 1 /\ r[j - 1] = x
        BY <1>1, <2>3, <3>2
      <4>2. QED
        BY <2>1, <4>1
    <3>3. QED
      BY <1>1, <2>3, <3>1, <3>2
  <2>4. ASSUME NEW j \in 1 .. n - 1, r[j] = x PROVE x \in ToSet(s)
    <3>1. j \in 1 .. n /\ j + 1 \in 1 .. n /\ (s[j] = x \/ s[j + 1] = x)
      BY <1>1, <2>4
    <3>2. QED
      BY <2>2, <3>1
  <2>5. QED
    BY <1>1, <2>1, <2>2, <2>3, <2>4
<1>3. ASSUME IsInjective(s) PROVE IsInjective(r) /\ s[i] \notin ToSet(r)
  <2>1. \A j, k \in 1 .. n : s[j] = s[k] => j = k
    BY <1>3, ElementsOf DEF n
  <2>2. \A j \in 1 .. n - 1 : LET up == IF j < i THEN j ELSE j + 1
                              IN  up \in 1 .. n /\ r[j] = s[up] /\ up # i
    BY <1>1
  <2>3. \A j, k \in 1 .. n - 1 : r[j] = r[k] => j = k
    BY <1>1, <2>1, <2>2
  <2>4. \A j \in 1 .. n - 1 : r[j] # s[i]
    BY <1>1, <2>1, <2>2
  <2>5. QED
    BY <1>1, <2>3, <2>4, ElementsOf
<1>4. QED
  BY <1>1, <1>2, <1>3 DEF r, n

\* A list without repetition loses a value by losing its first occurrence.
LEMMA RemoveFirstElements ==
    ASSUME NEW S, NEW s \in Seq(S), NEW e
    PROVE  /\ RemoveFirst(s, e) \in Seq(S)
           /\ IsInjective(s) => /\ IsInjective(RemoveFirst(s, e))
                                /\ ToSet(RemoveFirst(s, e)) = ToSet(s) \ {e}
<1>1. CASE \E i \in 1 .. Len(s) : s[i] = e
  <2> DEFINE I == {i \in 1 .. Len(s) : s[i] = e}
  <2>1. I \in SUBSET Nat /\ I # {}
    BY <1>1
  <2>2. Min(I) \in I
    BY <2>1, MinFacts
  <2>3. RemoveFirst(s, e) = RemoveAt(s, Min(I))
    BY <1>1, <2>1 DEF RemoveFirst, SelectInSeq
  <2>4. Min(I) \in 1 .. Len(s) /\ s[Min(I)] = e
    BY <2>2
  <2> HIDE DEF I
  <2>5. QED
    BY <2>3, <2>4, RemoveAtElements
<1>2. CASE ~ \E i \in 1 .. Len(s) : s[i] = e
  <2>1. RemoveFirst(s, e) = s /\ e \notin ToSet(s)
    BY <1>2, ElementsOf DEF RemoveFirst
  <2>2. QED
    BY <2>1
<1>3. QED
  BY <1>1, <1>2

(***************************************************************************)
(* Lists put one behind the other.                                         *)
(***************************************************************************)

\* How many elements a list without repetitions has.
LEMMA InjectiveCount ==
    ASSUME NEW S, NEW s \in Seq(S), IsInjective(s)
    PROVE  IsFiniteSet(ToSet(s)) /\ Cardinality(ToSet(s)) = Len(s)
<1> DEFINE n == Len(s)
<1>1. n \in Nat /\ DOMAIN s = 1 .. n
  OBVIOUS
<1>2. s \in Surjection(1 .. n, ToSet(s)) /\ s \in Injection(1 .. n, ToSet(s))
  <2>1. s \in [1 .. n -> ToSet(s)]
    BY <1>1 DEF ToSet
  <2>2. \A x \in ToSet(s) : \E i \in 1 .. n : s[i] = x
    BY <1>1 DEF ToSet
  <2> HIDE DEF n
  <2>3. QED
    BY <2>1, <2>2 DEF Surjection, Injection
<1>3. IsFiniteSet(1 .. n) /\ Cardinality(1 .. n) = n
  BY <1>1, FS_Interval, SMTT(30)
<1> HIDE DEF n
<1>4. IsFiniteSet(ToSet(s)) /\ Cardinality(ToSet(s)) = Cardinality(1 .. n)
  BY <1>2, <1>3, FS_Surjection
<1>5. QED
  BY <1>3, <1>4 DEF n

\* Two lists.
LEMMA ConcatElements ==
    ASSUME NEW S, NEW s \in Seq(S), NEW t \in Seq(S)
    PROVE  /\ s \o t \in Seq(S) /\ Len(s \o t) = Len(s) + Len(t)
           /\ \A x : x \in ToSet(s \o t) <=> x \in ToSet(s) \/ x \in ToSet(t)
           /\ /\ IsInjective(s) /\ IsInjective(t)
              /\ \A x \in ToSet(s) : x \notin ToSet(t)
              => IsInjective(s \o t)
<1> DEFINE r == s \o t
           m == Len(s)
           n == Len(t)
<1>1. /\ m \in Nat /\ n \in Nat /\ r \in Seq(S) /\ Len(r) = m + n
      /\ \A i \in 1 .. m + n : r[i] = IF i <= m THEN s[i] ELSE t[i - m]
  OBVIOUS
<1>2. /\ \A x : x \in ToSet(s) <=> \E i \in 1 .. m : s[i] = x
      /\ \A x : x \in ToSet(t) <=> \E i \in 1 .. n : t[i] = x
      /\ \A x : x \in ToSet(r) <=> \E i \in 1 .. m + n : r[i] = x
      /\ IsInjective(s) <=> \A i, j \in 1 .. m : s[i] = s[j] => i = j
      /\ IsInjective(t) <=> \A i, j \in 1 .. n : t[i] = t[j] => i = j
      /\ IsInjective(r) <=> \A i, j \in 1 .. m + n : r[i] = r[j] => i = j
  <2> HIDE DEF r
  <2>1. /\ \A x : x \in ToSet(s) <=> \E i \in 1 .. m : s[i] = x
        /\ IsInjective(s) <=> \A i, j \in 1 .. m : s[i] = s[j] => i = j
    BY ElementsOf
  <2>2. /\ \A x : x \in ToSet(t) <=> \E i \in 1 .. n : t[i] = x
        /\ IsInjective(t) <=> \A i, j \in 1 .. n : t[i] = t[j] => i = j
    BY ElementsOf
  <2>3. /\ \A x : x \in ToSet(r) <=> \E i \in 1 .. Len(r) : r[i] = x
        /\ IsInjective(r) <=> \A i, j \in 1 .. Len(r) : r[i] = r[j] => i = j
    BY <1>1, ElementsOf
  <2>4. QED
    BY <1>1, <2>1, <2>2, <2>3
<1> HIDE DEF r, m, n
<1>3. ASSUME NEW i \in 1 .. m + n
      PROVE  \/ i \in 1 .. m /\ r[i] = s[i]
             \/ i - m \in 1 .. n /\ r[i] = t[i - m] /\ i > m
  BY <1>1
<1>4. ASSUME NEW x PROVE x \in ToSet(r) <=> x \in ToSet(s) \/ x \in ToSet(t)
  <2>1. ASSUME x \in ToSet(r) PROVE x \in ToSet(s) \/ x \in ToSet(t)
    BY <1>2, <1>3, <2>1
  <2>2. ASSUME x \in ToSet(s) PROVE x \in ToSet(r)
    <3>1. PICK i \in 1 .. m : s[i] = x
      BY <1>2, <2>2
    <3>2. i \in 1 .. m + n /\ r[i] = x
      BY <1>1, <3>1
    <3>3. QED
      BY <1>2, <3>2
  <2>3. ASSUME x \in ToSet(t) PROVE x \in ToSet(r)
    <3>1. PICK i \in 1 .. n : t[i] = x
      BY <1>2, <2>3
    <3>2. m + i \in 1 .. m + n /\ r[m + i] = x
      <4>1. m + i \in 1 .. m + n /\ ~(m + i <= m) /\ (m + i) - m = i
        BY <1>1
      <4>2. QED
        BY <1>1, <3>1, <4>1
    <3>3. QED
      BY <1>2, <3>2
  <2>4. QED
    BY <2>1, <2>2, <2>3
<1>5. ASSUME IsInjective(s), IsInjective(t), \A x \in ToSet(s) : x \notin ToSet(t)
      PROVE  IsInjective(r)
  <2>1. ASSUME NEW i \in 1 .. m + n, NEW j \in 1 .. m + n, r[i] = r[j] PROVE i = j
    <3>1. CASE i \in 1 .. m /\ j \in 1 .. m
      BY <1>1, <1>2, <1>5, <2>1, <3>1
    <3>2. CASE i > m /\ j > m
      <4>1. i - m \in 1 .. n /\ j - m \in 1 .. n /\ t[i - m] = t[j - m]
        BY <1>1, <2>1, <3>2
      <4>2. i - m = j - m
        BY <1>2, <1>5, <4>1
      <4>3. QED
        BY <1>1, <4>2
    <3>3. CASE i \in 1 .. m /\ j > m
      <4>1. j - m \in 1 .. n /\ s[i] = t[j - m]
        BY <1>1, <2>1, <3>3
      <4>2. QED
        BY <1>2, <1>5, <3>3, <4>1
    <3>4. CASE i > m /\ j \in 1 .. m
      <4>1. i - m \in 1 .. n /\ s[j] = t[i - m]
        BY <1>1, <2>1, <3>4
      <4>2. QED
        BY <1>2, <1>5, <3>4, <4>1
    <3>5. QED
      BY <1>1, <3>1, <3>2, <3>3, <3>4
  <2>2. QED
    BY <1>2, <2>1
<1>6. QED
  BY <1>1, <1>4, <1>5 DEF r, m, n

\* FlattenSeq puts the first i lists together, for every i.
LEMMA FlattenExists ==
    ASSUME NEW S, NEW s \in Seq(Seq(S))
    PROVE  \E F \in [0 .. Len(s) -> Seq(S)] :
              /\ F[0] = <<>>
              /\ \A i \in 1 .. Len(s) : F[i] = F[i - 1] \o s[i]
              /\ FlattenSeq(s) = F[Len(s)]
<1> DEFINE n == Len(s)
           step == [i \in 1 .. n |-> [v \in Seq(S) |-> v \o s[i]]]
<1>1. n \in Nat /\ \A i \in 1 .. n : s[i] \in Seq(S)
  OBVIOUS
<1>2. /\ <<>> \in Seq(S)
      /\ \A i \in 1 .. n, v \in Seq(S) : step[i][v] = v \o s[i] /\ step[i][v] \in Seq(S)
  BY <1>1
<1> HIDE DEF step
<1>3. PICK F \in [0 .. n -> Seq(S)] : F[0] = <<>> /\ \A i \in 1 .. n : F[i] = step[i][F[i - 1]]
  <2> HIDE DEF n
  <2>1. \A i \in 1 .. n, v \in Seq(S) : step[i][v] \in Seq(S)
    BY <1>2
  <2>2. PICK none \in Seq(S) : none = <<>>
    BY <1>2
  <2>3. n \in Nat
    BY <1>1
  <2>4. \E F \in [0 .. n -> Seq(S)] : Recurring(n, none, step, F)
    BY <2>1, <2>3, RecursionExists
  <2>5. QED
    BY <2>2, <2>4 DEF Recurring
<1>4. \A i \in 1 .. n : i - 1 \in 0 .. n /\ F[i - 1] \in Seq(S) /\ F[i] = F[i - 1] \o s[i]
  <2>1. \A i \in 1 .. n : i - 1 \in 0 .. n
    BY <1>1
  <2> HIDE DEF n
  <2>2. QED
    BY <1>2, <1>3, <2>1
<1> DEFINE flat == CHOOSE f : f = [i \in 1 .. n |-> IF i = 1 THEN s[i] ELSE f[i - 1] \o s[i]]
<1>5. n # 0 => FlattenSeq(s) = flat[n]
  BY DEF FlattenSeq
<1>6. n = 0 => FlattenSeq(s) = <<>>
  BY DEF FlattenSeq
<1>7. ASSUME NEW i \in 1 .. n PROVE F[i] = IF i = 1 THEN s[i] ELSE F[i - 1] \o s[i]
  <2>1. CASE i = 1
    <3>1. F[i] = <<>> \o s[i] /\ s[i] \in Seq(S)
      <4>1. i - 1 = 0
        BY <2>1
      <4> HIDE DEF n
      <4>2. QED
        BY <1>1, <1>3, <1>4, <4>1
    <3>2. QED
      BY <2>1, <3>1
  <2>2. QED
    BY <1>4, <2>1
<1> DEFINE G == [i \in 1 .. n |-> F[i]]
<1>8. G = [i \in 1 .. n |-> IF i = 1 THEN s[i] ELSE G[i - 1] \o s[i]]
  <2>1. \A i \in 1 .. n : i # 1 => i - 1 \in 1 .. n
    BY <1>1
  <2>2. \A i \in 1 .. n : G[i] = IF i = 1 THEN s[i] ELSE G[i - 1] \o s[i]
    BY <1>7, <2>1
  <2>3. QED
    BY <2>2
<1>9. flat = [i \in 1 .. n |-> IF i = 1 THEN s[i] ELSE flat[i - 1] \o s[i]]
  <2> HIDE DEF G, n
  <2> QED
    BY <1>8
<1> HIDE DEF flat, G
<1>10. \A i \in 1 .. n : flat[i] = IF i = 1 THEN s[i] ELSE flat[i - 1] \o s[i]
  <2> HIDE DEF n
  <2> QED
    BY <1>9
<1> DEFINE Good == {k \in Nat : k \in 1 .. n => flat[k] = F[k]}
<1>11. 0 \in Good
  OBVIOUS
<1>12. ASSUME NEW k \in Nat, k \in Good PROVE k + 1 \in Good
  <2>1. SUFFICES ASSUME k + 1 \in 1 .. n PROVE flat[k + 1] = F[k + 1]
    OBVIOUS
  <2>2. (k + 1) - 1 = k /\ (k + 1 # 1 => k \in 1 .. n)
    BY <1>1, <2>1
  <2>3. QED
    BY <1>7, <1>10, <1>12, <2>1, <2>2
<1>13. n # 0 => flat[n] = F[n]
  <2>1. n \in Good
    <3> HIDE DEF Good
    <3> QED
      BY <1>1, <1>11, <1>12, InductiveSet
  <2>2. QED
    BY <1>1, <2>1
<1>14. FlattenSeq(s) = F[n]
  BY <1>3, <1>5, <1>6, <1>13
<1>15. QED
  BY <1>3, <1>4, <1>14

\* The list that FlattenSeq makes holds what the lists hold, once if no two lists share it.
LEMMA FlattenElements ==
    ASSUME NEW S, NEW s \in Seq(Seq(S))
    PROVE  /\ FlattenSeq(s) \in Seq(S)
           /\ \A x : x \in ToSet(FlattenSeq(s)) <=> \E i \in 1 .. Len(s) : x \in ToSet(s[i])
           /\ /\ \A i \in 1 .. Len(s) : IsInjective(s[i])
              /\ \A i, j \in 1 .. Len(s) : \A x \in ToSet(s[i]) : x \in ToSet(s[j]) => i = j
              => IsInjective(FlattenSeq(s))
<1> DEFINE n == Len(s)
           Apart == /\ \A i \in 1 .. n : IsInjective(s[i])
                    /\ \A i, j \in 1 .. n : \A x \in ToSet(s[i]) : x \in ToSet(s[j]) => i = j
<1>1. n \in Nat /\ \A i \in 1 .. n : s[i] \in Seq(S)
  OBVIOUS
<1>2. PICK F \in [0 .. n -> Seq(S)] :
          /\ F[0] = <<>>
          /\ \A i \in 1 .. n : F[i] = F[i - 1] \o s[i]
          /\ FlattenSeq(s) = F[n]
  BY FlattenExists
<1> HIDE DEF n
<1> DEFINE Holds(k) == /\ \A x : x \in ToSet(F[k]) <=> \E i \in 1 .. k : x \in ToSet(s[i])
                       /\ Apart => IsInjective(F[k])
           Good == {k \in Nat : k <= n => Holds(k)}
<1>3. 0 \in Good
  <2>1. ToSet(F[0]) = {} /\ IsInjective(F[0])
    BY <1>2 DEF ToSet, IsInjective
  <2>2. QED
    BY <2>1
<1>4. ASSUME NEW k \in Nat, k \in Good PROVE k + 1 \in Good
  <2>1. SUFFICES ASSUME k + 1 <= n PROVE Holds(k + 1)
    <3> HIDE DEF Holds
    <3> QED
      OBVIOUS
  <2>2. Holds(k)
    <3> HIDE DEF Holds
    <3> QED
      BY <1>1, <1>4, <2>1
  <2>3. /\ k + 1 \in 1 .. n /\ (k + 1) - 1 = k /\ k \in 0 .. n
        /\ \A i \in 1 .. k : i \in 1 .. n /\ i # k + 1 /\ i \in 1 .. k + 1
        /\ k + 1 \in 1 .. k + 1 /\ \A i \in 1 .. k + 1 : i \in 1 .. k \/ i = k + 1
    BY <1>1, <2>1
  <2>4. F[k + 1] = F[k] \o s[k + 1] /\ F[k] \in Seq(S) /\ s[k + 1] \in Seq(S)
    BY <1>1, <1>2, <2>3
  <2>5. \A x : x \in ToSet(F[k + 1]) <=> x \in ToSet(F[k]) \/ x \in ToSet(s[k + 1])
    BY <2>4, ConcatElements
  <2>6. \A x : x \in ToSet(F[k + 1]) <=> \E i \in 1 .. k + 1 : x \in ToSet(s[i])
    BY <2>2, <2>3, <2>5
  <2>7. ASSUME Apart PROVE IsInjective(F[k + 1])
    <3>1. IsInjective(F[k]) /\ IsInjective(s[k + 1])
      BY <2>2, <2>3, <2>7
    <3>2. \A x \in ToSet(F[k]) : x \notin ToSet(s[k + 1])
      BY <2>2, <2>3, <2>7
    <3>3. QED
      BY <2>4, <3>1, <3>2, ConcatElements
  <2>8. QED
    <3> HIDE DEF Apart
    <3> QED
      BY <2>6, <2>7
<1>5. n \in Good
  <2> HIDE DEF Good
  <2> QED
    BY <1>1, <1>3, <1>4, InductiveSet
<1>6. Holds(n) /\ F[n] \in Seq(S)
  <2> HIDE DEF Holds
  <2> QED
    BY <1>1, <1>5
<1>7. QED
  BY <1>2, <1>6 DEF n

\* A list of lists may be put together in two parts.
LEMMA FlattenSplit ==
    ASSUME NEW S, NEW s \in Seq(Seq(S)), NEW m \in 0 .. Len(s)
    PROVE  FlattenSeq(s) = FlattenSeq(SubSeq(s, 1, m)) \o FlattenSeq(SubSeq(s, m + 1, Len(s)))
<1>0. \A x, y, z \in Seq(S) : (x \o y) \o z = x \o (y \o z)
  <2>1. ASSUME NEW x \in Seq(S), NEW y \in Seq(S), NEW z \in Seq(S)
        PROVE  (x \o y) \o z = x \o (y \o z)
    BY SMTT(30)
  <2>2. QED
    BY <2>1
<1> DEFINE n == Len(s)
           a == SubSeq(s, 1, m)
           b == SubSeq(s, m + 1, Len(s))
<1>1. /\ n \in Nat /\ m \in Nat /\ m <= n
      /\ a \in Seq(Seq(S)) /\ Len(a) = m /\ \A i \in 1 .. m : a[i] = s[i]
      /\ b \in Seq(Seq(S)) /\ Len(b) = n - m /\ \A i \in 1 .. n - m : b[i] = s[m + i]
      /\ \A i \in 1 .. n : s[i] \in Seq(S)
  OBVIOUS
<1>2. PICK F \in [0 .. n -> Seq(S)] :
          F[0] = <<>> /\ (\A i \in 1 .. n : F[i] = F[i - 1] \o s[i]) /\ FlattenSeq(s) = F[n]
  BY FlattenExists
<1> HIDE DEF a, b, n
<1>3. PICK G \in [0 .. m -> Seq(S)] :
          G[0] = <<>> /\ (\A i \in 1 .. m : G[i] = G[i - 1] \o a[i]) /\ FlattenSeq(a) = G[m]
  BY <1>1, FlattenExists
<1>4. PICK H \in [0 .. n - m -> Seq(S)] :
          /\ H[0] = <<>> /\ FlattenSeq(b) = H[n - m]
          /\ \A i \in 1 .. n - m : H[i] = H[i - 1] \o b[i]
  <2>1. \E H \in [0 .. Len(b) -> Seq(S)] :
          /\ H[0] = <<>>
          /\ \A i \in 1 .. Len(b) : H[i] = H[i - 1] \o b[i]
          /\ FlattenSeq(b) = H[Len(b)]
    BY <1>1, FlattenExists
  <2>2. QED
    BY <1>1, <2>1
<1> DEFINE First == {k \in Nat : k <= m => F[k] = G[k]}
           Second == {k \in Nat : k <= n - m => F[m + k] = F[m] \o H[k]}
<1>5. m \in First
  <2>1. 0 \in First
    BY <1>2, <1>3
  <2>2. ASSUME NEW k \in Nat, k \in First PROVE k + 1 \in First
    <3>1. SUFFICES ASSUME k + 1 <= m PROVE F[k + 1] = G[k + 1]
      OBVIOUS
    <3>2. k + 1 \in 1 .. n /\ k + 1 \in 1 .. m /\ (k + 1) - 1 = k /\ k <= m
      BY <1>1, <3>1
    <3>3. F[k + 1] = F[k] \o s[k + 1] /\ G[k + 1] = G[k] \o a[k + 1]
      BY <1>2, <1>3, <3>2
    <3>4. F[k] = G[k] /\ a[k + 1] = s[k + 1]
      BY <1>1, <2>2, <3>2
    <3>5. QED
      BY <3>3, <3>4
  <2> HIDE DEF First
  <2>3. QED
    BY <1>1, <2>1, <2>2, InductiveSet
<1>6. n - m \in Second
  <2>0. n - m \in Nat /\ F[m] \in Seq(S) /\ m + 0 = m
    BY <1>1, <1>2
  <2>1. 0 \in Second
    <3>1. F[m] \o <<>> = F[m]
      BY <2>0
    <3>2. QED
      BY <1>4, <2>0, <3>1
  <2>2. ASSUME NEW k \in Nat, k \in Second PROVE k + 1 \in Second
    <3>0. k + 1 \in Nat
      OBVIOUS
    <3>1. SUFFICES ASSUME k + 1 <= n - m PROVE F[m + (k + 1)] = F[m] \o H[k + 1]
      BY <3>0
    <3>2. /\ m + (k + 1) \in 1 .. n /\ (m + (k + 1)) - 1 = m + k /\ k + 1 \in 1 .. n - m
          /\ (k + 1) - 1 = k /\ k <= n - m /\ k \in 0 .. n - m
      <4>1. n \in Nat /\ m \in Nat /\ m <= n
        BY <1>1
      <4> HIDE DEF Second
      <4>2. QED
        BY <3>1, <4>1
    <3>3. /\ F[m + (k + 1)] = F[m + k] \o s[m + (k + 1)]
          /\ H[k + 1] = H[k] \o b[k + 1]
      BY <1>2, <1>4, <3>2
    <3>4. F[m + k] = F[m] \o H[k] /\ b[k + 1] = s[m + (k + 1)]
      BY <1>1, <2>2, <3>2
    <3>5. H[k] \in Seq(S) /\ b[k + 1] \in Seq(S)
      BY <1>1, <1>4, <3>2, <3>4
    <3>6. (F[m] \o H[k]) \o b[k + 1] = F[m] \o (H[k] \o b[k + 1])
      <4> DEFINE x == F[m]
                 y == H[k]
                 z == b[k + 1]
      <4>1. x \in Seq(S) /\ y \in Seq(S) /\ z \in Seq(S)
        BY <2>0, <3>5
      <4> HIDE DEF x, y, z
      <4>2. (x \o y) \o z = x \o (y \o z)
        BY <1>0, <4>1, Zenon
      <4>3. QED
        BY <4>2 DEF x, y, z
    <3>7. QED
      BY <3>3, <3>4, <3>6
  <2> HIDE DEF Second
  <2>3. QED
    BY <2>0, <2>1, <2>2, InductiveSet
<1>7. FlattenSeq(s) = FlattenSeq(a) \o FlattenSeq(b)
  <2>1. F[m] = G[m] /\ F[m + (n - m)] = F[m] \o H[n - m]
    BY <1>1, <1>5, <1>6, SMTT(30)
  <2>2. m + (n - m) = n
    BY <1>1
  <2>3. QED
    BY <1>2, <1>3, <1>4, <2>1, <2>2
<1>8. QED
  BY <1>7 DEF a, b

\* No list and one list.
LEMMA FlattenSmall ==
    ASSUME NEW S, NEW s \in Seq(Seq(S))
    PROVE  /\ Len(s) = 0 => FlattenSeq(s) = <<>>
           /\ Len(s) = 1 => FlattenSeq(s) = s[1]
<1>1. PICK F \in [0 .. Len(s) -> Seq(S)] :
          /\ F[0] = <<>>
          /\ \A i \in 1 .. Len(s) : F[i] = F[i - 1] \o s[i]
          /\ FlattenSeq(s) = F[Len(s)]
  BY FlattenExists
<1>2. ASSUME Len(s) = 1 PROVE FlattenSeq(s) = s[1]
  <2>1. F[1] = F[0] \o s[1] /\ s[1] \in Seq(S)
    <3>1. 1 \in 1 .. Len(s) /\ 1 - 1 = 0
      BY <1>2
    <3>2. F[1] = F[1 - 1] \o s[1]
      BY <1>1, <3>1
    <3>3. s[1] \in Seq(S)
      BY <3>1
    <3>4. QED
      BY <3>1, <3>2, <3>3
  <2>2. <<>> \o s[1] = s[1]
    BY <2>1
  <2>3. QED
    BY <1>1, <1>2, <2>1, <2>2
<1>3. QED
  BY <1>1, <1>2

\* What a concatenation holds.
LEMMA ConcatParts ==
    ASSUME NEW S, NEW x \in Seq(S), NEW y \in Seq(S)
    PROVE  /\ x \o y \in Seq(S) /\ Len(x \o y) = Len(x) + Len(y)
           /\ \A i \in 1 .. Len(x) : (x \o y)[i] = x[i]
           /\ \A i \in 1 .. Len(y) : (x \o y)[Len(x) + i] = y[i]
OBVIOUS

\* What a part holds.
LEMMA SubSeqParts ==
    ASSUME NEW S, NEW s \in Seq(S), NEW a \in Nat, NEW b \in Nat, a <= b, b <= Len(s)
    PROVE  /\ SubSeq(s, a + 1, b) \in Seq(S) /\ Len(SubSeq(s, a + 1, b)) = b - a
           /\ \A i \in 1 .. b - a : SubSeq(s, a + 1, b)[i] = s[a + i]
OBVIOUS

LEMMA OneElement ==
    ASSUME NEW S, NEW s \in Seq(S), NEW i \in 1 .. Len(s)
    PROVE  SubSeq(s, i, i) = <<s[i]>>
<1> DEFINE x == SubSeq(s, i, i)
           e == s[i]
<1>1. x \in Seq(S) /\ Len(x) = 1 /\ x[1] = e
  OBVIOUS
<1> HIDE DEF x, e
<1>2. x = <<e>>
  BY <1>1
<1>3. QED
  BY <1>2 DEF x, e
=============================================================================
