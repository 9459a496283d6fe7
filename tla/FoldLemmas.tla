----------------------------- MODULE FoldLemmas -----------------------------
(***************************************************************************)
(* What the sums and queues of the model add up to.  The provers cannot     *)
(* instantiate the induction theorems of the library, so each induction     *)
(* here is a smallest counterexample that does not exist.                   *)
(***************************************************************************)
EXTENDS Naturals, Sequences, FiniteSets, FiniteSetsExt, FiniteSetTheorems,
        SequenceTheorems, WellFoundedInduction, TLAPS

\* The element that MapThenSumSet takes out of a set next.
Pick(s) == CHOOSE x \in s : TRUE

\* g[s] is the sum of f over s, for every subset s of S.
Adds(g, f, S) ==
    /\ g \in [SUBSET S -> Nat]
    /\ \A s \in SUBSET S : g[s] = IF s = {} THEN 0 ELSE f[Pick(s)] + g[s \ {Pick(s)}]

\* The sum of f over S.
Total(f, S) == (CHOOSE g : Adds(g, f, S))[S]

\* A set that is not empty has an element to take out.
LEMMA PickIn == ASSUME NEW s, s # {} PROVE Pick(s) \in s
  BY DEF Pick

\* Induction over the subsets of a finite set.
LEMMA SmallestSubset ==
    ASSUME NEW S, IsFiniteSet(S), NEW T, T \subseteq SUBSET S, T # {}
    PROVE  \E t \in T : \A u \in T : ~(u \subseteq t /\ u # t)
  <1>1. FiniteSubsetsOf(S) = SUBSET S
    BY FS_FiniteSubsetsOfFinite
  <1>2. IsWellFoundedOn(StrictSubsetOrdering(S), SUBSET S)
    BY <1>1, FS_StrictSubsetOrderingWellFounded
  <1>3. \E t \in T : \A u \in T : ~(<<u, t>> \in StrictSubsetOrdering(S))
    BY <1>2, WFMin
  <1>4. QED
    BY <1>3 DEF StrictSubsetOrdering

\* A sum is determined by its summands.
LEMMA AddsUnique ==
    ASSUME NEW A, IsFiniteSet(A), NEW f, NEW g, NEW h, NEW B,
           Adds(g, f, A), Adds(h, f, B)
    PROVE  \A s \in SUBSET (A \cap B) : g[s] = h[s]
  <1> DEFINE T == {s \in SUBSET (A \cap B) : g[s] # h[s]}
  <1>1. SUFFICES ASSUME T # {} PROVE FALSE
    OBVIOUS
  <1>2. PICK s \in T : \A u \in T : ~(u \subseteq s /\ u # s)
    <2>1. T \subseteq SUBSET A
      OBVIOUS
    <2> HIDE DEF T
    <2>2. QED
      BY <1>1, <2>1, SmallestSubset
  <1>3. s # {}
    BY DEF Adds
  <1>4. s \ {Pick(s)} \notin T
    BY <1>2, <1>3, PickIn
  <1>5. g[s \ {Pick(s)}] = h[s \ {Pick(s)}]
    BY <1>4
  <1>6. QED
    BY <1>3, <1>5 DEF Adds

\* The sum over a part of a set is known from the sum over the set.
LEMMA TotalOfPart ==
    ASSUME NEW A, IsFiniteSet(A), NEW f, NEW g, Adds(g, f, A), NEW s \in SUBSET A,
           \E h : Adds(h, f, s)
    PROVE  Total(f, s) = g[s]
  <1>1. Adds(CHOOSE h : Adds(h, f, s), f, s)
    OBVIOUS
  <1>2. QED
    BY <1>1, AddsUnique DEF Total

\* Every finite set of summands has a sum.
LEMMA AddsExists ==
    ASSUME NEW S, IsFiniteSet(S), NEW f, \A x \in S : f[x] \in Nat
    PROVE  \A s \in SUBSET S : \E g : Adds(g, f, s)
  <1> DEFINE T == {s \in SUBSET S : ~\E g : Adds(g, f, s)}
  <1>1. SUFFICES ASSUME T # {} PROVE FALSE
    OBVIOUS
  <1>2. PICK t \in T : \A u \in T : ~(u \subseteq t /\ u # t)
    <2>1. T \subseteq SUBSET S
      OBVIOUS
    <2> HIDE DEF T
    <2>2. QED
      BY <1>1, <2>1, SmallestSubset
  <1>3. ASSUME NEW u \in SUBSET t, u # t
        PROVE  /\ Total(f, u) \in Nat
               /\ Total(f, u) = IF u = {} THEN 0 ELSE f[Pick(u)] + Total(f, u \ {Pick(u)})
    <2>1. IsFiniteSet(u)
      BY FS_Subset
    <2>2. PICK g : Adds(g, f, u)
      BY <1>2, <1>3
    <2>3. Total(f, u) = g[u]
      BY <2>1, <2>2, TotalOfPart
    <2>4. CASE u = {}
      <3>1. {} \in SUBSET u /\ g[{}] = 0
        BY <2>2 DEF Adds
      <3>2. QED
        BY <2>3, <2>4, <3>1
    <2>5. CASE u # {}
      <3>1. u \ {Pick(u)} \in SUBSET u /\ u \ {Pick(u)} # t
        BY <1>3
      <3>2. \E h : Adds(h, f, u \ {Pick(u)})
        BY <1>2, <3>1
      <3>3. Total(f, u \ {Pick(u)}) = g[u \ {Pick(u)}]
        BY <2>1, <2>2, <3>1, <3>2, TotalOfPart
      <3>4. QED
        BY <2>2, <2>3, <2>5, <3>3 DEF Adds
    <2>6. QED
      BY <2>4, <2>5
  <1> DEFINE F(s) == IF s = {} THEN 0 ELSE f[Pick(s)] + Total(f, s \ {Pick(s)})
             G == [s \in SUBSET t |-> F(s)]
  <1>4. ASSUME NEW s \in SUBSET t, s # {}
        PROVE  /\ Pick(s) \in S
               /\ s \ {Pick(s)} \in SUBSET t
               /\ s \ {Pick(s)} # t
    BY <1>4, PickIn
  <1>5. ASSUME NEW s \in SUBSET t
        PROVE  F(s) \in Nat
    <2>1. s # {} => f[Pick(s)] \in Nat /\ Total(f, s \ {Pick(s)}) \in Nat
      BY <1>3, <1>4
    <2>2. QED
      BY <2>1
  <1>6. \A s \in SUBSET t : s # {} => G[s \ {Pick(s)}] = Total(f, s \ {Pick(s)})
    BY <1>3, <1>4
  <1>7. Adds(G, f, t)
    <2>1. G \in [SUBSET t -> Nat]
      BY <1>5
    <2>2. \A s \in SUBSET t : G[s] = IF s = {} THEN 0 ELSE f[Pick(s)] + G[s \ {Pick(s)}]
      BY <1>6
    <2>3. QED
      BY <2>1, <2>2 DEF Adds
  <1>8. QED
    BY <1>7

\* The sum over a set is one summand and the sum over the rest.
LEMMA TotalStep ==
    ASSUME NEW S, IsFiniteSet(S), NEW f, \A x \in S : f[x] \in Nat
    PROVE  \A s \in SUBSET S :
             /\ Total(f, s) \in Nat
             /\ Total(f, s) = IF s = {} THEN 0 ELSE f[Pick(s)] + Total(f, s \ {Pick(s)})
  <1>1. PICK g : Adds(g, f, S)
    BY AddsExists
  <1>2. \A s \in SUBSET S : Total(f, s) = g[s]
    BY <1>1, AddsExists, TotalOfPart
  <1>3. \A s \in SUBSET S : s \ {Pick(s)} \in SUBSET S
    OBVIOUS
  <1>4. QED
    BY <1>1, <1>2, <1>3 DEF Adds

\* A sum with greater summands is no smaller.
LEMMA TotalMonotone ==
    ASSUME NEW S, IsFiniteSet(S), NEW f, NEW g,
           \A x \in S : f[x] \in Nat /\ g[x] \in Nat /\ f[x] <= g[x]
    PROVE  Total(f, S) <= Total(g, S)
  <1> DEFINE T == {s \in SUBSET S : ~(Total(f, s) <= Total(g, s))}
  <1>1. SUFFICES ASSUME T # {} PROVE FALSE
    OBVIOUS
  <1>2. PICK s \in T : \A u \in T : ~(u \subseteq s /\ u # s)
    <2>1. T \subseteq SUBSET S
      OBVIOUS
    <2> HIDE DEF T
    <2>2. QED
      BY <1>1, <2>1, SmallestSubset
  <1>3. /\ Total(f, s) = IF s = {} THEN 0 ELSE f[Pick(s)] + Total(f, s \ {Pick(s)})
        /\ Total(g, s) = IF s = {} THEN 0 ELSE g[Pick(s)] + Total(g, s \ {Pick(s)})
    BY TotalStep
  <1>4. s # {}
    BY <1>3
  <1>5. Pick(s) \in S /\ s \ {Pick(s)} \in SUBSET S /\ s \ {Pick(s)} \notin T
    BY <1>2, <1>4, PickIn
  <1>6. Total(f, s \ {Pick(s)}) <= Total(g, s \ {Pick(s)})
    BY <1>5
  <1>7. Total(f, s \ {Pick(s)}) \in Nat /\ Total(g, s \ {Pick(s)}) \in Nat
    BY <1>5, TotalStep
  <1>8. Total(f, s) <= Total(g, s)
    BY <1>3, <1>4, <1>5, <1>6, <1>7
  <1>9. QED
    BY <1>8

\* Equal summands have equal sums.
LEMMA TotalSame ==
    ASSUME NEW S, IsFiniteSet(S), NEW f, NEW g,
           \A x \in S : f[x] \in Nat /\ g[x] = f[x]
    PROVE  Total(f, S) = Total(g, S)
  <1>1. Total(f, S) <= Total(g, S) /\ Total(g, S) <= Total(f, S)
    BY TotalMonotone
  <1>2. Total(f, S) \in Nat /\ Total(g, S) \in Nat
    BY TotalStep
  <1>3. QED
    BY <1>1, <1>2

\* A sum in which one summand changes changes by as much.
LEMMA TotalChange ==
    ASSUME NEW S, IsFiniteSet(S), NEW f, NEW g, NEW r \in S,
           \A x \in S : f[x] \in Nat /\ g[x] \in Nat,
           \A x \in S : x # r => g[x] = f[x]
    PROVE  Total(g, S) + f[r] = Total(f, S) + g[r]
  <1> DEFINE T == {s \in SUBSET S : r \in s /\ Total(g, s) + f[r] # Total(f, s) + g[r]}
  <1>1. SUFFICES ASSUME T # {} PROVE FALSE
    OBVIOUS
  <1>2. PICK s \in T : \A u \in T : ~(u \subseteq s /\ u # s)
    <2>1. T \subseteq SUBSET S
      OBVIOUS
    <2> HIDE DEF T
    <2>2. QED
      BY <1>1, <2>1, SmallestSubset
  <1> DEFINE rest == s \ {Pick(s)}
  <1>3. s # {} /\ Pick(s) \in s /\ rest \in SUBSET S /\ rest \notin T
    BY <1>2, PickIn
  <1>4. /\ Total(f, s) = f[Pick(s)] + Total(f, rest)
        /\ Total(g, s) = g[Pick(s)] + Total(g, rest)
    BY <1>3, TotalStep
  <1>5. Total(f, rest) \in Nat /\ Total(g, rest) \in Nat
    BY <1>3, TotalStep
  <1>6. CASE Pick(s) = r
    <2>1. \A x \in rest : f[x] \in Nat /\ g[x] = f[x]
      BY <1>3, <1>6
    <2>2. Total(f, rest) = Total(g, rest)
      <3>1. IsFiniteSet(rest)
        BY <1>3, FS_Subset
      <3> HIDE DEF rest
      <3>2. QED
        BY <2>1, <3>1, TotalSame
    <2>3. QED
      BY <1>4, <1>5, <1>6, <2>2
  <1>7. CASE Pick(s) # r
    <2>1. r \in rest
      BY <1>7
    <2>2. Total(g, rest) + f[r] = Total(f, rest) + g[r]
      BY <1>3, <2>1
    <2>3. g[Pick(s)] = f[Pick(s)] /\ f[Pick(s)] \in Nat /\ f[r] \in Nat /\ g[r] \in Nat
      BY <1>3, <1>7
    <2>4. Total(g, s) + f[r] = Total(f, s) + g[r]
      <3> HIDE DEF rest
      <3> QED
        BY <1>4, <1>5, <2>2, <2>3
    <2>5. QED
      BY <2>4
  <1>8. QED
    BY <1>6, <1>7

\* A sum of nothing but zeros.
LEMMA TotalZero ==
    ASSUME NEW S, IsFiniteSet(S), NEW f, \A x \in S : f[x] \in Nat /\ f[x] = 0
    PROVE  Total(f, S) = 0
  <1> DEFINE T == {s \in SUBSET S : Total(f, s) # 0}
  <1>1. SUFFICES ASSUME T # {} PROVE FALSE
    OBVIOUS
  <1>2. PICK s \in T : \A u \in T : ~(u \subseteq s /\ u # s)
    <2>1. T \subseteq SUBSET S
      OBVIOUS
    <2> HIDE DEF T
    <2>2. QED
      BY <1>1, <2>1, SmallestSubset
  <1>3. Total(f, s) = IF s = {} THEN 0 ELSE f[Pick(s)] + Total(f, s \ {Pick(s)})
    <2>1. s \in SUBSET S
      OBVIOUS
    <2> HIDE DEF T
    <2>2. \A x \in S : f[x] \in Nat
      OBVIOUS
    <2>3. QED
      BY <2>1, <2>2, TotalStep
  <1>4. s # {}
    BY <1>3
  <1>5. Pick(s) \in S /\ s \ {Pick(s)} \in SUBSET S /\ s \ {Pick(s)} \notin T
    BY <1>2, <1>4, PickIn
  <1>6. QED
    BY <1>3, <1>4, <1>5

\* No summand exceeds the sum.
LEMMA TotalMember ==
    ASSUME NEW S, IsFiniteSet(S), NEW f, \A x \in S : f[x] \in Nat, NEW r \in S
    PROVE  f[r] <= Total(f, S)
  <1> DEFINE g == [x \in S |-> IF x = r THEN 0 ELSE f[x]]
  <1>1. /\ \A x \in S : g[x] \in Nat /\ (x # r => g[x] = f[x])
        /\ g[r] = 0
    OBVIOUS
  <1> HIDE DEF g
  <1>2. Total(g, S) + f[r] = Total(f, S) + g[r]
    BY <1>1, TotalChange
  <1>3. Total(g, S) \in Nat /\ Total(f, S) \in Nat
    BY <1>1, TotalStep
  <1>4. QED
    BY <1>1, <1>2, <1>3

\* The recursive function that MapThenSumSet runs exists and yields the sum.
LEMMA TotalIsFold ==
    ASSUME NEW S, IsFiniteSet(S), NEW f, \A x \in S : f[x] \in Nat
    PROVE  LET Fold(it) == it = [s \in SUBSET S |-> IF s = {} THEN 0
                                                   ELSE f[Pick(s)] + it[s \ {Pick(s)}]]
           IN  /\ \E it : Fold(it)
               /\ \A it : Fold(it) => it[S] = Total(f, S)
  <1> DEFINE Fold(it) == it = [s \in SUBSET S |-> IF s = {} THEN 0
                                                 ELSE f[Pick(s)] + it[s \ {Pick(s)}]]
  <1>1. PICK g : Adds(g, f, S)
    BY AddsExists
  <1>2. Fold(g)
    <2>1. g = [s \in SUBSET S |-> g[s]]
      BY <1>1 DEF Adds
    <2>2. \A s \in SUBSET S : g[s] = IF s = {} THEN 0 ELSE f[Pick(s)] + g[s \ {Pick(s)}]
      BY <1>1 DEF Adds
    <2>3. QED
      BY <2>1, <2>2
  <1>3. ASSUME NEW it, Fold(it)
        PROVE  it[S] = Total(f, S)
    <2> DEFINE T == {s \in SUBSET S : it[s] # Total(f, s)}
    <2>1. SUFFICES ASSUME T # {} PROVE FALSE
      OBVIOUS
    <2>2. PICK s \in T : \A u \in T : ~(u \subseteq s /\ u # s)
      <3>1. T \subseteq SUBSET S
        OBVIOUS
      <3> HIDE DEF T
      <3>2. QED
        BY <2>1, <3>1, SmallestSubset
    <2>3. s \ {Pick(s)} \in SUBSET S
      OBVIOUS
    <2>4. s # {} => it[s \ {Pick(s)}] = Total(f, s \ {Pick(s)})
      BY <2>2, <2>3, PickIn
    <2>5. it[s] = IF s = {} THEN 0 ELSE f[Pick(s)] + it[s \ {Pick(s)}]
      BY <1>3
    <2>6. QED
      BY <2>4, <2>5, TotalStep
  <1>4. QED
    BY <1>2, <1>3

-----------------------------------------------------------------------------
(* Sequences.                                                               *)

\* A sequence without its k-th element: those behind it move up.
LEMMA CutOut ==
    ASSUME NEW S, NEW s \in Seq(S), NEW k \in 1..Len(s)
    PROVE  LET cut == SubSeq(s, 1, k - 1) \o SubSeq(s, k + 1, Len(s))
           IN  /\ cut \in Seq(S)
               /\ Len(cut) = Len(s) - 1
               /\ DOMAIN cut = 1..(Len(s) - 1)
               /\ \A i \in 1..(Len(s) - 1) : cut[i] = IF i < k THEN s[i] ELSE s[i + 1]
  <1> DEFINE front == SubSeq(s, 1, k - 1)
             back == SubSeq(s, k + 1, Len(s))
  <1>1. Len(s) \in Nat /\ k \in Nat /\ 1 <= k /\ k <= Len(s)
    BY LenProperties
  <1>2. \A i \in 1..Len(s) : s[i] \in S
    BY ElementOfSeq
  <1>3. front \in Seq(S) /\ Len(front) = k - 1 /\ \A i \in 1..(k - 1) : front[i] = s[i]
    <2>1. \A i \in 1..(k - 1) : s[i] \in S
      BY <1>1, <1>2
    <2>2. 1 \in Int /\ k - 1 \in Int
      BY <1>1
    <2>3. /\ front \in Seq(S)
          /\ Len(front) = IF 1 <= k - 1 THEN (k - 1) - 1 + 1 ELSE 0
          /\ \A i \in 1..((k - 1) - 1 + 1) : front[i] = s[1 + i - 1]
      BY <2>1, <2>2, SubSeqProperties
    <2> HIDE DEF front
    <2>4. QED
      BY <1>1, <2>3
  <1>4. /\ back \in Seq(S)
        /\ Len(back) = Len(s) - k
        /\ \A i \in 1..(Len(s) - k) : back[i] = s[k + i]
    <2>1. \A i \in (k + 1)..Len(s) : s[i] \in S
      BY <1>1, <1>2
    <2>2. k + 1 \in Int /\ Len(s) \in Int
      BY <1>1
    <2>3. /\ back \in Seq(S)
          /\ Len(back) = IF k + 1 <= Len(s) THEN Len(s) - (k + 1) + 1 ELSE 0
          /\ \A i \in 1..(Len(s) - (k + 1) + 1) : back[i] = s[(k + 1) + i - 1]
      BY <2>1, <2>2, SubSeqProperties
    <2> HIDE DEF back
    <2>4. QED
      BY <1>1, <2>3
  <1> HIDE DEF front, back
  <1>5. /\ front \o back \in Seq(S)
        /\ Len(front \o back) = Len(front) + Len(back)
        /\ \A i \in 1..(Len(front) + Len(back)) :
             (front \o back)[i] = IF i <= Len(front) THEN front[i] ELSE back[i - Len(front)]
    BY <1>3, <1>4, ConcatProperties
  <1>6. DOMAIN (front \o back) = 1..(Len(s) - 1) /\ Len(front \o back) = Len(s) - 1
    <2>1. DOMAIN (front \o back) = 1..Len(front \o back)
      BY <1>5, LenProperties
    <2>2. QED
      BY <1>1, <1>3, <1>4, <1>5, <2>1
  <1>7. ASSUME NEW i \in 1..(Len(s) - 1)
        PROVE  (front \o back)[i] = IF i < k THEN s[i] ELSE s[i + 1]
    <2>1. (front \o back)[i] = IF i <= k - 1 THEN front[i] ELSE back[i - (k - 1)]
      BY <1>1, <1>3, <1>4, <1>5
    <2>2. CASE i < k
      BY <1>1, <1>3, <2>1, <2>2
    <2>3. CASE ~(i < k)
      <3>1. i - (k - 1) \in 1..(Len(s) - k) /\ k + (i - (k - 1)) = i + 1
        BY <1>1, <2>3
      <3>2. (front \o back)[i] = back[i - (k - 1)]
        BY <1>1, <2>1, <2>3
      <3>3. back[i - (k - 1)] = s[k + (i - (k - 1))]
        BY <1>4, <3>1
      <3>4. QED
        BY <2>3, <3>1, <3>2, <3>3
    <2>4. QED
      BY <2>2, <2>3
  <1>8. QED
    BY <1>5, <1>6, <1>7 DEF front, back
=============================================================================
