--------------------------- MODULE InductionLemmas ---------------------------
(***************************************************************************)
(* Induction in a form without operator parameters: the property to prove  *)
(* is the membership in a set.  Everything follows from the existence of   *)
(* minimal elements under a well-founded relation.                         *)
(***************************************************************************)
EXTENDS Integers, FiniteSets, FiniteSetsExt, TLAPS, WellFoundedInduction, FiniteSetTheorems

\* A nonempty set of naturals has a least element.
LEMMA LeastNatural ==
    ASSUME NEW T \in SUBSET Nat, T # {}
    PROVE  \E x \in T : \A y \in T : x <= y
<1> DEFINE R == {ss \in Nat \X Nat : ss[1] < ss[2]}
<1>1. IsWellFoundedOn(R, Nat)
  BY NatLessThanWellFounded, Zenon DEF OpToRel
<1>2. PICK x \in T : \A y \in T : ~ (<<y, x>> \in R)
  <2> HIDE DEF R
  <2> QED BY <1>1, WFMin
<1>3. \A y \in T : ~(y < x)
  <2> SUFFICES ASSUME NEW y \in T, y < x PROVE FALSE
    OBVIOUS
  <2>1. <<y, x>> \in Nat \X Nat /\ <<y, x>>[1] < <<y, x>>[2]
    OBVIOUS
  <2>2. <<y, x>> \in R
    BY <2>1, Zenon
  <2> QED BY <1>2, <2>2
<1> QED BY <1>3

\* Induction over the naturals.
LEMMA NatSetInduction ==
    ASSUME NEW T \in SUBSET Nat, 0 \in T, \A n \in T : n + 1 \in T
    PROVE  T = Nat
<1> SUFFICES ASSUME Nat \ T # {} PROVE FALSE
  OBVIOUS
<1>1. PICK x \in Nat \ T : \A y \in Nat \ T : x <= y
  BY LeastNatural
<1>2. x # 0 /\ x - 1 \in Nat /\ x - 1 \in T
  BY <1>1
<1> QED BY <1>2

\* Every nonempty finite set has an element of largest rank.
LEMMA HighestRank ==
    ASSUME NEW S, IsFiniteSet(S), S # {}, NEW rank \in [S -> Nat]
    PROVE  \E x \in S : \A y \in S : rank[y] <= rank[x]
<1> DEFINE HasTop(U) == U # {} => \E x \in U : \A y \in U : rank[y] <= rank[x]
           T == {n \in Nat : \A U \in SUBSET S : Cardinality(U) = n => HasTop(U)}
<1>0. \A U \in SUBSET S : IsFiniteSet(U) /\ Cardinality(U) \in Nat
  BY FS_Subset, FS_CardinalityType
<1>1. 0 \in T
  BY <1>0, FS_EmptySet
<1>2. ASSUME NEW n \in T PROVE n + 1 \in T
  <2> SUFFICES ASSUME NEW U \in SUBSET S, Cardinality(U) = n + 1, U # {}
               PROVE  \E x \in U : \A y \in U : rank[y] <= rank[x]
    OBVIOUS
  <2>1. PICK a \in U : TRUE
    OBVIOUS
  <2>2. U \ {a} \in SUBSET S /\ Cardinality(U \ {a}) = n
    BY <1>0, <2>1, FS_RemoveElement
  <2>3. HasTop(U \ {a})
    BY <2>2
  <2>4. \A y \in U : rank[y] \in Nat
    OBVIOUS
  <2>5. CASE U \ {a} = {}
    BY <2>1, <2>4, <2>5
  <2>6. CASE U \ {a} # {}
    <3>1. PICK x \in U \ {a} : \A y \in U \ {a} : rank[y] <= rank[x]
      BY <2>3, <2>6
    <3>2. CASE rank[a] <= rank[x]
      BY <3>1, <3>2
    <3>3. CASE ~(rank[a] <= rank[x])
      <4>1. \A y \in U : rank[y] <= rank[a]
        BY <2>1, <2>4, <3>1, <3>3
      <4> QED BY <4>1
    <3> QED BY <3>2, <3>3
  <2> QED BY <2>5, <2>6
<1>3. T = Nat
  <2> HIDE DEF T
  <2>1. T \in SUBSET Nat
    BY DEF T
  <2> QED BY <1>1, <1>2, <2>1, NatSetInduction
<1>4. Cardinality(S) \in T
  BY <1>0, <1>3
<1>5. HasTop(S)
  BY <1>4
<1> QED BY <1>5

-----------------------------------------------------------------------------
(* Folds.  FoldLeft recurses over the subsets of a sequence's domain, the  *)
(* largest index of a subset being the one its last step treats.           *)

\* The largest of some indices.
LEMMA MaxOfIndices ==
    ASSUME NEW n \in Nat, NEW s \in SUBSET (1 .. n), s # {}
    PROVE  Max(s) \in s /\ \A y \in s : y <= Max(s)
<1>1. IsFiniteSet(1 .. n)
  BY FS_Interval
<1>2. IsFiniteSet(s)
  BY <1>1, FS_Subset
<1> DEFINE rank == [y \in s |-> y]
<1>3. rank \in [s -> Nat]
  OBVIOUS
<1>4. \E x \in s : \A y \in s : rank[y] <= rank[x]
  <2> HIDE DEF rank
  <2> QED BY <1>2, <1>3, HighestRank
<1>5. \E x \in s : \A y \in s : x >= y
  BY <1>4
<1>6. Max(s) \in s /\ \A y \in s : Max(s) >= y
  BY <1>5, Zenon DEF Max
<1> QED BY <1>6

\* The last step over a prefix treats its last index.
LEMMA MaxOfPrefix ==
    ASSUME NEW n \in Nat, NEW s \in SUBSET (1 .. n + 1), n + 1 \in s
    PROVE  /\ Max(s) = n + 1
           /\ (1 .. n + 1) \ {n + 1} = 1 .. n
           /\ s \ {n + 1} \in SUBSET (1 .. n)
<1>1. n + 1 \in Nat /\ s # {}
  OBVIOUS
<1>2. Max(s) \in s /\ \A y \in s : y <= Max(s)
  BY <1>1, MaxOfIndices
<1>3. Max(s) = n + 1
  <2>1. Max(s) \in 1 .. n + 1 /\ n + 1 <= Max(s)
    BY <1>2
  <2> QED BY <2>1
<1>4. (1 .. n + 1) \ {n + 1} = 1 .. n
  OBVIOUS
<1>5. s \ {n + 1} \in SUBSET (1 .. n)
  BY <1>4
<1> QED BY <1>3, <1>4, <1>5

\* g solves the recursion whose i-th step is F[i].
FoldSolution(n, A, base, F, g) ==
    /\ g \in [SUBSET (1 .. n) -> A]
    /\ \A s \in SUBSET (1 .. n) :
         g[s] = IF s = {} THEN base ELSE F[Max(s)][g[s \ {Max(s)}]]

\* The recursion has a solution for every step that stays in its type.
LEMMA FoldExists ==
    ASSUME NEW n \in Nat, NEW A, NEW base \in A, NEW F \in [1 .. n -> [A -> A]]
    PROVE  \E g : FoldSolution(n, A, base, F, g)
<1> DEFINE Solves(g, k) == \A s \in SUBSET (1 .. k) :
             g[s] = IF s = {} THEN base ELSE F[Max(s)][g[s \ {Max(s)}]]
           T == {k \in Nat : k <= n => \E g \in [SUBSET (1 .. k) -> A] : Solves(g, k)}
<1>1. 0 \in T
  <2> DEFINE g == [s \in SUBSET (1 .. 0) |-> base]
  <2>1. g \in [SUBSET (1 .. 0) -> A] /\ Solves(g, 0)
    OBVIOUS
  <2> QED BY <2>1
<1>2. ASSUME NEW k \in T PROVE k + 1 \in T
  <2> k \in Nat
    BY Zenon
  <2>0. k <= n => \E g \in [SUBSET (1 .. k) -> A] : Solves(g, k)
    BY Zenon
  <2> SUFFICES ASSUME k + 1 <= n
               PROVE  \E g \in [SUBSET (1 .. k + 1) -> A] : Solves(g, k + 1)
    <3>1. k + 1 \in Nat
      OBVIOUS
    <3> QED BY <3>1, Zenon
  <2> HIDE DEF T
  <2>1. PICK h \in [SUBSET (1 .. k) -> A] : Solves(h, k)
    <3>1. k <= n
      BY <2>0
    <3> QED BY <2>0, <3>1, Zenon
  <2> DEFINE g == [s \in SUBSET (1 .. k + 1) |->
                     IF k + 1 \in s THEN F[k + 1][h[s \ {k + 1}]] ELSE h[s]]
  <2>2. \A s \in SUBSET (1 .. k + 1) : k + 1 \notin s => s \in SUBSET (1 .. k)
    OBVIOUS
  <2>3. \A s \in SUBSET (1 .. k + 1) : k + 1 \in s => /\ s \ {k + 1} \in SUBSET (1 .. k)
                                                      /\ Max(s) = k + 1
    BY MaxOfPrefix
  <2>4. \A s \in SUBSET (1 .. k + 1) : s \ {k + 1} \in SUBSET (1 .. k + 1) /\ k + 1 \notin s \ {k + 1}
    OBVIOUS
  <2>5. ASSUME NEW s \in SUBSET (1 .. k + 1) PROVE g[s] \in A
    <3>1. CASE k + 1 \in s
      <4>1. h[s \ {k + 1}] \in A /\ k + 1 \in 1 .. n
        BY <2>3, <3>1
      <4> QED BY <3>1, <4>1
    <3>2. CASE k + 1 \notin s
      BY <2>2, <3>2
    <3> QED BY <3>1, <3>2
  <2>6. g \in [SUBSET (1 .. k + 1) -> A]
    BY <2>5
  <2>7. ASSUME NEW s \in SUBSET (1 .. k + 1)
        PROVE  g[s] = IF s = {} THEN base ELSE F[Max(s)][g[s \ {Max(s)}]]
    <3>1. CASE k + 1 \in s
      <4>1. g[s] = F[k + 1][h[s \ {k + 1}]]
        BY <3>1
      <4>2. g[s \ {k + 1}] = h[s \ {k + 1}]
        BY <2>4
      <4> QED BY <2>3, <3>1, <4>1, <4>2
    <3>2. CASE k + 1 \notin s /\ s # {}
      <4>1. s \in SUBSET (1 .. k) /\ Max(s) \in s
        BY <2>2, <3>2, MaxOfIndices
      <4>2. g[s] = h[s]
        BY <3>2
      <4>3. g[s \ {Max(s)}] = h[s \ {Max(s)}]
        BY <3>2
      <4>4. h[s] = F[Max(s)][h[s \ {Max(s)}]]
        BY <2>1, <3>2, <4>1
      <4> QED BY <3>2, <4>2, <4>3, <4>4
    <3>3. CASE s = {}
      <4>1. g[s] = h[s]
        BY <3>3
      <4>2. h[s] = base
        BY <2>1, <3>3
      <4> QED BY <3>3, <4>1, <4>2
    <3> QED BY <3>1, <3>2, <3>3
  <2> HIDE DEF g
  <2> QED BY <2>6, <2>7
<1>3. T = Nat
  <2> HIDE DEF T
  <2>1. T \in SUBSET Nat
    BY DEF T
  <2> QED BY <1>1, <1>2, <2>1, NatSetInduction
<1>4. n <= n => \E g \in [SUBSET (1 .. n) -> A] : Solves(g, n)
  BY <1>3, Zenon
<1>5. n <= n
  OBVIOUS
<1> QED BY <1>4, <1>5, Zenon DEF FoldSolution

\* Induction over the naturals up to a bound.
LEMMA BoundedInduction ==
    ASSUME NEW n \in Nat, NEW T \in SUBSET (0 .. n), 0 \in T,
           \A k \in 0 .. n - 1 : k \in T => k + 1 \in T
    PROVE  T = 0 .. n
<1> DEFINE U == T \cup {k \in Nat : k > n}
<1>1. U \in SUBSET Nat /\ 0 \in U
  <2>1. \A k \in 0 .. n : k \in Nat
    OBVIOUS
  <2> QED BY <2>1, Zenon
<1>2. ASSUME NEW k \in U PROVE k + 1 \in U
  <2>1. CASE k \in 0 .. n - 1
    <3>1. k \in T
      BY <2>1
    <3> QED BY <2>1, <3>1
  <2>2. CASE k \notin 0 .. n - 1
    <3>1. k \in Nat /\ k + 1 > n
      BY <2>2
    <3> QED BY <3>1
  <2> QED BY <2>1, <2>2
<1>3. U = Nat
  <2> HIDE DEF U
  <2> QED BY <1>1, <1>2, NatSetInduction
<1>4. ASSUME NEW k \in 0 .. n PROVE k \in T
  <2>1. k \in U /\ ~(k > n)
    BY <1>3
  <2> QED BY <2>1
<1> QED BY <1>4

\* h goes through the prefixes: h[k] is what the first k steps give.
PrefixSolution(n, A, base, F, h) ==
    /\ h \in [0 .. n -> A] /\ h[0] = base
    /\ \A k \in 0 .. n - 1 : h[k + 1] = F[k + 1][h[k]]

\* A solution over the subsets gives one over the prefixes.
LEMMA PrefixExists ==
    ASSUME NEW n \in Nat, NEW A, NEW base \in A, NEW F \in [1 .. n -> [A -> A]]
    PROVE  \E h : PrefixSolution(n, A, base, F, h)
<1>1. PICK g : FoldSolution(n, A, base, F, g)
  BY FoldExists, Zenon
<1> DEFINE h == [k \in 0 .. n |-> g[1 .. k]]
<1>2. \A k \in 0 .. n : 1 .. k \in SUBSET (1 .. n)
  OBVIOUS
<1>3. h \in [0 .. n -> A]
  BY <1>1, <1>2 DEF FoldSolution
<1>4. h[0] = base
  <2>1. 1 .. 0 = {} /\ 0 \in 0 .. n
    OBVIOUS
  <2> QED BY <1>1, <2>1 DEF FoldSolution
<1>5. ASSUME NEW k \in 0 .. n - 1 PROVE h[k + 1] = F[k + 1][h[k]]
  <2>1. k \in Nat /\ k \in 0 .. n /\ k + 1 \in 0 .. n /\ k + 1 \in 1 .. k + 1
    OBVIOUS
  <2>2. 1 .. k + 1 \in SUBSET (1 .. k + 1) /\ 1 .. k + 1 # {}
    BY <2>1
  <2>3. Max(1 .. k + 1) = k + 1 /\ (1 .. k + 1) \ {k + 1} = 1 .. k
    BY <2>1, <2>2, MaxOfPrefix
  <2>4. g[1 .. k + 1] = F[Max(1 .. k + 1)][g[(1 .. k + 1) \ {Max(1 .. k + 1)}]]
    BY <1>1, <1>2, <2>1, <2>2 DEF FoldSolution
  <2> QED BY <2>1, <2>3, <2>4
<1> HIDE DEF h
<1> QED BY <1>3, <1>4, <1>5 DEF PrefixSolution
=============================================================================
