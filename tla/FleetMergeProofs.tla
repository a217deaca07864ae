-------------------------- MODULE FleetMergeProofs --------------------------
(***************************************************************************)
(* Theorems about FleetMerge, for every fleet and every number of inputs:  *)
(* the order of the inputs does not matter, the counts shown are exact and *)
(* decide what is included, and no chosen package is filtered out.         *)
(***************************************************************************)
EXTENDS FleetMerge, FiniteSetTheorems, TLAPS

-----------------------------------------------------------------------------
(* The sort by hostname                                                    *)

Fleets == Seq(Snapshot)
Apart(S) == \A i, j \in DOMAIN S : S[i].host = S[j].host => i = j

\* What the sequence of loaded snapshots is made of.
LEMMA FleetFacts ==
    ASSUME NEW S \in Fleets
    PROVE  /\ DOMAIN S = 1 .. Len(S) /\ Len(S) \in Nat
           /\ \A k \in DOMAIN S : S[k] \in Snapshot /\ S[k].host \in Nat
           /\ IsFiniteSet(DOMAIN S) /\ Cardinality(DOMAIN S) = Len(S)
<1>1. DOMAIN S = 1 .. Len(S) /\ Len(S) \in Nat /\ \A k \in DOMAIN S : S[k] \in Snapshot
  BY DEF Fleets
<1>2. \A k \in DOMAIN S : S[k].host \in Nat
  BY <1>1, FleetAssumption
<1>3. IsFiniteSet(1 .. Len(S)) /\ Cardinality(1 .. Len(S)) = Len(S)
  BY <1>1, FS_Interval
<1> QED BY <1>1, <1>2, <1>3

\* No two snapshots of a fleet have the same number before them.
LEMMA RanksDiffer ==
    ASSUME NEW S \in Fleets, NEW a \in DOMAIN S, NEW b \in DOMAIN S, Precedes(S, a, b)
    PROVE  Rank(S, a) < Rank(S, b)
<1> DEFINE A == {j \in DOMAIN S : Precedes(S, j, a)}
           B == {j \in DOMAIN S : Precedes(S, j, b)}
<1>1. \A k \in DOMAIN S : k \in Nat /\ S[k].host \in Nat
  BY FleetFacts
<1>2. A \subseteq B
  BY <1>1 DEF Precedes
<1>3. a \in B /\ a \notin A
  BY <1>1 DEF Precedes
<1>4. IsFiniteSet(B) /\ IsFiniteSet(A)
  BY FleetFacts, FS_Subset
<1>5. Cardinality(A) <= Cardinality(B) /\ Cardinality(A) # Cardinality(B)
  BY <1>2, <1>3, <1>4, FS_Subset
<1>6. Cardinality(A) \in Nat /\ Cardinality(B) \in Nat
  BY <1>4, FS_CardinalityType
<1> QED BY <1>5, <1>6 DEF Rank

\* A snapshot has between none and all the others before it.
LEMMA RankType ==
    ASSUME NEW S \in Fleets, NEW i \in DOMAIN S
    PROVE  Rank(S, i) \in 0 .. Len(S) - 1
<1> DEFINE B == {j \in DOMAIN S : Precedes(S, j, i)}
<1>1. /\ DOMAIN S = 1 .. Len(S) /\ Len(S) \in Nat
      /\ IsFiniteSet(DOMAIN S) /\ Cardinality(DOMAIN S) = Len(S)
  BY FleetFacts
<1>2. i \notin B
  BY FleetFacts DEF Precedes
<1>3. IsFiniteSet(B) /\ Cardinality(B) <= Cardinality(DOMAIN S) /\ Cardinality(B) # Cardinality(DOMAIN S)
  BY <1>1, <1>2, FS_Subset
<1>4. Cardinality(B) \in Nat
  BY <1>3, FS_CardinalityType
<1> QED BY <1>1, <1>3, <1>4 DEF Rank

\* Every place of the result is taken by exactly one snapshot.
LEMMA RanksFill ==
    ASSUME NEW S \in Fleets
    PROVE  /\ \A i, j \in DOMAIN S : Rank(S, i) = Rank(S, j) => i = j
           /\ \A k \in DOMAIN S : \E i \in DOMAIN S : Rank(S, i) = k - 1
<1> DEFINE f == [i \in DOMAIN S |-> Rank(S, i) + 1]
<1>1. /\ DOMAIN S = 1 .. Len(S) /\ Len(S) \in Nat
      /\ IsFiniteSet(DOMAIN S) /\ Cardinality(DOMAIN S) = Len(S)
  BY FleetFacts
<1>2. \A i \in DOMAIN S : Rank(S, i) \in 0 .. Len(S) - 1
  BY RankType
<1>3. ASSUME NEW i \in DOMAIN S, NEW j \in DOMAIN S, i # j PROVE Rank(S, i) # Rank(S, j)
  <2>1. Precedes(S, i, j) \/ Precedes(S, j, i)
    BY <1>3, FleetFacts DEF Precedes
  <2>2. Rank(S, i) < Rank(S, j) \/ Rank(S, j) < Rank(S, i)
    BY <2>1, RanksDiffer
  <2> QED BY <1>2, <2>2
<1>4. f \in [DOMAIN S -> DOMAIN S]
  BY <1>1, <1>2
<1>5. f \in Injection(DOMAIN S, DOMAIN S)
  <2>1. \A i, j \in DOMAIN S : f[i] = f[j] => i = j
    BY <1>2, <1>3
  <2> QED BY <1>4, <2>1 DEF Injection, IsInjective
<1>6. f \in Surjection(DOMAIN S, DOMAIN S)
  <2> HIDE DEF f
  <2> QED BY <1>1, <1>5, FS_Injection
<1>7. \A k \in DOMAIN S : \E i \in DOMAIN S : f[i] = k
  BY <1>6 DEF Surjection
<1>8. \A k \in DOMAIN S : \E i \in DOMAIN S : Rank(S, i) = k - 1
  BY <1>1, <1>2, <1>7
<1> QED BY <1>3, <1>8

\* The sorted fleet has the same snapshots, each once.
LEMMA CanonicalFacts ==
    ASSUME NEW S \in Fleets, Apart(S)
    PROVE  /\ Canonical(S) \in Fleets /\ DOMAIN Canonical(S) = DOMAIN S /\ Len(Canonical(S)) = Len(S)
           /\ Range(Canonical(S)) = Range(S)
           /\ Apart(Canonical(S))
<1> DEFINE At(k) == CHOOSE i \in DOMAIN S : Rank(S, i) = k - 1
           C == Canonical(S)
<1>1. \A k \in DOMAIN S : At(k) \in DOMAIN S /\ Rank(S, At(k)) = k - 1
  BY RanksFill
<1>2. DOMAIN C = DOMAIN S /\ \A k \in DOMAIN S : C[k] = S[At(k)]
  BY DEF Canonical
<1> HIDE DEF At, C
<1>3. DOMAIN S = 1 .. Len(S) /\ Len(S) \in Nat /\ \A k \in DOMAIN S : S[k] \in Snapshot
  BY FleetFacts
<1>4. C \in Fleets /\ Len(C) = Len(S)
  <2>1. C = [k \in 1 .. Len(S) |-> S[At(k)]]
    BY <1>3 DEF C, Canonical, At
  <2>2. C \in [1 .. Len(S) -> Snapshot]
    BY <1>1, <1>3, <2>1
  <2> QED BY <1>3, <2>2 DEF Fleets
<1>5. \A i, j \in DOMAIN S : At(i) = At(j) => i = j
  <2>1. \A i \in DOMAIN S : i \in Int
    BY <1>3
  <2> QED BY <1>1, <2>1
<1>6. Apart(C)
  BY <1>1, <1>2, <1>5 DEF Apart
<1>7. Range(C) \subseteq Range(S)
  BY <1>1, <1>2 DEF Range
<1>8. ASSUME NEW i \in DOMAIN S PROVE S[i] \in Range(C)
  <2>1. Rank(S, i) \in 0 .. Len(S) - 1
    BY RankType
  <2>2. \A n \in 0 .. Len(S) - 1 : n + 1 \in 1 .. Len(S) /\ (n + 1) - 1 = n
    BY <1>3
  <2>3. PICK m \in DOMAIN S : m - 1 = Rank(S, i)
    BY <1>3, <2>1, <2>2
  <2>4. At(m) = i
    <3>1. At(m) \in DOMAIN S /\ Rank(S, At(m)) = Rank(S, i)
      BY <1>1, <2>3
    <3>2. \A x, y \in DOMAIN S : Rank(S, x) = Rank(S, y) => x = y
      BY RanksFill
    <3> QED BY <3>1, <3>2
  <2> QED BY <1>2, <2>4 DEF Range
<1>9. Range(S) \subseteq Range(C)
  BY <1>8 DEF Range
<1> QED BY <1>2, <1>4, <1>6, <1>7, <1>9 DEF C

\* validate_snapshots turns duplicate hostnames away.
LEMMA DistinctHosts ==
    ASSUME NEW S \in Fleets
    PROVE  /\ IsFiniteSet({S[k].host : k \in DOMAIN S})
           /\ Cardinality({S[k].host : k \in DOMAIN S}) <= Len(S)
           /\ ~(Cardinality({S[k].host : k \in DOMAIN S}) < Len(S)) => Apart(S)
<1> DEFINE H == {S[k].host : k \in DOMAIN S}
           f == [k \in DOMAIN S |-> S[k].host]
<1>1. IsFiniteSet(DOMAIN S) /\ Cardinality(DOMAIN S) = Len(S) /\ Len(S) \in Nat
  BY FleetFacts
<1>2. f \in Surjection(DOMAIN S, H)
  BY DEF Surjection
<1>3. \A k \in DOMAIN S : f[k] = S[k].host
  OBVIOUS
<1> HIDE DEF f, H
<1>4. /\ IsFiniteSet(H) /\ Cardinality(H) <= Cardinality(DOMAIN S)
      /\ Cardinality(H) = Cardinality(DOMAIN S) <=> f \in Injection(DOMAIN S, H)
  BY <1>1, <1>2, FS_Surjection
<1>5. Cardinality(H) \in Nat
  BY <1>4, FS_CardinalityType
<1>6. ASSUME ~(Cardinality(H) < Len(S)) PROVE Apart(S)
  <2>1. f \in Injection(DOMAIN S, H)
    BY <1>1, <1>4, <1>5, <1>6
  <2>2. \A i, j \in DOMAIN S : f[i] = f[j] => i = j
    BY <2>1 DEF Injection, IsInjective
  <2> QED BY <1>3, <2>2 DEF Apart
<1> QED BY <1>1, <1>4, <1>6 DEF H

\* Hosts counted in a fleet of distinct hosts: all of them when the count
\* reaches the number of inputs.
LEMMA FullCount ==
    ASSUME NEW S \in Fleets, NEW hosts \in SUBSET {S[k].host : k \in DOMAIN S},
           Cardinality(hosts) >= Len(S)
    PROVE  \A k \in DOMAIN S : S[k].host \in hosts
<1> DEFINE H == {S[k].host : k \in DOMAIN S}
<1>1. IsFiniteSet(H) /\ Cardinality(H) <= Len(S)
  BY DistinctHosts
<1>2. hosts \subseteq H
  OBVIOUS
<1> HIDE DEF H
<1>3. IsFiniteSet(hosts) /\ Cardinality(hosts) <= Cardinality(H) /\ (Cardinality(hosts) = Cardinality(H) => hosts = H)
  BY <1>1, <1>2, FS_Subset
<1>4. Cardinality(hosts) \in Nat /\ Cardinality(H) \in Nat /\ Len(S) \in Nat
  BY <1>1, <1>3, FS_CardinalityType, FleetFacts
<1>5. hosts = H
  BY <1>1, <1>3, <1>4
<1> QED BY <1>5 DEF H

\* The sort forgets the order of the arguments.
LEMMA CanonicalOrder ==
    ASSUME NEW S \in Fleets, Apart(S), NEW p \in Bijection(DOMAIN S, DOMAIN S)
    PROVE  Canonical([k \in DOMAIN S |-> S[p[k]]]) = Canonical(S)
<1> DEFINE T == [k \in DOMAIN S |-> S[p[k]]]
<1>1. /\ p \in [DOMAIN S -> DOMAIN S]
      /\ \A i, j \in DOMAIN S : p[i] = p[j] => i = j
      /\ \A k \in DOMAIN S : \E i \in DOMAIN S : p[i] = k
  BY DEF Bijection, Injection, Surjection, IsInjective
<1>2. DOMAIN T = DOMAIN S /\ \A k \in DOMAIN S : T[k] = S[p[k]]
  OBVIOUS
<1>3. T \in Fleets
  <2>1. DOMAIN S = 1 .. Len(S) /\ Len(S) \in Nat /\ \A k \in DOMAIN S : S[k] \in Snapshot
    BY FleetFacts
  <2>2. T \in [1 .. Len(S) -> Snapshot]
    BY <1>1, <2>1
  <2> QED BY <2>1, <2>2 DEF Fleets
<1> HIDE DEF T
<1>4. \A i, j \in DOMAIN S : /\ Precedes(S, j, i) <=> S[j].host < S[i].host
                             /\ Precedes(T, j, i) <=> S[p[j]].host < S[p[i]].host
  <2> SUFFICES ASSUME NEW i \in DOMAIN S, NEW j \in DOMAIN S
               PROVE  /\ Precedes(S, j, i) <=> S[j].host < S[i].host
                      /\ Precedes(T, j, i) <=> S[p[j]].host < S[p[i]].host
    OBVIOUS
  <2>1. i \in Nat /\ j \in Nat /\ p[i] \in DOMAIN S /\ p[j] \in DOMAIN S
    BY <1>1, FleetFacts
  <2>2. S[j].host = S[i].host => ~(j < i)
    BY <2>1 DEF Apart
  <2>3. S[p[j]].host = S[p[i]].host => ~(j < i)
    <3>1. S[p[j]].host = S[p[i]].host => p[j] = p[i]
      BY <2>1 DEF Apart
    <3> QED BY <1>1, <2>1, <3>1
  <2> QED BY <1>2, <2>2, <2>3 DEF Precedes
<1>5. ASSUME NEW i \in DOMAIN S PROVE Rank(T, i) = Rank(S, p[i])
  <2> DEFINE A == {j \in DOMAIN S : Precedes(T, j, i)}
             B == {j \in DOMAIN S : Precedes(S, j, p[i])}
             g == [j \in A |-> p[j]]
  <2>1. \A j \in DOMAIN S : j \in A <=> p[j] \in B
    BY <1>1, <1>4
  <2>2. \A j \in A : g[j] = p[j]
    OBVIOUS
  <2>3. g \in [A -> B]
    BY <2>1
  <2>4. \A a, b \in A : g[a] = g[b] => a = b
    BY <1>1, <2>2
  <2>5. \A b \in B : \E a \in A : g[a] = b
    BY <1>1, <2>1, <2>2
  <2>6. IsFiniteSet(A)
    BY FleetFacts, FS_Subset
  <2> HIDE DEF g, A, B
  <2>7. g \in Bijection(A, B)
    BY <2>3, <2>4, <2>5 DEF Bijection, Injection, Surjection, IsInjective
  <2>8. Cardinality(A) = Cardinality(B)
    BY <2>6, <2>7, FS_Bijection DEF ExistsBijection
  <2> QED BY <1>2, <2>8 DEF Rank, A, B
<1>6. ASSUME NEW k \in DOMAIN S
      PROVE  T[CHOOSE i \in DOMAIN T : Rank(T, i) = k - 1] = S[CHOOSE i \in DOMAIN S : Rank(S, i) = k - 1]
  <2> DEFINE a == CHOOSE i \in DOMAIN T : Rank(T, i) = k - 1
             b == CHOOSE i \in DOMAIN S : Rank(S, i) = k - 1
  <2>1. a \in DOMAIN S /\ Rank(T, a) = k - 1
    BY <1>2, <1>3, RanksFill
  <2>2. b \in DOMAIN S /\ Rank(S, b) = k - 1
    BY RanksFill
  <2> HIDE DEF a, b
  <2>3. p[a] \in DOMAIN S /\ Rank(S, p[a]) = k - 1
    BY <1>1, <1>5, <2>1
  <2>4. p[a] = b
    BY <2>2, <2>3, RanksFill
  <2>5. T[a] = S[b]
    BY <1>2, <2>1, <2>4
  <2> QED BY <2>5 DEF a, b
<1>7. Canonical(T) = Canonical(S)
  BY <1>2, <1>6 DEF Canonical
<1> QED BY <1>7 DEF T

-----------------------------------------------------------------------------
(* merge_items and merge_with_variants                                     *)

\* The places of a list are the places of its items.
LEMMA Places ==
    ASSUME NEW S, NEW list
    PROVE  /\ \A e \in CollectItems(S, list) :
                /\ e[1] \in DOMAIN S /\ e[2] \in DOMAIN S[e[1]].items
                /\ Item(S, e) = S[e[1]].items[e[2]] /\ Item(S, e).list = list
           /\ \A k \in DOMAIN S : \A n \in DOMAIN S[k].items :
                S[k].items[n].list = list =>
                    <<k, n>> \in CollectItems(S, list) /\ Item(S, <<k, n>>) = S[k].items[n]
<1>1. ASSUME NEW e \in CollectItems(S, list)
      PROVE  /\ e[1] \in DOMAIN S /\ e[2] \in DOMAIN S[e[1]].items
             /\ Item(S, e) = S[e[1]].items[e[2]] /\ Item(S, e).list = list
  <2>1. PICK k \in DOMAIN S : e \in {k} \X DOMAIN S[k].items
    BY DEF CollectItems
  <2>2. e[1] = k /\ e[2] \in DOMAIN S[k].items
    BY <2>1
  <2>3. Item(S, e).list = list
    BY DEF CollectItems
  <2> QED BY <2>2, <2>3 DEF Item
<1>2. ASSUME NEW k \in DOMAIN S, NEW n \in DOMAIN S[k].items, S[k].items[n].list = list
      PROVE  <<k, n>> \in CollectItems(S, list) /\ Item(S, <<k, n>>) = S[k].items[n]
  <2>1. <<k, n>> \in {k} \X DOMAIN S[k].items /\ Item(S, <<k, n>>) = S[k].items[n]
    BY DEF Item
  <2>2. <<k, n>> \in UNION {{j} \X DOMAIN S[j].items : j \in DOMAIN S}
    BY <2>1
  <2> QED BY <1>2, <2>1, <2>2 DEF CollectItems
<1> QED BY <1>1, <1>2

\* What a group is: the places of one identity.
LEMMA GroupIs ==
    ASSUME NEW S, NEW items, NEW id
    PROVE  /\ \A e : e \in Group(S, items, id) <=> e \in items /\ Item(S, e).id = id
           /\ \A v, e : e \in OfVariant(S, Group(S, items, id), v) <=>
                        e \in items /\ Item(S, e).id = id /\ Item(S, e).var = v
BY DEF Group, OfVariant

\* The identities met in a list, and the rows they give.
LEMMA RowsOfList ==
    ASSUME NEW S, NEW list, NEW r
    PROVE  r \in MergeItems(S, list) <=>
             \E id \in Identities(S, CollectItems(S, list)) :
                LET g == Group(S, CollectItems(S, list), id)
                IN  r \in IF HasVariants(S, g) THEN VariantRows(S, list, id, g) ELSE PlainRows(S, list, id, g)
BY DEF MergeItems

Fields(r) == DOMAIN r = {"list", "id", "var", "body", "hosts", "any", "sel", "include"}

\* A row counts the hosts that carry its item, and is included when these
\* are all.
LEMMA RowFacts ==
    ASSUME NEW S \in Fleets, ~UnwrapFails(S), NEW list, NEW r \in MergeItems(S, list)
    PROVE  /\ r.list = list /\ Fields(r)
           /\ r.hosts = {s.host : s \in {x \in Range(S) : Carries(x, r)}}
           /\ r.include = (Cardinality(r.hosts) = Len(S))
<1> DEFINE items == CollectItems(S, list)
<1>1. PICK id \in Identities(S, items) :
        LET g == Group(S, items, id)
        IN  r \in IF HasVariants(S, g) THEN VariantRows(S, list, id, g) ELSE PlainRows(S, list, id, g)
  BY RowsOfList
<1> DEFINE g == Group(S, items, id)
<1>2. CASE HasVariants(S, g)
  <2>1. r \in VariantRows(S, list, id, g)
    BY <1>1, <1>2
  <2>2. PICK v \in VariantsOf(S, g) :
          r = Row(S, list, id, v, Item(S, First(OfVariant(S, g, v))).body,
                  HostsOf(S, OfVariant(S, g, v)), HostsOf(S, g), Selection(S, list, g, v))
    BY <2>1 DEF VariantRows
  <2> DEFINE own == OfVariant(S, g, v)
  <2>3. /\ r.list = list /\ r.id = id /\ r.var = v /\ r.hosts = HostsOf(S, own) /\ Fields(r)
        /\ r.include = (Cardinality(r.hosts) = Len(S))
    BY <2>2 DEF Row, Fields
  <2>4. v # 0
    <3>1. list \in Lists(S)
      <4>1. PICK e \in items : TRUE
        BY <1>1 DEF Identities
      <4>2. e[1] \in DOMAIN S /\ e[2] \in DOMAIN S[e[1]].items /\ S[e[1]].items[e[2]].list = list
        BY Places
      <4>3. S[e[1]].items[e[2]] \in Range(S[e[1]].items)
        BY <4>2 DEF Range
      <4> QED BY <4>2, <4>3 DEF Lists
    <3>2. 0 \notin VariantsOf(S, g)
      BY <1>2, <3>1 DEF UnwrapFails
    <3> QED BY <3>2
  <2>5. HostsOf(S, own) \subseteq {s.host : s \in {x \in Range(S) : Carries(x, r)}}
    <3> SUFFICES ASSUME NEW e \in own PROVE S[e[1]].host \in {s.host : s \in {x \in Range(S) : Carries(x, r)}}
      BY DEF HostsOf
    <3>1. e \in items /\ Item(S, e).id = id /\ Item(S, e).var = v
      BY GroupIs
    <3>2. /\ e[1] \in DOMAIN S /\ e[2] \in DOMAIN S[e[1]].items
          /\ Item(S, e) = S[e[1]].items[e[2]] /\ Item(S, e).list = list
      BY <3>1, Places
    <3>3. Carries(S[e[1]], r) /\ S[e[1]] \in Range(S)
      BY <2>3, <3>1, <3>2 DEF Carries, Range
    <3> QED BY <3>3
  <2>6. ASSUME NEW s \in Range(S), Carries(s, r) PROVE s.host \in HostsOf(S, own)
    <3>1. PICK k \in DOMAIN S : s = S[k]
      BY DEF Range
    <3>2. PICK n \in DOMAIN S[k].items : /\ S[k].items[n].list = list /\ S[k].items[n].id = id
                                         /\ S[k].items[n].var = v
      BY <2>3, <2>4, <2>6, <3>1 DEF Carries
    <3>3. <<k, n>> \in items /\ Item(S, <<k, n>>) = S[k].items[n]
      BY <3>2, Places
    <3>4. <<k, n>> \in own
      BY <3>2, <3>3, GroupIs
    <3> QED BY <3>1, <3>4 DEF HostsOf
  <2>7. r.hosts = {s.host : s \in {x \in Range(S) : Carries(x, r)}}
    <3> HIDE DEF own
    <3> QED BY <2>3, <2>5, <2>6
  <2> QED BY <2>3, <2>7
<1>3. CASE ~HasVariants(S, g)
  <2>1. r \in PlainRows(S, list, id, g)
    BY <1>1, <1>3
  <2>2. /\ r.list = list /\ r.id = id /\ r.var = 0 /\ r.hosts = HostsOf(S, g) /\ Fields(r)
        /\ r.include = (Cardinality(r.hosts) = Len(S))
    BY <2>1 DEF PlainRows, Row, Fields
  <2>3. HostsOf(S, g) \subseteq {s.host : s \in {x \in Range(S) : Carries(x, r)}}
    <3> SUFFICES ASSUME NEW e \in g PROVE S[e[1]].host \in {s.host : s \in {x \in Range(S) : Carries(x, r)}}
      BY DEF HostsOf
    <3>1. e \in items /\ Item(S, e).id = id
      BY GroupIs
    <3>2. /\ e[1] \in DOMAIN S /\ e[2] \in DOMAIN S[e[1]].items
          /\ Item(S, e) = S[e[1]].items[e[2]] /\ Item(S, e).list = list
      BY <3>1, Places
    <3>3. Carries(S[e[1]], r) /\ S[e[1]] \in Range(S)
      BY <2>2, <3>1, <3>2 DEF Carries, Range
    <3> QED BY <3>3
  <2>4. ASSUME NEW s \in Range(S), Carries(s, r) PROVE s.host \in HostsOf(S, g)
    <3>1. PICK k \in DOMAIN S : s = S[k]
      BY DEF Range
    <3>2. PICK n \in DOMAIN S[k].items : S[k].items[n].list = list /\ S[k].items[n].id = id
      BY <2>2, <2>4, <3>1 DEF Carries
    <3>3. <<k, n>> \in items /\ Item(S, <<k, n>>) = S[k].items[n]
      BY <3>2, Places
    <3>4. <<k, n>> \in g
      BY <3>2, <3>3, GroupIs
    <3> QED BY <3>1, <3>4 DEF HostsOf
  <2>5. r.hosts = {s.host : s \in {x \in Range(S) : Carries(x, r)}}
    <3> HIDE DEF g
    <3> QED BY <2>2, <2>3, <2>4
  <2> QED BY <2>2, <2>5
<1> QED BY <1>2, <1>3

\* No item is lost by the grouping.
LEMMA RowForItem ==
    ASSUME NEW S \in Fleets, NEW k \in DOMAIN S, NEW n \in DOMAIN S[k].items
    PROVE  \E r \in MergeItems(S, S[k].items[n].list) :
              /\ r.list = S[k].items[n].list /\ r.id = S[k].items[n].id
              /\ r.var \in {0, S[k].items[n].var} /\ Carries(S[k], r)
<1> DEFINE it == S[k].items[n]
           items == CollectItems(S, it.list)
           g == Group(S, items, it.id)
<1>1. <<k, n>> \in items /\ Item(S, <<k, n>>) = it
  BY Places
<1>2. it.id \in Identities(S, items)
  BY <1>1 DEF Identities
<1>3. <<k, n>> \in g /\ it.var \in VariantsOf(S, g)
  BY <1>1, GroupIs DEF VariantsOf
<1>4. CASE HasVariants(S, g)
  <2> DEFINE own == OfVariant(S, g, it.var)
             r == Row(S, it.list, it.id, it.var, Item(S, First(own)).body, HostsOf(S, own), HostsOf(S, g),
                      Selection(S, it.list, g, it.var))
  <2>1. r \in VariantRows(S, it.list, it.id, g)
    BY <1>3 DEF VariantRows
  <2>2. r \in MergeItems(S, it.list)
    BY <1>2, <1>4, <2>1, RowsOfList
  <2>3. r.list = it.list /\ r.id = it.id /\ r.var = it.var
    BY DEF Row
  <2> HIDE DEF r
  <2>4. Carries(S[k], r)
    BY <2>3 DEF Carries
  <2> QED BY <2>2, <2>3, <2>4
<1>5. CASE ~HasVariants(S, g)
  <2> DEFINE r == Row(S, it.list, it.id, 0, Item(S, Representative(S, g)).body, HostsOf(S, g),
                      HostsOf(S, g), "Only")
  <2>1. r \in PlainRows(S, it.list, it.id, g)
    BY DEF PlainRows
  <2>2. r \in MergeItems(S, it.list)
    BY <1>2, <1>5, <2>1, RowsOfList
  <2>3. r.list = it.list /\ r.id = it.id /\ r.var = 0
    BY DEF Row
  <2> HIDE DEF r
  <2>4. Carries(S[k], r)
    BY <2>3 DEF Carries
  <2> QED BY <2>2, <2>3, <2>4
<1> QED BY <1>4, <1>5

-----------------------------------------------------------------------------
(* The RPM section                                                         *)

\* The steps after the merge of the package list keep a row's identity and
\* its hosts; only the leaf override includes more.
LEMMA RpmRowFacts ==
    ASSUME NEW S \in Fleets, ~UnwrapFails(S), NEW r \in MergeRpm(S)
    PROVE  \E q \in MergeItems(S, "packages_added") :
              /\ r.list = q.list /\ r.id = q.id /\ r.var = q.var /\ r.hosts = q.hosts
              /\ r.include => q.include \/ (Authoritative(S) # {} /\ r.id \in LeafEverywhere(S))
<1> DEFINE K == KeptPackages(S, MergeItems(S, "packages_added"))
<1>1. PICK f \in ForceLeaves(S, K) :
        r = IF InConflict(S, f.id) THEN [f EXCEPT !.body.repo = MajorityRepo(S, f.id)] ELSE f
  BY DEF MergeRpm, Reconciled
<1>2. PICK q \in K : f = IF Authoritative(S) # {} /\ q.id \in LeafEverywhere(S)
                         THEN [q EXCEPT !.include = TRUE] ELSE q
  BY DEF ForceLeaves
<1>3. q \in MergeItems(S, "packages_added")
  BY DEF KeptPackages
<1>4. Fields(q)
  BY <1>3, RowFacts
<1>5. /\ Fields(f) /\ f.list = q.list /\ f.id = q.id /\ f.var = q.var /\ f.hosts = q.hosts
      /\ f.include => q.include \/ (Authoritative(S) # {} /\ f.id \in LeafEverywhere(S))
  BY <1>2, <1>4 DEF Fields
<1>6. r.list = f.list /\ r.id = f.id /\ r.var = f.var /\ r.hosts = f.hosts /\ r.include = f.include
  BY <1>1, <1>5 DEF Fields
<1> QED BY <1>3, <1>5, <1>6

\* What the leaf filter keeps reaches the merged list.
LEMMA KeptIsMerged ==
    ASSUME NEW S \in Fleets, ~UnwrapFails(S),
           NEW q \in KeptPackages(S, MergeItems(S, "packages_added"))
    PROVE  \E r \in MergeRpm(S) : r.list = "packages_added" /\ r.id = q.id
<1> DEFINE K == KeptPackages(S, MergeItems(S, "packages_added"))
           f == IF Authoritative(S) # {} /\ q.id \in LeafEverywhere(S)
                THEN [q EXCEPT !.include = TRUE] ELSE q
           r == IF InConflict(S, f.id) THEN [f EXCEPT !.body.repo = MajorityRepo(S, f.id)] ELSE f
<1>1. q \in MergeItems(S, "packages_added")
  BY DEF KeptPackages
<1>2. Fields(q) /\ q.list = "packages_added"
  BY <1>1, RowFacts
<1>3. f \in ForceLeaves(S, K) /\ Fields(f) /\ f.list = q.list /\ f.id = q.id
  BY <1>2 DEF ForceLeaves, Fields
<1> HIDE DEF f, K
<1>4. r \in Reconciled(S, ForceLeaves(S, K)) /\ r.list = f.list /\ r.id = f.id
  BY <1>3 DEF Reconciled, Fields
<1> QED BY <1>2, <1>3, <1>4 DEF MergeRpm, K

-----------------------------------------------------------------------------
(* The merged snapshot of a sorted fleet                                   *)

AllRows(S) == MergeRpm(S) \cup UNION {MergeItems(S, l) : l \in Lists(S) \ {"packages_added"}}

\* Every merged row stands for a row of its list.
LEMMA AnyRow ==
    ASSUME NEW S \in Fleets, ~UnwrapFails(S), NEW r \in AllRows(S)
    PROVE  /\ r.hosts = {s.host : s \in {x \in Range(S) : Carries(x, r)}}
           /\ r.include =>
                \/ Cardinality(r.hosts) = Len(S)
                \/ r.list = "packages_added" /\ r.id \in LeafEverywhere(S)
<1>1. CASE r \in MergeRpm(S)
  <2>1. PICK q \in MergeItems(S, "packages_added") :
          /\ r.list = q.list /\ r.id = q.id /\ r.var = q.var /\ r.hosts = q.hosts
          /\ r.include => q.include \/ (Authoritative(S) # {} /\ r.id \in LeafEverywhere(S))
    BY <1>1, RpmRowFacts
  <2>2. /\ q.list = "packages_added"
        /\ q.hosts = {s.host : s \in {x \in Range(S) : Carries(x, q)}}
        /\ q.include = (Cardinality(q.hosts) = Len(S))
    BY RowFacts
  <2>3. \A x : Carries(x, r) = Carries(x, q)
    BY <2>1 DEF Carries
  <2>4. r.hosts = {s.host : s \in {x \in Range(S) : Carries(x, r)}}
    BY <2>1, <2>2, <2>3
  <2> QED BY <2>1, <2>2, <2>4
<1>2. CASE \E l \in Lists(S) : r \in MergeItems(S, l)
  <2>1. PICK l \in Lists(S) : r \in MergeItems(S, l)
    BY <1>2
  <2>2. /\ r.hosts = {s.host : s \in {x \in Range(S) : Carries(x, r)}}
        /\ r.include = (Cardinality(r.hosts) = Len(S))
    BY <2>1, RowFacts
  <2> QED BY <2>2
<1> QED BY <1>1, <1>2 DEF AllRows

\* A host counted in a row carries it, and a row counts only its hosts.
LEMMA Counted ==
    ASSUME NEW S \in Fleets, Apart(S), NEW r,
           r.hosts = {s.host : s \in {x \in Range(S) : Carries(x, r)}},
           Cardinality(r.hosts) >= Len(S)
    PROVE  \A s \in Range(S) : Carries(s, r)
<1>1. \A s \in Range(S) : \E k \in DOMAIN S : s = S[k]
  BY DEF Range
<1>2. r.hosts \in SUBSET {S[k].host : k \in DOMAIN S}
  BY <1>1
<1>3. \A k \in DOMAIN S : S[k].host \in r.hosts
  BY <1>2, FullCount
<1> SUFFICES ASSUME NEW s \in Range(S) PROVE Carries(s, r)
  OBVIOUS
<1>4. PICK k \in DOMAIN S : s = S[k]
  BY <1>1
<1>5. PICK x \in Range(S) : Carries(x, r) /\ x.host = s.host
  BY <1>3, <1>4
<1>6. PICK j \in DOMAIN S : x = S[j]
  BY <1>1
<1>7. j = k
  BY <1>4, <1>5, <1>6 DEF Apart
<1> QED BY <1>4, <1>5, <1>6, <1>7

-----------------------------------------------------------------------------
(* The command                                                             *)

\* A merge that went through was made from distinct hosts, of the files that
\* are still at hand.
IInv ==
    /\ files \in Fleets
    /\ Done => /\ Apart(files)
               /\ ~UnwrapFails(Canonical(files))
               /\ merged = MergeSnapshots(files, args.image)

\* IInv holds in every state of the command.
LEMMA Merging == Spec => []IInv
<1>1. Init => IInv
  BY DEF Init, IInv, Done, Fleets
<1>2. IInv /\ [Next]_vars => IInv'
  <2> SUFFICES ASSUME IInv, [Next]_vars PROVE IInv'
    OBVIOUS
  <2> USE DEF IInv, Done
  <2>1. CASE \E s \in Snapshot : LoadFile(s)
    BY <2>1 DEF LoadFile, Fleets
  <2>2. CASE SkipFile
    BY <2>2 DEF SkipFile
  <2>3. CASE Refuse
    BY <2>3 DEF Refuse
  <2>4. CASE Merge
    <3>1. ~(Cardinality({files[k].host : k \in DOMAIN files}) < Len(files))
      BY <2>4 DEF Merge, ValidationErrors
    <3>2. Apart(files)
      BY <3>1, DistinctHosts
    <3>3. files' = files /\ args' = args
      BY <2>4 DEF Merge
    <3>4. CASE UnwrapFails(Canonical(files))
      BY <2>4, <3>3, <3>4 DEF Merge
    <3>5. CASE ~UnwrapFails(Canonical(files))
      BY <2>4, <3>2, <3>3, <3>5 DEF Merge
    <3> QED BY <3>4, <3>5
  <2>5. CASE RefuseStrict
    BY <2>5 DEF RefuseStrict
  <2>6. CASE Write
    BY <2>6 DEF Write
  <2>7. CASE UNCHANGED vars
    BY <2>7 DEF vars
  <2> QED BY <2>1, <2>2, <2>3, <2>4, <2>5, <2>6, <2>7 DEF Next
<1> QED BY <1>1, <1>2, PTL DEF Spec

\* The sorted fleet of a merge that went through.
LEMMA MergedFleet ==
    ASSUME IInv, Done
    PROVE  /\ Canonical(files) \in Fleets /\ Apart(Canonical(files)) /\ ~UnwrapFails(Canonical(files))
           /\ Loaded = Range(Canonical(files))
           /\ merged.rows = AllRows(Canonical(files))
           /\ merged.fcontext = MergeFcontext(Canonical(files))
<1>1. files \in Fleets /\ Apart(files)
  BY DEF IInv
<1>2. Loaded = Range(files)
  BY DEF Loaded, Range
<1>3. merged.rows = AllRows(Canonical(files)) /\ merged.fcontext = MergeFcontext(Canonical(files))
  BY DEF IInv, MergeSnapshots, AllRows
<1> QED BY <1>1, <1>2, <1>3, CanonicalFacts DEF IInv

\* Merging is independent of the order in which the tarballs are named.
THEOREM OrderNeverMatters == Spec => []OrderIndependent
<1>1. IInv => OrderIndependent
  <2> SUFFICES ASSUME IInv, Done, NEW p \in Bijection(DOMAIN files, DOMAIN files)
               PROVE  MergeSnapshots([k \in DOMAIN files |-> files[p[k]]], args.image) = merged
    BY DEF OrderIndependent
  <2>1. Canonical([k \in DOMAIN files |-> files[p[k]]]) = Canonical(files)
    BY CanonicalOrder DEF IInv
  <2>2. MergeSnapshots([k \in DOMAIN files |-> files[p[k]]], args.image) = MergeSnapshots(files, args.image)
    BY <2>1 DEF MergeSnapshots
  <2> QED BY <2>2 DEF IInv
<1> QED BY <1>1, Merging, PTL

\* Prevalence is exact, and what is included is what the hosts agree on.
THEOREM CountsAlwaysDecide == Spec => []CountsDecide
<1>1. IInv => CountsDecide
  <2> SUFFICES ASSUME IInv, Done PROVE PrevalenceExact /\ IncludedIsAgreed
    BY DEF CountsDecide
  <2> DEFINE S == Canonical(files)
  <2>1. /\ S \in Fleets /\ Apart(S) /\ ~UnwrapFails(S) /\ Loaded = Range(S)
        /\ merged.rows = AllRows(S) /\ merged.fcontext = MergeFcontext(S)
    BY MergedFleet
  <2> HIDE DEF S
  <2>2. \A s \in Loaded : \E k \in DOMAIN S : s = S[k]
    BY <2>1 DEF Range
  <2>3. PrevalenceExact
    <3>1. ASSUME NEW r \in merged.rows PROVE r.hosts = {s.host : s \in {x \in Loaded : Carries(x, r)}}
      BY <2>1, AnyRow
    <3>2. ASSUME NEW s \in Loaded, NEW n \in DOMAIN s.items, s.items[n].list # "packages_added"
          PROVE  \E r \in merged.rows : Carries(s, r) /\ r.list = s.items[n].list
                                    /\ r.id = s.items[n].id /\ r.var \in {0, s.items[n].var}
      <4>1. PICK k \in DOMAIN S : s = S[k]
        BY <2>2
      <4>2. PICK r \in MergeItems(S, s.items[n].list) :
              /\ r.list = s.items[n].list /\ r.id = s.items[n].id
              /\ r.var \in {0, s.items[n].var} /\ Carries(s, r)
        BY <2>1, <4>1, RowForItem
      <4>3. s.items[n].list \in Lists(S)
        BY <4>1 DEF Lists, Range
      <4>4. r \in AllRows(S)
        BY <3>2, <4>3 DEF AllRows
      <4> QED BY <2>1, <4>2, <4>4
    <3> QED BY <3>1, <3>2 DEF PrevalenceExact
  <2>4. ASSUME NEW r \in merged.rows, r.include
        PROVE  \/ \A s \in Loaded : Carries(s, r)
               \/ /\ r.list = "packages_added"
                  /\ \A s \in Loaded : s.rpm = NoSection \/ ~s.leafKnown \/ r.id \in s.leaves
    <3>1. /\ r.hosts = {s.host : s \in {x \in Range(S) : Carries(x, r)}}
          /\ \/ Cardinality(r.hosts) = Len(S)
             \/ r.list = "packages_added" /\ r.id \in LeafEverywhere(S)
      BY <2>1, <2>4, AnyRow
    <3>2. CASE Cardinality(r.hosts) = Len(S)
      <4>1. Cardinality(r.hosts) >= Len(S)
        BY <2>1, <3>2, FleetFacts
      <4> QED BY <2>1, <3>1, <4>1, Counted
    <3>3. CASE r.list = "packages_added" /\ r.id \in LeafEverywhere(S)
      <4>1. \A k \in Authoritative(S) : r.id \in S[k].leaves
        BY <3>3 DEF LeafEverywhere
      <4> QED BY <2>2, <3>3, <4>1 DEF Authoritative
    <3> QED BY <3>1, <3>2, <3>3
  <2>5. ASSUME NEW r \in merged.fcontext, r.include, NEW s \in Loaded
        PROVE  \E rule \in Range(s.fcontext) : rule.key = r.key /\ rule.body = r.body
    <3>1. PICK key : r = FcontextRow(S, key)
      BY <2>1 DEF MergeFcontext
    <3> DEFINE own == {e \in CollectRules(S) : Rule(S, e).key = key}
               body == Rule(S, First(own)).body
               same == {e \in own : Rule(S, e).body = body}
    <3>2. r.key = key /\ r.body = body /\ r.include = (Cardinality(HostsOf(S, same)) = Len(S))
      BY <3>1 DEF FcontextRow
    <3>3. \A e \in same : /\ e[1] \in DOMAIN S /\ e[2] \in DOMAIN S[e[1]].fcontext
                          /\ Rule(S, e) = S[e[1]].fcontext[e[2]]
      <4> SUFFICES ASSUME NEW e \in CollectRules(S)
                   PROVE  e[1] \in DOMAIN S /\ e[2] \in DOMAIN S[e[1]].fcontext
        BY DEF Rule
      <4>1. PICK k \in DOMAIN S : e \in {k} \X DOMAIN S[k].fcontext
        BY DEF CollectRules
      <4> QED BY <4>1
    <3>4. \A e \in same : Rule(S, e).key = key /\ Rule(S, e).body = body
      OBVIOUS
    <3> HIDE DEF same, body, own
    <3>5. HostsOf(S, same) \in SUBSET {S[k].host : k \in DOMAIN S}
      BY <3>3 DEF HostsOf
    <3>6. Cardinality(HostsOf(S, same)) >= Len(S)
      <4>1. Cardinality(HostsOf(S, same)) = Len(S)
        BY <2>5, <3>2
      <4> QED BY <2>1, <4>1, FleetFacts
    <3>7. PICK k \in DOMAIN S : s = S[k]
      BY <2>2
    <3>8. S[k].host \in HostsOf(S, same)
      BY <2>1, <3>5, <3>6, FullCount
    <3>9. PICK e \in same : S[e[1]].host = S[k].host
      BY <3>8 DEF HostsOf
    <3>10. e[1] = k
      BY <2>1, <3>3, <3>9 DEF Apart
    <3>11. s.fcontext[e[2]] \in Range(s.fcontext) /\ Rule(S, e) = s.fcontext[e[2]]
      BY <3>3, <3>7, <3>10 DEF Range
    <3> QED BY <3>2, <3>4, <3>11
  <2>6. IncludedIsAgreed
    BY <2>4, <2>5 DEF IncludedIsAgreed
  <2> QED BY <2>3, <2>6
<1> QED BY <1>1, Merging, PTL

\* The leaf filter drops no package that is a choice everywhere it is known.
THEOREM LeavesAlwaysSurvive == Spec => []LeavesSurvive
<1>1. IInv => LeavesSurvive
  <2> SUFFICES ASSUME IInv, Done, NEW s \in Loaded, s.rpm # NoSection, s.leafKnown, NEW p \in s.leaves
               PROVE  \/ \E r \in merged.rows : r.list = "packages_added" /\ r.id = p
                      \/ \E x \in Loaded : /\ x.rpm # NoSection /\ x.leafKnown
                                           /\ p \notin x.leaves
                                           /\ \E n \in DOMAIN x.items : x.items[n].id = p
    BY DEF LeavesSurvive
  <2> DEFINE S == Canonical(files)
             L == "packages_added"
  <2>1. /\ S \in Fleets /\ Apart(S) /\ ~UnwrapFails(S) /\ Loaded = Range(S)
        /\ merged.rows = AllRows(S)
    BY MergedFleet
  <2> HIDE DEF S
  <2>2. PICK k \in DOMAIN S : s = S[k]
    BY <2>1 DEF Range
  <2>3. k \in Authoritative(S)
    BY <2>2 DEF Authoritative
  <2>4. s \in Snapshot
    BY <2>1, <2>2, FleetFacts
  <2>5. PICK i \in Range(s.items) : i.list = L /\ i.id = p
    BY <2>4, FleetAssumption
  <2>6. PICK n \in DOMAIN s.items : s.items[n] = i
    BY DEF Range
  <2>7. PICK q \in MergeItems(S, L) : q.list = L /\ q.id = p
    BY <2>1, <2>2, <2>5, <2>6, RowForItem
  <2>8. q.hosts = {x.host : x \in {y \in Range(S) : Carries(y, q)}}
    BY <2>1, RowFacts
  <2>9. CASE q \in KeptPackages(S, MergeItems(S, L))
    <3>1. PICK r \in MergeRpm(S) : r.list = L /\ r.id = p
      BY <2>1, <2>7, <2>9, KeptIsMerged
    <3> QED BY <2>1, <3>1 DEF AllRows
  <2>10. CASE q \notin KeptPackages(S, MergeItems(S, L))
    <3>1. p \in LeafAnywhere(S)
      BY <2>2, <2>3 DEF LeafAnywhere
    <3>2. Cardinality(q.hosts) >= Len(S) /\ p \notin LeafEverywhere(S)
      BY <2>3, <2>7, <2>10, <3>1 DEF KeptPackages
    <3>3. PICK j \in Authoritative(S) : p \notin S[j].leaves
      BY <3>1, <3>2 DEF LeafEverywhere, LeafAnywhere
    <3>4. j \in DOMAIN S /\ S[j].rpm # NoSection /\ S[j].leafKnown
      BY DEF Authoritative
    <3>5. S[j] \in Loaded /\ Carries(S[j], q)
      BY <2>1, <2>8, <3>2, <3>4, Counted DEF Range
    <3>6. \E m \in DOMAIN S[j].items : S[j].items[m].id = p
      BY <2>7, <3>5 DEF Carries
    <3> QED BY <3>3, <3>4, <3>5, <3>6
  <2> QED BY <2>9, <2>10
<1> QED BY <1>1, Merging, PTL
=============================================================================
