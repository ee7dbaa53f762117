---------------------------- MODULE ArrangeProofs ----------------------------
(***************************************************************************)
(* What an order and a filter keep: every element has one position, of the *)
(* rank that its place has among the others.                               *)
(***************************************************************************)
EXTENDS Arrange, FiniteSetTheorems, SequenceTheorems, TLAPS

Upto(S, place, s) == {t \in S : place[t] <= place[s]}

Rank(S, place) == [s \in S |-> Cardinality(Upto(S, place, s))]

Placings(S) == {place \in [S -> Int] : \A s, t \in S : place[s] = place[t] => s = t}

\* The ranks of a finite set are 1, 2, ... in the order of the places.
LEMMA RanksCount ==
    ASSUME NEW S, IsFiniteSet(S), NEW place \in Placings(S)
    PROVE  /\ Cardinality(S) \in Nat
           /\ Rank(S, place) \in Bijection(S, 1 .. Cardinality(S))
           /\ \A s, t \in S : place[s] < place[t] <=> Rank(S, place)[s] < Rank(S, place)[t]
<1>. DEFINE n == Cardinality(S)
            rank == Rank(S, place)
<1>1. n \in Nat /\ place \in [S -> Int] /\ \A s, t \in S : place[s] = place[t] => s = t
  BY FS_CardinalityType DEF Placings
<1>2. ASSUME NEW s \in S
      PROVE  /\ IsFiniteSet(Upto(S, place, s)) /\ Cardinality(Upto(S, place, s)) \in 1 .. n
             /\ rank[s] = Cardinality(Upto(S, place, s))
  <2>1. Upto(S, place, s) \in SUBSET S /\ s \in Upto(S, place, s)
    BY <1>1 DEF Upto
  <2>2. /\ IsFiniteSet(Upto(S, place, s)) /\ Cardinality(Upto(S, place, s)) <= n
        /\ Cardinality(Upto(S, place, s)) \in Nat
    BY <2>1, FS_Subset, FS_CardinalityType
  <2>3. Cardinality(Upto(S, place, s)) # 0
    BY <2>1, <2>2, FS_EmptySet
  <2>. QED BY <1>1, <2>2, <2>3 DEF Rank
<1>3. ASSUME NEW s \in S, NEW t \in S, place[s] < place[t] PROVE rank[s] < rank[t]
  <2>1. Upto(S, place, s) \in SUBSET Upto(S, place, t) /\ Upto(S, place, s) # Upto(S, place, t)
    BY <1>1, <1>3 DEF Upto
  <2>2. /\ Cardinality(Upto(S, place, s)) <= Cardinality(Upto(S, place, t))
        /\ Cardinality(Upto(S, place, s)) # Cardinality(Upto(S, place, t))
    BY <1>2, <2>1, FS_Subset
  <2>. QED BY <1>2, <2>2
<1>4. rank \in [S -> 1 .. n]
  BY <1>2 DEF Rank
<1>. HIDE DEF rank, n
<1>5. ASSUME NEW s \in S, NEW t \in S, rank[s] = rank[t] PROVE s = t
  <2>1. ~(place[s] < place[t]) /\ ~(place[t] < place[s])
    BY <1>3, <1>4, <1>5
  <2>. QED BY <1>1, <2>1
<1>6. rank \in Injection(S, 1 .. n)
  BY <1>4, <1>5 DEF Injection, IsInjective
<1>7. IsFiniteSet(1 .. n) /\ Cardinality(1 .. n) = n
  BY <1>1, FS_Interval
<1>8. rank \in Surjection(S, 1 .. n)
  BY <1>6, <1>7, FS_Injection DEF n
<1>9. \A s, t \in S : rank[s] < rank[t] => place[s] < place[t]
  BY <1>1, <1>3, <1>4
<1>. QED BY <1>1, <1>3, <1>6, <1>8, <1>9 DEF Bijection, n, rank

\* An element in order is the one of that rank.
LEMMA InOrderIsRanked ==
    ASSUME NEW S, IsFiniteSet(S), NEW place \in Placings(S)
    PROVE  /\ InOrder(S, place) \in Bijection(1 .. Cardinality(S), S)
           /\ \A i \in 1 .. Cardinality(S) : Rank(S, place)[InOrder(S, place)[i]] = i
           /\ \A i, j \in 1 .. Cardinality(S) :
                 i < j => place[InOrder(S, place)[i]] < place[InOrder(S, place)[j]]
<1>. DEFINE n == Cardinality(S)
            rank == Rank(S, place)
            order == InOrder(S, place)
            row(i) == CHOOSE s \in S : Cardinality({t \in S : place[t] <= place[s]}) = i
<1>1. /\ n \in Nat /\ rank \in Bijection(S, 1 .. n)
      /\ \A s, t \in S : place[s] < place[t] <=> rank[s] < rank[t]
  BY RanksCount
<1>2. \A s \in S : rank[s] = Cardinality({t \in S : place[t] <= place[s]})
  BY DEF Rank, Upto
<1>3. order = [i \in 1 .. n |-> row(i)]
  BY DEF InOrder
<1>4. \A i \in 1 .. n : \E s \in S : rank[s] = i
  BY <1>1 DEF Bijection, Surjection
<1>5. ASSUME NEW i \in 1 .. n PROVE row(i) \in S /\ rank[row(i)] = i
  <2>1. \E s \in S : Cardinality({t \in S : place[t] <= place[s]}) = i
    BY <1>2, <1>4
  <2>2. row(i) \in S /\ Cardinality({t \in S : place[t] <= place[row(i)]}) = i
    BY <2>1
  <2>. QED BY <1>2, <2>2
<1>. HIDE DEF n, rank, order, row
<1>6. order \in [1 .. n -> S] /\ \A i \in 1 .. n : rank[order[i]] = i
  BY <1>3, <1>5
<1>7. order \in Injection(1 .. n, S)
  BY <1>6 DEF Injection, IsInjective
<1>8. \A s \in S : rank[s] \in 1 .. n /\ order[rank[s]] = s
  BY <1>1, <1>6 DEF Bijection, Injection, IsInjective
<1>9. order \in Surjection(1 .. n, S)
  BY <1>6, <1>8 DEF Surjection
<1>10. \A i, j \in 1 .. n : i < j => place[order[i]] < place[order[j]]
  BY <1>1, <1>6
<1>. QED BY <1>6, <1>7, <1>9, <1>10 DEF Bijection, n, rank, order

\* What a filter returns: the elements at the indices, each once, in order.
LEMMA FilterKeeps ==
    ASSUME NEW S, NEW list \in Seq(S), NEW indices \in SUBSET (1 .. Len(list))
    PROVE  /\ Cardinality(indices) \in 0 .. Len(list)
           /\ AtIndices(list, indices) \in Seq(S)
           /\ Len(AtIndices(list, indices)) = Cardinality(indices)
           /\ \E order \in Bijection(1 .. Cardinality(indices), indices) :
                 /\ \A i, j \in 1 .. Cardinality(indices) : i < j => order[i] < order[j]
                 /\ \A i \in 1 .. Cardinality(indices) :
                       AtIndices(list, indices)[i] = list[order[i]]
<1>. DEFINE n == Cardinality(indices)
            place == [i \in indices |-> i]
            order == InOrder(indices, place)
<1>0. Len(list) \in Nat /\ \A p \in 1 .. Len(list) : list[p] \in S
  OBVIOUS
<1>1. IsFiniteSet(indices) /\ n \in 0 .. Len(list)
  <2>. HIDE DEF order
  <2>1. ASSUME NEW m \in Nat PROVE IsFiniteSet(1 .. m) /\ Cardinality(1 .. m) = m
    <3>1. 1 \in Int /\ m \in Int
      OBVIOUS
    <3>. QED BY <3>1, FS_Interval
  <2>2. IsFiniteSet(1 .. Len(list)) /\ Cardinality(1 .. Len(list)) = Len(list)
    BY <1>0, <2>1
  <2>3. IsFiniteSet(indices) /\ n <= Cardinality(1 .. Len(list))
    BY <2>2, FS_Subset
  <2>4. n \in Nat
    BY <2>3, FS_CardinalityType
  <2>. QED BY <1>0, <2>2, <2>3, <2>4
<1>2. place \in Placings(indices)
  BY DEF Placings
<1>3. /\ order \in Bijection(1 .. n, indices)
      /\ \A i, j \in 1 .. n : i < j => place[order[i]] < place[order[j]]
  BY <1>1, <1>2, InOrderIsRanked
<1>4. AtIndices(list, indices) = [i \in DOMAIN order |-> list[order[i]]]
  BY DEF AtIndices
<1>. HIDE DEF n, order
<1>5. order \in [1 .. n -> indices]
  BY <1>3 DEF Bijection, Injection
<1>6. \A i, j \in 1 .. n : i < j => order[i] < order[j]
  BY <1>3, <1>5
<1>7. /\ AtIndices(list, indices) = [i \in 1 .. n |-> list[order[i]]]
      /\ \A i \in 1 .. n : list[order[i]] \in S
  BY <1>0, <1>4, <1>5
<1>8. AtIndices(list, indices) \in [1 .. n -> S]
  BY <1>7
<1>9. AtIndices(list, indices) \in Seq(S) /\ Len(AtIndices(list, indices)) = n
  BY <1>1, <1>8
<1>. QED BY <1>1, <1>3, <1>6, <1>7, <1>9 DEF n

\* The element with those of T before it, and all others after it.
LEMMA NextInOrder ==
    ASSUME NEW S, IsFiniteSet(S), NEW place \in Placings(S), NEW T \in SUBSET S, NEW s \in S \ T,
           \A t \in T : place[t] < place[s],
           \A u \in S \ (T \cup {s}) : place[s] < place[u]
    PROVE  InOrder(S, place)[Cardinality(T) + 1] = s
<1>. DEFINE n == Cardinality(S)
            order == InOrder(S, place)
            i == Cardinality(T) + 1
<1>1. place \in [S -> Int]
  BY DEF Placings
<1>2. Upto(S, place, s) = T \cup {s}
  BY <1>1 DEF Upto
<1>3. IsFiniteSet(T) /\ Cardinality(T) \in Nat
  BY FS_Subset, FS_CardinalityType
<1>4. Cardinality(T \cup {s}) = i
  BY <1>3, FS_AddElement
<1>5. Rank(S, place)[s] = i
  BY <1>2, <1>4 DEF Rank
<1>6. Rank(S, place) \in Bijection(S, 1 .. n)
  BY RanksCount
<1>. HIDE DEF i, order, n
<1>7. i \in 1 .. n
  BY <1>5, <1>6 DEF Bijection, Injection
<1>8. order[i] \in S /\ Rank(S, place)[order[i]] = i
  <2>1. order \in [1 .. n -> S] /\ \A j \in 1 .. n : Rank(S, place)[order[j]] = j
    BY InOrderIsRanked DEF Bijection, Injection, order, n
  <2>. QED BY <1>7, <2>1
<1>9. order[i] = s
  BY <1>5, <1>6, <1>8 DEF Bijection, Injection, IsInjective
<1>. QED BY <1>9 DEF order, i
=============================================================================
