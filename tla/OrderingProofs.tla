--------------------------- MODULE OrderingProofs ---------------------------
(***************************************************************************)
(* What counting makes of finite sets: the rank of an element, how many    *)
(* are up to it, puts each in a place of its own.                          *)
(***************************************************************************)
EXTENDS Ordering, FiniteSetTheorems, TLAPS

(* R, a set of pairs, orders S.                                            *)
Orders(R, S) ==
  /\ \A x, y \in S : <<x, y>> \in R \/ <<y, x>> \in R
  /\ \A x, y \in S : <<x, y>> \in R /\ <<y, x>> \in R => x = y
  /\ \A x, y, z \in S : <<x, y>> \in R /\ <<y, z>> \in R => <<x, z>> \in R

Rank(S, R, x) == Cardinality({y \in S : <<y, x>> \in R})

(* The ranks in a finite set are the numbers up to its size, each once.    *)
LEMMA Ranks ==
  ASSUME NEW S, IsFiniteSet(S), NEW R, Orders(R, S)
  PROVE  /\ Cardinality(S) \in Nat
         /\ \A x \in S : Rank(S, R, x) \in 1..Cardinality(S)
         /\ \A x, y \in S : Rank(S, R, x) = Rank(S, R, y) => x = y
         /\ \A n \in 1..Cardinality(S) : \E x \in S : Rank(S, R, x) = n
<1> DEFINE upTo(x) == {y \in S : <<y, x>> \in R}
<1>1. Cardinality(S) \in Nat
  BY FS_CardinalityType
<1>2. ASSUME NEW x \in S
      PROVE  /\ upTo(x) \in SUBSET S /\ IsFiniteSet(upTo(x)) /\ Cardinality(upTo(x)) \in Nat
             /\ Cardinality(upTo(x)) <= Cardinality(S)
  <2>1. upTo(x) \in SUBSET S
    OBVIOUS
  <2>2. IsFiniteSet(upTo(x)) /\ Cardinality(upTo(x)) <= Cardinality(S)
    BY <2>1, FS_Subset
  <2> QED
    BY <2>1, <2>2, FS_CardinalityType
<1>3. ASSUME NEW x \in S
      PROVE  Rank(S, R, x) \in 1..Cardinality(S)
  <2>1. upTo(x) # {}
    BY DEF Orders
  <2>2. Cardinality(upTo(x)) # 0
    BY <1>2, <2>1, FS_EmptySet
  <2> QED
    BY <1>1, <1>2, <2>2 DEF Rank
<1>4. ASSUME NEW x \in S, NEW y \in S, <<x, y>> \in R, x # y
      PROVE  Rank(S, R, x) # Rank(S, R, y)
  <2>1. upTo(x) \in SUBSET upTo(y) /\ y \in upTo(y) /\ y \notin upTo(x)
    BY <1>4 DEF Orders
  <2>2. Cardinality(upTo(x)) # Cardinality(upTo(y))
    BY <1>2, <2>1, FS_Subset
  <2> QED
    BY <2>2 DEF Rank
<1>5. \A x, y \in S : Rank(S, R, x) = Rank(S, R, y) => x = y
  BY <1>4 DEF Orders
<1>6. ASSUME NEW n \in 1..Cardinality(S)
      PROVE  \E x \in S : Rank(S, R, x) = n
  <2> DEFINE rank == [x \in S |-> Rank(S, R, x)]
  <2>1. rank \in Injection(S, 1..Cardinality(S))
    BY <1>3, <1>5 DEF Injection, IsInjective
  <2>2. IsFiniteSet(1..Cardinality(S)) /\ Cardinality(1..Cardinality(S)) = Cardinality(S)
    BY <1>1, FS_Interval
  <2>3. rank \in Surjection(S, 1..Cardinality(S))
    BY <2>1, <2>2, FS_Injection
  <2> QED
    BY <2>3 DEF Surjection
<1> QED
  BY <1>1, <1>3, <1>5, <1>6

(* The first and the last of a finite set.                                 *)
LEMMA FirstAndLast ==
  ASSUME NEW S, IsFiniteSet(S), S # {}, NEW R, Orders(R, S)
  PROVE  /\ \E x \in S : \A y \in S : <<x, y>> \in R
         /\ \E x \in S : \A y \in S : <<y, x>> \in R
<1> DEFINE upTo(x) == {y \in S : <<y, x>> \in R}
<1>1. Cardinality(S) \in Nat \ {0}
  BY FS_CardinalityType, FS_EmptySet
<1>2. PICK last \in S : Rank(S, R, last) = Cardinality(S)
  BY <1>1, Ranks
<1>3. upTo(last) = S
  BY <1>2, FS_Subset DEF Rank
<1>4. PICK first \in S : Rank(S, R, first) = 1
  BY <1>1, Ranks
<1>5. first \in upTo(first) /\ IsFiniteSet(upTo(first)) /\ Cardinality(upTo(first)) = 1
  BY <1>4, FS_Subset DEF Rank, Orders
<1>6. PICK only : upTo(first) = {only}
  <2> HIDE DEF upTo
  <2> QED
    BY <1>5, FS_Singleton
<1>7. \A y \in S : <<first, y>> \in R
  BY <1>5, <1>6 DEF Orders
<1> QED
  BY <1>3, <1>7

-----------------------------------------------------------------------------
(* Elements of a finite set in the order of their keys.                    *)

Place(S, key, x) == Cardinality({y \in S : key[y] <= key[x]})

(* The places in a finite set, by keys no two elements share, are the      *)
(* numbers up to its size, each once.                                      *)
LEMMA Places ==
  ASSUME NEW S, IsFiniteSet(S), NEW key \in [S -> Int],
         \A x, y \in S : key[x] = key[y] => x = y
  PROVE  /\ Cardinality(S) \in Nat
         /\ \A x \in S : Place(S, key, x) \in 1..Cardinality(S)
         /\ \A x, y \in S : Place(S, key, x) = Place(S, key, y) => x = y
         /\ \A n \in 1..Cardinality(S) : \E x \in S : Place(S, key, x) = n
<1> DEFINE R == {p \in S \X S : key[p[1]] <= key[p[2]]}
<1>1. \A x, y \in S : <<x, y>> \in R <=> key[x] <= key[y]
  OBVIOUS
<1>2. \A x \in S : {y \in S : <<y, x>> \in R} = {y \in S : key[y] <= key[x]}
  BY <1>1
<1>3. Orders(R, S)
  BY <1>1 DEF Orders
<1>4. \A x \in S : Rank(S, R, x) = Place(S, key, x)
  BY <1>2 DEF Rank, Place
<1> HIDE DEF R
<1> QED
  BY <1>3, <1>4, Ranks
(* Sequences in order: every element is at its place.                      *)
IsInOrder(s, S, key) ==
  /\ s \in [1..Cardinality(S) -> S]
  /\ \A n \in 1..Cardinality(S) : Place(S, key, s[n]) = n

(* A sequence in order lists the whole of the set, ...                     *)
LEMMA OrderedAll ==
  ASSUME NEW S, IsFiniteSet(S), NEW key \in [S -> Int],
         \A x, y \in S : key[x] = key[y] => x = y,
         NEW s, IsInOrder(s, S, key)
  PROVE  S = {s[n] : n \in DOMAIN s}
<1>1. DOMAIN s = 1..Cardinality(S) /\ \A n \in DOMAIN s : s[n] \in S
  BY DEF IsInOrder
<1>2. ASSUME NEW x \in S PROVE \E n \in DOMAIN s : s[n] = x
  <2>1. Place(S, key, x) \in 1..Cardinality(S)
    BY Places
  <2>2. Place(S, key, s[Place(S, key, x)]) = Place(S, key, x) /\ s[Place(S, key, x)] \in S
    BY <2>1 DEF IsInOrder
  <2>3. s[Place(S, key, x)] = x
    BY <2>2, Places
  <2> QED
    BY <1>1, <2>1, <2>3
<1> QED
  BY <1>1, <1>2

(* ... and there is only one.                                              *)
LEMMA OrderedOnce ==
  ASSUME NEW S, IsFiniteSet(S), NEW key \in [S -> Int],
         \A x, y \in S : key[x] = key[y] => x = y,
         NEW s, IsInOrder(s, S, key), NEW t, IsInOrder(t, S, key)
  PROVE  s = t
<1>1. ASSUME NEW n \in 1..Cardinality(S) PROVE s[n] = t[n]
  <2>1. s[n] \in S /\ t[n] \in S /\ Place(S, key, s[n]) = Place(S, key, t[n])
    BY DEF IsInOrder
  <2> QED
    BY <2>1, Places
<1>2. /\ s = [n \in 1..Cardinality(S) |-> s[n]]
      /\ t = [n \in 1..Cardinality(S) |-> t[n]]
  BY DEF IsInOrder
<1> QED
  BY <1>1, <1>2, Zenon

(* InOrder puts integers in order, ...                                     *)
LEMMA IntegersInOrder ==
  ASSUME NEW S, IsFiniteSet(S), \A x \in S : x \in Int
  PROVE  IsInOrder(Ascending(S), S, [x \in S |-> x])
<1> DEFINE key == [x \in S |-> x]
           s == Ascending(S)
<1>1. \A x \in S : {y \in S : y <= x} = {y \in S : key[y] <= key[x]}
  OBVIOUS
<1>2. ASSUME NEW n \in 1..Cardinality(S)
      PROVE  s[n] \in S /\ Cardinality({y \in S : y <= s[n]}) = n
  <2>1. \E x \in S : Place(S, key, x) = n
    <3>1. key \in [S -> Int] /\ \A x, y \in S : key[x] = key[y] => x = y
      OBVIOUS
    <3> HIDE DEF key, s
    <3> QED
      BY <3>1, Places
  <2>2. \E x \in S : Cardinality({y \in S : y <= x}) = n
    BY <1>1, <2>1 DEF Place
  <2>3. s[n] = CHOOSE x \in S : Cardinality({y \in S : y <= x}) = n
    BY DEF InOrder, Ascending
  <2> QED
    BY <2>2, <2>3
<1>3. s \in [1..Cardinality(S) -> S]
  <2>1. s = [n \in 1..Cardinality(S) |->
               CHOOSE x \in S : Cardinality({y \in S : y <= x}) = n]
    BY DEF InOrder, Ascending
  <2> HIDE DEF s
  <2> QED
    BY <1>2, <2>1
<1> QED
  BY <1>1, <1>2, <1>3 DEF IsInOrder, Place

(* Picking from a sequence leaves what it has at the indices picked.       *)
LEMMA PickedElements ==
  ASSUME NEW seq, NEW indices, IsFiniteSet(indices), \A i \in indices : i \in Int
  PROVE  LET picked == Picked(seq, indices) IN
         /\ Cardinality(indices) \in Nat
         /\ picked \in [1..Cardinality(indices) -> {seq[i] : i \in indices}]
         /\ {picked[n] : n \in DOMAIN picked} = {seq[i] : i \in indices}
<1> DEFINE order == Ascending(indices)
           key == [i \in indices |-> i]
           picked == Picked(seq, indices)
<1>1. IsInOrder(order, indices, key)
  BY IntegersInOrder
<1>2. key \in [indices -> Int] /\ \A i, j \in indices : key[i] = key[j] => i = j
  OBVIOUS
<1>3. picked = [n \in DOMAIN order |-> seq[order[n]]]
  BY DEF Picked
<1> HIDE DEF order, key, picked
<1>4. indices = {order[n] : n \in DOMAIN order}
  BY <1>1, <1>2, OrderedAll
<1>5. DOMAIN order = 1..Cardinality(indices) /\ Cardinality(indices) \in Nat
  BY <1>1, FS_CardinalityType DEF IsInOrder
<1>6. \A n \in DOMAIN order : order[n] \in indices
  BY <1>4
<1>7. picked \in [1..Cardinality(indices) -> {seq[i] : i \in indices}]
  BY <1>3, <1>5, <1>6
<1>8. {picked[n] : n \in DOMAIN picked} = {seq[i] : i \in indices}
  <2>1. DOMAIN picked = DOMAIN order /\ \A n \in DOMAIN order : picked[n] = seq[order[n]]
    BY <1>3
  <2>2. ASSUME NEW i \in indices PROVE \E n \in DOMAIN picked : picked[n] = seq[i]
    BY <1>4, <2>1
  <2>3. ASSUME NEW n \in DOMAIN picked PROVE \E i \in indices : picked[n] = seq[i]
    BY <1>6, <2>1
  <2> QED
    BY <2>2, <2>3
<1> QED
  BY <1>5, <1>7, <1>8 DEF picked
=============================================================================
