--------------------------- MODULE SortingProofs ---------------------------
(***************************************************************************)
(* What every use of Sorting relies on: a sorted sequence has the records  *)
(* of the original, each in a place of its own.                            *)
(***************************************************************************)
EXTENDS Sorting, FiniteSetTheorems, FunctionTheorems, TLAPS

(* Two records have different places. *)
LEMMA RanksDiffer ==
  ASSUME NEW n \in Nat, NEW keys \in [1..n -> Int]
  PROVE  [k \in 1..n |-> Rank(keys, k)] \in Injection(1..n, 1..n)
<1> DEFINE S == 1..n
           Up(k) == {j \in S : NotAfter(keys, j, k)}
           r == [k \in S |-> Rank(keys, k)]
<1>0. DOMAIN keys = S
  OBVIOUS
<1>1. IsFiniteSet(S) /\ Cardinality(S) = n
  BY FS_Interval
<1>2. ASSUME NEW k \in S
      PROVE  /\ Rank(keys, k) = Cardinality(Up(k))
             /\ IsFiniteSet(Up(k)) /\ Cardinality(Up(k)) \in 1..n
  <2>1. Rank(keys, k) = Cardinality(Up(k))
    BY <1>0 DEF Rank
  <2>2. Up(k) \in SUBSET S /\ k \in Up(k)
    BY DEF NotAfter
  <2> HIDE DEF Up, S
  <2>3. IsFiniteSet(Up(k)) /\ Cardinality(Up(k)) <= n
    BY <1>1, <2>2, FS_Subset
  <2>4. Cardinality(Up(k)) \in Nat /\ Cardinality(Up(k)) # 0
    BY <2>2, <2>3, FS_CardinalityType, FS_EmptySet
  <2>5. QED
    BY <2>1, <2>3, <2>4
<1>3. ASSUME NEW a \in S, NEW b \in S, a # b
      PROVE  Rank(keys, a) # Rank(keys, b)
  <2>1. ASSUME NEW x \in S, NEW y \in S, x # y, NotAfter(keys, x, y)
        PROVE  Rank(keys, x) # Rank(keys, y)
    <3>1. Up(x) \subseteq Up(y)
      BY <2>1 DEF NotAfter
    <3>2. y \in Up(y) /\ y \notin Up(x)
      BY <2>1 DEF NotAfter
    <3>3. IsFiniteSet(Up(y)) /\ Rank(keys, x) = Cardinality(Up(x)) /\ Rank(keys, y) = Cardinality(Up(y))
      BY <1>2, <2>1
    <3> HIDE DEF Up, S
    <3>4. QED
      BY <3>1, <3>2, <3>3, FS_Subset
  <2>2. NotAfter(keys, a, b) \/ NotAfter(keys, b, a)
    BY DEF NotAfter
  <2>3. QED
    BY <1>3, <2>1, <2>2
<1>4. r \in [S -> S]
  BY <1>2
<1>5. r \in Injection(S, S)
  BY <1>3, <1>4 DEF Injection, IsInjective
<1>6. QED
  BY <1>5

(* So the places are 1 .. n. *)
LEMMA RanksAreThePlaces ==
  ASSUME NEW n \in Nat, NEW keys \in [1..n -> Int], NEW m \in 1..n
  PROVE  \E k \in 1..n : Rank(keys, k) = m
<1> DEFINE S == 1..n
           r == [k \in S |-> Rank(keys, k)]
<1>0. r \in Injection(S, S)
  BY RanksDiffer
<1>1. IsFiniteSet(S) /\ r \in Injection(S, S)
  BY <1>0, FS_Interval
<1>2. r \in Surjection(S, S)
  <2> HIDE DEF r, S
  <2>1. QED
    BY <1>1, FS_Injection
<1>3. QED
  BY <1>2 DEF Surjection

(* Sorting keeps the length and takes every record from the sequence. *)
LEMMA SortKeepsElements ==
  ASSUME NEW X, NEW s \in Seq(X), NEW keys \in [DOMAIN s -> Int]
  PROVE  /\ SortByKey(s, keys) \in Seq(X) /\ Len(SortByKey(s, keys)) = Len(s)
         /\ \A n \in DOMAIN s : \E k \in DOMAIN s : SortByKey(s, keys)[n] = s[k]
<1> DEFINE z == SortByKey(s, keys)
<1>1. DOMAIN s = 1..Len(s) /\ Len(s) \in Nat
  OBVIOUS
<1>2. ASSUME NEW n \in DOMAIN s
      PROVE  \E k \in DOMAIN s : z[n] = s[k]
  <2>1. \E k \in 1..Len(s) : Rank(keys, k) = n
    <3>1. n \in 1..Len(s) /\ Len(s) \in Nat /\ keys \in [1..Len(s) -> Int]
      BY <1>1
    <3>2. QED
      BY <3>1, RanksAreThePlaces
  <2>2. (CHOOSE k \in DOMAIN s : Rank(keys, k) = n) \in DOMAIN s
    BY <1>1, <2>1
  <2>3. QED
    BY <2>2 DEF SortByKey
<1>3. DOMAIN z = 1..Len(s)
  BY <1>1 DEF SortByKey
<1>4. z = [n \in 1..Len(s) |-> z[n]]
  BY <1>1 DEF SortByKey
<1> HIDE DEF z
<1>5. z \in Seq(X)
  BY <1>1, <1>2, <1>4
<1>6. QED
  BY <1>1, <1>2, <1>3, <1>5 DEF z

(* Every record has its place in the sorted sequence, no two the same. *)
LEMMA SortPlacesAll ==
  ASSUME NEW X, NEW s \in Seq(X), NEW keys \in [DOMAIN s -> Int]
  PROVE  \E f \in Injection(DOMAIN s, DOMAIN s) :
           \A k \in DOMAIN s : SortByKey(s, keys)[f[k]] = s[k]
<1> DEFINE r == [k \in DOMAIN s |-> Rank(keys, k)]
<1>1. DOMAIN s = 1..Len(s) /\ Len(s) \in Nat
  OBVIOUS
<1>2. r \in Injection(DOMAIN s, DOMAIN s)
  BY <1>1, RanksDiffer
<1>3. ASSUME NEW k \in DOMAIN s PROVE SortByKey(s, keys)[r[k]] = s[k]
  <2>1. r[k] \in DOMAIN s /\ r[k] = Rank(keys, k)
    BY <1>2 DEF Injection
  <2>2. ASSUME NEW j \in DOMAIN s, Rank(keys, j) = r[k] PROVE j = k
    BY <1>2, <2>2 DEF Injection, IsInjective
  <2>3. (CHOOSE j \in DOMAIN s : Rank(keys, j) = r[k]) = k
    BY <2>1, <2>2
  <2> HIDE DEF r
  <2>4. QED
    BY <2>1, <2>3 DEF SortByKey
<1> HIDE DEF r
<1>4. QED
  BY <1>2, <1>3
============================================================================
