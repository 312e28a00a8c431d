---------------------------- MODULE ListsProofs ----------------------------
(***************************************************************************)
(* Facts about finite sets of integers and about what a filtered list      *)
(* keeps: its elements are those at the indices kept, each once, in order. *)
(***************************************************************************)
EXTENDS Lists, SequencesExt, SequenceTheorems, FiniteSetTheorems, TLAPS

\* Of the initial segments of a finite set, ordered by inclusion, one is least and one
\* is greatest; so is the integer each ends with.
LEMMA LeastOf ==
  ASSUME NEW K \in SUBSET Int, IsFiniteSet(K), K # {}
  PROVE  \E i \in K : \A j \in K : i <= j
<1> DEFINE upto(i) == {j \in K : j <= i}
           T == {upto(i) : i \in K}
           R == StrictSubsetOrdering(K)
<1>0. \A x \in K : x \in Int
  OBVIOUS
<1>1. T \subseteq SUBSET K /\ T # {}
  OBVIOUS
<1>2. IsWellFoundedOn(R, SUBSET K)
  BY FS_StrictSubsetOrderingWellFounded, FS_FiniteSubsetsOfFinite
<1>3. PICK t \in T : \A y \in T : ~(<<y, t>> \in R)
  <2> HIDE DEF T, R
  <2> QED BY <1>1, <1>2, WFMin
<1>4. PICK i \in K : t = upto(i)
  OBVIOUS
<1>5. ASSUME NEW j \in K, j < i PROVE FALSE
  <2>0. i \in Int /\ j \in Int /\ i <= i /\ ~(i <= j) /\ \A x \in K : x <= j => x <= i
    BY <1>0, <1>5
  <2>1. upto(j) \subseteq upto(i) /\ i \in upto(i) /\ i \notin upto(j)
    BY <2>0
  <2>2. upto(j) \in T /\ upto(j) \in SUBSET K /\ upto(i) \in SUBSET K
    OBVIOUS
  <2>3. <<upto(j), upto(i)>> \in R
    BY <2>1, <2>2 DEF StrictSubsetOrdering
  <2> QED BY <1>3, <1>4, <2>2, <2>3
<1> QED BY <1>0, <1>5

LEMMA GreatestOf ==
  ASSUME NEW K \in SUBSET Int, IsFiniteSet(K), K # {}
  PROVE  \E i \in K : \A j \in K : j <= i
<1> DEFINE downto(i) == {j \in K : j >= i}
           T == {downto(i) : i \in K}
           R == StrictSubsetOrdering(K)
<1>0. \A x \in K : x \in Int
  OBVIOUS
<1>1. T \subseteq SUBSET K /\ T # {}
  OBVIOUS
<1>2. IsWellFoundedOn(R, SUBSET K)
  BY FS_StrictSubsetOrderingWellFounded, FS_FiniteSubsetsOfFinite
<1>3. PICK t \in T : \A y \in T : ~(<<y, t>> \in R)
  <2> HIDE DEF T, R
  <2> QED BY <1>1, <1>2, WFMin
<1>4. PICK i \in K : t = downto(i)
  OBVIOUS
<1>5. ASSUME NEW j \in K, j > i PROVE FALSE
  <2>0. i \in Int /\ j \in Int /\ i >= i /\ ~(i >= j) /\ \A x \in K : x >= j => x >= i
    BY <1>0, <1>5
  <2>1. downto(j) \subseteq downto(i) /\ i \in downto(i) /\ i \notin downto(j)
    BY <2>0
  <2>2. downto(j) \in T /\ downto(j) \in SUBSET K /\ downto(i) \in SUBSET K
    OBVIOUS
  <2>3. <<downto(j), downto(i)>> \in R
    BY <2>1, <2>2 DEF StrictSubsetOrdering
  <2> QED BY <1>3, <1>4, <2>2, <2>3
<1> QED BY <1>0, <1>5

LEMMA SpanOf ==
  ASSUME NEW n \in Nat
  PROVE  IsFiniteSet(1 .. n) /\ Cardinality(1 .. n) = n
<1>1. 1 \in Int /\ n \in Int /\ (1 > n => n = 0) /\ n - 1 + 1 = n
  OBVIOUS
<1> QED BY <1>1, FS_Interval

\* A list of indices has a first and a last one with any property: the set of those
\* that have it is finite.
LEMMA IndicesAreFinite ==
  ASSUME NEW n \in Nat, NEW K \in SUBSET (1 .. n)
  PROVE  K \in SUBSET Int /\ IsFiniteSet(K)
<1>1. \A x \in K : x \in Int
  OBVIOUS
<1> QED BY <1>1, SpanOf, FS_Subset

(***************************************************************************)
(* Counting from the front is a bijection between a set of n integers and  *)
(* 1 .. n, and Nth is its inverse.                                         *)
(***************************************************************************)
Rank(K, i) == Cardinality({j \in K : j < i}) + 1

LEMMA RankIncreases ==
  ASSUME NEW K \in SUBSET Int, IsFiniteSet(K), NEW i \in K, NEW j \in K, i < j
  PROVE  Rank(K, i) < Rank(K, j)
<1> DEFINE below(m) == {x \in K : x < m}
<1>1. below(i) \in SUBSET below(j) /\ i \in below(j) /\ i \notin below(i)
  <2>1. \A x \in K : x \in Int
    OBVIOUS
  <2>2. ~(i < i) /\ \A x \in K : x < i => x < j
    BY <2>1
  <2> QED BY <2>2
<1>2. IsFiniteSet(below(j)) /\ IsFiniteSet(below(i))
  BY FS_Subset
<1>3. Cardinality(below(i)) <= Cardinality(below(j))
      /\ Cardinality(below(i)) # Cardinality(below(j))
  BY <1>1, <1>2, FS_Subset
<1>4. Cardinality(below(i)) \in Nat /\ Cardinality(below(j)) \in Nat
  BY <1>2, FS_CardinalityType
<1> QED BY <1>3, <1>4 DEF Rank

LEMMA RankType ==
  ASSUME NEW K \in SUBSET Int, IsFiniteSet(K), NEW i \in K
  PROVE  Rank(K, i) \in 1 .. Cardinality(K)
<1> DEFINE below == {x \in K : x < i}
<1>1. below \in SUBSET K /\ i \notin below
  OBVIOUS
<1>2. Cardinality(below) <= Cardinality(K) /\ Cardinality(below) # Cardinality(K)
      /\ IsFiniteSet(below)
  BY <1>1, FS_Subset
<1>3. Cardinality(below) \in Nat /\ Cardinality(K) \in Nat
  BY <1>2, FS_CardinalityType
<1> QED BY <1>2, <1>3 DEF Rank

LEMMA RankReaches ==
  ASSUME NEW K \in SUBSET Int, IsFiniteSet(K), NEW k \in 1 .. Cardinality(K)
  PROVE  \E i \in K : Rank(K, i) = k
<1> DEFINE n == Cardinality(K)
           f == [i \in K |-> Rank(K, i)]
<1>1. n \in Nat /\ IsFiniteSet(1 .. n) /\ Cardinality(1 .. n) = n
  BY FS_CardinalityType, SpanOf
<1>2. f \in [K -> 1 .. n]
  BY RankType
<1>3. ASSUME NEW i \in K, NEW j \in K, i # j PROVE f[i] # f[j]
  <2>1. i < j \/ j < i
    BY <1>3
  <2>2. Rank(K, i) \in Int /\ Rank(K, j) \in Int
    BY RankType
  <2> QED BY <2>1, <2>2, RankIncreases
<1>4. f \in Injection(K, 1 .. n)
  BY <1>2, <1>3 DEF Injection, IsInjective
<1>5. f \in Surjection(K, 1 .. n)
  BY <1>1, <1>4, FS_Injection
<1> QED BY <1>5 DEF Surjection

LEMMA NthOf ==
  ASSUME NEW K \in SUBSET Int, IsFiniteSet(K)
  PROVE  /\ \A k \in 1 .. Cardinality(K) : Nth(K, k) \in K /\ Rank(K, Nth(K, k)) = k
         /\ \A i \in K : Rank(K, i) \in 1 .. Cardinality(K) /\ Nth(K, Rank(K, i)) = i
<1>1. ASSUME NEW k \in 1 .. Cardinality(K)
      PROVE  Nth(K, k) \in K /\ Rank(K, Nth(K, k)) = k
  <2>1. PICK i \in K : Rank(K, i) = k
    BY RankReaches
  <2>2. \A j \in K : Cardinality({x \in K : x < j}) \in Nat
    <3> SUFFICES ASSUME NEW j \in K PROVE Cardinality({x \in K : x < j}) \in Nat
      OBVIOUS
    <3>1. IsFiniteSet({x \in K : x < j})
      BY FS_Subset
    <3> QED BY <3>1, FS_CardinalityType
  <2>3. Cardinality({x \in K : x < i}) = k - 1
    BY <2>1, <2>2 DEF Rank
  <2>4. Nth(K, k) \in K /\ Cardinality({x \in K : x < Nth(K, k)}) = k - 1
    BY <2>3 DEF Nth
  <2> QED BY <2>4 DEF Rank
<1>2. ASSUME NEW i \in K PROVE Nth(K, Rank(K, i)) = i
  <2>1. Rank(K, i) \in 1 .. Cardinality(K)
    BY RankType
  <2>2. Nth(K, Rank(K, i)) \in K /\ Rank(K, Nth(K, Rank(K, i))) = Rank(K, i)
    BY <1>1, <2>1
  <2>3. \A x \in K : x \in Int
    OBVIOUS
  <2> DEFINE j == Nth(K, Rank(K, i))
  <2>4. j \in K /\ Rank(K, j) = Rank(K, i) /\ Rank(K, i) \in Int
    BY <2>1, <2>2
  <2>5. i \in Int /\ j \in Int
    BY <2>3, <2>4
  <2> HIDE DEF j
  <2>6. ~(j < i) /\ ~(i < j)
    BY <2>4, RankIncreases
  <2>7. j = i
    BY <2>5, <2>6
  <2> QED BY <2>7 DEF j
<1> QED BY <1>1, <1>2, RankType

LEMMA NthIncreases ==
  ASSUME NEW K \in SUBSET Int, IsFiniteSet(K),
         NEW k \in 1 .. Cardinality(K), NEW m \in 1 .. Cardinality(K), k < m
  PROVE  Nth(K, k) < Nth(K, m)
<1> DEFINE i == Nth(K, k)
           j == Nth(K, m)
<1>1. i \in K /\ j \in K /\ Rank(K, i) = k /\ Rank(K, j) = m
  BY NthOf
<1>2. i \in Int /\ j \in Int
  BY <1>1
<1> HIDE DEF i, j
<1>3. ~(j < i) /\ i # j
  BY <1>1, <1>2, RankIncreases
<1>4. i < j
  BY <1>2, <1>3
<1> QED BY <1>4 DEF i, j

\* A filtered list holds the elements at the indices kept, each once and in order.
LEMMA SublistOf ==
  ASSUME NEW S, NEW s \in Seq(S), NEW K \in SUBSET DOMAIN s
  PROVE  /\ Sublist(s, K) \in Seq(S)
         /\ DOMAIN Sublist(s, K) = 1 .. Cardinality(K) /\ Len(Sublist(s, K)) = Cardinality(K)
         /\ Cardinality(K) \in Nat /\ Cardinality(K) <= Len(s)
         /\ \A k \in DOMAIN Sublist(s, K) : Nth(K, k) \in K /\ Sublist(s, K)[k] = s[Nth(K, k)]
         /\ \A i \in K : Rank(K, i) \in DOMAIN Sublist(s, K) /\ Sublist(s, K)[Rank(K, i)] = s[i]
<1>1. DOMAIN s = 1 .. Len(s) /\ Len(s) \in Nat
  OBVIOUS
<1>2. K \in SUBSET Int /\ IsFiniteSet(K)
  BY <1>1, IndicesAreFinite
<1>3. Cardinality(K) \in Nat /\ Cardinality(K) <= Len(s)
  <2>1. IsFiniteSet(1 .. Len(s)) /\ Cardinality(1 .. Len(s)) = Len(s)
    BY <1>1, SpanOf
  <2>2. K \in SUBSET (1 .. Len(s))
    BY <1>1
  <2> QED BY <1>2, <2>1, <2>2, FS_CardinalityType, FS_Subset
<1>4. /\ \A k \in 1 .. Cardinality(K) : Nth(K, k) \in K
      /\ \A i \in K : Rank(K, i) \in 1 .. Cardinality(K) /\ Nth(K, Rank(K, i)) = i
  BY <1>2, NthOf
<1> QED BY <1>1, <1>3, <1>4 DEF Sublist

\* The elements of a list, and of the list with one more at its end.
LEMMA ListedAre ==
  ASSUME NEW S, NEW s \in Seq(S)
  PROVE  /\ ToSet(s) \in SUBSET S /\ ToSet(s) = {s[i] : i \in 1 .. Len(s)}
         /\ \A x \in S : ToSet(Append(s, x)) = ToSet(s) \cup {x}
         /\ \A x \in S : Append(s, x) \in Seq(S) /\ Len(Append(s, x)) = Len(s) + 1
              /\ Append(s, x)[Len(s) + 1] = x /\ \A i \in 1 .. Len(s) : Append(s, x)[i] = s[i]
<1>1. ASSUME NEW x \in S
      PROVE  /\ Append(s, x) \in Seq(S) /\ Len(Append(s, x)) = Len(s) + 1
             /\ Append(s, x)[Len(s) + 1] = x /\ \A i \in 1 .. Len(s) : Append(s, x)[i] = s[i]
  OBVIOUS
<1>2. ASSUME NEW x \in S PROVE ToSet(Append(s, x)) = ToSet(s) \cup {x}
  <2>1. DOMAIN s = 1 .. Len(s) /\ DOMAIN Append(s, x) = 1 .. Len(s) + 1 /\ Len(s) \in Nat
    BY <1>1
  <2>2. \A i \in 1 .. Len(s) + 1 : i \in 1 .. Len(s) \/ i = Len(s) + 1
    BY <2>1
  <2> QED BY <1>1, <2>1, <2>2 DEF ToSet
<1> QED BY <1>1, <1>2 DEF ToSet

\* A list is its head and its tail.
LEMMA RestOfList ==
  ASSUME NEW S, NEW s \in Seq(S), s # <<>>
  PROVE  Head(s) \in S /\ Tail(s) \in Seq(S) /\ ToSet(s) = {Head(s)} \cup ToSet(Tail(s))
<1>1. /\ Head(s) = s[1] /\ Tail(s) \in Seq(S) /\ Len(s) \in Nat /\ Len(s) # 0 /\ Len(Tail(s)) = Len(s) - 1
      /\ \A i \in 1 .. Len(s) - 1 : Tail(s)[i] = s[i + 1]
  OBVIOUS
<1>2. DOMAIN s = 1 .. Len(s) /\ DOMAIN Tail(s) = 1 .. Len(s) - 1
  BY <1>1
<1>3. ASSUME NEW i \in 1 .. Len(s) PROVE i = 1 \/ (i - 1 \in 1 .. Len(s) - 1 /\ i = (i - 1) + 1)
  BY <1>1
<1>4. ASSUME NEW i \in 1 .. Len(s) - 1 PROVE i + 1 \in 1 .. Len(s)
  BY <1>1
<1>5. ToSet(s) = {s[1]} \cup ToSet(Tail(s))
  <2>1. ASSUME NEW x \in ToSet(s) PROVE x = s[1] \/ x \in ToSet(Tail(s))
    <3>1. PICK i \in 1 .. Len(s) : x = s[i]
      BY <1>2, <2>1 DEF ToSet
    <3>2. CASE i # 1
      <4>1. i - 1 \in DOMAIN Tail(s) /\ Tail(s)[i - 1] = x
        BY <1>1, <1>2, <1>3, <3>1, <3>2
      <4> QED BY <4>1 DEF ToSet
    <3> QED BY <3>1, <3>2
  <2>2. ASSUME NEW x \in ToSet(Tail(s)) PROVE x \in ToSet(s)
    BY <1>1, <1>2, <1>4, <2>2 DEF ToSet
  <2>3. s[1] \in ToSet(s)
    BY <1>1, <1>2 DEF ToSet
  <2> QED BY <2>1, <2>2, <2>3
<1> QED BY <1>1, <1>2, <1>5

\* A list with elements is its front and its last element.
LEMMA LastOfList ==
  ASSUME NEW S, NEW s \in Seq(S), s # <<>>
  PROVE  /\ Len(s) \in Nat /\ Len(s) # 0 /\ DOMAIN s = 1 .. Len(s) /\ Len(s) \in DOMAIN s
         /\ Last(s) = s[Len(s)] /\ Last(s) \in S
         /\ Front(s) \in Seq(S) /\ Len(Front(s)) = Len(s) - 1 /\ DOMAIN Front(s) = 1 .. Len(s) - 1
         /\ \A i \in 1 .. Len(s) - 1 : Front(s)[i] = s[i]
<1>1. Len(s) \in Nat /\ Len(s) # 0 /\ DOMAIN s = 1 .. Len(s)
  OBVIOUS
<1>2. Len(s) \in DOMAIN s /\ Last(s) = s[Len(s)]
  BY <1>1 DEF Last
<1>3. /\ Front(s) \in Seq(S) /\ Len(Front(s)) = Len(s) - 1
      /\ \A i \in 1 .. Len(s) - 1 : Front(s)[i] = s[i]
  BY <1>1 DEF Front
<1> QED BY <1>1, <1>2, <1>3

\* The last element taken off and another put in its place.
LEMMA LastReplaced ==
  ASSUME NEW S, NEW s \in Seq(S), s # <<>>, NEW x \in S
  PROVE  LET t == Append(Front(s), x)
         IN  /\ t \in Seq(S) /\ Len(t) = Len(s) /\ DOMAIN t = DOMAIN s /\ t[Len(s)] = x
             /\ \A i \in DOMAIN s : i # Len(s) => t[i] = s[i]
<1> DEFINE f == Front(s)
           t == Append(f, x)
<1>1. /\ Len(s) \in Nat /\ Len(s) # 0 /\ DOMAIN s = 1 .. Len(s)
      /\ f \in Seq(S) /\ Len(f) = Len(s) - 1 /\ \A i \in 1 .. Len(s) - 1 : f[i] = s[i]
  BY LastOfList
<1> HIDE DEF f
<1>2. /\ t \in Seq(S) /\ Len(t) = Len(f) + 1 /\ t[Len(f) + 1] = x /\ \A i \in 1 .. Len(f) : t[i] = f[i]
  <2>1. f \in Seq(S)
    BY <1>1
  <2> HIDE <1>1
  <2> QED BY <2>1, ListedAre
<1> HIDE DEF t
<1>3. Len(t) = Len(s) /\ t[Len(s)] = x /\ DOMAIN t = DOMAIN s
  BY <1>1, <1>2
<1>4. \A i \in DOMAIN s : i # Len(s) => t[i] = s[i]
  BY <1>1, <1>2
<1> QED BY <1>2, <1>3, <1>4 DEF t, f

\* A list along which a rank grows is cut at a place by the rank there: what is from
\* the place on, and what is before it.
SplitAt(S, s, rank, k, top, left) ==
  /\ top = {x \in ToSet(s) : rank[s[k]] <= rank[x]} /\ IsFiniteSet(top)
  /\ left \in Seq(S) /\ DOMAIN left \subseteq DOMAIN s /\ \A j \in DOMAIN left : left[j] = s[j]
  /\ ToSet(left) = {x \in ToSet(s) : rank[x] < rank[s[k]]}

LEMMA CutByRank ==
  ASSUME NEW S, NEW s \in Seq(S), NEW rank \in [S -> Nat],
         \A i, j \in DOMAIN s : i < j => rank[s[i]] < rank[s[j]], NEW k \in DOMAIN s
  PROVE  SplitAt(S, s, rank, k, {s[j] : j \in k .. Len(s)}, SubSeq(s, 1, k - 1))
<1> DEFINE top == {s[j] : j \in k .. Len(s)}
           left == SubSeq(s, 1, k - 1)
<1>1. /\ DOMAIN s = 1 .. Len(s) /\ Len(s) \in Nat /\ k \in Nat /\ k # 0 /\ k <= Len(s)
      /\ \A j \in DOMAIN s : s[j] \in S
  OBVIOUS
<1>2. \A j \in DOMAIN s : rank[s[j]] \in Nat
  BY <1>1
<1>3. \A j \in DOMAIN s : rank[s[k]] <= rank[s[j]] <=> j \in k .. Len(s)
  <2>1. \A j \in DOMAIN s : j \in Nat /\ 1 <= j /\ j <= Len(s)
    BY <1>1
  <2>2. \A j \in DOMAIN s : j < k => rank[s[j]] < rank[s[k]]
    OBVIOUS
  <2>3. \A j \in DOMAIN s : k < j => rank[s[k]] < rank[s[j]]
    OBVIOUS
  <2>4. ASSUME NEW j \in DOMAIN s PROVE rank[s[k]] <= rank[s[j]] <=> j \in k .. Len(s)
    <3>1. CASE j < k
      BY <1>1, <1>2, <2>1, <2>2, <3>1
    <3>2. CASE j = k
      BY <1>1, <1>2, <3>2
    <3>3. CASE k < j
      BY <1>1, <1>2, <2>1, <2>3, <3>3
    <3> QED BY <1>1, <2>1, <3>1, <3>2, <3>3
  <2> QED BY <2>4
<1>4. \A j \in k .. Len(s) : j \in DOMAIN s
  BY <1>1
<1>5. ToSet(s) = {s[j] : j \in DOMAIN s}
  BY DEF ToSet
<1>6. top = {x \in ToSet(s) : rank[s[k]] <= rank[x]}
  <2>1. \A x \in top : x \in ToSet(s) /\ rank[s[k]] <= rank[x]
    BY <1>3, <1>4, <1>5
  <2>2. \A x \in ToSet(s) : rank[s[k]] <= rank[x] => x \in top
    BY <1>3, <1>5
  <2> QED BY <2>1, <2>2
<1>7. IsFiniteSet(top)
  <2> DEFINE f == [j \in k .. Len(s) |-> s[j]]
  <2>1. IsFiniteSet(k .. Len(s))
    BY <1>1, FS_Interval
  <2>2. f \in Surjection(k .. Len(s), top)
    BY DEF Surjection
  <2> QED BY <2>1, <2>2, FS_Surjection
<1>8. left \in Seq(S) /\ Len(left) = k - 1 /\ \A j \in 1 .. k - 1 : left[j] = s[j]
  <2>1. \A j \in 1 .. k - 1 : s[j] \in S
    BY <1>1
  <2> QED BY <1>1, <2>1, SubSeqProperties
<1> HIDE DEF left
<1>9. DOMAIN left = 1 .. k - 1 /\ \A j \in 1 .. k - 1 : j \in DOMAIN s
  BY <1>1, <1>8
<1>10. ToSet(left) = {x \in ToSet(s) : rank[x] < rank[s[k]]}
  <2>1. \A j \in DOMAIN s : rank[s[j]] < rank[s[k]] <=> j \in 1 .. k - 1
    <3>1. \A j \in DOMAIN s : rank[s[j]] < rank[s[k]] <=> ~(j \in k .. Len(s))
      BY <1>2, <1>3
    <3> QED BY <1>1, <3>1
  <2>2. ToSet(left) = {left[j] : j \in 1 .. k - 1}
    BY <1>9 DEF ToSet
  <2>3. \A x \in ToSet(left) : x \in ToSet(s) /\ rank[x] < rank[s[k]]
    BY <1>5, <1>8, <1>9, <2>1, <2>2
  <2>4. \A x \in ToSet(s) : rank[x] < rank[s[k]] => x \in ToSet(left)
    BY <1>5, <1>8, <2>1, <2>2
  <2> QED BY <2>3, <2>4
<1> QED BY <1>6, <1>7, <1>8, <1>9, <1>10 DEF left, SplitAt

\* Of a finite set, more than one element is more than the one that is known.
LEMMA MoreThanOne ==
  ASSUME NEW S, IsFiniteSet(S), NEW x \in S
  PROVE  Cardinality(S) > 1 <=> S # {x}
<1>1. Cardinality(S) \in Nat /\ IsFiniteSet(S \ {x}) /\ Cardinality(S \ {x}) = Cardinality(S) - 1
  BY FS_RemoveElement, FS_CardinalityType
<1>2. Cardinality(S \ {x}) \in Nat /\ (Cardinality(S \ {x}) = 0 <=> S \ {x} = {})
  BY <1>1, FS_CardinalityType, FS_EmptySet
<1> QED BY <1>1, <1>2
=============================================================================
