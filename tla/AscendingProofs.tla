--------------------------- MODULE AscendingProofs ---------------------------
(***************************************************************************)
(* What Ascending and Kept return, for every finite set of numbers and     *)
(* every sequence, and induction over the natural numbers in the form the  *)
(* other proofs use: a set of numbers that is not empty has a least one.   *)
(***************************************************************************)
EXTENDS Ascending, FiniteSetTheorems, WellFoundedInduction, TLAPS

\* Every set of natural numbers but the empty one has a least element.
LEMMA LeastNat ==
  ASSUME NEW S \in SUBSET Nat, S # {}
  PROVE  \E x \in S : \A y \in S : x <= y
<1>1. PICK R : R = OpToRel(<, Nat)
  OBVIOUS
<1>2. PICK x \in S : \A y \in S : ~(<<y, x>> \in R)
  BY NatLessThanWellFounded, WFMin, <1>1
<1>3. R = {ss \in Nat \X Nat : ss[1] < ss[2]}
  BY <1>1, Zenon DEF OpToRel
<1>4. ASSUME NEW y \in S
      PROVE  x <= y
  <2>1. x \in Nat /\ y \in Nat
    OBVIOUS
  <2>2. <<y, x>> \in R <=> y < x
    BY <2>1, <1>3
  <2> QED BY <1>2, <2>1, <2>2
<1> QED BY <1>4

-----------------------------------------------------------------------------
(* Ranks.                                                                  *)

\* A rank is between 0 and the size of the set, and above 0 in the set.
LEMMA RankType ==
  ASSUME NEW S \in SUBSET Int, IsFiniteSet(S), NEW n \in Int
  PROVE  /\ Cardinality(S) \in Nat
         /\ Rank(S, n) \in 0..Cardinality(S)
         /\ n \in S => Rank(S, n) \in 1..Cardinality(S)
<1> DEFINE below == {m \in S : m <= n}
<1>1. /\ IsFiniteSet(below) /\ Cardinality(below) <= Cardinality(S)
      /\ Cardinality(below) \in Nat /\ Cardinality(S) \in Nat
  BY FS_Subset, FS_CardinalityType
<1>2. n \in S => Cardinality(below) # 0
  BY <1>1, FS_EmptySet
<1> QED BY <1>1, <1>2 DEF Rank

\* Of a larger number no fewer numbers are smaller, and if it is in the set more.
LEMMA RankMonotone ==
  ASSUME NEW S \in SUBSET Int, IsFiniteSet(S), NEW m \in Int, NEW n \in Int, m <= n
  PROVE  /\ Rank(S, m) <= Rank(S, n)
         /\ m < n /\ n \in S => Rank(S, m) < Rank(S, n)
<1> DEFINE upTo(k) == {i \in S : i <= k}
<1>1. IsFiniteSet(upTo(n)) /\ IsFiniteSet(upTo(m))
  BY FS_Subset
<1>2. upTo(m) \in SUBSET upTo(n)
  <2>1. \A i \in S : i \in Int
    OBVIOUS
  <2>2. \A i \in S : i <= m => i <= n
    BY <2>1
  <2> QED BY <2>2
<1>3. Cardinality(upTo(m)) <= Cardinality(upTo(n))
  BY <1>1, <1>2, FS_Subset
<1>4. m < n /\ n \in S => upTo(m) # upTo(n)
  OBVIOUS
<1>5. m < n /\ n \in S => Cardinality(upTo(m)) # Cardinality(upTo(n))
  BY <1>1, <1>2, <1>4, FS_Subset
<1>6. Cardinality(upTo(m)) \in Nat /\ Cardinality(upTo(n)) \in Nat
  BY <1>1, FS_CardinalityType
<1> QED BY <1>3, <1>5, <1>6 DEF Rank

\* Every number up to the size of the set is the rank of exactly one element.
LEMMA RankOnto ==
  ASSUME NEW S \in SUBSET Int, IsFiniteSet(S), NEW k \in 1..Cardinality(S)
  PROVE  \E n \in S : Rank(S, n) = k
<1> DEFINE T == 1..Cardinality(S)
<1> DEFINE rank == [n \in S |-> Rank(S, n)]
<1>1. Cardinality(S) \in Nat
  BY FS_CardinalityType
<1>2. IsFiniteSet(T) /\ Cardinality(T) = Cardinality(S)
  BY <1>1, FS_Interval
<1>3. rank \in [S -> T]
  BY RankType
<1>4. \A m, n \in S : m < n => rank[m] # rank[n]
  <2> SUFFICES ASSUME NEW m \in S, NEW n \in S, m < n PROVE Rank(S, m) # Rank(S, n)
    OBVIOUS
  <2> QED BY RankMonotone, RankType
<1>5. \A m, n \in S : rank[m] = rank[n] => m = n
  BY <1>4
<1>6. rank \in Injection(S, T)
  BY <1>3, <1>5 DEF Injection, IsInjective
<1>7. rank \in Surjection(S, T)
  BY <1>2, <1>6, FS_Injection
<1> QED BY <1>7 DEF Surjection

\* In a finite set of numbers, as many are smaller than one of them as its rank says.
LEMMA SmallerRank ==
  ASSUME NEW S \in SUBSET Int, IsFiniteSet(S), NEW n \in S
  PROVE  Cardinality({k \in S : k < n}) = Rank(S, n) - 1 /\ Rank(S, n) \in Nat
<1> DEFINE below == {k \in S : k < n}
<1>1. IsFiniteSet(below) /\ Cardinality(below) \in Nat
  BY FS_Subset, FS_CardinalityType
<1>2. {k \in S : k <= n} = below \cup {n} /\ n \notin below
  <2>1. n \in Int /\ \A k \in S : k \in Int
    OBVIOUS
  <2>2. \A k \in S : k <= n <=> k < n \/ k = n
    BY <2>1
  <2>3. ~(n < n)
    BY <2>1
  <2> QED BY <2>2, <2>3
<1>3. Cardinality(below \cup {n}) = Cardinality(below) + 1
  BY <1>1, <1>2, FS_AddElement
<1> QED BY <1>1, <1>2, <1>3 DEF Rank

\* A larger set has no smaller ranks, and larger numbers do not change a rank.
LEMMA RankSubset ==
  ASSUME NEW R \in SUBSET Int, IsFiniteSet(R), NEW S \in SUBSET R, NEW n \in Int
  PROVE  /\ Rank(S, n) <= Rank(R, n)
         /\ (\A r \in R \ S : n < r) => Rank(S, n) = Rank(R, n)
<1>1. {m \in S : m <= n} \in SUBSET {m \in R : m <= n} /\ IsFiniteSet({m \in R : m <= n})
  BY FS_Subset
<1>2. Cardinality({m \in S : m <= n}) <= Cardinality({m \in R : m <= n})
  BY <1>1, FS_Subset
<1>3. ASSUME \A r \in R \ S : n < r PROVE {m \in S : m <= n} = {m \in R : m <= n}
  <2>1. n \in Int /\ \A r \in R : r \in Int
    OBVIOUS
  <2>2. \A r \in R : r <= n => r \in S
    BY <1>3, <2>1
  <2> QED BY <2>2
<1> QED BY <1>2, <1>3 DEF Rank

-----------------------------------------------------------------------------
(* Ascending and Kept.                                                     *)

\* Ascending(S) lists exactly the numbers of S, each at its rank.
LEMMA AscendingRanks ==
  ASSUME NEW S \in SUBSET Int, IsFiniteSet(S)
  PROVE  /\ Ascending(S) \in Seq(S)
         /\ Len(Ascending(S)) = Cardinality(S)
         /\ \A k \in 1..Cardinality(S) : Ascending(S)[k] \in S /\ Rank(S, Ascending(S)[k]) = k
         /\ \A n \in S : /\ Rank(S, n) \in 1..Cardinality(S)
                         /\ Ascending(S)[Rank(S, n)] = n
<1>1. Cardinality(S) \in Nat
  BY FS_CardinalityType
<1>2. \A k \in 1..Cardinality(S) : Ascending(S)[k] \in S /\ Rank(S, Ascending(S)[k]) = k
  BY RankOnto DEF Ascending
<1>3. Ascending(S) \in [1..Cardinality(S) -> S]
  BY <1>2 DEF Ascending
<1>4. Ascending(S) \in Seq(S) /\ Len(Ascending(S)) = Cardinality(S)
  BY <1>1, <1>3
<1>5. ASSUME NEW n \in S
      PROVE  Rank(S, n) \in 1..Cardinality(S) /\ Ascending(S)[Rank(S, n)] = n
  <2>1. Rank(S, n) \in 1..Cardinality(S)
    BY RankType
  <2>2. PICK m \in S : m = Ascending(S)[Rank(S, n)] /\ Rank(S, m) = Rank(S, n)
    BY <1>2, <2>1
  <2>3. ~(m < n) /\ ~(n < m)
    BY <2>2, RankMonotone, RankType
  <2> QED BY <2>1, <2>2, <2>3
<1> QED BY <1>2, <1>4, <1>5

\* In ascending order, hence without repetition.
LEMMA AscendingOrder ==
  ASSUME NEW S \in SUBSET Int, IsFiniteSet(S),
         NEW i \in 1..Cardinality(S), NEW j \in 1..Cardinality(S)
  PROVE  i < j <=> Ascending(S)[i] < Ascending(S)[j]
<1>1. Cardinality(S) \in Nat
  BY FS_CardinalityType
<1>2. PICK m \in S, n \in S : /\ m = Ascending(S)[i] /\ n = Ascending(S)[j]
                              /\ Rank(S, m) = i /\ Rank(S, n) = j
  BY AscendingRanks
<1>3. m < n => i < j
  BY <1>2, RankMonotone
<1>4. n <= m => j <= i
  BY <1>2, RankMonotone
<1> QED BY <1>1, <1>2, <1>3, <1>4

\* Where larger numbers are added to a set, the old ones stay at their places.
LEMMA AscendingPrefix ==
  ASSUME NEW R \in SUBSET Int, IsFiniteSet(R), NEW S \in SUBSET R,
         \A r \in R \ S, n \in S : n < r, NEW i \in 1..Cardinality(S)
  PROVE  i \in 1..Cardinality(R) /\ Ascending(R)[i] = Ascending(S)[i]
<1>1. S \in SUBSET Int /\ IsFiniteSet(S)
  BY FS_Subset
<1>2. PICK n \in S : n = Ascending(S)[i] /\ Rank(S, n) = i
  BY <1>1, AscendingRanks
<1>3. Rank(R, n) = i
  BY <1>2, RankSubset
<1> QED BY <1>2, <1>3, AscendingRanks

\* A piece of a sequence (LIMIT and OFFSET).
LEMMA SubSeqPiece ==
  ASSUME NEW X, NEW all \in Seq(X), NEW o \in Nat, NEW end \in Nat, end <= Len(all)
  PROVE  LET piece == SubSeq(all, o + 1, end)
         IN /\ piece \in Seq(X)
            /\ Len(piece) = IF o < end THEN end - o ELSE 0
            /\ \A k \in 1..Len(piece) : o + k \in 1..end /\ piece[k] = all[o + k]
<1>1. CASE o < end
  <2>1. PICK m \in 1..Len(all), n \in Nat : m = o + 1 /\ end \in m..Len(all) /\ n = end - o
    BY <1>1
  <2>2. SubSeq(all, m, end) \in Seq(X) /\ Len(SubSeq(all, m, end)) = n
    BY <2>1
  <2>3. ASSUME NEW k \in 1..n PROVE o + k \in 1..end /\ SubSeq(all, m, end)[k] = all[o + k]
    <3>1. SubSeq(all, m, end)[k] = all[m + k - 1]
      BY <2>1
    <3> QED BY <2>1, <3>1
  <2> QED BY <1>1, <2>1, <2>2, <2>3
<1>2. CASE ~(o < end)
  <2>1. SubSeq(all, o + 1, end) = <<>>
    BY <1>2
  <2> QED BY <1>2, <2>1
<1> QED BY <1>1, <1>2

\* Where the first item of one sequence goes to the end of another, the two together
\* are what they were.
LEMMA ItemMoved ==
  ASSUME NEW X, NEW one \in Seq(X), NEW two \in Seq(X), two # <<>>
  PROVE  /\ Append(one, Head(two)) \in Seq(X) /\ Tail(two) \in Seq(X)
         /\ Append(one, Head(two)) \o Tail(two) = one \o two
<1>1. PICK m \in Nat, n \in Nat : m = Len(one) /\ n = Len(two)
  OBVIOUS
<1>2. n > 0 /\ Head(two) = two[1] /\ two[1] \in X
  BY <1>1
<1>3. PICK left : left = Append(one, Head(two))
  OBVIOUS
<1>4. left \in Seq(X) /\ Len(left) = m + 1 /\ left[m + 1] = two[1] /\ \A i \in 1..m : left[i] = one[i]
  BY <1>1, <1>2, <1>3
<1>5. PICK right : right = Tail(two)
  OBVIOUS
<1>6. right \in Seq(X) /\ Len(right) = n - 1 /\ \A i \in 1..(n - 1) : right[i] = two[i + 1]
  BY <1>1, <1>2, <1>5
<1>7. PICK before : before = one \o two
  OBVIOUS
<1>8. before \in Seq(X) /\ Len(before) = m + n
      /\ \A i \in 1..(m + n) : before[i] = IF i <= m THEN one[i] ELSE two[i - m]
  BY <1>1, <1>7
<1>9. PICK after : after = left \o right
  OBVIOUS
<1>10. after \in Seq(X) /\ Len(after) = m + n
       /\ \A i \in 1..(m + n) : after[i] = IF i <= m + 1 THEN left[i] ELSE right[i - (m + 1)]
  <2>1. PICK k \in Nat, l \in Nat : k = m + 1 /\ l = n - 1 /\ k + l = m + n
    BY <1>2
  <2>2. k = Len(left) /\ l = Len(right)
    BY <1>4, <1>6, <2>1
  <2>3. after \in Seq(X) /\ Len(after) = k + l
        /\ \A i \in 1..(k + l) : after[i] = IF i <= k THEN left[i] ELSE right[i - k]
    <3>1. PICK one2 \in Seq(X), two2 \in Seq(X) : one2 = left /\ two2 = right
      BY <1>4, <1>6
    <3>2. after = one2 \o two2 /\ k = Len(one2) /\ l = Len(two2)
      BY <1>9, <2>2, <3>1
    <3>3. after \in Seq(X) /\ Len(after) = k + l
          /\ \A i \in 1..(k + l) : after[i] = IF i <= k THEN one2[i] ELSE two2[i - k]
      BY <3>2
    <3> QED BY <3>1, <3>3
  <2> QED BY <2>1, <2>3
<1>11. ASSUME NEW i \in 1..(m + n) PROVE after[i] = before[i]
  <2>1. CASE i <= m
    BY <1>4, <1>8, <1>10, <2>1
  <2>2. CASE i = m + 1
    BY <1>2, <1>4, <1>8, <1>10, <2>2
  <2>3. CASE i > m + 1
    <3>1. i - (m + 1) \in 1..(n - 1) /\ (i - (m + 1)) + 1 = i - m
      BY <2>3
    <3>2. right[i - (m + 1)] = two[i - m]
      BY <1>6, <3>1
    <3> QED BY <1>8, <1>10, <2>3, <3>2
  <2> QED BY <2>1, <2>2, <2>3
<1>12. after = before
  BY <1>8, <1>10, <1>11
<1> QED BY <1>3, <1>4, <1>5, <1>6, <1>7, <1>9, <1>12

\* A query with LIMIT and OFFSET stops at the limit or at the end of the scan.
PieceEnds(end, o, limit, size) ==
  end <= size /\ end <= o + limit /\ (end = size \/ end = o + limit)

\* What it returns of a scan of R in ascending order: ascending numbers of ranks
\* up to o + limit, behind all of the first o ranks, and among them what was counted
\* at those places earlier, if larger numbers only were added since.
IsPiece(piece, R, o, limit) ==
  /\ piece \in Seq(R)
  /\ \A k, l \in 1..Len(piece) : k < l => piece[k] < piece[l]
  /\ \A k \in 1..Len(piece) :
       /\ piece[k] \in R /\ Rank(R, piece[k]) <= o + limit
       /\ \A n \in Int : Rank(R, n) <= o => n < piece[k]
  /\ \A S \in SUBSET R :
       (\A r \in R \ S, n \in S : n < r) =>
         \A i \in 1..Cardinality(S) :
           i > o /\ i <= o + limit => \E k \in 1..Len(piece) : piece[k] = Ascending(S)[i]

\* A SELECT with LIMIT and OFFSET returns such a piece of the scan.
LEMMA ScanPiece ==
  ASSUME NEW R \in SUBSET Int, IsFiniteSet(R), NEW o \in Nat, NEW limit \in Nat,
         NEW end \in Nat, PieceEnds(end, o, limit, Cardinality(R))
  PROVE  IsPiece(SubSeq(Ascending(R), o + 1, end), R, o, limit)
<1>a. PICK piece : piece = SubSeq(Ascending(R), o + 1, end)
  OBVIOUS
<1>1. Cardinality(R) \in Nat
  BY FS_CardinalityType
<1>2. PICK all : all = Ascending(R)
  OBVIOUS
<1>3. PICK size \in Nat : size = Cardinality(R)
  BY <1>1
<1>4. /\ all \in Seq(R) /\ Len(all) = size
      /\ \A k \in 1..size : all[k] \in R /\ Rank(R, all[k]) = k
  BY <1>1, <1>2, <1>3, AscendingRanks
<1>5. \A i, j \in 1..size : i < j => all[i] < all[j]
  BY <1>1, <1>2, <1>3, AscendingOrder
<1>6. end <= Len(all) /\ piece = SubSeq(all, o + 1, end)
  BY <1>a, <1>2, <1>3, <1>4 DEF PieceEnds
<1>7. /\ piece \in Seq(R) /\ Len(piece) = IF o < end THEN end - o ELSE 0
      /\ \A k \in 1..Len(piece) : o + k \in 1..end /\ piece[k] = all[o + k]
  BY <1>4, <1>6, SubSeqPiece
<1>8. PICK size2 \in Nat : size2 = Len(piece) /\ size2 = IF o < end THEN end - o ELSE 0
  <2>1. PICK n : n = Len(piece)
    OBVIOUS
  <2>2. n = IF o < end THEN end - o ELSE 0
    BY <1>7, <2>1
  <2>3. n \in Nat
    BY <2>2
  <2> QED BY <2>1, <2>2, <2>3
<1>9. ASSUME NEW k \in 1..size2
      PROVE  /\ o + k \in 1..size /\ piece[k] = all[o + k] /\ piece[k] \in R /\ k \in Nat \ {0}
             /\ Rank(R, piece[k]) = o + k /\ o + k <= o + limit
  <2>1. o + k \in 1..end /\ piece[k] = all[o + k]
    BY <1>7, <1>8
  <2>2. o + k \in 1..size /\ o + k <= o + limit /\ k \in Nat \ {0}
    BY <1>3, <1>8, <2>1 DEF PieceEnds
  <2> QED BY <1>4, <2>1, <2>2
<1>10. ASSUME NEW k \in 1..size2, NEW l \in 1..size2, k < l PROVE piece[k] < piece[l]
  <2>1. o + k < o + l
    BY <1>8, <1>10
  <2> QED BY <1>5, <1>9, <2>1
<1>11. ASSUME NEW k \in 1..size2, NEW n \in Int, Rank(R, n) <= o PROVE n < piece[k]
  <2>1. PICK p \in Int : p = piece[k]
    BY <1>1, <1>9
  <2>2. PICK m \in Int : m = n
    OBVIOUS
  <2>3. PICK low \in Int, high \in Int : low = Rank(R, m) /\ high = Rank(R, p)
    <3>1. Rank(R, m) \in 0..Cardinality(R) /\ Rank(R, p) \in 0..Cardinality(R)
      BY <1>1, RankType
    <3> QED BY <1>1, <3>1
  <2>4. low <= o /\ high = o + k /\ k > 0
    <3>1. low <= o
      BY <1>11, <2>2, <2>3
    <3>2. Rank(R, piece[k]) = o + k /\ k \in Nat \ {0}
      BY <1>9
    <3>3. Rank(R, p) = o + k
      BY <2>1, <3>2, Zenon
    <3> QED BY <2>3, <3>1, <3>2, <3>3
  <2>5. p <= m => high <= low
    BY <1>1, <2>3, RankMonotone
  <2>6. m < p
    BY <1>8, <2>4, <2>5
  <2> QED BY <2>1, <2>2, <2>6
<1>12. ASSUME NEW S \in SUBSET R, \A r \in R \ S, n \in S : n < r, NEW i \in 1..Cardinality(S),
              i > o, i <= o + limit
       PROVE  \E k \in 1..size2 : piece[k] = Ascending(S)[i]
  <2>1. i \in 1..size /\ all[i] = Ascending(S)[i]
    BY <1>1, <1>2, <1>3, <1>12, AscendingPrefix
  <2>2. i <= end
    BY <1>3, <1>12, <2>1 DEF PieceEnds
  <2>3. i - o \in 1..size2 /\ o + (i - o) = i
    BY <1>8, <1>12, <2>1, <2>2
  <2>4. piece[i - o] = all[i]
    BY <1>9, <2>3
  <2> QED BY <2>1, <2>3, <2>4
<1> QED
  <2>1. \A k \in 1..Len(piece) : piece[k] \in R /\ Rank(R, piece[k]) <= o + limit
    BY <1>8, <1>9
  <2>2. \A k, l \in 1..Len(piece) : k < l => piece[k] < piece[l]
    BY <1>8, <1>10
  <2> QED BY <1>a, <1>7, <1>8, <1>11, <1>12, <2>1, <2>2 DEF IsPiece

\* Kept(items, S) goes through ascending places of the sequence, exactly those whose
\* item is in S.
LEMMA KeptPlaces ==
  ASSUME NEW T, NEW items \in Seq(T), NEW S
  PROVE  /\ Kept(items, S) \in Seq(T \cap S)
         /\ \E place \in [1..Len(Kept(items, S)) -> 1..Len(items)] :
              /\ \A k \in 1..Len(Kept(items, S)) : Kept(items, S)[k] = items[place[k]]
              /\ \A j, k \in 1..Len(Kept(items, S)) : j < k => place[j] < place[k]
              /\ \A i \in 1..Len(items) : items[i] \in S =>
                   \E k \in 1..Len(Kept(items, S)) : place[k] = i
         /\ \A i \in 1..Len(items) : items[i] \in S =>
              \E k \in 1..Len(Kept(items, S)) : Kept(items, S)[k] = items[i]
<1> DEFINE P == {i \in DOMAIN items : items[i] \in S}
<1>1. Len(items) \in Nat /\ DOMAIN items = 1..Len(items)
  OBVIOUS
<1>2. P \in SUBSET (1..Len(items)) /\ P \in SUBSET Int
  BY <1>1
<1>3. IsFiniteSet(P) /\ Cardinality(P) \in Nat
  <2>1. IsFiniteSet(1..Len(items))
    BY <1>1, FS_Interval
  <2> HIDE DEF P
  <2>2. IsFiniteSet(P)
    BY <1>2, <2>1, FS_Subset
  <2> QED BY <2>2, FS_CardinalityType
<1> DEFINE place == Ascending(P)
<1>4. /\ place \in Seq(P) /\ Len(place) = Cardinality(P)
      /\ \A k \in 1..Cardinality(P) : place[k] \in P
      /\ \A n \in P : Rank(P, n) \in 1..Cardinality(P) /\ place[Rank(P, n)] = n
  BY <1>2, <1>3, AscendingRanks
<1>5. \A j, k \in 1..Cardinality(P) : j < k => place[j] < place[k]
  BY <1>2, <1>3, AscendingOrder
<1>6. DOMAIN place = 1..Cardinality(P)
  BY <1>4
<1>7. Kept(items, S) = [k \in 1..Cardinality(P) |-> items[place[k]]]
  BY <1>6 DEF Kept
<1>8. \A k \in 1..Cardinality(P) : items[place[k]] \in T \cap S
  BY <1>1, <1>4
<1>9. Kept(items, S) \in Seq(T \cap S) /\ Len(Kept(items, S)) = Cardinality(P)
  BY <1>3, <1>7, <1>8
<1>10. place \in [1..Cardinality(P) -> 1..Len(items)]
  <2>1. Len(place) \in Nat /\ place \in [1..Cardinality(P) -> P]
    <3> HIDE DEF place, P
    <3> QED BY <1>3, <1>4
  <2> HIDE DEF place, P
  <2> QED BY <1>2, <2>1
<1> HIDE DEF place
<1>11. \A i \in 1..Len(items) : items[i] \in S => \E k \in 1..Cardinality(P) : place[k] = i
  BY <1>1, <1>4
<1> HIDE DEF P
<1>12. \A i \in 1..Len(items) : items[i] \in S =>
         \E k \in 1..Cardinality(P) : Kept(items, S)[k] = items[i]
  BY <1>7, <1>11
<1> QED BY <1>5, <1>7, <1>9, <1>10, <1>11, <1>12

----------------------------------------------------------------------------
(* Counting in a sequence: the places of the items that are in S.          *)
Hits(list, S) == {n \in DOMAIN list : list[n] \in S}

\* They are finitely many.
LEMMA HitsFinite ==
  ASSUME NEW T, NEW list \in Seq(T), NEW S
  PROVE  /\ IsFiniteSet(Hits(list, S)) /\ Cardinality(Hits(list, S)) \in 0..Len(list)
         /\ Hits(list, S) \subseteq 1..Len(list)
<1>1. Len(list) \in Nat /\ DOMAIN list = 1..Len(list)
  OBVIOUS
<1>2. IsFiniteSet(1..Len(list)) /\ Cardinality(1..Len(list)) = Len(list)
  BY <1>1, FS_Interval
<1>3. Hits(list, S) \in SUBSET (1..Len(list))
  BY <1>1 DEF Hits
<1>4. IsFiniteSet(Hits(list, S)) /\ Cardinality(Hits(list, S)) <= Len(list)
  BY <1>2, <1>3, FS_Subset
<1>5. Cardinality(Hits(list, S)) \in Nat
  BY <1>4, FS_CardinalityType
<1> QED BY <1>1, <1>3, <1>4, <1>5

\* Appending adds the new item's place, if it is in S.
LEMMA HitsAppend ==
  ASSUME NEW T, NEW list \in Seq(T), NEW x \in T, NEW S
  PROVE  Cardinality(Hits(Append(list, x), S)) = Cardinality(Hits(list, S)) + (IF x \in S THEN 1 ELSE 0)
<1> DEFINE more == Append(list, x)
<1>1. /\ Len(list) \in Nat /\ DOMAIN list = 1..Len(list)
      /\ DOMAIN more = 1..Len(list) + 1 /\ more[Len(list) + 1] = x
      /\ \A n \in 1..Len(list) : more[n] = list[n]
  OBVIOUS
<1>2. IsFiniteSet(Hits(list, S)) /\ Hits(list, S) \subseteq 1..Len(list) /\ Cardinality(Hits(list, S)) \in Nat
  BY HitsFinite
<1> HIDE DEF more
<1>3. CASE x \in S
  <2>1. Hits(more, S) = Hits(list, S) \cup {Len(list) + 1}
    BY <1>1, <1>3 DEF Hits
  <2>2. Len(list) + 1 \notin Hits(list, S)
    BY <1>1, <1>2
  <2> QED BY <1>2, <1>3, <2>1, <2>2, FS_AddElement DEF more
<1>4. CASE x \notin S
  <2>1. Hits(more, S) = Hits(list, S)
    BY <1>1, <1>4 DEF Hits
  <2> QED BY <1>2, <1>4, <2>1 DEF more
<1> QED BY <1>3, <1>4

\* Taking the head away takes its place away, if it is in S.
LEMMA HitsTail ==
  ASSUME NEW T, NEW list \in Seq(T), list # <<>>, NEW S
  PROVE  Cardinality(Hits(list, S)) = Cardinality(Hits(Tail(list), S)) + (IF Head(list) \in S THEN 1 ELSE 0)
<1> DEFINE rest  == Tail(list)
           later == {n \in Hits(list, S) : n # 1}
           back  == [n \in Hits(rest, S) |-> n + 1]
<1>1. /\ Len(list) \in Nat \ {0} /\ DOMAIN list = 1..Len(list) /\ Head(list) = list[1]
      /\ rest \in Seq(T) /\ DOMAIN rest = 1..Len(list) - 1
      /\ \A n \in 1..Len(list) - 1 : rest[n] = list[n + 1]
  OBVIOUS
<1> HIDE DEF rest
<1>2. /\ IsFiniteSet(Hits(list, S)) /\ Hits(list, S) \subseteq 1..Len(list) /\ Cardinality(Hits(list, S)) \in Nat
      /\ IsFiniteSet(Hits(rest, S)) /\ Cardinality(Hits(rest, S)) \in Nat
  BY <1>1, HitsFinite
<1>3. Cardinality(later) = Cardinality(Hits(rest, S))
  <2>1. back \in [Hits(rest, S) -> later]
    BY <1>1 DEF Hits
  <2>2. \A m, n \in Hits(rest, S) : back[m] = back[n] => m = n
    BY <1>1 DEF Hits
  <2>3. ASSUME NEW n \in later
        PROVE  \E m \in Hits(rest, S) : back[m] = n
    <3>1. n \in 2..Len(list) /\ list[n] \in S
      BY <1>1 DEF Hits
    <3>2. n - 1 \in 1..Len(list) - 1 /\ rest[n - 1] = list[n]
      BY <1>1, <3>1
    <3>3. n - 1 \in Hits(rest, S)
      BY <1>1, <3>1, <3>2 DEF Hits
    <3> QED BY <3>1, <3>3
  <2> HIDE DEF back, later
  <2>4. back \in Bijection(Hits(rest, S), later)
    BY <2>1, <2>2, <2>3 DEF Bijection, Injection, Surjection, IsInjective
  <2> QED BY <1>2, <2>4, FS_Bijection DEF ExistsBijection
<1>4. CASE Head(list) \in S
  <2>1. Hits(list, S) = later \cup {1} /\ 1 \notin later
    BY <1>1, <1>4 DEF Hits
  <2>2. IsFiniteSet(later)
    BY <1>2, FS_Subset
  <2> HIDE DEF later
  <2>3. Cardinality(Hits(list, S)) = Cardinality(later) + 1
    BY <2>1, <2>2, FS_AddElement
  <2> QED BY <1>3, <1>4, <2>3 DEF rest
<1>5. CASE Head(list) \notin S
  <2>1. Hits(list, S) = later
    BY <1>1, <1>5 DEF Hits
  <2> HIDE DEF later
  <2> QED BY <1>2, <1>3, <1>5, <2>1 DEF rest
<1> QED BY <1>4, <1>5

\* What a loop keeps of a list without repetitions has none either.
LEMMA KeptOnce ==
  ASSUME NEW T, NEW items \in Seq(T), NEW S,
         \A i, j \in 1..Len(items) : items[i] = items[j] => i = j
  PROVE  /\ Kept(items, S) \in Seq(T \cap S)
         /\ \A i, j \in 1..Len(Kept(items, S)) : Kept(items, S)[i] = Kept(items, S)[j] => i = j
<1> DEFINE k == Kept(items, S)
<1>1. PICK place \in [1..Len(k) -> 1..Len(items)] :
        /\ \A i \in 1..Len(k) : k[i] = items[place[i]]
        /\ \A i, j \in 1..Len(k) : i < j => place[i] < place[j]
  BY KeptPlaces
<1>2. k \in Seq(T \cap S) /\ Len(k) \in Nat
  BY KeptPlaces
<1>3. ASSUME NEW i \in 1..Len(k), NEW j \in 1..Len(k), k[i] = k[j]
      PROVE  i = j
  <2>1. place[i] = place[j] /\ place[i] \in 1..Len(items)
    BY <1>1, <1>3
  <2>2. ~(i < j) /\ ~(j < i)
    BY <1>1, <2>1
  <2> QED BY <1>2, <2>2
<1> QED BY <1>2, <1>3

\* No more items are kept than there were.
LEMMA KeptShorter ==
  ASSUME NEW T, NEW items \in Seq(T), NEW S
  PROVE  Len(Kept(items, S)) \in Nat /\ Len(Kept(items, S)) <= Len(items)
<1> DEFINE P == {j \in DOMAIN items : items[j] \in S}
<1>1. Len(items) \in Nat /\ DOMAIN items = 1..Len(items)
  OBVIOUS
<1>2. P \in SUBSET (1..Len(items)) /\ P \in SUBSET Int
  BY <1>1
<1>3. IsFiniteSet(1..Len(items)) /\ Cardinality(1..Len(items)) = Len(items)
  BY <1>1, FS_Interval
<1>4. IsFiniteSet(P) /\ Cardinality(P) \in Nat /\ Cardinality(P) <= Len(items)
  <2> HIDE DEF P
  <2>1. IsFiniteSet(P) /\ Cardinality(P) <= Cardinality(1..Len(items))
    BY <1>2, <1>3, FS_Subset
  <2> QED BY <1>3, <2>1, FS_CardinalityType
<1> DEFINE place == Ascending(P)
<1>5. place \in Seq(P) /\ Len(place) = Cardinality(P)
  BY <1>2, <1>4, AscendingRanks
<1>6. Kept(items, S) = [k \in DOMAIN place |-> items[place[k]]] /\ DOMAIN place = 1..Cardinality(P)
  BY <1>5 DEF Kept
<1> HIDE DEF place, P
<1> QED BY <1>4, <1>6

\* No item in S is left out.
LEMMA KeptFinds ==
  ASSUME NEW T, NEW items \in Seq(T), NEW S, NEW i \in 1..Len(items), items[i] \in S
  PROVE  \E k \in 1..Len(Kept(items, S)) : Kept(items, S)[k] = items[i]
<1> DEFINE P == {j \in DOMAIN items : items[j] \in S}
<1>1. Len(items) \in Nat /\ DOMAIN items = 1..Len(items)
  OBVIOUS
<1>2. P \in SUBSET (1..Len(items)) /\ P \in SUBSET Int /\ i \in P
  BY <1>1
<1>3. IsFiniteSet(P) /\ Cardinality(P) \in Nat
  <2>1. IsFiniteSet(1..Len(items))
    BY <1>1, FS_Interval
  <2> HIDE DEF P
  <2>2. IsFiniteSet(P)
    BY <1>2, <2>1, FS_Subset
  <2> QED BY <2>2, FS_CardinalityType
<1> DEFINE place == Ascending(P)
<1>4. /\ place \in Seq(P) /\ Len(place) = Cardinality(P)
      /\ Rank(P, i) \in 1..Cardinality(P) /\ place[Rank(P, i)] = i
  BY <1>2, <1>3, AscendingRanks
<1>5. DOMAIN place = 1..Cardinality(P)
  BY <1>4
<1>6. Kept(items, S) = [k \in 1..Cardinality(P) |-> items[place[k]]]
  BY <1>5 DEF Kept
<1> HIDE DEF place, P
<1>7. Len(Kept(items, S)) = Cardinality(P)
  BY <1>3, <1>6
<1> QED BY <1>4, <1>6, <1>7

\* No item is kept more often than it was there.
LEMMA HitsKept ==
  ASSUME NEW T, NEW items \in Seq(T), NEW S, NEW e
  PROVE  Cardinality(Hits(Kept(items, S), {e})) <= Cardinality(Hits(items, {e}))
<1> DEFINE kept == Kept(items, S)
<1>1. kept \in Seq(T \cap S)
  BY KeptPlaces
<1>2. PICK place \in [1..Len(kept) -> 1..Len(items)] :
         /\ \A k \in 1..Len(kept) : kept[k] = items[place[k]]
         /\ \A j, k \in 1..Len(kept) : j < k => place[j] < place[k]
  BY KeptPlaces
<1> HIDE DEF kept
<1>3. Len(kept) \in Nat /\ DOMAIN kept = 1..Len(kept) /\ DOMAIN items = 1..Len(items)
  BY <1>1
<1> DEFINE there == [k \in Hits(kept, {e}) |-> place[k]]
<1>4. there \in [Hits(kept, {e}) -> Hits(items, {e})]
  BY <1>2, <1>3 DEF Hits
<1>5. \A j, k \in Hits(kept, {e}) : there[j] = there[k] => j = k
  <2>1. \A j, k \in 1..Len(kept) : place[j] = place[k] => j = k
    <3>1. \A k \in 1..Len(kept) : place[k] \in Int
      BY <1>2
    <3> QED BY <1>2, <1>3, <3>1
  <2> QED BY <1>3, <2>1 DEF Hits
<1> HIDE DEF there
<1>6. there \in Injection(Hits(kept, {e}), Hits(items, {e}))
  BY <1>4, <1>5 DEF Injection, IsInjective
<1> QED BY <1>6, HitsFinite, FS_Injection DEF kept
=============================================================================
