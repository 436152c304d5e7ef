--------------------------- MODULE RetrievalProofs ---------------------------
(***************************************************************************)
(* Proofs about retrieval, for every library, user and constant.            *)
(*                                                                         *)
(* What the operators return comes first: the merge of two rankings, the    *)
(* rankings themselves, the chunks an expansion gathers, sorts, cuts into   *)
(* runs and answers as spans.  Then the invariant: what a turn holds at     *)
(* each stage of a call may be shown to its user, and is what is stored as  *)
(* long as nothing was changed or failed.                                   *)
(***************************************************************************)
EXTENDS Retrieval, Transforms, FiniteSetTheorems, SequenceTheorems, TLAPS

-----------------------------------------------------------------------------
(* Places in an order                                                      *)

\* ahead[x] is what comes before x in a finite set that is totally ordered.
Orders(ahead, S) ==
    /\ ahead \in [S -> SUBSET S]
    /\ \A x \in S : x \notin ahead[x]
    /\ \A x, y \in S : x # y => x \in ahead[y] \/ y \in ahead[x]
    /\ \A x, y \in S : x \in ahead[y] => ahead[x] \subseteq ahead[y]

\* The number of elements ahead tells the elements apart, in their order, and
\* there is an element at every place.
LEMMA PlacesInOrder ==
    ASSUME NEW S, IsFiniteSet(S), NEW ahead, Orders(ahead, S)
    PROVE  /\ Cardinality(S) \in Nat
           /\ \A x \in S : Cardinality(ahead[x]) \in 0 .. (Cardinality(S) - 1)
           /\ \A x, y \in S : x \in ahead[y] => Cardinality(ahead[x]) < Cardinality(ahead[y])
           /\ \A x, y \in S : Cardinality(ahead[x]) = Cardinality(ahead[y]) => x = y
           /\ \A m \in 1 .. Cardinality(S) : \E x \in S : Cardinality(ahead[x]) = m - 1
  <1> DEFINE n == Cardinality(S)
             place == [x \in S |-> Cardinality(ahead[x]) + 1]
  <1>1. n \in Nat
    BY FS_CardinalityType
  <1>2. ASSUME NEW x \in S
        PROVE  /\ IsFiniteSet(ahead[x]) /\ Cardinality(ahead[x]) \in Nat
               /\ Cardinality(ahead[x]) < n
    <2>1. ahead[x] \in SUBSET S /\ x \notin ahead[x]
      BY DEF Orders
    <2>2. IsFiniteSet(ahead[x]) /\ Cardinality(ahead[x]) <= n
      BY <2>1, FS_Subset
    <2>3. Cardinality(ahead[x]) # n
      BY <2>1, FS_Subset
    <2>4. Cardinality(ahead[x]) \in Nat
      BY <2>2, FS_CardinalityType
    <2> HIDE DEF n
    <2> QED BY <1>1, <2>2, <2>3, <2>4
  <1>3. ASSUME NEW x \in S, NEW y \in S, x \in ahead[y]
        PROVE  Cardinality(ahead[x]) < Cardinality(ahead[y])
    <2>1. ahead[x] \in SUBSET ahead[y] /\ x \notin ahead[x]
      BY <1>3 DEF Orders
    <2>2. IsFiniteSet(ahead[y])
      BY <1>2
    <2>3. Cardinality(ahead[x]) <= Cardinality(ahead[y])
      BY <2>1, <2>2, FS_Subset
    <2>4. Cardinality(ahead[x]) # Cardinality(ahead[y])
      BY <1>3, <2>1, <2>2, FS_Subset
    <2>5. Cardinality(ahead[x]) \in Nat /\ Cardinality(ahead[y]) \in Nat
      BY <1>2
    <2> QED BY <2>3, <2>4, <2>5
  <1>4. ASSUME NEW x \in S, NEW y \in S, Cardinality(ahead[x]) = Cardinality(ahead[y])
        PROVE  x = y
    <2>1. x # y => x \in ahead[y] \/ y \in ahead[x]
      BY DEF Orders
    <2>2. Cardinality(ahead[x]) \in Nat /\ Cardinality(ahead[y]) \in Nat
      BY <1>2
    <2> QED BY <1>3, <1>4, <2>1, <2>2
  <1> HIDE DEF n
  <1>5. place \in [S -> 1 .. n]
    BY <1>1, <1>2
  <1>6. \A x, y \in S : place[x] = place[y] => x = y
    <2> SUFFICES ASSUME NEW x \in S, NEW y \in S, place[x] = place[y] PROVE x = y
      OBVIOUS
    <2>1. Cardinality(ahead[x]) + 1 = Cardinality(ahead[y]) + 1
      OBVIOUS
    <2>2. Cardinality(ahead[x]) \in Nat /\ Cardinality(ahead[y]) \in Nat
      BY <1>2
    <2>3. Cardinality(ahead[x]) = Cardinality(ahead[y])
      BY <2>1, <2>2
    <2> QED BY <1>4, <2>3
  <1>7. place \in Injection(S, 1 .. n)
    <2> HIDE DEF place
    <2> QED BY <1>5, <1>6 DEF Injection, IsInjective
  <1>8. IsFiniteSet(1 .. n) /\ Cardinality(1 .. n) = n
    BY <1>1, FS_Interval
  <1>9. place \in Surjection(S, 1 .. n)
    <2> HIDE DEF place
    <2> QED BY <1>7, <1>8, FS_Injection DEF n
  <1>10. \A m \in 1 .. n : \E x \in S : place[x] = m
    <2> HIDE DEF place
    <2> QED BY <1>9 DEF Surjection
  <1>11. \A m \in 1 .. n : \E x \in S : Cardinality(ahead[x]) = m - 1
    <2> SUFFICES ASSUME NEW m \in 1 .. n PROVE \E x \in S : Cardinality(ahead[x]) = m - 1
      OBVIOUS
    <2>1. PICK x \in S : place[x] = m
      BY <1>10
    <2>2. Cardinality(ahead[x]) + 1 = m /\ Cardinality(ahead[x]) \in Nat
      BY <1>2, <2>1
    <2> QED BY <1>1, <2>2
  <1>12. \A x \in S : Cardinality(ahead[x]) \in 0 .. (n - 1)
    BY <1>1, <1>2
  <1> QED BY <1>1, <1>3, <1>4, <1>11, <1>12 DEF n

LEMMA IsSequence ==
    ASSUME NEW S, NEW n \in Nat, NEW f \in [1 .. n -> S]
    PROVE  f \in Seq(S) /\ Len(f) = n
  <1>1. \E m \in Nat : f \in [1 .. m -> S]
    OBVIOUS
  <1>2. Seq(S) = UNION {[1 .. m -> S] : m \in Nat}
    BY SeqDef
  <1>3. f \in Seq(S)
    BY Zenon, <1>1, <1>2
  <1>4. Len(f) \in Nat /\ DOMAIN f = 1 .. Len(f)
    BY <1>3, LenProperties
  <1>5. 1 .. Len(f) = 1 .. n
    BY <1>4
  <1>6. Len(f) = n
    BY <1>4, <1>5
  <1> QED BY <1>3, <1>6

\* InOrder lists every element once, each after those that are ahead of it.
LEMMA InOrderIs ==
    ASSUME NEW S, IsFiniteSet(S), NEW ahead, Orders(ahead, S)
    PROVE  LET n == Cardinality(S)
               order == InOrder(ahead)
           IN  /\ n \in Nat /\ order \in [1 .. n -> S] /\ order \in Seq(S) /\ Len(order) = n
               /\ \A m \in 1 .. n : Cardinality(ahead[order[m]]) = m - 1
               /\ \A x \in S : \E m \in 1 .. n : order[m] = x
               /\ \A i, j \in 1 .. n : order[i] = order[j] => i = j
               /\ \A i, j \in 1 .. n : i < j <=> order[i] \in ahead[order[j]]
  <1> DEFINE n == Cardinality(S)
             order == InOrder(ahead)
             At(m) == CHOOSE x \in S : Cardinality(ahead[x]) = m - 1
  <1>1. /\ n \in Nat
        /\ \A x \in S : Cardinality(ahead[x]) \in 0 .. (n - 1)
        /\ \A x, y \in S : x \in ahead[y] => Cardinality(ahead[x]) < Cardinality(ahead[y])
        /\ \A x, y \in S : Cardinality(ahead[x]) = Cardinality(ahead[y]) => x = y
        /\ \A m \in 1 .. n : \E x \in S : Cardinality(ahead[x]) = m - 1
    BY PlacesInOrder
  <1>2. DOMAIN ahead = S
    BY DEF Orders
  <1>3. order = [m \in 1 .. n |-> At(m)]
    BY <1>2 DEF InOrder
  <1> HIDE DEF n, order
  <1>4. \A m \in 1 .. n : At(m) \in S /\ Cardinality(ahead[At(m)]) = m - 1
    BY <1>1
  <1> HIDE DEF At
  <1>5. order \in [1 .. n -> S] /\ \A m \in 1 .. n : Cardinality(ahead[order[m]]) = m - 1
    BY <1>3, <1>4
  <1>6. order \in Seq(S) /\ Len(order) = n
    BY <1>1, <1>5, IsSequence
  <1>7. ASSUME NEW x \in S PROVE \E m \in 1 .. n : order[m] = x
    <2> DEFINE m == Cardinality(ahead[x]) + 1
    <2>1. m \in 1 .. n /\ m - 1 = Cardinality(ahead[x])
      BY <1>1
    <2> HIDE DEF m
    <2>2. order[m] \in S /\ Cardinality(ahead[order[m]]) = m - 1
      BY <1>5, <2>1
    <2> QED BY <1>1, <2>1, <2>2
  <1>8. ASSUME NEW i \in 1 .. n, NEW j \in 1 .. n, order[i] = order[j] PROVE i = j
    <2>1. i - 1 = j - 1
      BY <1>5, <1>8
    <2> QED BY <2>1
  <1>9. ASSUME NEW i \in 1 .. n, NEW j \in 1 .. n, order[i] \in ahead[order[j]] PROVE i < j
    <2>1. i - 1 < j - 1
      BY <1>1, <1>5, <1>9
    <2> QED BY <2>1
  <1>10. ASSUME NEW i \in 1 .. n, NEW j \in 1 .. n, i < j PROVE order[i] \in ahead[order[j]]
    <2>1. order[i] # order[j]
      BY <1>8, <1>10
    <2>2. order[i] \in S /\ order[j] \in S
      BY <1>5
    <2>3. order[i] \in ahead[order[j]] \/ order[j] \in ahead[order[i]]
      BY <2>1, <2>2 DEF Orders
    <2> QED BY <1>9, <1>10, <2>3
  <1> QED BY <1>1, <1>5, <1>6, <1>7, <1>8, <1>9, <1>10 DEF n, order

\* A finite set of numbers, in order.
LEMMA AscendingIs ==
    ASSUME NEW S \in SUBSET Nat, IsFiniteSet(S)
    PROVE  LET n == Cardinality(S)
               up == Ascending(S)
           IN  /\ n \in Nat /\ up \in [1 .. n -> S] /\ up \in Seq(S) /\ Len(up) = n
               /\ \A x \in S : \E m \in 1 .. n : up[m] = x
               /\ \A i, j \in 1 .. n : i < j <=> up[i] < up[j]
  <1> DEFINE ahead == [i \in S |-> {j \in S : j < i}]
  <1>1. Orders(ahead, S)
    <2>1. ahead \in [S -> SUBSET S] /\ \A x \in S : ahead[x] = {j \in S : j < x}
      OBVIOUS
    <2>2. \A x \in S : x \in Nat
      OBVIOUS
    <2> HIDE DEF ahead
    <2>3. \A x \in S : x \notin ahead[x]
      BY <2>1, <2>2
    <2>4. \A x, y \in S : x # y => x \in ahead[y] \/ y \in ahead[x]
      BY <2>1, <2>2
    <2>5. \A x, y \in S : x \in ahead[y] => ahead[x] \subseteq ahead[y]
      <3> SUFFICES ASSUME NEW x \in S, NEW y \in S, x \in ahead[y], NEW j \in ahead[x]
                   PROVE  j \in ahead[y]
        OBVIOUS
      <3>1. j \in S /\ j < x /\ x < y
        BY <2>1
      <3>2. j < y
        BY <2>2, <3>1
      <3> QED BY <2>1, <3>1, <3>2
    <2> QED BY <2>1, <2>3, <2>4, <2>5 DEF Orders
  <1>2. Ascending(S) = InOrder(ahead)
    BY DEF Ascending
  <1>3. \A x, y \in S : x \in ahead[y] <=> x < y
    OBVIOUS
  <1> HIDE DEF ahead
  <1> DEFINE n == Cardinality(S)
             up == Ascending(S)
  <1>4. /\ n \in Nat /\ up \in [1 .. n -> S] /\ up \in Seq(S) /\ Len(up) = n
        /\ \A x \in S : \E m \in 1 .. n : up[m] = x
        /\ \A i, j \in 1 .. n : i < j <=> up[i] \in ahead[up[j]]
    <2>1. up = InOrder(ahead)
      BY <1>2
    <2> HIDE DEF up
    <2> QED BY <1>1, <2>1, InOrderIs
  <1> HIDE DEF n, up
  <1>5. \A i, j \in 1 .. n : i < j <=> up[i] < up[j]
    BY <1>3, <1>4
  <1> QED BY <1>4, <1>5 DEF n, up

-----------------------------------------------------------------------------
(* Fusion, for every K that covers the over-fetch                           *)

Fetched == 0..(MaxTopK * Overfetch - 1)

(***************************************************************************)
(* A product of two ranks below K is below K * K.                           *)
(***************************************************************************)
LEMMA RanksBelowK ==
    ASSUME NEW r \in Fetched, NEW s \in Fetched
    PROVE  r * s < K * K
<1>1. K \in Nat /\ r \in Nat /\ s \in Nat /\ MaxTopK * Overfetch \in Nat
  BY FusionAssumption DEF Fetched
<1>2. r < K /\ s < K
  BY <1>1, FusionAssumption DEF Fetched
<1>3. r * s <= r * K
  BY <1>1, <1>2
<1>4. r * K < K * K
  BY <1>1, <1>2
<1>5. r * s \in Nat /\ r * K \in Nat /\ K * K \in Nat
  BY <1>1
<1>. QED  BY <1>3, <1>4, <1>5

(***************************************************************************)
(* A chunk that both searches found outranks every chunk that only one of   *)
(* them found, wherever the three ranks are: this is what the fusion is     *)
(* for, and it holds because config.py's constant is not below the number   *)
(* of hits a search may return (60 and 30 * 2).                             *)
(***************************************************************************)
THEOREM BothBeatOne ==
    ASSUME NEW r \in Fetched, NEW s \in Fetched, NEW t \in Nat
    PROVE  Exceeds(Both(r, s), One(t))
<1>1. K \in Nat /\ r \in Nat /\ s \in Nat /\ K # 0
  BY FusionAssumption DEF Fetched
<1>2. r * s < K * K
  BY RanksBelowK
<1>3. (K + r) * (K + s) = K * K + K * r + K * s + r * s
  BY <1>1
<1>4. ((K + r) + (K + s)) * (K + t)
        = K * K + K * K + K * r + K * s + (K + K + r + s) * t
  BY <1>1
<1>5. (K + K + r + s) * t \in Nat
  BY <1>1
<1>6. K * K \in Nat /\ K * r \in Nat /\ K * s \in Nat /\ r * s \in Nat
  BY <1>1
<1>7. ((K + r) + (K + s)) * (K + t) > 1 * ((K + r) * (K + s))
  BY <1>2, <1>3, <1>4, <1>5, <1>6
<1>. QED  BY <1>7 DEF Exceeds, Both, One

(***************************************************************************)
(* A chunk ranked no lower by either search and higher by one outranks the  *)
(* other: the merge never turns an agreement of the two searches round.     *)
(***************************************************************************)
THEOREM AgreementStands ==
    ASSUME NEW r \in Nat, NEW s \in Nat, NEW p \in Nat, NEW q \in Nat,
           r <= p, s <= q, r < p \/ s < q
    PROVE  Exceeds(Both(r, s), Both(p, q))
<1>. DEFINE A == K + r
            B == K + s
            C == K + p
            D == K + q
<1>1. A \in Nat \ {0} /\ B \in Nat \ {0} /\ C \in Nat \ {0} /\ D \in Nat \ {0}
  BY FusionAssumption
<1>2. A <= C /\ B <= D /\ (A < C \/ B < D)
  BY FusionAssumption
<1>. HIDE DEF A, B, C, D
\* (A + B) * (C * D) - (C + D) * (A * B) = A * C * (D - B) + B * D * (C - A)
<1>3. PICK x \in Nat : C = A + x
  <2>1. C - A \in Nat /\ C = A + (C - A)  BY <1>1, <1>2
  <2>. QED  BY <2>1
<1>4. PICK y \in Nat : D = B + y
  <2>1. D - B \in Nat /\ D = B + (D - B)  BY <1>1, <1>2
  <2>. QED  BY <2>1
<1>5. x > 0 \/ y > 0
  BY <1>1, <1>2, <1>3, <1>4
<1>6. (A + B) * (C * D) = (C + D) * (A * B) + (A * C) * y + (B * D) * x
  BY <1>1, <1>3, <1>4
<1>7. A * C \in Nat \ {0} /\ B * D \in Nat \ {0}
  BY <1>1
<1>8. (A * C) * y + (B * D) * x > 0
  BY <1>5, <1>7
<1>9. (C + D) * (A * B) \in Nat /\ (A * C) * y \in Nat /\ (B * D) * x \in Nat
  BY <1>1, <1>7
<1>10. (A + B) * (C * D) > (C + D) * (A * B)
  BY <1>6, <1>8, <1>9
<1>. QED  BY <1>10 DEF Exceeds, Both, A, B, C, D

-----------------------------------------------------------------------------
(* Scores as fractions                                                     *)

Fraction == [num : Nat \ {0}, den : Nat \ {0}]

LEMMA Cancel ==
    ASSUME NEW a \in Nat, NEW b \in Nat, NEW d \in Nat \ {0}, d * a <= d * b
    PROVE  a <= b
  <1>1. a > b => \E x \in Nat : a = b + 1 + x
    <2>1. a > b => a - b - 1 \in Nat /\ a = b + 1 + (a - b - 1)
      OBVIOUS
    <2> QED BY <2>1
  <1>2. ASSUME NEW x \in Nat, a = b + 1 + x PROVE FALSE
    <2>1. d * a = d * b + d + d * x
      BY <1>2
    <2>2. d * b \in Nat /\ d * x \in Nat
      OBVIOUS
    <2> QED BY <2>1, <2>2
  <1> QED BY <1>1, <1>2

LEMMA Scale ==
    ASSUME NEW a \in Nat, NEW b \in Nat, NEW d \in Nat, a <= b
    PROVE  d * a <= d * b
  <1>1. PICK x \in Nat : b = a + x
    <2>1. b - a \in Nat /\ b = a + (b - a)
      OBVIOUS
    <2> QED BY <2>1
  <1>2. d * b = d * a + d * x
    BY <1>1
  <1>3. d * a \in Nat /\ d * x \in Nat
    BY <1>1
  <1> QED BY <1>2, <1>3

\* "Not exceeded by" is transitive ...
LEMMA AtLeast ==
    ASSUME NEW p \in Fraction, NEW q \in Fraction, NEW r \in Fraction,
           ~ Exceeds(q, p), ~ Exceeds(r, q)
    PROVE  ~ Exceeds(r, p)
  <1> DEFINE a == p.num b == p.den c == q.num d == q.den e == r.num f == r.den
  <1>1. /\ a \in Nat \ {0} /\ b \in Nat \ {0} /\ c \in Nat \ {0}
        /\ d \in Nat \ {0} /\ e \in Nat \ {0} /\ f \in Nat \ {0}
    BY DEF Fraction
  <1> HIDE DEF a, b, c, d, e, f
  <1>2. a * d \in Nat /\ c * b \in Nat /\ c * f \in Nat /\ e * d \in Nat
    BY <1>1
  <1>3. c * b <= a * d /\ e * d <= c * f
    <2>1. ~ (c * b > a * d) /\ ~ (e * d > c * f)
      BY DEF Exceeds, a, b, c, d, e, f
    <2> QED BY <1>2, <2>1
  <1>4. b * (e * d) <= b * (c * f) /\ f * (c * b) <= f * (a * d)
    BY <1>1, <1>2, <1>3, Scale
  <1>5. b * (c * f) = f * (c * b)
    BY <1>1
  <1>6. b * (e * d) = d * (e * b) /\ f * (a * d) = d * (a * f)
    BY <1>1
  <1>7. /\ e * b \in Nat /\ a * f \in Nat /\ b * (e * d) \in Nat
        /\ b * (c * f) \in Nat /\ f * (a * d) \in Nat
    BY <1>1, <1>2
  <1>8. d * (e * b) <= d * (a * f)
    BY <1>4, <1>5, <1>6, <1>7
  <1>9. e * b <= a * f
    BY <1>1, <1>7, <1>8, Cancel
  <1>10. ~ (e * b > a * f)
    BY <1>7, <1>9
  <1> QED BY <1>10 DEF Exceeds, a, b, c, d, e, f

LEMMA Asymmetric ==
    ASSUME NEW p \in Fraction, NEW q \in Fraction, Exceeds(p, q)
    PROVE  ~ Exceeds(q, p)
  <1>1. p.num * q.den \in Nat /\ q.num * p.den \in Nat
    BY DEF Fraction
  <1> QED BY <1>1 DEF Exceeds

\* ... and "exceeds" goes with it on either side.
LEMMA ExceedsFirst ==
    ASSUME NEW p \in Fraction, NEW q \in Fraction, NEW r \in Fraction,
           Exceeds(p, q), ~ Exceeds(r, q)
    PROVE  Exceeds(p, r)
  BY AtLeast

LEMMA ExceedsSecond ==
    ASSUME NEW p \in Fraction, NEW q \in Fraction, NEW r \in Fraction,
           ~ Exceeds(q, p), Exceeds(q, r)
    PROVE  Exceeds(p, r)
  BY AtLeast

LEMMA ScoresAreFractions ==
    ASSUME NEW r \in Nat, NEW s \in Nat
    PROVE  One(r) \in Fraction /\ Both(r, s) \in Fraction
  <1>1. K + r \in Nat \ {0} /\ K + s \in Nat \ {0}
    BY FusionAssumption
  <1>2. (K + r) + (K + s) \in Nat \ {0} /\ (K + r) * (K + s) \in Nat \ {0}
    BY <1>1
  <1> QED BY <1>1, <1>2 DEF One, Both, Fraction

-----------------------------------------------------------------------------
(* The merge                                                               *)

\* What a search returns: no chunk twice, and no more than was asked for.
Ranking(list, S) ==
    /\ list \in Seq(S)
    /\ \A i, j \in DOMAIN list : list[i] = list[j] => i = j
    /\ Len(list) <= MaxTopK * Overfetch

LEMMA RankIn ==
    ASSUME NEW S, NEW list, Ranking(list, S), NEW c \in ToSet(list)
    PROVE  /\ Rank(list, c) \in Fetched /\ Rank(list, c) \in Nat
           /\ Rank(list, c) < Len(list) /\ Len(list) \in Nat
           /\ Rank(list, c) + 1 \in DOMAIN list /\ list[Rank(list, c) + 1] = c
  <1>1. Len(list) \in Nat /\ DOMAIN list = 1 .. Len(list)
    BY LenProperties DEF Ranking
  <1>2. PICK i \in DOMAIN list : list[i] = c
    BY DEF ToSet
  <1>3. (CHOOSE k \in DOMAIN list : list[k] = c) = i
    BY <1>2 DEF Ranking
  <1>4. Rank(list, c) = i - 1
    BY <1>3 DEF Rank
  <1>5. MaxTopK * Overfetch \in Nat
    BY FusionAssumption
  <1>6. i \in 1 .. Len(list) /\ Len(list) <= MaxTopK * Overfetch
    BY <1>1 DEF Ranking
  <1> QED BY <1>1, <1>2, <1>4, <1>5, <1>6 DEF Fetched

LEMMA RanksDiffer ==
    ASSUME NEW S, NEW list, Ranking(list, S), NEW c \in ToSet(list),
           NEW d \in ToSet(list), Rank(list, c) = Rank(list, d)
    PROVE  c = d
  BY RankIn

LEMMA ToSetFinite ==
    ASSUME NEW S, NEW list, Ranking(list, S) PROVE IsFiniteSet(ToSet(list))
  <1>1. Len(list) \in Nat /\ DOMAIN list = 1 .. Len(list)
    BY LenProperties DEF Ranking
  <1>2. IsFiniteSet(DOMAIN list)
    BY <1>1, FS_Interval
  <1>3. list \in Surjection(DOMAIN list, ToSet(list))
    BY DEF Surjection, ToSet, Ranking
  <1> QED BY <1>2, <1>3, FS_Surjection

LEMMA ScoreType ==
    ASSUME NEW S, NEW kw, NEW vec, Ranking(kw, S), Ranking(vec, S),
           NEW c \in ToSet(kw) \cup ToSet(vec)
    PROVE  Score(kw, vec, c) \in Fraction
  <1>1. c \in ToSet(kw) => Rank(kw, c) \in Nat
    BY RankIn
  <1>2. c \in ToSet(vec) => Rank(vec, c) \in Nat
    BY RankIn
  <1> QED BY <1>1, <1>2, ScoresAreFractions DEF Score, InBoth

\* Every chunk enters the dict of scores at a time of its own.
LEMMA EntriesDiffer ==
    ASSUME NEW S, NEW kw, NEW vec, Ranking(kw, S), Ranking(vec, S),
           NEW c \in ToSet(kw) \cup ToSet(vec), NEW d \in ToSet(kw) \cup ToSet(vec)
    PROVE  /\ Entry(kw, vec, c) \in Nat
           /\ Entry(kw, vec, c) = Entry(kw, vec, d) => c = d
  <1>1. \A x \in ToSet(kw) : Rank(kw, x) \in Nat /\ Rank(kw, x) < Len(kw)
    BY RankIn
  <1>2. \A x \in ToSet(vec) : Rank(vec, x) \in Nat
    BY RankIn
  <1>3. Len(kw) \in Nat
    BY LenProperties DEF Ranking
  <1>4. CASE c \in ToSet(kw) /\ d \in ToSet(kw)
    BY <1>1, <1>4, RanksDiffer DEF Entry
  <1>5. CASE c \in ToSet(kw) /\ d \notin ToSet(kw)
    BY <1>1, <1>2, <1>3, <1>5 DEF Entry
  <1>6. CASE c \notin ToSet(kw) /\ d \in ToSet(kw)
    BY <1>1, <1>2, <1>3, <1>6 DEF Entry
  <1>7. CASE c \notin ToSet(kw) /\ d \notin ToSet(kw)
    <2>1. Entry(kw, vec, c) = Len(kw) + Rank(vec, c) /\ Entry(kw, vec, d) = Len(kw) + Rank(vec, d)
      BY <1>7 DEF Entry
    <2>2. c \in ToSet(vec) /\ d \in ToSet(vec)
      BY <1>7
    <2>3. Entry(kw, vec, c) = Entry(kw, vec, d) => Rank(vec, c) = Rank(vec, d)
      BY <1>2, <1>3, <2>1, <2>2
    <2> QED BY <1>2, <1>3, <2>1, <2>2, <2>3, RanksDiffer
  <1> QED BY <1>4, <1>5, <1>6, <1>7

LEMMA MergeOrders ==
    ASSUME NEW S, NEW kw, NEW vec, Ranking(kw, S), Ranking(vec, S)
    PROVE  Orders(Better(kw, vec), ToSet(kw) \cup ToSet(vec))
  <1> DEFINE All == ToSet(kw) \cup ToSet(vec)
             sc(c) == Score(kw, vec, c)
             en(c) == Entry(kw, vec, c)
             B(c, d) == Before(kw, vec, c, d)
  <1>1. \A c \in All : sc(c) \in Fraction
    BY ScoreType
  <1>2. \A c, d \in All : en(c) \in Nat /\ (en(c) = en(d) => c = d)
    BY EntriesDiffer
  <1>3. \A c, d : B(c, d) <=> \/ Exceeds(sc(c), sc(d))
                              \/ ~ Exceeds(sc(d), sc(c)) /\ en(c) < en(d)
    BY DEF Before
  <1> HIDE DEF All, sc, en, B
  <1>4. ASSUME NEW c \in All PROVE ~ B(c, c)
    BY <1>1, <1>2, <1>3, Asymmetric
  <1>5. ASSUME NEW c \in All, NEW d \in All, c # d PROVE B(c, d) \/ B(d, c)
    <2>1. en(c) < en(d) \/ en(d) < en(c)
      BY <1>2, <1>5
    <2> QED BY <1>3, <2>1
  <1>6. ASSUME NEW c \in All, NEW d \in All, NEW e \in All, B(e, c), B(c, d)
        PROVE  B(e, d)
    <2>0. sc(c) \in Fraction /\ sc(d) \in Fraction /\ sc(e) \in Fraction
      BY <1>1
    <2>1. CASE Exceeds(sc(e), sc(c))
      <3>1. ~ Exceeds(sc(d), sc(c))
        BY <1>3, <1>6, <2>0, Asymmetric
      <3> QED BY <1>3, <2>0, <2>1, <3>1, ExceedsFirst
    <2>2. CASE ~ Exceeds(sc(c), sc(e)) /\ Exceeds(sc(c), sc(d))
      BY <1>3, <2>0, <2>2, ExceedsSecond
    <2>3. CASE /\ ~ Exceeds(sc(c), sc(e)) /\ en(e) < en(c)
               /\ ~ Exceeds(sc(d), sc(c)) /\ en(c) < en(d)
      <3>1. ~ Exceeds(sc(d), sc(e))
        BY <2>0, <2>3, AtLeast
      <3>2. en(e) < en(d)
        BY <1>2, <2>3
      <3> QED BY <1>3, <3>1, <3>2
    <2> QED BY <1>3, <1>6, <2>1, <2>2, <2>3
  <1>7. Better(kw, vec) = [c \in All |-> {d \in All : B(d, c)}]
    BY DEF Better, All, B
  <1> QED BY <1>4, <1>5, <1>6, <1>7 DEF Orders, All

\* The merge takes the chunks by their number of chunks ahead.
LEMMA MergeIs ==
    ASSUME NEW S, NEW kw, NEW vec, Ranking(kw, S), Ranking(vec, S), NEW top_k \in Nat
    PROVE  LET all == ToSet(kw) \cup ToSet(vec)
               n == IF Cardinality(all) < top_k THEN Cardinality(all) ELSE top_k
               merged == _rrf_merge(kw, vec, top_k)
           IN  /\ n \in Nat /\ n <= Cardinality(all) /\ Cardinality(all) \in Nat
               /\ merged \in [1 .. n -> all]
               /\ \A m \in 1 .. n : Cardinality(Better(kw, vec)[merged[m]]) = m - 1
  <1> DEFINE all == ToSet(kw) \cup ToSet(vec)
             ahead == Better(kw, vec)
             order == InOrder(ahead)
             n == IF Cardinality(all) < top_k THEN Cardinality(all) ELSE top_k
             merged == _rrf_merge(kw, vec, top_k)
  <1>1. IsFiniteSet(all) /\ Orders(ahead, all)
    BY ToSetFinite, FS_Union, MergeOrders
  <1>2. merged = [m \in 1 .. (IF Len(order) < top_k THEN Len(order) ELSE top_k) |-> order[m]]
    BY DEF _rrf_merge
  <1> HIDE DEF all, ahead, order, merged
  <1>3. /\ Cardinality(all) \in Nat /\ Len(order) = Cardinality(all)
        /\ order \in [1 .. Cardinality(all) -> all]
        /\ \A m \in 1 .. Cardinality(all) : Cardinality(ahead[order[m]]) = m - 1
    BY <1>1, InOrderIs DEF order
  <1>4. n \in Nat /\ n <= Cardinality(all) /\ merged = [m \in 1 .. n |-> order[m]]
    <2>1. (IF Len(order) < top_k THEN Len(order) ELSE top_k) = n
      BY <1>3
    <2>2. n \in Nat /\ n <= Cardinality(all)
      BY <1>3
    <2> HIDE DEF n
    <2> QED BY <1>2, <2>1, <2>2
  <1> HIDE DEF n
  <1>5. \A m \in 1 .. n : m \in 1 .. Cardinality(all)
    BY <1>3, <1>4
  <1>6. \A m \in 1 .. n : order[m] \in all /\ Cardinality(ahead[order[m]]) = m - 1
    BY <1>3, <1>5
  <1>7. merged \in [1 .. n -> all] /\ \A m \in 1 .. n : Cardinality(ahead[merged[m]]) = m - 1
    BY <1>4, <1>6
  <1> QED BY <1>3, <1>4, <1>7 DEF all, ahead, n, merged

\* A higher score puts a chunk ahead.
LEMMA HigherIsAhead ==
    ASSUME NEW kw, NEW vec, NEW c \in ToSet(kw) \cup ToSet(vec),
           NEW d \in ToSet(kw) \cup ToSet(vec),
           Exceeds(Score(kw, vec, c), Score(kw, vec, d))
    PROVE  c \in Better(kw, vec)[d]
  BY DEF Better, Before

LEMMA EarlierBeatsLater ==
    ASSUME NEW r \in Nat, NEW s \in Nat, r < s
    PROVE  Exceeds(One(r), One(s))
  <1>1. 1 * (K + s) > 1 * (K + r)
    BY FusionAssumption
  <1> QED BY <1>1 DEF Exceeds, One

LEMMA BothIsHigher ==
    ASSUME NEW S, NEW kw, NEW vec, Ranking(kw, S), Ranking(vec, S),
           NEW c \in ToSet(kw) \cup ToSet(vec), NEW d \in ToSet(kw) \cup ToSet(vec),
           InBoth(kw, vec, c), ~ InBoth(kw, vec, d)
    PROVE  Exceeds(Score(kw, vec, c), Score(kw, vec, d))
  <1>1. Score(kw, vec, c) = Both(Rank(kw, c), Rank(vec, c))
    BY DEF Score
  <1>2. Rank(kw, c) \in Fetched /\ Rank(vec, c) \in Fetched
    BY RankIn DEF InBoth
  <1>3. PICK t \in Nat : Score(kw, vec, d) = One(t)
    <2>1. d \in ToSet(kw) => Rank(kw, d) \in Nat
      BY RankIn
    <2>2. d \in ToSet(vec) => Rank(vec, d) \in Nat
      BY RankIn
    <2> QED BY <2>1, <2>2 DEF Score
  <1> QED BY <1>1, <1>2, <1>3, BothBeatOne

LEMMA DominantIsHigher ==
    ASSUME NEW S, NEW kw, NEW vec, Ranking(kw, S), Ranking(vec, S),
           NEW c \in ToSet(kw) \cup ToSet(vec), NEW d \in ToSet(kw) \cup ToSet(vec),
           Dominates(kw, vec, c, d)
    PROVE  Exceeds(Score(kw, vec, c), Score(kw, vec, d))
  <1>1. /\ d \in ToSet(kw) => c \in ToSet(kw) /\ Rank(kw, c) <= Rank(kw, d)
        /\ d \in ToSet(vec) => c \in ToSet(vec) /\ Rank(vec, c) <= Rank(vec, d)
        /\ c # d
    BY DEF Dominates
  <1>2. /\ \A x \in ToSet(kw) : Rank(kw, x) \in Nat
        /\ \A x \in ToSet(vec) : Rank(vec, x) \in Nat
    BY RankIn
  <1>3. d \in ToSet(kw) => Rank(kw, c) < Rank(kw, d)
    <2>1. d \in ToSet(kw) => Rank(kw, c) # Rank(kw, d)
      BY <1>1, RanksDiffer
    <2> QED BY <1>1, <1>2, <2>1
  <1>4. d \in ToSet(vec) => Rank(vec, c) < Rank(vec, d)
    <2>1. d \in ToSet(vec) => Rank(vec, c) # Rank(vec, d)
      BY <1>1, RanksDiffer
    <2> QED BY <1>1, <1>2, <2>1
  <1>5. CASE InBoth(kw, vec, d)
    <2>1. InBoth(kw, vec, c)
      BY <1>1, <1>5 DEF InBoth
    <2>2. /\ Score(kw, vec, c) = Both(Rank(kw, c), Rank(vec, c))
          /\ Score(kw, vec, d) = Both(Rank(kw, d), Rank(vec, d))
      BY <1>5, <2>1 DEF Score
    <2>3. d \in ToSet(kw) /\ d \in ToSet(vec)
      BY <1>5 DEF InBoth
    <2> QED BY <1>1, <1>2, <1>3, <1>4, <2>2, <2>3, AgreementStands
  <1>6. CASE ~ InBoth(kw, vec, d) /\ InBoth(kw, vec, c)
    BY <1>6, BothIsHigher
  <1>7. CASE ~ InBoth(kw, vec, d) /\ ~ InBoth(kw, vec, c)
    <2>1. CASE d \in ToSet(kw)
      <3>1. Score(kw, vec, c) = One(Rank(kw, c)) /\ Score(kw, vec, d) = One(Rank(kw, d))
        BY <1>1, <1>7, <2>1 DEF Score
      <3> QED BY <1>1, <1>2, <1>3, <2>1, <3>1, EarlierBeatsLater
    <2>2. CASE d \notin ToSet(kw)
      <3>1. d \in ToSet(vec) /\ c \in ToSet(vec) /\ c \notin ToSet(kw)
        BY <1>1, <1>7, <2>2 DEF InBoth
      <3>2. Score(kw, vec, c) = One(Rank(vec, c)) /\ Score(kw, vec, d) = One(Rank(vec, d))
        BY <1>7, <2>2, <3>1 DEF Score
      <3> QED BY <1>1, <1>2, <1>4, <3>1, <3>2, EarlierBeatsLater
    <2> QED BY <2>1, <2>2
  <1> QED BY <1>5, <1>6, <1>7

(***************************************************************************)
(* Every merge is fair: of any two rankings that name no chunk twice and    *)
(* are no longer than the over-fetch allows, for any top_k, any constant    *)
(* that covers the over-fetch.  What both searches found comes before what  *)
(* one found, an order on which they agree stands, nothing comes twice, and *)
(* nothing is left out while there is room (retriever_hybrid.py:164-200).   *)
(***************************************************************************)
THEOREM MergesFairly ==
    ASSUME NEW S, NEW kw, NEW vec, Ranking(kw, S), Ranking(vec, S), NEW top_k \in Nat
    PROVE  FairMerge(kw, vec, top_k, _rrf_merge(kw, vec, top_k))
  <1> DEFINE all == ToSet(kw) \cup ToSet(vec)
             ahead == Better(kw, vec)
             n == IF Cardinality(all) < top_k THEN Cardinality(all) ELSE top_k
             merged == _rrf_merge(kw, vec, top_k)
  <1>1. /\ n \in Nat /\ n <= Cardinality(all) /\ Cardinality(all) \in Nat
        /\ merged \in [1 .. n -> all]
        /\ \A m \in 1 .. n : Cardinality(ahead[merged[m]]) = m - 1
    BY MergeIs
  <1>2. IsFiniteSet(all) /\ Orders(ahead, all)
    BY ToSetFinite, FS_Union, MergeOrders
  <1>3. \A x, y \in all : x \in ahead[y] => Cardinality(ahead[x]) < Cardinality(ahead[y])
    BY <1>2, PlacesInOrder
  <1>4. \A x, y \in all : Cardinality(ahead[x]) = Cardinality(ahead[y]) => x = y
    BY <1>2, PlacesInOrder
  <1>5. \A x \in all : Cardinality(ahead[x]) \in Nat
    BY <1>1, <1>2, PlacesInOrder
  <1>6. \A c, d \in all : InBoth(kw, vec, c) /\ ~ InBoth(kw, vec, d) => c \in ahead[d]
    BY BothIsHigher, HigherIsAhead
  <1>7. \A c, d \in all : Dominates(kw, vec, c, d) => c \in ahead[d]
    BY DominantIsHigher, HigherIsAhead
  <1>8. Len(merged) = n
    <2> HIDE DEF all, ahead, n, merged
    <2> QED BY <1>1, IsSequence
  <1> DEFINE fair == FairMerge(kw, vec, top_k, merged)
  <1>9. fair <=> /\ Len(merged) = n
                 /\ ToSet(merged) \subseteq all
                 /\ \A i, j \in DOMAIN merged : merged[i] = merged[j] => i = j
                 /\ \A c, d \in all :
                       \/ InBoth(kw, vec, c) /\ ~InBoth(kw, vec, d)
                       \/ Dominates(kw, vec, c, d)
                       => (d \in ToSet(merged) =>
                             \E i, j \in DOMAIN merged :
                                i < j /\ merged[i] = c /\ merged[j] = d)
    <2> HIDE DEF merged
    <2> QED BY DEF FairMerge
  <1> HIDE DEF all, ahead, n, merged, fair
  <1>10. DOMAIN merged = 1 .. n
    BY <1>1
  <1>11. ToSet(merged) \subseteq all
    BY <1>1 DEF ToSet
  <1>12. \A i, j \in DOMAIN merged : merged[i] = merged[j] => i = j
    <2> SUFFICES ASSUME NEW i \in 1 .. n, NEW j \in 1 .. n, merged[i] = merged[j]
                 PROVE  i = j
      BY <1>10
    <2>1. i - 1 = j - 1
      BY <1>1
    <2> QED BY <2>1
  <1>13. ASSUME NEW c \in all, NEW d \in all, c \in ahead[d], d \in ToSet(merged)
         PROVE  \E i, j \in DOMAIN merged : i < j /\ merged[i] = c /\ merged[j] = d
    <2>1. PICK j \in 1 .. n : merged[j] = d
      BY <1>10, <1>13 DEF ToSet
    <2>2. Cardinality(ahead[d]) = j - 1
      BY <1>1, <2>1
    <2>3. Cardinality(ahead[c]) \in Nat /\ Cardinality(ahead[c]) < j - 1
      BY <1>3, <1>5, <1>13, <2>2
    <2> DEFINE i == Cardinality(ahead[c]) + 1
    <2>4. i \in 1 .. n /\ i < j
      BY <1>1, <2>3
    <2>5. Cardinality(ahead[merged[i]]) = Cardinality(ahead[c])
      <3>1. Cardinality(ahead[merged[i]]) = i - 1
        BY <1>1, <2>4
      <3> QED BY <2>3, <3>1
    <2>6. merged[i] = c
      BY <1>1, <1>4, <2>4, <2>5
    <2> HIDE DEF i
    <2> QED BY <1>10, <2>1, <2>4, <2>6
  <1>14. fair
    BY <1>6, <1>7, <1>8, <1>9, <1>11, <1>12, <1>13
  <1> QED BY <1>14 DEF fair, merged

\* The rankings that a run merges are what MergesFairly asks for.
LEMMA ListsAreRankings ==
    ASSUME NEW l \in Lists
    PROVE  Ranking(l, Ranked)
  <1>1. PICK n \in 0 .. (MaxTopK * Overfetch) : l \in [1 .. n -> Ranked]
    BY DEF Lists
  <1>2. MaxTopK * Overfetch \in Nat
    BY FusionAssumption
  <1>3. n \in Nat /\ n <= MaxTopK * Overfetch
    BY <1>1, <1>2
  <1>4. l \in Seq(Ranked) /\ Len(l) = n
    BY <1>1, <1>3
  <1>5. \A i, j \in DOMAIN l : l[i] = l[j] => i = j
    BY DEF Lists, IsInjective
  <1> QED BY <1>3, <1>4, <1>5 DEF Ranking

(***************************************************************************)
(* Every merge that is made is fair (retriever_hybrid.py:164-200): what     *)
(* MergeIsFair says of one state holds in every state that Transforms can   *)
(* reach, whatever the rankings, their number and the constants.            *)
(***************************************************************************)
THEOREM MergeFair == TransformsSpec => []MergeIsFair
  <1>1. TransformsInit => MergeIsFair
    BY DEF TransformsInit, NoJob, MergeIsFair
  <1>2. MergeIsFair /\ [TransformsNext]_job => MergeIsFair'
    <2> SUFFICES ASSUME MergeIsFair, [TransformsNext]_job PROVE MergeIsFair'
      OBVIOUS
    <2>1. CASE FusesRankings
      <3>1. PICK kw \in Lists, vec \in Lists, k \in 1 .. MaxTopK :
               job' = [kind |-> "fused", kw |-> kw, vec |-> vec, top_k |-> k,
                       merged |-> _rrf_merge(kw, vec, k)]
        BY <2>1 DEF FusesRankings
      <3>2. k \in Nat
        BY FusionAssumption
      <3>3. Ranking(kw, Ranked) /\ Ranking(vec, Ranked)
        BY ListsAreRankings
      <3>4. FairMerge(kw, vec, k, _rrf_merge(kw, vec, k))
        BY <3>2, <3>3, MergesFairly
      <3> DEFINE merged == _rrf_merge(kw, vec, k)
      <3>5. job'.kw = kw /\ job'.vec = vec /\ job'.top_k = k /\ job'.merged = merged
        BY <3>1
      <3> HIDE DEF merged
      <3>6. FairMerge(job'.kw, job'.vec, job'.top_k, job'.merged)
        BY <3>4, <3>5 DEF merged
      <3> QED BY <3>6 DEF MergeIsFair, FairMerge
    <2>2. CASE ChunksPlain
      <3>1. job'.kind = "plain"
        BY <2>2 DEF ChunksPlain
      <3> QED BY <3>1 DEF MergeIsFair
    <2>3. CASE ChunksTimed
      <3>1. job'.kind = "timed"
        BY <2>3 DEF ChunksTimed
      <3> QED BY <3>1 DEF MergeIsFair
    <2>4. CASE HandsOver
      <3>1. job'.kind = "none"
        BY <2>4 DEF HandsOver, NoJob
      <3> QED BY <3>1 DEF MergeIsFair
    <2>5. CASE UNCHANGED job
      BY <2>5 DEF MergeIsFair
    <2> QED BY <2>1, <2>2, <2>3, <2>4, <2>5 DEF TransformsNext
  <1> QED BY <1>1, <1>2, PTL DEF TransformsSpec

-----------------------------------------------------------------------------
(* Rankings                                                                *)

\* A set of numbers has a least one.
LEMMA LeastNatural ==
    ASSUME NEW S \in SUBSET Nat, S # {}
    PROVE  \E m \in S : \A n \in S : m <= n
  <1> DEFINE R == OpToRel(<, Nat)
  <1>1. IsWellFoundedOn(R, Nat)
    BY NatLessThanWellFounded
  <1>2. \A x, y \in Nat : y < x => <<y, x>> \in R
    BY DEF OpToRel
  <1> HIDE DEF R
  <1>3. PICK m \in S : \A n \in S : ~ (<<n, m>> \in R)
    BY <1>1, WFMin
  <1>4. ASSUME NEW n \in S PROVE m <= n
    <2>1. ~ (n < m)
      BY <1>2, <1>3, n \in Nat, m \in Nat, Zenon
    <2> QED BY <2>1
  <1> QED BY <1>4

\* Min is the least number of a set.
LEMMA MinIs ==
    ASSUME NEW S \in SUBSET Nat, S # {}
    PROVE  Min(S) \in S /\ \A x \in S : Min(S) <= x
  BY LeastNatural DEF Min

\* The recursive function of Rankings exists.
LEMMA BestExists ==
    ASSUME NEW rows, NEW size \in Nat
    PROVE  \E f : f = [k \in 0 .. size |->
                         IF k = 0 THEN {<<>>} ELSE Longer(rows, f[k - 1])]
  <1> DEFINE Is(f, m) == f = [k \in 0 .. m |->
                                IF k = 0 THEN {<<>>} ELSE Longer(rows, f[k - 1])]
             bad == {m \in Nat : ~ \E f : Is(f, m)}
  <1>1. 0 \notin bad
    <2>1. Is([k \in 0 .. 0 |-> {<<>>}], 0)
      OBVIOUS
    <2> HIDE DEF Is
    <2> QED BY <2>1
  <1>2. ASSUME NEW m \in Nat, m # 0, NEW f, Is(f, m - 1) PROVE \E g : Is(g, m)
    <2> DEFINE g == [k \in 0 .. m |-> IF k < m THEN f[k] ELSE Longer(rows, f[m - 1])]
    <2>1. ASSUME NEW k \in 0 .. m
          PROVE  g[k] = IF k = 0 THEN {<<>>} ELSE Longer(rows, g[k - 1])
      <3>1. CASE k = m
        <4>1. g[k] = Longer(rows, f[m - 1]) /\ m - 1 \in 0 .. m /\ m - 1 < m
          BY <1>2, <3>1
        <4>2. g[k - 1] = f[m - 1]
          BY <3>1, <4>1
        <4> QED BY <1>2, <3>1, <4>1, <4>2
      <3>2. CASE k # m /\ k = 0
        <4>1. g[k] = f[k] /\ k \in 0 .. (m - 1)
          BY <1>2, <3>2
        <4> QED BY <1>2, <3>2, <4>1
      <3>3. CASE k # m /\ k # 0
        <4>1. g[k] = f[k] /\ k \in 0 .. (m - 1) /\ k - 1 \in 0 .. m /\ k - 1 < m
          BY <1>2, <3>3
        <4>2. g[k - 1] = f[k - 1]
          BY <4>1
        <4> QED BY <1>2, <3>3, <4>1, <4>2
      <3> QED BY <3>1, <3>2, <3>3
    <2>2. g = [k \in 0 .. m |-> g[k]]
      OBVIOUS
    <2> HIDE DEF g
    <2>3. Is(g, m)
      BY <2>1, <2>2
    <2> QED BY <2>3
  <1>3. bad = {}
    <2> SUFFICES ASSUME bad # {} PROVE FALSE
      OBVIOUS
    <2>1. bad \in SUBSET Nat
      OBVIOUS
    <2>2. PICK m \in bad : \A n \in bad : m <= n
      BY <2>1, LeastNatural
    <2>3. m \in Nat /\ m # 0 /\ ~ \E f : Is(f, m)
      BY <1>1, <2>2
    <2>4. m - 1 \in Nat /\ m - 1 < m
      BY <2>3
    <2> HIDE DEF Is
    <2>5. m - 1 \notin bad
      <3> HIDE DEF bad
      <3> QED BY <2>2, <2>3, <2>4
    <2>6. PICK f : Is(f, m - 1)
      BY <2>4, <2>5
    <2> QED BY <1>2, <2>3, <2>6
  <1> HIDE DEF Is
  <1>4. \E f : Is(f, size)
    BY <1>3
  <1> QED BY <1>4 DEF Is

\* What a search may return: that many rows, none twice.
LEMMA RankingsAre ==
    ASSUME NEW rows, IsFiniteSet(rows), NEW n \in Nat, NEW r \in Rankings(rows, n)
    PROVE  /\ r \in Seq(rows) /\ Len(r) <= n
           /\ \A i, j \in DOMAIN r : r[i] = r[j] => i = j
  <1> DEFINE size == IF n < Cardinality(rows) THEN n ELSE Cardinality(rows)
             Is(f) == f = [k \in 0 .. size |->
                             IF k = 0 THEN {<<>>} ELSE Longer(rows, f[k - 1])]
             best == CHOOSE f : Is(f)
             Good(k, q) == /\ q \in Seq(rows) /\ Len(q) = k
                           /\ \A i, j \in 1 .. k : q[i] = q[j] => i = j
             bad == {k \in 0 .. size : ~ \A q \in best[k] : Good(k, q)}
  <1>1. size \in Nat /\ size <= n
    BY FS_CardinalityType
  <1>2. r \in best[size]
    BY DEF Rankings
  <1> HIDE DEF size
  <1>3. \E f : Is(f)
    BY <1>1, BestExists
  <1>4. Is(best)
    <2> HIDE DEF Is
    <2> QED BY <1>3
  <1> HIDE DEF best
  <1>5. best[0] = {<<>>} /\ \A k \in 1 .. size : best[k] = Longer(rows, best[k - 1])
    <2>1. \A k \in 0 .. size :
             best[k] = IF k = 0 THEN {<<>>} ELSE Longer(rows, best[k - 1])
      BY <1>4, Zenon
    <2>2. 0 \in 0 .. size /\ \A k \in 1 .. size : k \in 0 .. size /\ k # 0
      BY <1>1
    <2> QED BY <2>1, <2>2
  <1>6. ASSUME NEW k \in 1 .. size, NEW q \in best[k - 1], Good(k - 1, q),
               NEW c \in rows \ ToSet(q)
        PROVE  Good(k, Append(q, c))
    <2>1. DOMAIN q = 1 .. (k - 1) /\ k - 1 \in Nat
      BY <1>1, <1>6, LenProperties
    <2>2. /\ Append(q, c) \in Seq(rows) /\ Len(Append(q, c)) = k
          /\ \A i \in 1 .. (k - 1) : Append(q, c)[i] = q[i]
          /\ Append(q, c)[k] = c
      BY <1>6, <2>1, AppendProperties
    <2>3. \A i \in 1 .. (k - 1) : q[i] # c
      BY <1>6, <2>1 DEF ToSet
    <2>4. ASSUME NEW i \in 1 .. k, NEW j \in 1 .. k, Append(q, c)[i] = Append(q, c)[j]
          PROVE  i = j
      <3>1. CASE i = k /\ j = k
        BY <3>1
      <3>2. CASE i = k /\ j \in 1 .. (k - 1)
        BY <2>2, <2>3, <2>4, <3>2
      <3>3. CASE j = k /\ i \in 1 .. (k - 1)
        BY <2>2, <2>3, <2>4, <3>3
      <3>4. CASE i \in 1 .. (k - 1) /\ j \in 1 .. (k - 1)
        BY <1>6, <2>2, <2>4, <3>4
      <3> QED BY <1>1, <3>1, <3>2, <3>3, <3>4
    <2> QED BY <2>2, <2>4
  <1> HIDE DEF Is
  <1>7. bad = {}
    <2> SUFFICES ASSUME bad # {} PROVE FALSE
      OBVIOUS
    <2>1. bad \in SUBSET Nat
      BY <1>1
    <2>2. PICK k \in bad : \A m \in bad : k <= m
      BY <2>1, LeastNatural
    <2>3. k \in 0 .. size /\ ~ \A q \in best[k] : Good(k, q)
      BY <2>2
    <2>4. CASE k = 0
      <3>1. Good(0, <<>>)
        OBVIOUS
      <3> HIDE DEF Good
      <3> QED BY <1>5, <2>3, <2>4, <3>1
    <2>5. CASE k # 0
      <3>1. k \in 1 .. size /\ k - 1 \in 0 .. size /\ k - 1 < k
        BY <1>1, <2>3, <2>5
      <3>2. k - 1 \notin bad
        BY <2>1, <2>2, <3>1
      <3>3. \A q \in best[k - 1] : Good(k - 1, q)
        BY <3>1, <3>2
      <3>4. best[k] = UNION {{Append(q, c) : c \in rows \ ToSet(q)} : q \in best[k - 1]}
        BY <1>5, <3>1 DEF Longer
      <3> HIDE DEF Good, bad
      <3>5. \A q \in best[k - 1] : \A c \in rows \ ToSet(q) : Good(k, Append(q, c))
        BY <1>6, <3>1, <3>3
      <3> QED BY <2>3, <3>4, <3>5
    <2> QED BY <2>4, <2>5
  <1>8. Good(size, r)
    BY <1>1, <1>2, <1>7
  <1>9. DOMAIN r = 1 .. size
    BY <1>8, LenProperties
  <1> QED BY <1>1, <1>8, <1>9

-----------------------------------------------------------------------------
(* The chunks that an expansion gathers, in their order                     *)

\* The neighbours of h: rows of its video, one of each index.
Nearby(list, h) ==
    /\ list \in Seq(Chunk)
    /\ \A i \in DOMAIN list : list[i].video = h.video
    /\ \A i, j \in DOMAIN list : list[i].index = list[j].index => i = j

\* What is there to merge: hits, and neighbours of each.
Gathers(hits, near) ==
    /\ hits \in Seq(Chunk)
    /\ near \in [DOMAIN hits -> Seq(Chunk)]
    /\ \A i \in DOMAIN hits : Nearby(near[i], hits[i])

LEMMA SequenceIs ==
    ASSUME NEW S, NEW s \in Seq(S)
    PROVE  /\ Len(s) \in Nat /\ DOMAIN s = 1 .. Len(s) /\ DOMAIN s \in SUBSET Nat
           /\ \A i \in DOMAIN s : s[i] \in S
           /\ ToSet(s) \in SUBSET S /\ IsFiniteSet(ToSet(s)) /\ IsFiniteSet(DOMAIN s)
  <1>1. Len(s) \in Nat /\ DOMAIN s = 1 .. Len(s) /\ \A i \in DOMAIN s : s[i] \in S
    BY LenProperties, ElementOfSeq
  <1>2. IsFiniteSet(DOMAIN s)
    BY <1>1, FS_Interval
  <1>3. s \in Surjection(DOMAIN s, ToSet(s))
    BY <1>1, LenProperties DEF Surjection, ToSet
  <1>4. IsFiniteSet(ToSet(s))
    BY <1>2, <1>3, FS_Surjection
  <1> QED BY <1>1, <1>2, <1>4 DEF ToSet

LEMMA RankAt ==
    ASSUME NEW S, NEW s \in Seq(S), NEW c \in ToSet(s)
    PROVE  /\ Rank(s, c) \in Nat /\ Rank(s, c) < Len(s) /\ s[Rank(s, c) + 1] = c
  <1>1. Len(s) \in Nat /\ DOMAIN s = 1 .. Len(s)
    BY SequenceIs
  <1>2. \E i \in DOMAIN s : s[i] = c
    BY DEF ToSet
  <1> DEFINE i == CHOOSE k \in DOMAIN s : s[k] = c
  <1>3. i \in DOMAIN s /\ s[i] = c
    BY <1>2
  <1>4. Rank(s, c) = i - 1
    BY DEF Rank
  <1> HIDE DEF i
  <1> QED BY <1>1, <1>3, <1>4

LEMMA FirstIs ==
    ASSUME NEW hits \in Seq(Chunk), NEW k \in DOMAIN hits
    PROVE  LET f == FirstOf(hits, hits[k].video)
           IN  f \in DOMAIN hits /\ f \in Nat /\ hits[f].video = hits[k].video
  <1> DEFINE at == {i \in DOMAIN hits : hits[i].video = hits[k].video}
  <1>1. at \in SUBSET Nat /\ k \in at
    BY SequenceIs
  <1>2. Min(at) \in at
    BY <1>1, MinIs
  <1> QED BY <1>1, <1>2 DEF FirstOf

LEMMA GatheredIs ==
    ASSUME NEW hits, NEW near, Gathers(hits, near)
    PROVE  /\ Gathered(hits, near) \in SUBSET Chunk /\ IsFiniteSet(Gathered(hits, near))
           /\ \A c \in Gathered(hits, near) :
                 \E i \in DOMAIN hits : hits[i].video = c.video
  <1> DEFINE around == {ToSet(near[i]) : i \in DOMAIN near}
  <1>1. hits \in Seq(Chunk) /\ DOMAIN near = DOMAIN hits /\ IsFiniteSet(DOMAIN hits)
    BY SequenceIs DEF Gathers
  <1>2. \A i \in DOMAIN near : near[i] \in Seq(Chunk) /\ Nearby(near[i], hits[i])
    BY DEF Gathers
  <1>3. IsFiniteSet(around)
    <2> DEFINE f == [i \in DOMAIN near |-> ToSet(near[i])]
    <2>1. f \in Surjection(DOMAIN near, around)
      BY DEF Surjection
    <2> QED BY <1>1, <2>1, FS_Surjection
  <1>4. \A s \in around : IsFiniteSet(s) /\ s \in SUBSET Chunk
    BY <1>2, SequenceIs
  <1>5. IsFiniteSet(ToSet(hits)) /\ ToSet(hits) \in SUBSET Chunk
    BY <1>1, SequenceIs
  <1>6. IsFiniteSet(UNION around)
    BY <1>3, <1>4, FS_UNION
  <1>7. IsFiniteSet(Gathered(hits, near))
    BY <1>5, <1>6, FS_Union DEF Gathered
  <1>8. Gathered(hits, near) \in SUBSET Chunk
    BY <1>4, <1>5 DEF Gathered
  <1>9. ASSUME NEW c \in Gathered(hits, near)
        PROVE  \E i \in DOMAIN hits : hits[i].video = c.video
    <2>1. CASE c \in ToSet(hits)
      BY <2>1 DEF ToSet
    <2>2. CASE c \notin ToSet(hits)
      <3>1. PICK i \in DOMAIN near : c \in ToSet(near[i])
        BY <1>9, <2>2 DEF Gathered
      <3> QED BY <1>1, <1>2, <3>1 DEF ToSet, Nearby
    <2> QED BY <2>1, <2>2
  <1> QED BY <1>7, <1>8, <1>9

\* Two chunks of one video and index came at different times.
LEMMA ArrivalsDiffer ==
    ASSUME NEW hits, NEW near, Gathers(hits, near),
           NEW c \in Gathered(hits, near), NEW d \in Gathered(hits, near)
    PROVE  /\ Arrival(hits, near, c) \in Nat
           /\ /\ c.video = d.video /\ c.index = d.index
              /\ Arrival(hits, near, c) = Arrival(hits, near, d)
              => c = d
  <1> DEFINE At(x) == {i \in DOMAIN near : x \in ToSet(near[i])}
  <1>1. /\ hits \in Seq(Chunk) /\ DOMAIN near = DOMAIN hits
        /\ Len(hits) \in Nat /\ DOMAIN hits = 1 .. Len(hits)
    BY SequenceIs DEF Gathers
  <1>2. ASSUME NEW x \in Gathered(hits, near), x \notin ToSet(hits)
        PROVE  /\ Min(At(x)) \in 1 .. Len(hits) /\ x \in ToSet(near[Min(At(x))])
               /\ Arrival(hits, near, x) = Len(hits) + Min(At(x))
    <2>1. At(x) \in SUBSET Nat /\ At(x) # {}
      BY <1>1, <1>2 DEF Gathered
    <2>2. Min(At(x)) \in At(x)
      BY <2>1, MinIs
    <2> QED BY <1>1, <1>2, <2>2 DEF Arrival
  <1>3. ASSUME NEW x \in ToSet(hits)
        PROVE  /\ Arrival(hits, near, x) \in Nat /\ Arrival(hits, near, x) < Len(hits)
               /\ hits[Arrival(hits, near, x) + 1] = x
    BY <1>1, RankAt DEF Arrival
  <1> HIDE DEF At
  <1>4. ASSUME NEW x \in Gathered(hits, near) PROVE Arrival(hits, near, x) \in Nat
    <2>1. CASE x \in ToSet(hits)
      BY <1>3, <2>1
    <2>2. CASE x \notin ToSet(hits)
      <3>1. Min(At(x)) \in Nat /\ Arrival(hits, near, x) = Len(hits) + Min(At(x))
        BY <1>1, <1>2, <2>2
      <3> QED BY <1>1, <3>1
    <2> QED BY <2>1, <2>2
  <1>5. ASSUME NEW x \in Gathered(hits, near), NEW y \in Gathered(hits, near),
               x \in ToSet(hits), y \notin ToSet(hits)
        PROVE  Arrival(hits, near, x) # Arrival(hits, near, y)
    <2>1. Arrival(hits, near, x) < Len(hits)
      BY <1>3, <1>5
    <2>2. Arrival(hits, near, y) = Len(hits) + Min(At(y)) /\ Min(At(y)) \in Nat
      BY <1>1, <1>2, <1>5
    <2> HIDE DEF Gathers
    <2> QED BY <1>1, <1>4, <2>1, <2>2
  <1>6. ASSUME c.video = d.video, c.index = d.index,
               Arrival(hits, near, c) = Arrival(hits, near, d)
        PROVE  c = d
    <2>1. CASE c \in ToSet(hits) /\ d \in ToSet(hits)
      BY <1>3, <1>6, <2>1
    <2>2. CASE c \in ToSet(hits) /\ d \notin ToSet(hits)
      BY <1>6, <1>5, <2>2
    <2>3. CASE c \notin ToSet(hits) /\ d \in ToSet(hits)
      BY <1>6, <1>5, <2>3
    <2>4. CASE c \notin ToSet(hits) /\ d \notin ToSet(hits)
      <3>1. Min(At(c)) = Min(At(d))
        BY <1>1, <1>2, <1>6, <2>4
      <3>2. c \in ToSet(near[Min(At(c))]) /\ d \in ToSet(near[Min(At(c))])
        BY <1>2, <2>4, <3>1
      <3>3. Nearby(near[Min(At(c))], hits[Min(At(c))])
        BY <1>1, <1>2, <2>4 DEF Gathers
      <3> QED BY <1>6, <3>2, <3>3 DEF Nearby, ToSet
    <2> QED BY <2>1, <2>2, <2>3, <2>4
  <1> QED BY <1>4, <1>6

\* What comes before each chunk.
Earlier(hits, near) ==
    [c \in Gathered(hits, near) |->
       {d \in Gathered(hits, near) : Precedes(hits, near, d, c)}]

LEMMA SortedOrders ==
    ASSUME NEW hits, NEW near, Gathers(hits, near)
    PROVE  Orders(Earlier(hits, near), Gathered(hits, near))
  <1> DEFINE all == Gathered(hits, near)
             f(c) == FirstOf(hits, c.video)
             x(c) == c.index
             a(c) == Arrival(hits, near, c)
             P(c, d) == Precedes(hits, near, c, d)
  <1>1. \A c \in all : f(c) \in Nat /\ x(c) \in Nat /\ a(c) \in Nat
    <2>1. \A c \in all : x(c) \in Nat
      BY GatheredIs DEF Chunk
    <2>2. \A c \in all : a(c) \in Nat
      BY ArrivalsDiffer
    <2>3. \A c \in all : f(c) \in Nat
      BY GatheredIs, FirstIs DEF Gathers
    <2> QED BY <2>1, <2>2, <2>3
  <1>2. \A c, d \in all : c.video = d.video <=> f(c) = f(d)
    <2>1. ASSUME NEW c \in all PROVE hits[f(c)].video = c.video
      <3>1. PICK i \in DOMAIN hits : hits[i].video = c.video
        BY GatheredIs
      <3>2. hits \in Seq(Chunk)
        BY DEF Gathers
      <3>3. f(c) = FirstOf(hits, hits[i].video)
        BY <3>1
      <3> QED BY <3>1, <3>2, <3>3, FirstIs
    <2> HIDE DEF all
    <2> QED BY <2>1
  <1>3. \A c, d \in all : f(c) = f(d) /\ x(c) = x(d) /\ a(c) = a(d) => c = d
    BY <1>2, ArrivalsDiffer
  <1>4. \A c, d : P(c, d) <=> \/ f(c) < f(d)
                              \/ c.video = d.video /\ (x(c) < x(d) \/ (x(c) = x(d) /\ a(c) < a(d)))
    BY DEF Precedes
  <1>5. Earlier(hits, near) = [c \in all |-> {d \in all : P(d, c)}]
    BY DEF Earlier
  <1> HIDE DEF all, f, x, a, P
  <1>6. \A c, d \in all :
           P(c, d) <=> \/ f(c) < f(d)
                       \/ f(c) = f(d) /\ (x(c) < x(d) \/ (x(c) = x(d) /\ a(c) < a(d)))
    BY <1>2, <1>4
  <1>7. ASSUME NEW c \in all PROVE ~ P(c, c)
    BY <1>1, <1>6
  <1>8. ASSUME NEW c \in all, NEW d \in all, c # d PROVE P(c, d) \/ P(d, c)
    <2>1. /\ f(c) \in Nat /\ f(d) \in Nat /\ x(c) \in Nat /\ x(d) \in Nat
          /\ a(c) \in Nat /\ a(d) \in Nat
      BY <1>1
    <2>2. ~ (f(c) = f(d) /\ x(c) = x(d) /\ a(c) = a(d))
      BY <1>3, <1>8
    <2> QED BY <1>6, <2>1, <2>2
  <1>9. ASSUME NEW c \in all, NEW d \in all, NEW e \in all, P(e, c), P(c, d) PROVE P(e, d)
    BY <1>1, <1>6, <1>9
  <1> QED BY <1>5, <1>7, <1>8, <1>9 DEF Orders, all

LEMMA SortedIs ==
    ASSUME NEW hits, NEW near, Gathers(hits, near)
    PROVE  LET list == Sorted(hits, near)
           IN  /\ list \in Seq(Chunk) /\ ToSet(list) = Gathered(hits, near)
               /\ \A i, j \in DOMAIN list : list[i] = list[j] => i = j
               /\ \A i, j \in DOMAIN list : i < j <=> Precedes(hits, near, list[i], list[j])
  <1> DEFINE all == Gathered(hits, near)
             ahead == Earlier(hits, near)
             n == Cardinality(all)
             list == Sorted(hits, near)
  <1>1. list = InOrder(ahead)
    BY DEF Sorted, Earlier
  <1>2. all \in SUBSET Chunk /\ IsFiniteSet(all) /\ Orders(ahead, all)
    BY GatheredIs, SortedOrders
  <1>3. \A c, d \in all : c \in ahead[d] <=> Precedes(hits, near, c, d)
    BY DEF Earlier
  <1> HIDE DEF all, ahead, list
  <1>4. /\ list \in [1 .. n -> all] /\ list \in Seq(all)
        /\ \A x \in all : \E m \in 1 .. n : list[m] = x
        /\ \A i, j \in 1 .. n : list[i] = list[j] => i = j
        /\ \A i, j \in 1 .. n : i < j <=> list[i] \in ahead[list[j]]
    <2>1. Orders(ahead, all) /\ IsFiniteSet(all)
      BY <1>2
    <2>2. /\ InOrder(ahead) \in [1 .. Cardinality(all) -> all] /\ InOrder(ahead) \in Seq(all)
          /\ \A x \in all : \E m \in 1 .. Cardinality(all) : InOrder(ahead)[m] = x
          /\ \A i, j \in 1 .. Cardinality(all) : InOrder(ahead)[i] = InOrder(ahead)[j] => i = j
          /\ \A i, j \in 1 .. Cardinality(all) :
                i < j <=> InOrder(ahead)[i] \in ahead[InOrder(ahead)[j]]
      BY ZenonT(60), <2>1, InOrderIs
    <2> QED BY Zenon, <1>1, <2>2 DEF n
  <1> HIDE DEF n
  <1>5. list \in Seq(Chunk)
    BY <1>2, <1>4, SeqMonotonic
  <1>6. DOMAIN list = 1 .. n
    BY <1>4
  <1>7. ToSet(list) = all
    BY <1>4, <1>6 DEF ToSet
  <1>8. \A i, j \in 1 .. n : i < j <=> Precedes(hits, near, list[i], list[j])
    BY <1>3, <1>4
  <1> QED BY <1>4, <1>5, <1>6, <1>7, <1>8 DEF list, all

-----------------------------------------------------------------------------
(* Runs: the sorted chunks, cut wherever one does not follow the last       *)

\* Where the k-th run ends.
End(list, k) ==
    LET start == Ascending(Starts(list))
    IN  IF k = Len(start) THEN Len(list) ELSE start[k + 1] - 1

LEMMA StartsAre ==
    ASSUME NEW S, NEW list \in Seq(S)
    PROVE  LET start == Ascending(Starts(list))
           IN  /\ start \in Seq(Starts(list)) /\ Len(start) \in Nat
               /\ DOMAIN start = 1 .. Len(start)
               /\ \A k \in DOMAIN start : start[k] \in Starts(list) /\ start[k] \in 1 .. Len(list)
               /\ \A m \in Starts(list) : \E k \in DOMAIN start : start[k] = m
               /\ \A k, l \in DOMAIN start : k < l <=> start[k] < start[l]
  <1> DEFINE start == Ascending(Starts(list))
  <1>1. Len(list) \in Nat /\ DOMAIN list = 1 .. Len(list) /\ IsFiniteSet(DOMAIN list)
    BY SequenceIs
  <1>2. Starts(list) \in SUBSET Nat /\ Starts(list) \subseteq 1 .. Len(list)
    BY <1>1 DEF Starts
  <1>3. IsFiniteSet(Starts(list))
    BY <1>1, <1>2, FS_Subset
  <1>4. /\ start \in Seq(Starts(list))
        /\ \A m \in Starts(list) : \E k \in 1 .. Len(start) : start[k] = m
        /\ \A k, l \in 1 .. Len(start) : k < l <=> start[k] < start[l]
    BY <1>2, <1>3, AscendingIs
  <1> HIDE DEF start
  <1>5. /\ Len(start) \in Nat /\ DOMAIN start = 1 .. Len(start)
        /\ \A k \in DOMAIN start : start[k] \in Starts(list)
    BY <1>4, SequenceIs
  <1> QED BY <1>2, <1>4, <1>5 DEF start

\* Every run is a piece of the list, the next one begins where it ends, and
\* together they are the list.
LEMMA RunsAre ==
    ASSUME NEW S, NEW list \in Seq(S)
    PROVE  LET start == Ascending(Starts(list))
               runs == Runs(list)
           IN  /\ runs \in Seq(Seq(S)) /\ DOMAIN runs = DOMAIN start
               /\ \A k \in DOMAIN runs :
                     /\ start[k] \in 1 .. Len(list) /\ End(list, k) \in start[k] .. Len(list)
                     /\ Len(runs[k]) = End(list, k) - start[k] + 1
                     /\ \A i \in 1 .. Len(runs[k]) : runs[k][i] = list[start[k] + i - 1]
                     /\ \A m \in (start[k] + 1) .. End(list, k) : m \notin Starts(list)
               /\ \A k, l \in DOMAIN runs : k < l => End(list, k) < start[l]
               /\ \A m \in 1 .. Len(list) : \E k \in DOMAIN runs : m \in start[k] .. End(list, k)
  <1> DEFINE start == Ascending(Starts(list))
             runs == Runs(list)
             n == Len(start)
             e(k) == End(list, k)
  <1>1. /\ n \in Nat /\ DOMAIN start = 1 .. n
        /\ \A k \in 1 .. n : start[k] \in Starts(list) /\ start[k] \in 1 .. Len(list)
        /\ \A m \in Starts(list) : \E k \in 1 .. n : start[k] = m
        /\ \A k, l \in 1 .. n : k < l <=> start[k] < start[l]
    BY StartsAre
  <1>2. Len(list) \in Nat /\ DOMAIN list = 1 .. Len(list)
    BY SequenceIs
  <1>3. \A k : e(k) = IF k = n THEN Len(list) ELSE start[k + 1] - 1
    BY DEF End
  <1>4. runs = [k \in DOMAIN start |-> SubSeq(list, start[k], e(k))]
    BY DEF Runs, End
  <1> HIDE DEF start, runs, n, e
  <1>5. ASSUME NEW k \in 1 .. n PROVE e(k) \in start[k] .. Len(list)
    <2>1. CASE k = n
      BY <1>1, <1>2, <1>3, <2>1
    <2>2. CASE k # n
      <3>1. k + 1 \in 1 .. n /\ k < k + 1
        BY <1>1, <2>2
      <3>2. start[k] < start[k + 1] /\ start[k] \in 1 .. Len(list) /\ start[k + 1] \in 1 .. Len(list)
        BY <1>1, <3>1
      <3>3. e(k) = start[k + 1] - 1
        BY <1>3, <2>2
      <3> QED BY <1>2, <3>2, <3>3
    <2> QED BY <2>1, <2>2
  <1>6. ASSUME NEW k \in 1 .. n
        PROVE  /\ runs[k] \in Seq(S) /\ Len(runs[k]) = e(k) - start[k] + 1
               /\ \A i \in 1 .. Len(runs[k]) : runs[k][i] = list[start[k] + i - 1]
    <2>1. runs[k] = SubSeq(list, start[k], e(k))
      BY <1>1, <1>4
    <2>2. start[k] \in 1 .. Len(list) /\ e(k) \in start[k] .. Len(list)
      BY <1>1, <1>5
    <2>3. start[k] \in 1 .. (Len(list) + 1) /\ e(k) \in (start[k] - 1) .. Len(list)
      BY <1>2, <2>2
    <2> QED BY <2>1, <2>3, SubSeqProperties
  <1>7. ASSUME NEW k \in 1 .. n, NEW l \in 1 .. n, k < l PROVE e(k) < start[l]
    <2>1. k + 1 \in 1 .. n /\ k # n
      BY <1>1, <1>7
    <2>2. e(k) = start[k + 1] - 1
      BY <1>3, <2>1
    <2>3. k + 1 = l \/ k + 1 < l
      BY <1>7
    <2>4. start[k + 1] <= start[l] /\ start[k + 1] \in Nat /\ start[l] \in Nat
      BY <1>1, <2>1, <2>3
    <2> QED BY <2>2, <2>4
  <1>8. ASSUME NEW k \in 1 .. n, NEW m \in (start[k] + 1) .. e(k), m \in Starts(list)
        PROVE  FALSE
    <2>1. PICK l \in 1 .. n : start[l] = m
      BY <1>1, <1>8
    <2>2. start[k] \in Nat /\ start[k] < start[l] /\ k < l
      BY <1>1, <1>8, <2>1
    <2>3. e(k) < m
      BY <1>7, <2>1, <2>2
    <2>4. e(k) \in Nat
      BY <1>1, <1>2, <1>5
    <2> QED BY <1>8, <2>2, <2>3, <2>4
  <1>9. ASSUME NEW m \in 1 .. Len(list) PROVE \E k \in 1 .. n : m \in start[k] .. e(k)
    <2> DEFINE gaps == {g \in Nat : \E k \in 1 .. n : start[k] + g = m}
    <2>1. 1 \in Starts(list)
      BY <1>2 DEF Starts
    <2>2. PICK f \in 1 .. n : start[f] = 1
      BY <1>1, <2>1
    <2>3. m - 1 \in gaps
      BY <2>2
    <2>4. PICK g \in gaps : \A h \in gaps : g <= h
      BY <2>3, LeastNatural
    <2>5. PICK k \in 1 .. n : start[k] + g = m
      BY <2>4
    <2>6. m <= e(k)
      <3>1. CASE k = n
        BY <1>3, <3>1
      <3>2. CASE k # n
        <4>1. k + 1 \in 1 .. n /\ start[k + 1] \in Nat /\ start[k] \in Nat /\ start[k] < start[k + 1]
          BY <1>1, <3>2
        <4>2. start[k + 1] > m
          <5> SUFFICES ASSUME start[k + 1] <= m PROVE FALSE
            BY <4>1
          <5>1. m - start[k + 1] \in Nat /\ start[k + 1] + (m - start[k + 1]) = m
            BY <4>1
          <5>2. m - start[k + 1] \in gaps
            BY <4>1, <5>1
          <5>3. g \in Nat /\ g <= m - start[k + 1]
            BY <2>4, <5>2
          <5> HIDE DEF gaps
          <5> QED BY <2>5, <4>1, <5>3
        <4> QED BY <1>3, <3>2, <4>1, <4>2
      <3> QED BY <3>1, <3>2
    <2>7. start[k] \in Nat /\ g \in Nat /\ start[k] <= m /\ e(k) \in Nat
      BY <1>1, <1>2, <1>5, <2>4, <2>5
    <2> QED BY <2>6, <2>7
  <1>10. runs \in [1 .. n -> Seq(S)] /\ DOMAIN runs = 1 .. n
    BY <1>1, <1>4, <1>6
  <1>11. runs \in Seq(Seq(S))
    BY <1>1, <1>10, IsSequence
  <1> QED BY <1>1, <1>5, <1>6, <1>7, <1>8, <1>9, <1>10, <1>11 DEF start, runs, n, e

-----------------------------------------------------------------------------
(* Spans                                                                   *)

\* The chunk that a span is named after, and what it says of its source.
LEMMA AnchorIs ==
    ASSUME NEW run \in Seq(Chunk), run # <<>>, NEW hits \in Seq(Chunk)
    PROVE  LET at == {i \in DOMAIN run : \E h \in ToSet(hits) :
                         h.video = run[i].video /\ h.index = run[i].index}
               a == Anchor(run, hits)
           IN  /\ \E i \in DOMAIN run : a = run[i] /\ (at # {} => i \in at)
  <1> DEFINE at == {i \in DOMAIN run : \E h \in ToSet(hits) :
                         h.video = run[i].video /\ h.index = run[i].index}
             a == Anchor(run, hits)
  <1>1. DOMAIN run = 1 .. Len(run) /\ Len(run) \in Nat /\ 1 \in DOMAIN run
    BY SequenceIs, EmptySeq
  <1>2. at \in SUBSET Nat /\ at \subseteq DOMAIN run
    BY <1>1
  <1>3. a = IF at = {} THEN run[1] ELSE run[Min(at)]
    BY DEF Anchor
  <1> HIDE DEF at, a
  <1>4. at # {} => Min(at) \in at
    BY <1>2, MinIs
  <1> QED BY <1>1, <1>2, <1>3, <1>4 DEF at, a

LEMMA SpanIs ==
    ASSUME RetrievalAssumption, NEW run \in Seq(Chunk), run # <<>>,
           NEW hits \in Seq(Chunk), NEW meta \in Seq(Meta)
    PROVE  /\ Span(run, hits, meta) \in SpanRecord
           /\ Span(run, hits, meta).body = run
           /\ Span(run, hits, meta).id = Anchor(run, hits)
           /\ Span(run, hits, meta).from = run[1].index
           /\ Span(run, hits, meta).to = run[Len(run)].index
  <1> DEFINE a == Anchor(run, hits)
             is == {i \in DOMAIN hits : hits[i] = a}
             source == IF is = {} THEN "youtube" ELSE SourceOf(a, meta[Min(is)])
  <1>1. /\ DOMAIN run = 1 .. Len(run) /\ Len(run) \in Nat
        /\ 1 \in DOMAIN run /\ Len(run) \in DOMAIN run
        /\ \A i \in DOMAIN run : run[i] \in Chunk
    BY SequenceIs, EmptySeq
  <1>2. a \in Chunk
    BY <1>1, AnchorIs
  <1>3. source \in {"youtube", "dynamous"}
    BY <1>2 DEF RetrievalAssumption, SourceOf, Chunk
  <1>4. Span(run, hits, meta) =
          [id |-> a, source |-> source, from |-> run[1].index,
           to |-> run[Len(run)].index, body |-> run]
    BY DEF Span, Last
  <1> HIDE DEF a, source
  <1>5. run[1].index \in Nat /\ run[Len(run)].index \in Nat
    BY <1>1 DEF Chunk
  <1> QED BY <1>2, <1>3, <1>4, <1>5 DEF SpanRecord, a

\* No text is in two places of an answer.
Apart(spans) ==
    \A n, m \in DOMAIN spans :
       \A i \in DOMAIN spans[n].body, j \in DOMAIN spans[m].body :
          spans[n].body[i] = spans[m].body[j] => n = m /\ i = j

LEMMA BodyIs ==
    ASSUME NEW spans, NEW c
    PROVE  c \in BodyOf(spans) <=>
              \E n \in DOMAIN spans : \E i \in DOMAIN spans[n].body : spans[n].body[i] = c
  BY DEF BodyOf, ToSet

\* The spans of an expansion: one for each run, with the run as its body.
LEMMA SpansAre ==
    ASSUME RetrievalAssumption, NEW hits, NEW near, Gathers(hits, near), NEW meta \in Seq(Meta)
    PROVE  LET runs == Runs(Sorted(hits, near))
               spans == expand_and_merge(hits, meta, near)
           IN  /\ spans \in Seq(SpanRecord) /\ DOMAIN spans = DOMAIN runs
               /\ \A n \in DOMAIN runs :
                     /\ runs[n] \in Seq(Chunk) /\ runs[n] # <<>>
                     /\ spans[n] = Span(runs[n], hits, meta) /\ spans[n].body = runs[n]
  <1> DEFINE list == Sorted(hits, near)
             runs == Runs(list)
             spans == expand_and_merge(hits, meta, near)
  <1>1. list \in Seq(Chunk) /\ hits \in Seq(Chunk)
    BY SortedIs DEF Gathers
  <1>2. spans = [n \in DOMAIN runs |-> Span(runs[n], hits, meta)]
    BY DEF expand_and_merge
  <1> HIDE DEF list, spans
  <1>3. runs \in Seq(Seq(Chunk))
    BY <1>1, RunsAre
  <1>4. ASSUME NEW n \in DOMAIN runs PROVE runs[n] \in Seq(Chunk) /\ runs[n] # <<>>
    <2>1. runs[n] \in Seq(Chunk)
      BY <1>3, SequenceIs
    <2> DEFINE s == Ascending(Starts(list))[n]
    <2>2. s \in 1 .. Len(list) /\ End(list, n) \in s .. Len(list) /\ Len(runs[n]) = End(list, n) - s + 1
      BY <1>1, RunsAre
    <2> HIDE DEF s, runs
    <2>3. Len(runs[n]) # 0
      BY <2>2
    <2> QED BY <2>1, <2>3
  <1> HIDE DEF runs
  <1>5. \A n \in DOMAIN runs : Span(runs[n], hits, meta) \in SpanRecord
                               /\ Span(runs[n], hits, meta).body = runs[n]
    BY <1>1, <1>4, SpanIs
  <1>6. Len(runs) \in Nat /\ DOMAIN runs = 1 .. Len(runs)
    BY <1>3, SequenceIs
  <1>7. spans \in [1 .. Len(runs) -> SpanRecord]
    BY <1>2, <1>5, <1>6
  <1>8. spans \in Seq(SpanRecord)
    BY <1>6, <1>7, IsSequence
  <1> QED BY <1>2, <1>4, <1>5, <1>8 DEF spans, runs, list

\* An expansion shows what was gathered, all of it, once.
LEMMA ExpandsTo ==
    ASSUME RetrievalAssumption, NEW hits, NEW near, Gathers(hits, near), NEW meta \in Seq(Meta)
    PROVE  LET spans == expand_and_merge(hits, meta, near)
           IN  /\ BodyOf(spans) = Gathered(hits, near)
               /\ Apart(spans)
  <1> DEFINE list == Sorted(hits, near)
             runs == Runs(list)
             start == Ascending(Starts(list))
             e(n) == End(list, n)
             spans == expand_and_merge(hits, meta, near)
  <1>1. /\ list \in Seq(Chunk) /\ ToSet(list) = Gathered(hits, near)
        /\ \A i, j \in DOMAIN list : list[i] = list[j] => i = j
    BY SortedIs
  <1>2. /\ DOMAIN spans = DOMAIN runs
        /\ \A n \in DOMAIN runs : runs[n] \in Seq(Chunk) /\ spans[n].body = runs[n]
    BY SpansAre
  <1>3. Len(list) \in Nat /\ DOMAIN list = 1 .. Len(list)
    BY <1>1, SequenceIs
  <1> HIDE DEF list, spans
  <1>4. /\ \A k \in DOMAIN runs :
              /\ start[k] \in 1 .. Len(list) /\ e(k) \in start[k] .. Len(list)
              /\ Len(runs[k]) = e(k) - start[k] + 1
              /\ \A i \in 1 .. Len(runs[k]) : runs[k][i] = list[start[k] + i - 1]
        /\ \A k, l \in DOMAIN runs : k < l => e(k) < start[l]
        /\ \A m \in 1 .. Len(list) : \E k \in DOMAIN runs : m \in start[k] .. e(k)
    <2>1. \A k \in DOMAIN runs :
              /\ start[k] \in 1 .. Len(list) /\ e(k) \in start[k] .. Len(list)
              /\ Len(runs[k]) = e(k) - start[k] + 1
              /\ \A i \in 1 .. Len(runs[k]) : runs[k][i] = list[start[k] + i - 1]
      BY <1>1, RunsAre
    <2>2. \A k, l \in DOMAIN runs : k < l => e(k) < start[l]
      BY <1>1, RunsAre
    <2>3. \A m \in 1 .. Len(list) : \E k \in DOMAIN runs : m \in start[k] .. e(k)
      BY <1>1, RunsAre
    <2> HIDE DEF runs, start, e
    <2> QED BY <2>1, <2>2, <2>3
  <1>5. DOMAIN runs \in SUBSET Nat
    BY <1>1, RunsAre, SequenceIs
  <1> HIDE DEF runs, start, e
  <1>6. \A k \in DOMAIN runs : DOMAIN runs[k] = 1 .. Len(runs[k])
    BY <1>2, SequenceIs
  <1>7. ASSUME NEW k \in DOMAIN runs, NEW i \in DOMAIN runs[k]
        PROVE  /\ start[k] + i - 1 \in DOMAIN list /\ runs[k][i] = list[start[k] + i - 1]
               /\ start[k] + i - 1 \in start[k] .. e(k)
    <2>1. i \in 1 .. (e(k) - start[k] + 1) /\ i \in 1 .. Len(runs[k])
      BY <1>4, <1>6
    <2>2. start[k] \in 1 .. Len(list) /\ e(k) \in start[k] .. Len(list)
      BY <1>4
    <2>3. start[k] + i - 1 \in DOMAIN list /\ start[k] + i - 1 \in start[k] .. e(k)
      BY SMTT(30), <1>3, <2>1, <2>2
    <2> QED BY <1>4, <2>1, <2>3
  <1>8. ASSUME NEW c \in Gathered(hits, near)
        PROVE  \E k \in DOMAIN runs : \E i \in DOMAIN runs[k] : runs[k][i] = c
    <2>1. PICK m \in DOMAIN list : list[m] = c
      BY <1>1 DEF ToSet
    <2>2. PICK k \in DOMAIN runs : m \in start[k] .. e(k)
      BY <1>3, <1>4, <2>1
    <2> DEFINE i == m - start[k] + 1
    <2>3. i \in DOMAIN runs[k] /\ start[k] + i - 1 = m
      <3>1. start[k] \in 1 .. Len(list) /\ e(k) \in start[k] .. Len(list)
            /\ Len(runs[k]) = e(k) - start[k] + 1 /\ DOMAIN runs[k] = 1 .. Len(runs[k])
        BY <1>4, <1>6
      <3> QED BY SMTT(30), <1>3, <2>1, <2>2, <3>1
    <2> HIDE DEF i
    <2> QED BY <1>7, <2>1, <2>3
  <1>9. BodyOf(spans) = Gathered(hits, near)
    <2>1. \A k \in DOMAIN runs : \A i \in DOMAIN runs[k] : runs[k][i] \in Gathered(hits, near)
      BY <1>1, <1>7 DEF ToSet
    <2>2. \A c : c \in BodyOf(spans) <=>
                   \E k \in DOMAIN runs : \E i \in DOMAIN runs[k] : runs[k][i] = c
      <3> SUFFICES ASSUME NEW c
                   PROVE  c \in BodyOf(spans) <=>
                            \E k \in DOMAIN runs : \E i \in DOMAIN runs[k] : runs[k][i] = c
        OBVIOUS
      <3>1. c \in BodyOf(spans) <=>
               \E k \in DOMAIN spans : \E i \in DOMAIN spans[k].body : spans[k].body[i] = c
        BY BodyIs
      <3>2. DOMAIN spans = DOMAIN runs /\ \A k \in DOMAIN runs : spans[k].body = runs[k]
        BY <1>2
      <3> QED BY <3>1, <3>2
    <2>3. ASSUME NEW c \in BodyOf(spans) PROVE c \in Gathered(hits, near)
      BY <2>1, <2>2, <2>3
    <2>4. ASSUME NEW c \in Gathered(hits, near) PROVE c \in BodyOf(spans)
      <3>1. PICK k \in DOMAIN runs : \E i \in DOMAIN runs[k] : runs[k][i] = c
        BY <1>8
      <3> QED BY <2>2, <3>1
    <2> QED BY <2>3, <2>4
  <1>10. ASSUME NEW k \in DOMAIN runs, NEW l \in DOMAIN runs,
                NEW i \in DOMAIN runs[k], NEW j \in DOMAIN runs[l], runs[k][i] = runs[l][j]
         PROVE  k = l /\ i = j
    <2>1. start[k] + i - 1 = start[l] + j - 1
      BY <1>1, <1>7, <1>10
    <2>2. start[k] + i - 1 <= e(k) /\ start[l] <= start[k] + i - 1
          /\ start[l] + j - 1 <= e(l) /\ start[k] <= start[l] + j - 1
      BY <1>7, <2>1
    <2>3. k \in Nat /\ l \in Nat /\ start[k] \in Nat /\ start[l] \in Nat
          /\ e(k) \in Nat /\ e(l) \in Nat /\ i \in Nat /\ j \in Nat
      <3>1. start[k] \in 1 .. Len(list) /\ e(k) \in start[k] .. Len(list)
            /\ start[l] \in 1 .. Len(list) /\ e(l) \in start[l] .. Len(list)
        BY <1>4
      <3>2. Len(runs[k]) \in Nat /\ Len(runs[l]) \in Nat
        BY <1>2, SequenceIs
      <3>3. i \in 1 .. Len(runs[k]) /\ j \in 1 .. Len(runs[l])
        BY <1>6
      <3> QED BY SMTT(30), <1>3, <1>5, <3>1, <3>2, <3>3
    <2>4. ~ (k < l) /\ ~ (l < k)
      <3>1. (k < l => e(k) < start[l]) /\ (l < k => e(l) < start[k])
        BY <1>4
      <3> QED BY SMTT(30), <2>1, <2>2, <2>3, <3>1
    <2>5. k = l
      BY <2>3, <2>4
    <2> QED BY <2>1, <2>3, <2>5
  <1>11. Apart(spans)
    BY <1>2, <1>10 DEF Apart
  <1> QED BY <1>9, <1>11 DEF spans

-----------------------------------------------------------------------------
(* What the queries answer                                                 *)

LEMMA RowsAre ==
    ASSUME RetrievalAssumption, RetrievalTypeOK, NEW v \in Video, NEW from \in Nat, NEW to \in Nat
    PROVE  /\ Between(v, from, to) \in Seq(Chunk)
           /\ Chunks(v) \in Nat
           /\ LET list == Between(v, from, to)
                  end == IF to < Chunks(v) THEN to + 1 ELSE Chunks(v)
              IN  /\ DOMAIN list = 1 .. (end - from)
                  /\ \A n \in DOMAIN list : list[n] = Row1(v, from + n - 1)
  <1> DEFINE end == IF to < Chunks(v) THEN to + 1 ELSE Chunks(v)
             list == Between(v, from, to)
             n == IF end > from THEN end - from ELSE 0
  <1>1. edition[v] \in Nat /\ edition[v] <= Len(Talk[v]) /\ Talk[v] \in Seq(Nat)
    BY DEF RetrievalTypeOK, RetrievalAssumption
  <1>2. Chunks(v) \in Nat
    <2>1. edition[v] # 0 => edition[v] \in DOMAIN Talk[v]
      BY <1>1, SequenceIs
    <2> QED BY <1>1, <2>1, SequenceIs DEF Chunks
  <1>3. end \in Nat /\ n \in Nat /\ 1 .. n = 1 .. (end - from)
    BY <1>2
  <1>4. list = [m \in 1 .. (end - from) |-> Row1(v, from + m - 1)]
    BY DEF Between
  <1> HIDE DEF end, n, list
  <1>5. list \in [1 .. n -> Chunk]
    <2>1. \A m \in 1 .. n : Row1(v, from + m - 1) \in Chunk
      BY <1>1, <1>3 DEF Row1, Chunk
    <2> QED BY <1>3, <1>4, <2>1
  <1>6. list \in Seq(Chunk)
    BY <1>3, <1>5, IsSequence
  <1> QED BY <1>2, <1>4, <1>6 DEF end, list

LEMMA NeighborsAre ==
    ASSUME RetrievalAssumption, RetrievalTypeOK, NEW v \in Video, NEW i \in Nat, NEW h, h.video = v
    PROVE  Nearby(get_chunk_neighbors(v, i), h)
  <1> DEFINE from == IF i > Window THEN i - Window ELSE 0
             list == Between(v, from, i + Window)
  <1>1. Window \in Nat
    BY DEF RetrievalAssumption
  <1>2. from \in Nat /\ i + Window \in Nat
    BY <1>1
  <1>3. get_chunk_neighbors(v, i) = list
    BY DEF get_chunk_neighbors
  <1> HIDE DEF from
  <1>4. list \in Seq(Chunk) /\ \A n \in DOMAIN list : list[n] = Row1(v, from + n - 1)
    BY <1>2, RowsAre
  <1>5. DOMAIN list \in SUBSET Nat
    BY <1>4, SequenceIs
  <1> HIDE DEF list
  <1>6. \A n \in DOMAIN list : list[n].video = v /\ list[n].index = from + n - 1
    BY <1>4 DEF Row1
  <1>7. \A n, m \in DOMAIN list : list[n].index = list[m].index => n = m
    <2> SUFFICES ASSUME NEW n \in DOMAIN list, NEW m \in DOMAIN list,
                        list[n].index = list[m].index
                 PROVE  n = m
      OBVIOUS
    <2>1. from + n - 1 = from + m - 1 /\ n \in Nat /\ m \in Nat
      BY <1>5, <1>6
    <2> QED BY <1>2, <2>1
  <1> QED BY <1>3, <1>4, <1>6, <1>7 DEF Nearby

\* The rows a search looks at.
LEMMA SearchableIs ==
    ASSUME RetrievalAssumption, RetrievalTypeOK, NEW member \in BOOLEAN
    PROVE  /\ IsFiniteSet(Searchable(member)) /\ Searchable(member) \in SUBSET Chunk
           /\ \A c \in Searchable(member) :
                 /\ member \/ Source[c.video] = "youtube"
                 /\ c.edition = edition[c.video] /\ c.edition # 0 /\ c.index < Chunks(c.video)
  <1> DEFINE open == {w \in Stored : member \/ Source[w] = "youtube"}
             found == {ToSet(list_chunks_for_video(v)) : v \in open}
  <1>1. ASSUME NEW v \in open
        PROVE  /\ list_chunks_for_video(v) \in Seq(Chunk)
               /\ \A c \in ToSet(list_chunks_for_video(v)) :
                     c.video = v /\ c.edition = edition[v] /\ c.index < Chunks(v)
    <2> DEFINE list == Between(v, 0, Chunks(v))
    <2>0. v \in Video
      BY DEF Stored
    <2>1. Chunks(v) \in Nat /\ 0 \in Nat
      BY <2>0, RowsAre
    <2>2. list \in Seq(Chunk) /\ \A n \in DOMAIN list : list[n] = Row1(v, 0 + n - 1)
      BY <2>0, <2>1, RowsAre
    <2>3. DOMAIN list = 1 .. (Chunks(v) - 0)
      <3>1. (IF Chunks(v) < Chunks(v) THEN Chunks(v) + 1 ELSE Chunks(v)) = Chunks(v)
        BY <2>1
      <3> QED BY <2>0, <2>1, <3>1, RowsAre
    <2>4. list_chunks_for_video(v) = list
      BY DEF list_chunks_for_video
    <2> HIDE DEF list
    <2>5. \A n \in DOMAIN list : /\ list[n].video = v /\ list[n].edition = edition[v]
                                 /\ list[n].index < Chunks(v)
      BY <2>1, <2>2, <2>3 DEF Row1
    <2> QED BY <2>2, <2>4, <2>5 DEF ToSet
  <1>2. IsFiniteSet(open) /\ open \in SUBSET Stored
    <2>1. IsFiniteSet(Video) /\ open \in SUBSET Video
      BY DEF RetrievalAssumption, Stored
    <2> QED BY <2>1, FS_Subset
  <1> HIDE DEF open
  <1>3. IsFiniteSet(found)
    <2> DEFINE f == [v \in open |-> ToSet(list_chunks_for_video(v))]
    <2>1. f \in Surjection(open, found)
      BY DEF Surjection
    <2> QED BY <1>2, <2>1, FS_Surjection
  <1>4. \A s \in found : IsFiniteSet(s) /\ s \in SUBSET Chunk
    BY <1>1, SequenceIs
  <1>5. Searchable(member) = UNION found
    BY DEF Searchable, open
  <1>6. IsFiniteSet(UNION found) /\ UNION found \in SUBSET Chunk
    BY <1>3, <1>4, FS_UNION
  <1>7. ASSUME NEW c \in UNION found
        PROVE  /\ member \/ Source[c.video] = "youtube"
               /\ c.edition = edition[c.video] /\ c.edition # 0 /\ c.index < Chunks(c.video)
    <2>1. PICK v \in open : c \in ToSet(list_chunks_for_video(v))
      OBVIOUS
    <2>2. c.video = v /\ c.edition = edition[v] /\ c.index < Chunks(v)
      BY <1>1, <2>1
    <2>3. v \in Stored /\ (member \/ Source[v] = "youtube")
      BY DEF open
    <2>4. edition[v] # 0
      BY <2>3 DEF Stored, RetrievalTypeOK
    <2> QED BY <2>2, <2>3, <2>4
  <1> QED BY <1>5, <1>6, <1>7

\* A search answers some of them, none twice, and no more than it was asked for.
LEMMA FindsAre ==
    ASSUME RetrievalAssumption, RetrievalTypeOK, NEW member \in BOOLEAN, NEW n \in Nat,
           NEW r \in keyword_search(member, n) \cup vector_search_pg(member, n)
    PROVE  /\ r \in Seq(Searchable(member)) /\ r \in Seq(Chunk) /\ Len(r) <= n
           /\ \A i, j \in DOMAIN r : r[i] = r[j] => i = j
  <1>1. MaxMatches \in Nat
    BY DEF RetrievalAssumption
  <1>2. PICK m \in Nat : r \in Rankings(Searchable(member), m) /\ m <= n
    <2>1. CASE r \in vector_search_pg(member, n)
      BY <2>1 DEF vector_search_pg
    <2>2. CASE r \in keyword_search(member, n)
      <3> DEFINE k == IF n < MaxMatches THEN n ELSE MaxMatches
      <3>1. k \in Nat /\ k <= n
        BY <1>1
      <3>2. keyword_search(member, n) = UNION {Rankings(Searchable(member), m) : m \in 0 .. k}
        BY DEF keyword_search
      <3> HIDE DEF k
      <3>3. PICK m \in 0 .. k : r \in Rankings(Searchable(member), m)
        BY <2>2, <3>2
      <3> QED BY <3>1, <3>3
    <2> QED BY <2>1, <2>2
  <1>3. IsFiniteSet(Searchable(member)) /\ Searchable(member) \in SUBSET Chunk
    BY SearchableIs
  <1>4. /\ r \in Seq(Searchable(member)) /\ Len(r) <= m
        /\ \A i, j \in DOMAIN r : r[i] = r[j] => i = j
    BY <1>2, <1>3, RankingsAre
  <1>5. r \in Seq(Chunk)
    BY <1>3, <1>4, SeqMonotonic
  <1>6. Len(r) \in Nat
    BY <1>4, LenProperties
  <1> QED BY <1>2, <1>4, <1>5, <1>6

\* The merge of two searches of a call.
LEMMA MergedAre ==
    ASSUME NEW kw \in Seq(Chunk), NEW vec \in Seq(Chunk),
           Ranking(kw, Chunk), Ranking(vec, Chunk), NEW top_k \in Nat
    PROVE  LET merged == _rrf_merge(kw, vec, top_k)
           IN  /\ merged \in Seq(Chunk)
               /\ ToSet(merged) \subseteq ToSet(kw) \cup ToSet(vec)
  <1> DEFINE all == ToSet(kw) \cup ToSet(vec)
             merged == _rrf_merge(kw, vec, top_k)
  <1>1. \E n \in Nat : merged \in [1 .. n -> all]
    BY MergeIs
  <1>2. all \in SUBSET Chunk
    BY SequenceIs
  <1> HIDE DEF all, merged
  <1>3. PICK n \in Nat : merged \in [1 .. n -> all]
    BY <1>1
  <1>4. merged \in Seq(all)
    BY <1>3, IsSequence
  <1>5. merged \in Seq(Chunk)
    BY <1>2, <1>4, SeqMonotonic
  <1>6. ToSet(merged) \subseteq all
    BY <1>4, SequenceIs
  <1> QED BY <1>5, <1>6 DEF all, merged

\* A part of a sequence.
LEMMA KeptAre ==
    ASSUME NEW S, NEW list \in Seq(S), NEW kept \in SUBSET DOMAIN list
    PROVE  /\ Kept(list, kept) \in Seq(S) /\ Len(Kept(list, kept)) = Cardinality(kept)
           /\ ToSet(Kept(list, kept)) \subseteq ToSet(list)
           /\ \A n \in DOMAIN Kept(list, kept) : 
                 Kept(list, kept)[n] = list[Ascending(kept)[n]] /\ Ascending(kept)[n] \in kept
           /\ Cardinality(kept) \in Nat
  <1> DEFINE at == Ascending(kept)
             n == Cardinality(kept)
             h == Kept(list, kept)
  <1>1. kept \in SUBSET Nat /\ IsFiniteSet(kept)
    <2>1. DOMAIN list \in SUBSET Nat /\ IsFiniteSet(DOMAIN list)
      BY SequenceIs
    <2> QED BY <2>1, FS_Subset
  <1>2. n \in Nat /\ at \in [1 .. n -> kept]
    BY <1>1, AscendingIs
  <1>3. h = [m \in DOMAIN at |-> list[at[m]]]
    BY DEF Kept
  <1> HIDE DEF at, n, h
  <1>4. \A m \in 1 .. n : at[m] \in kept /\ list[at[m]] \in S
    BY <1>2, SequenceIs
  <1>5. h \in [1 .. n -> S] /\ \A m \in 1 .. n : h[m] = list[at[m]]
    BY <1>2, <1>3, <1>4
  <1>6. h \in Seq(S) /\ Len(h) = n /\ DOMAIN h = 1 .. n
    BY <1>2, <1>5, IsSequence
  <1>7. ToSet(h) \subseteq ToSet(list)
    BY <1>4, <1>5, <1>6 DEF ToSet
  <1> QED BY <1>2, <1>4, <1>5, <1>6, <1>7 DEF at, n, h

\* FromCache goes on from where the metadata is.
LEMMA FromCacheIs ==
    ASSUME NEW hits \in Seq(Chunk), NEW meta \in Seq(Meta), NEW known \in [Video -> Meta]
    PROVE  LET got == FromCache(hits, meta, known)
           IN  /\ got \in Seq(Meta) /\ Len(got) \in Nat /\ Len(got) <= Len(hits)
               /\ \A i \in DOMAIN got :
                     got[i] = IF i <= Len(meta) THEN meta[i] ELSE known[hits[i].video]
               /\ \A i \in DOMAIN got : i > Len(meta) => got[i] # "none"
  <1> DEFINE open == {i \in DOMAIN hits : i > Len(meta) /\ known[hits[i].video] = "none"}
             upto == IF open = {} THEN Len(hits) ELSE Min(open) - 1
             got == FromCache(hits, meta, known)
  <1>1. /\ Len(hits) \in Nat /\ DOMAIN hits = 1 .. Len(hits) /\ Len(meta) \in Nat
        /\ DOMAIN meta = 1 .. Len(meta)
    BY SequenceIs
  <1>2. got = [i \in 1 .. upto |-> IF i <= Len(meta) THEN meta[i] ELSE known[hits[i].video]]
    BY DEF FromCache
  <1>3. open # {} => Min(open) \in open /\ \A x \in open : Min(open) <= x
    <2>1. open \in SUBSET Nat
      BY <1>1
    <2> HIDE DEF open
    <2> QED BY <2>1, MinIs
  <1>4. upto \in Nat /\ upto <= Len(hits) /\ \A i \in 1 .. upto : i \notin open
    <2>1. open \subseteq 1 .. Len(hits)
      BY <1>1
    <2> HIDE DEF open
    <2>2. CASE open = {}
      BY <1>1, <2>2
    <2>3. CASE open # {}
      <3>1. Min(open) \in 1 .. Len(hits) /\ upto = Min(open) - 1
        BY <1>3, <2>1, <2>3
      <3> HIDE DEF upto
      <3>2. \A i \in 1 .. upto : i < Min(open)
        BY <1>1, <3>1
      <3>3. \A i \in 1 .. upto : i \notin open
        BY <1>1, <1>3, <2>1, <2>3, <3>1, <3>2
      <3> QED BY <1>1, <3>1, <3>3
    <2> QED BY <2>2, <2>3
  <1> HIDE DEF upto, got
  <1>5. \A i \in 1 .. upto : i > Len(meta) => known[hits[i].video] # "none"
    BY <1>1, <1>4
  <1> HIDE DEF open
  <1>6. \A i \in 1 .. upto : hits[i] \in Chunk
    BY <1>1, <1>4, SequenceIs
  <1>7. \A i \in 1 .. upto :
           (IF i <= Len(meta) THEN meta[i] ELSE known[hits[i].video]) \in Meta
    BY <1>1, <1>6, SequenceIs DEF Chunk
  <1>8. got \in [1 .. upto -> Meta]
    BY <1>2, <1>7
  <1>9. got \in Seq(Meta) /\ Len(got) = upto
    BY <1>4, <1>8, IsSequence
  <1>10. DOMAIN got = 1 .. upto /\ \A i \in 1 .. upto :
            got[i] = IF i <= Len(meta) THEN meta[i] ELSE known[hits[i].video]
    BY <1>2
  <1>11. \A i \in 1 .. upto : i > Len(meta) => got[i] # "none"
    BY <1>1, <1>5, <1>10
  <1> QED BY <1>4, <1>9, <1>10, <1>11 DEF got

-----------------------------------------------------------------------------
(* Spans when nothing changed or failed during the call                     *)

\* c is stored now.
Now(c) == c.edition = edition[c.video] /\ c.edition # 0 /\ c.index < Chunks(c.video)

Calmly(hits, near) ==
    /\ Gathers(hits, near)
    /\ \A i \in DOMAIN hits :
          /\ Now(hits[i])
          /\ near[i] = get_chunk_neighbors(hits[i].video, hits[i].index)

\* The neighbours of a stored chunk are the stored rows about it, itself too.
LEMMA AboutHit ==
    ASSUME RetrievalAssumption, RetrievalTypeOK, NEW h \in Chunk, Now(h)
    PROVE  LET list == get_chunk_neighbors(h.video, h.index)
           IN  /\ \A c \in ToSet(list) : c \in Chunk /\ Now(c) /\ c.video = h.video
               /\ \A c \in ToSet(list), g \in Nat :
                     \/ h.index <= g /\ g <= c.index
                     \/ c.index <= g /\ g <= h.index
                     => Row1(h.video, g) \in ToSet(list)
  <1> DEFINE v == h.video
             from == IF h.index > Window THEN h.index - Window ELSE 0
             to == h.index + Window
             end == IF to < Chunks(v) THEN to + 1 ELSE Chunks(v)
             list == Between(v, from, to)
  <1>1. v \in Video /\ h.index \in Nat /\ Window \in Nat
    BY DEF Chunk, RetrievalAssumption
  <1>2. from \in Nat /\ to \in Nat /\ from <= h.index
    BY <1>1
  <1>3. /\ list \in Seq(Chunk) /\ Chunks(v) \in Nat
        /\ DOMAIN list = 1 .. (end - from)
        /\ \A n \in DOMAIN list : list[n] = Row1(v, from + n - 1)
    BY <1>1, <1>2, RowsAre
  <1>4. h.index < end /\ end <= Chunks(v) /\ end \in Nat
    BY SMTT(30), <1>1, <1>3 DEF Now
  <1>5. list = get_chunk_neighbors(v, h.index)
    BY DEF get_chunk_neighbors
  <1>6. edition[v] # 0
    BY DEF Now
  <1> HIDE DEF v, from, to, end, list
  <1>7. ASSUME NEW c \in ToSet(list)
        PROVE  /\ c \in Chunk /\ c.video = v /\ c.edition = edition[v]
               /\ c.index \in Nat /\ from <= c.index /\ c.index < end
    <2>1. PICK n \in DOMAIN list : c = list[n]
      BY DEF ToSet
    <2>2. n \in 1 .. (end - from) /\ c = Row1(v, from + n - 1) /\ c \in Chunk
      BY <1>3, <2>1, SequenceIs
    <2>3. c.video = v /\ c.edition = edition[v] /\ c.index = from + n - 1
      BY <2>2 DEF Row1
    <2> QED BY <1>2, <1>4, <2>2, <2>3
  <1>8. ASSUME NEW g \in Nat, from <= g, g < end PROVE Row1(v, g) \in ToSet(list)
    <2> DEFINE n == g - from + 1
    <2>1. n \in DOMAIN list /\ from + n - 1 = g
      BY <1>2, <1>3, <1>4, <1>8
    <2> HIDE DEF n
    <2>2. list[n] = Row1(v, g)
      BY <1>3, <2>1
    <2> QED BY <2>1, <2>2 DEF ToSet
  <1>9. ASSUME NEW c \in ToSet(list) PROVE c \in Chunk /\ Now(c) /\ c.video = v
    <2>1. c.index < Chunks(v)
      BY <1>3, <1>4, <1>7
    <2> QED BY <1>6, <1>7, <2>1 DEF Now
  <1>10. ASSUME NEW c \in ToSet(list), NEW g \in Nat,
                \/ h.index <= g /\ g <= c.index
                \/ c.index <= g /\ g <= h.index
         PROVE  Row1(v, g) \in ToSet(list)
    BY <1>1, <1>2, <1>4, <1>7, <1>8, <1>10
  <1> QED BY <1>5, <1>9, <1>10 DEF v

LEMMA SameChunk ==
    ASSUME NEW c \in Chunk, NEW d \in Chunk,
           c.video = d.video, c.edition = d.edition, c.index = d.index
    PROVE  c = d
  <1>1. c = [video |-> c.video, edition |-> c.edition, index |-> c.index]
    BY DEF Chunk
  <1>2. d = [video |-> d.video, edition |-> d.edition, index |-> d.index]
    BY DEF Chunk
  <1> QED BY <1>1, <1>2

LEMMA GatheredNow ==
    ASSUME RetrievalAssumption, RetrievalTypeOK, NEW hits, NEW near, Calmly(hits, near)
    PROVE  /\ \A c \in Gathered(hits, near) : c \in Chunk /\ Now(c)
           /\ \A c, d \in Gathered(hits, near) :
                 c.video = d.video /\ c.index = d.index => c = d
  <1>1. hits \in Seq(Chunk) /\ DOMAIN near = DOMAIN hits
    BY DEF Calmly, Gathers
  <1>2. \A i \in DOMAIN hits : hits[i] \in Chunk /\ Now(hits[i])
    BY <1>1, SequenceIs DEF Calmly
  <1>3. ASSUME NEW c \in Gathered(hits, near) PROVE c \in Chunk /\ Now(c)
    <2>1. CASE c \in ToSet(hits)
      BY <1>2, <2>1 DEF ToSet
    <2>2. CASE c \notin ToSet(hits)
      <3>1. PICK i \in DOMAIN hits : c \in ToSet(near[i])
        BY <1>1, <1>3, <2>2 DEF Gathered
      <3>2. near[i] = get_chunk_neighbors(hits[i].video, hits[i].index)
        BY DEF Calmly
      <3> QED BY <1>2, <3>1, <3>2, AboutHit
    <2> QED BY <2>1, <2>2
  <1>4. ASSUME NEW c \in Gathered(hits, near), NEW d \in Gathered(hits, near),
               c.video = d.video, c.index = d.index
        PROVE  c = d
    <2>1. c.edition = d.edition /\ c \in Chunk /\ d \in Chunk
      BY <1>3, <1>4 DEF Now
    <2> QED BY <1>4, <2>1, SameChunk
  <1> QED BY <1>3, <1>4

\* Sorted, each video's chunks are together, by index.
LEMMA SortedNow ==
    ASSUME RetrievalAssumption, RetrievalTypeOK, NEW hits, NEW near, Calmly(hits, near)
    PROVE  LET list == Sorted(hits, near)
           IN  /\ \A i, j \in DOMAIN list :
                     i < j /\ list[i].video = list[j].video => list[i].index < list[j].index
               /\ \A i, j, m \in DOMAIN list :
                     i < m /\ m < j /\ list[i].video = list[j].video
                     => list[m].video = list[i].video
  <1> DEFINE list == Sorted(hits, near)
             f(i) == FirstOf(hits, list[i].video)
  <1>1. Gathers(hits, near) /\ hits \in Seq(Chunk)
    BY DEF Calmly, Gathers
  <1>2. /\ list \in Seq(Chunk) /\ ToSet(list) = Gathered(hits, near)
        /\ \A i, j \in DOMAIN list : list[i] = list[j] => i = j
        /\ \A i, j \in DOMAIN list : i < j <=> Precedes(hits, near, list[i], list[j])
    BY <1>1, SortedIs
  <1>3. DOMAIN list \in SUBSET Nat /\ \A i \in DOMAIN list : list[i] \in Gathered(hits, near)
    BY <1>2, SequenceIs DEF ToSet
  <1> HIDE DEF list
  <1>4. ASSUME NEW i \in DOMAIN list
        PROVE  f(i) \in Nat /\ hits[f(i)].video = list[i].video
    <2>1. PICK k \in DOMAIN hits : hits[k].video = list[i].video
      BY <1>1, <1>3, GatheredIs
    <2> QED BY <1>1, <2>1, FirstIs
  <1>5. \A i \in DOMAIN list : list[i] \in Chunk /\ list[i].index \in Nat
    BY <1>3, GatheredNow DEF Chunk
  <1>6. ASSUME NEW i \in DOMAIN list, NEW j \in DOMAIN list, i < j,
               list[i].video = list[j].video
        PROVE  list[i].index < list[j].index
    <2>1. i # j /\ Precedes(hits, near, list[i], list[j])
      BY <1>2, <1>3, <1>6
    <2>2. list[i].index # list[j].index
      BY <1>2, <1>3, <1>6, <2>1, GatheredNow
    <2>3. ~ (f(i) < f(j))
      BY <1>4, <1>6
    <2> QED BY <2>1, <2>2, <2>3 DEF Precedes
  <1>7. ASSUME NEW i \in DOMAIN list, NEW j \in DOMAIN list, i < j PROVE f(i) <= f(j)
    <2>1. Precedes(hits, near, list[i], list[j])
      BY <1>2, <1>7
    <2>2. f(i) < f(j) \/ list[i].video = list[j].video
      BY <2>1 DEF Precedes
    <2> QED BY <1>4, <2>2
  <1>8. ASSUME NEW i \in DOMAIN list, NEW j \in DOMAIN list, NEW m \in DOMAIN list,
               i < m, m < j, list[i].video = list[j].video
        PROVE  list[m].video = list[i].video
    <2>1. f(i) <= f(m) /\ f(m) <= f(j) /\ f(i) = f(j)
      BY <1>7, <1>8
    <2>2. f(m) = f(i)
      BY <1>4, <2>1
    <2> QED BY <1>4, <2>2
  <1> QED BY <1>6, <1>8 DEF list

\* A run is a stretch of one video: its indices go up by one.
LEMMA RunIsStretch ==
    ASSUME RetrievalAssumption, RetrievalTypeOK, NEW hits, NEW near, Calmly(hits, near),
           NEW k \in DOMAIN Runs(Sorted(hits, near))
    PROVE  LET run == Runs(Sorted(hits, near))[k]
           IN  /\ run \in Seq(Chunk) /\ Len(run) \in Nat \ {0} /\ DOMAIN run = 1 .. Len(run)
               /\ \A i \in DOMAIN run : run[i] \in Gathered(hits, near)
               /\ \A i \in DOMAIN run :
                     /\ run[i].video = run[1].video
                     /\ run[i].index = run[1].index + i - 1
  <1> DEFINE list == Sorted(hits, near)
             run == Runs(list)[k]
             s == Ascending(Starts(list))[k]
             e == End(list, k)
  <1>1. list \in Seq(Chunk) /\ ToSet(list) = Gathered(hits, near)
    BY SortedIs DEF Calmly
  <1>2. /\ Len(list) \in Nat /\ DOMAIN list = 1 .. Len(list)
        /\ \A i \in DOMAIN list : list[i] \in Gathered(hits, near)
        /\ \A i \in DOMAIN list : list[i] \in Chunk /\ list[i].index \in Nat
    <2>1. /\ Len(list) \in Nat /\ DOMAIN list = 1 .. Len(list)
          /\ \A i \in DOMAIN list : list[i] \in Chunk
      BY <1>1, SequenceIs
    <2>2. \A i \in DOMAIN list : list[i] \in Gathered(hits, near)
      BY <1>1 DEF ToSet
    <2>3. \A c \in Chunk : c.index \in Nat
      BY DEF Chunk
    <2> QED BY <2>1, <2>2, <2>3
  <1> HIDE DEF list
  <1>3. k \in DOMAIN Runs(list)
    BY DEF list
  <1>4. /\ s \in 1 .. Len(list) /\ e \in s .. Len(list) /\ Len(run) = e - s + 1
        /\ \A i \in 1 .. Len(run) : run[i] = list[s + i - 1]
        /\ \A m \in (s + 1) .. e : m \notin Starts(list)
    BY <1>1, <1>3, RunsAre
  <1>5. run \in Seq(Chunk)
    <2>1. Runs(list) \in Seq(Seq(Chunk))
      BY <1>1, RunsAre
    <2> QED BY <1>3, <2>1, SequenceIs
  <1> HIDE DEF run, s, e
  <1>6. Len(run) \in Nat \ {0} /\ DOMAIN run = 1 .. Len(run)
    BY <1>2, <1>4, <1>5, SequenceIs
  <1>7. \A i \in DOMAIN run : s + i - 1 \in DOMAIN list /\ run[i] = list[s + i - 1]
    BY <1>2, <1>4, <1>6
  <1>8. ASSUME NEW i \in DOMAIN run, i + 1 \in DOMAIN run
        PROVE  run[i + 1].video = run[i].video /\ run[i + 1].index = run[i].index + 1
    <2>1. s + i \in (s + 1) .. e /\ s + i \in DOMAIN list /\ s + i # 1
      BY <1>2, <1>4, <1>6, <1>8
    <2>2. s + i \notin Starts(list)
      BY <1>4, <2>1
    <2>3. list[s + i].video = list[s + i - 1].video /\ list[s + i].index = list[s + i - 1].index + 1
      <3>1. ASSUME NEW m \in DOMAIN list, m \notin Starts(list)
            PROVE  list[m].video = list[m - 1].video /\ list[m].index = list[m - 1].index + 1
        BY <3>1 DEF Starts
      <3> DEFINE m == s + i
      <3>2. m \in DOMAIN list /\ m \notin Starts(list)
        BY <2>1, <2>2
      <3> HIDE DEF m
      <3>3. list[m].video = list[m - 1].video /\ list[m].index = list[m - 1].index + 1
        BY <3>1, <3>2
      <3>4. (s + i) - 1 = s + i - 1
        BY <1>2, <1>4, <1>6
      <3> QED BY <3>3, <3>4 DEF m
    <2>4. s + (i + 1) - 1 = s + i
      BY <1>4, <1>6
    <2>5. run[i + 1] = list[s + i] /\ run[i] = list[s + i - 1]
      BY <1>7, <1>8, <2>4
    <2> QED BY <2>3, <2>5
  <1>9. \A i \in DOMAIN run : run[i].index \in Nat /\ run[i] \in Gathered(hits, near)
    BY <1>2, <1>7
  <1> DEFINE On(i) == run[i].video = run[1].video /\ run[i].index = run[1].index + i - 1
             off == {i \in DOMAIN run : ~ On(i)}
  <1>10. off = {}
    <2> SUFFICES ASSUME off # {} PROVE FALSE
      OBVIOUS
    <2>1. off \in SUBSET Nat
      BY <1>6
    <2> HIDE DEF off
    <2>2. PICK i \in off : \A j \in off : i <= j
      BY <2>1, LeastNatural
    <2>3. i \in DOMAIN run /\ ~ On(i)
      BY DEF off
    <2>4. i # 1
      <3>1. On(1)
        BY <1>6, <1>9
      <3> QED BY <2>3, <3>1
    <2>5. i - 1 \in DOMAIN run /\ (i - 1) + 1 = i /\ i - 1 < i
      BY <1>6, <2>3, <2>4
    <2>6. i - 1 \notin off
      BY <2>1, <2>2, <2>5
    <2>7. On(i - 1)
      BY <2>5, <2>6 DEF off
    <2>8. run[i].video = run[i - 1].video /\ run[i].index = run[i - 1].index + 1
      BY <1>8, <2>3, <2>5
    <2>9. run[1].index \in Nat /\ i \in Nat
      BY SMTT(30), <1>6, <1>9, <2>3
    <2>10. run[i - 1].index = run[1].index + (i - 1) - 1
      BY <2>7
    <2>11. run[i].index = run[1].index + i - 1
      <3> DEFINE x == run[1].index
                 y == run[i - 1].index
      <3>1. x \in Nat /\ y = x + (i - 1) - 1 /\ run[i].index = y + 1
        BY <2>8, <2>9, <2>10
      <3> HIDE DEF x, y
      <3>2. run[i].index = x + i - 1
        BY <2>9, <3>1
      <3> QED BY <3>2 DEF x
    <2>12. run[i].video = run[1].video
      BY <2>7, <2>8
    <2> QED BY <2>3, <2>11, <2>12
  <1>11. \A i \in DOMAIN run : On(i)
    BY <1>10
  <1> HIDE DEF On
  <1> QED BY <1>5, <1>6, <1>9, <1>11 DEF On, run, list

\* Two runs of one video do not touch.
LEMMA RunsHaveGaps ==
    ASSUME RetrievalAssumption, RetrievalTypeOK, NEW hits, NEW near, Calmly(hits, near),
           NEW k \in DOMAIN Runs(Sorted(hits, near)), NEW l \in DOMAIN Runs(Sorted(hits, near)),
           k < l, Runs(Sorted(hits, near))[k][1].video = Runs(Sorted(hits, near))[l][1].video
    PROVE  LET runs == Runs(Sorted(hits, near))
           IN  runs[k][Len(runs[k])].index + 1 < runs[l][1].index
  <1> DEFINE list == Sorted(hits, near)
             runs == Runs(list)
             start == Ascending(Starts(list))
             e == End(list, k)
             n == start[k + 1]
  <1>1. list \in Seq(Chunk) /\ ToSet(list) = Gathered(hits, near)
    BY SortedIs DEF Calmly
  <1>2. /\ Len(list) \in Nat /\ DOMAIN list = 1 .. Len(list)
        /\ \A i \in DOMAIN list : list[i].index \in Nat
    <2>1. /\ Len(list) \in Nat /\ DOMAIN list = 1 .. Len(list)
          /\ \A i \in DOMAIN list : list[i] \in Chunk
      BY <1>1, SequenceIs
    <2>2. \A c \in Chunk : c.index \in Nat
      BY DEF Chunk
    <2> QED BY <2>1, <2>2
  <1>3. /\ \A i, j \in DOMAIN list :
              i < j /\ list[i].video = list[j].video => list[i].index < list[j].index
        /\ \A i, j, m \in DOMAIN list :
              i < m /\ m < j /\ list[i].video = list[j].video => list[m].video = list[i].video
    BY SortedNow
  <1> HIDE DEF list
  <1>4. runs[k][1].video = runs[l][1].video
    BY DEF list
  <1>5. k \in DOMAIN runs /\ l \in DOMAIN runs
    BY DEF list
  <1>6. /\ DOMAIN runs = 1 .. Len(start) /\ Len(start) \in Nat
        /\ \A i \in 1 .. Len(start) : start[i] \in Starts(list) /\ start[i] \in 1 .. Len(list)
        /\ \A i, j \in 1 .. Len(start) : i < j <=> start[i] < start[j]
    <2>1. DOMAIN runs = DOMAIN start
      BY <1>1, RunsAre
    <2> QED BY <1>1, <2>1, StartsAre
  <1>7. /\ e \in start[k] .. Len(list) /\ Len(runs[k]) = e - start[k] + 1
        /\ \A i \in 1 .. Len(runs[k]) : runs[k][i] = list[start[k] + i - 1]
    BY <1>1, <1>5, RunsAre
  <1>8. /\ End(list, l) \in start[l] .. Len(list) /\ Len(runs[l]) = End(list, l) - start[l] + 1
        /\ \A i \in 1 .. Len(runs[l]) : runs[l][i] = list[start[l] + i - 1]
    BY <1>1, <1>5, RunsAre
  <1>9. e = n - 1
    <2>1. k # Len(start)
      BY <1>5, <1>6
    <2> QED BY <2>1 DEF End
  <1>10. \A i \in DOMAIN runs[k] : runs[k][i].video = runs[k][1].video
    <2>1. \A i \in DOMAIN Runs(Sorted(hits, near))[k] :
             Runs(Sorted(hits, near))[k][i].video = Runs(Sorted(hits, near))[k][1].video
      BY RunIsStretch
    <2> QED BY <2>1 DEF list
  <1>11. DOMAIN runs[k] = 1 .. Len(runs[k])
    <2>1. DOMAIN Runs(Sorted(hits, near))[k] = 1 .. Len(Runs(Sorted(hits, near))[k])
      BY RunIsStretch
    <2> QED BY <2>1 DEF list
  <1> HIDE DEF runs, start, e, n
  <1>12. k + 1 \in 1 .. Len(start) /\ (k + 1 = l \/ k + 1 < l)
    BY <1>5, <1>6
  <1>13. n \in Starts(list) /\ n \in 1 .. Len(list) /\ n <= start[l] /\ start[l] \in 1 .. Len(list)
         /\ start[k] \in 1 .. Len(list)
    <2>1. n \in Starts(list) /\ n \in 1 .. Len(list) /\ start[l] \in 1 .. Len(list)
          /\ start[k] \in 1 .. Len(list)
      BY <1>5, <1>6, <1>12 DEF n
    <2>2. n <= start[l]
      BY <1>5, <1>6, <1>12, <2>1 DEF n
    <2> QED BY <2>1, <2>2
  <1>14. runs[k][Len(runs[k])] = list[e] /\ list[e].video = runs[k][1].video /\ e \in DOMAIN list
    <2>1. Len(runs[k]) \in 1 .. Len(runs[k]) /\ start[k] + Len(runs[k]) - 1 = e
      BY <1>2, <1>7, <1>13
    <2>2. runs[k][Len(runs[k])] = list[e]
      BY <1>7, <2>1
    <2>3. runs[k][Len(runs[k])].video = runs[k][1].video
      BY <1>10, <1>11, <2>1
    <2>4. e \in DOMAIN list
      BY <1>2, <1>7, <1>13
    <2> QED BY <2>2, <2>3, <2>4
  <1>15. runs[l][1] = list[start[l]]
    <2>1. 1 \in 1 .. Len(runs[l]) /\ start[l] + 1 - 1 = start[l]
      BY <1>2, <1>8, <1>13
    <2> QED BY <1>8, <2>1
  <1>16. list[n].video = list[e].video
    <2>1. list[e].video = list[start[l]].video
      BY <1>4, <1>14, <1>15
    <2>2. e < n /\ n \in DOMAIN list /\ start[l] \in DOMAIN list
      BY <1>2, <1>9, <1>13
    <2>3. n = start[l] \/ n < start[l]
      BY <1>2, <1>13
    <2> QED BY <1>3, <1>14, <2>1, <2>2, <2>3
  <1>17. list[e].index + 1 < list[n].index
    <2>1. n - 1 = e /\ e < n /\ n # 1 /\ n \in DOMAIN list
      BY <1>2, <1>9, <1>13, <1>14
    <2>2. list[n].index # list[e].index + 1
      BY <1>13, <1>16, <2>1 DEF Starts
    <2>3. list[e].index < list[n].index
      BY <1>3, <1>14, <1>16, <2>1
    <2> QED BY <1>2, <1>14, <2>1, <2>2, <2>3
  <1>18. list[n].index <= list[start[l]].index
    <2>1. CASE n = start[l]
      BY <1>2, <1>13, <2>1
    <2>2. CASE n # start[l]
      <3>1. n < start[l] /\ n \in DOMAIN list /\ start[l] \in DOMAIN list
        BY <1>2, <1>13, <2>2
      <3>2. list[n].video = list[start[l]].video
        BY <1>4, <1>14, <1>15, <1>16
      <3>3. list[n].index < list[start[l]].index
        BY <1>3, <3>1, <3>2
      <3> QED BY <1>2, <3>1, <3>3
    <2> QED BY <2>1, <2>2
  <1>19. list[e].index \in Nat /\ list[n].index \in Nat /\ list[start[l]].index \in Nat
    BY <1>2, <1>13, <1>14
  <1>20. runs[k][Len(runs[k])].index + 1 < runs[l][1].index
    BY <1>14, <1>15, <1>17, <1>18, <1>19
  <1> QED BY <1>20 DEF runs, list

LEMMA RunBounds ==
    ASSUME RetrievalAssumption, RetrievalTypeOK, NEW hits, NEW near, Calmly(hits, near),
           NEW k \in DOMAIN Runs(Sorted(hits, near)),
           NEW c \in ToSet(Runs(Sorted(hits, near))[k])
    PROVE  LET run == Runs(Sorted(hits, near))[k]
           IN  /\ c \in Gathered(hits, near) /\ c.video = run[1].video
               /\ run[1].index \in Nat /\ run[Len(run)].index \in Nat /\ c.index \in Nat
               /\ run[1].index <= c.index /\ c.index <= run[Len(run)].index
  <1> DEFINE run == Runs(Sorted(hits, near))[k]
  <1>1. /\ run \in Seq(Chunk) /\ Len(run) \in Nat \ {0} /\ DOMAIN run = 1 .. Len(run)
        /\ \A i \in DOMAIN run : run[i] \in Gathered(hits, near)
        /\ \A i \in DOMAIN run : /\ run[i].video = run[1].video
                                 /\ run[i].index = run[1].index + i - 1
    BY RunIsStretch
  <1> HIDE DEF run
  <1>2. PICK i \in DOMAIN run : run[i] = c
    BY DEF ToSet, run
  <1>3. 1 \in DOMAIN run /\ Len(run) \in DOMAIN run /\ i \in 1 .. Len(run)
    BY <1>1, <1>2
  <1>4. \A j \in DOMAIN run : run[j].index \in Nat
    <2>1. \A j \in DOMAIN run : run[j] \in Chunk
      BY <1>1, SequenceIs
    <2>2. \A x \in Chunk : x.index \in Nat
      BY DEF Chunk
    <2> QED BY <2>1, <2>2
  <1>5. /\ c.index = run[1].index + i - 1
        /\ run[Len(run)].index = run[1].index + Len(run) - 1
        /\ c.video = run[1].video /\ c \in Gathered(hits, near)
    BY <1>1, <1>2, <1>3
  <1>6. run[1].index \in Nat /\ run[Len(run)].index \in Nat /\ c.index \in Nat
    BY <1>2, <1>3, <1>4
  <1>7. run[1].index <= c.index /\ c.index <= run[Len(run)].index
    BY <1>1, <1>3, <1>5, <1>6
  <1> QED BY <1>5, <1>6, <1>7 DEF run

LEMMA RunsCover ==
    ASSUME RetrievalAssumption, NEW hits, NEW near, Gathers(hits, near),
           NEW c \in Gathered(hits, near)
    PROVE  \E k \in DOMAIN Runs(Sorted(hits, near)) : c \in ToSet(Runs(Sorted(hits, near))[k])
  <1> DEFINE runs == Runs(Sorted(hits, near))
             spans == expand_and_merge(hits, <<>>, near)
  <1>1. <<>> \in Seq(Meta)
    OBVIOUS
  <1>2. BodyOf(spans) = Gathered(hits, near)
    BY <1>1, ExpandsTo
  <1>3. DOMAIN spans = DOMAIN runs /\ \A n \in DOMAIN runs : spans[n].body = runs[n]
    BY ZenonT(60), <1>1, SpansAre
  <1> HIDE DEF runs, spans
  <1>4. PICK n \in DOMAIN spans : \E i \in DOMAIN spans[n].body : spans[n].body[i] = c
    BY <1>2, BodyIs
  <1>5. c \in ToSet(runs[n]) /\ n \in DOMAIN runs
    BY <1>3, <1>4 DEF ToSet
  <1> QED BY <1>5 DEF runs

\* The stored chunks between a hit and its neighbour were gathered, so that no
\* run can end between them.
LEMMA NoRunEndsBetween ==
    ASSUME RetrievalAssumption, RetrievalTypeOK, NEW hits, NEW near, Calmly(hits, near),
           NEW k \in DOMAIN Runs(Sorted(hits, near)), NEW l \in DOMAIN Runs(Sorted(hits, near)),
           k < l, NEW c \in ToSet(Runs(Sorted(hits, near))[k]),
           NEW d \in ToSet(Runs(Sorted(hits, near))[l]), c.video = d.video,
           \A g \in Nat : c.index <= g /\ g <= d.index => Row1(c.video, g) \in Gathered(hits, near)
    PROVE  FALSE
  <1> DEFINE runs == Runs(Sorted(hits, near))
             from(q) == runs[q][1].index
             to(q) == runs[q][Len(runs[q])].index
             v(q) == runs[q][1].video
             g == to(k) + 1
             r == Row1(c.video, g)
  <1>1. \A q \in DOMAIN runs : \A x \in ToSet(runs[q]) :
           /\ x.video = v(q) /\ from(q) \in Nat /\ to(q) \in Nat /\ x.index \in Nat
           /\ from(q) <= x.index /\ x.index <= to(q)
    BY RunBounds
  <1>2. \A p, q \in DOMAIN runs : p < q /\ v(p) = v(q) => to(p) + 1 < from(q)
    BY RunsHaveGaps
  <1>3. Gathers(hits, near)
    BY DEF Calmly
  <1>4. \A x \in Gathered(hits, near) : \E q \in DOMAIN runs : x \in ToSet(runs[q])
    BY <1>3, RunsCover
  <1>5. DOMAIN runs \in SUBSET Nat
    <2>1. Sorted(hits, near) \in Seq(Chunk)
      BY <1>3, SortedIs
    <2>2. runs \in Seq(Seq(Chunk))
      BY <2>1, RunsAre
    <2> HIDE DEF runs
    <2> QED BY <2>2, SequenceIs
  <1>6. k \in DOMAIN runs /\ l \in DOMAIN runs /\ c \in ToSet(runs[k]) /\ d \in ToSet(runs[l])
    OBVIOUS
  <1> HIDE DEF runs, from, to, v
  <1>7. /\ v(k) = v(l) /\ to(k) + 1 < from(l)
        /\ c.index <= to(k) /\ from(l) <= d.index
        /\ to(k) \in Nat /\ from(l) \in Nat /\ from(k) \in Nat /\ from(k) <= to(k)
        /\ c.index \in Nat /\ d.index \in Nat /\ c.video = v(k)
    <2>1. /\ c.video = v(k) /\ from(k) \in Nat /\ to(k) \in Nat /\ c.index \in Nat
          /\ from(k) <= c.index /\ c.index <= to(k)
      BY <1>1, <1>6
    <2>2. /\ d.video = v(l) /\ from(l) \in Nat /\ d.index \in Nat /\ from(l) <= d.index
      BY <1>1, <1>6
    <2>3. to(k) + 1 < from(l)
      BY <1>2, <1>6, <2>1, <2>2
    <2>4. from(k) <= to(k)
      BY <2>1
    <2>5. v(k) = v(l)
      BY <2>1, <2>2
    <2> QED BY <2>1, <2>2, <2>3, <2>4, <2>5
  <1>8. g \in Nat /\ c.index <= g /\ g <= d.index
    BY <1>7
  <1>9. r \in Gathered(hits, near) /\ r.video = v(k) /\ r.index = g
    BY <1>7, <1>8 DEF Row1
  <1> HIDE DEF r
  <1>10. PICK q \in DOMAIN runs : r \in ToSet(runs[q])
    BY <1>4, <1>9
  <1>11. v(q) = v(k) /\ from(q) \in Nat /\ to(q) \in Nat /\ from(q) <= g /\ g <= to(q)
    BY <1>1, <1>9, <1>10
  <1>12. ~ (q = k)
    BY <1>7, <1>11
  <1>13. ~ (k < q)
    <2>1. k < q => g < from(q)
      BY <1>2, <1>6, <1>10, <1>11
    <2> QED BY <1>8, <1>11, <2>1
  <1>14. ~ (q < k)
    <2>1. q < k => to(q) + 1 < from(k)
      BY <1>2, <1>6, <1>10, <1>11
    <2> QED BY <1>7, <1>8, <1>11, <2>1
  <1>15. q \in Nat /\ k \in Nat
    BY <1>5, <1>6, <1>10
  <1> QED BY <1>12, <1>13, <1>14, <1>15

LEMMA HitAndNeighbor ==
    ASSUME RetrievalAssumption, RetrievalTypeOK, NEW hits, NEW near, Calmly(hits, near),
           NEW i \in DOMAIN hits, NEW c \in ToSet(near[i]),
           NEW k \in DOMAIN Runs(Sorted(hits, near)), NEW l \in DOMAIN Runs(Sorted(hits, near)),
           hits[i] \in ToSet(Runs(Sorted(hits, near))[k]), c \in ToSet(Runs(Sorted(hits, near))[l])
    PROVE  k = l
  <1> DEFINE h == hits[i]
  <1>1. hits \in Seq(Chunk) /\ DOMAIN near = DOMAIN hits /\ Gathers(hits, near)
    BY DEF Calmly, Gathers
  <1>2. h \in Chunk /\ Now(h) /\ near[i] = get_chunk_neighbors(h.video, h.index)
    BY <1>1, SequenceIs DEF Calmly
  <1>3. c \in Chunk /\ c.video = h.video
    BY <1>2, AboutHit
  <1>4. \A g \in Nat : \/ h.index <= g /\ g <= c.index
                       \/ c.index <= g /\ g <= h.index
                       => Row1(h.video, g) \in Gathered(hits, near)
    <2>1. \A g \in Nat : \/ h.index <= g /\ g <= c.index
                         \/ c.index <= g /\ g <= h.index
                         => Row1(h.video, g) \in ToSet(near[i])
      BY <1>2, AboutHit
    <2> QED BY <1>1, <2>1 DEF Gathered
  <1> HIDE DEF h
  <1>5. ~ (k < l)
    <2> SUFFICES ASSUME k < l PROVE FALSE
      OBVIOUS
    <2>1. \A g \in Nat : h.index <= g /\ g <= c.index => Row1(h.video, g) \in Gathered(hits, near)
      BY <1>4
    <2> QED BY <1>3, <2>1, NoRunEndsBetween DEF h
  <1>6. ~ (l < k)
    <2> SUFFICES ASSUME l < k PROVE FALSE
      OBVIOUS
    <2>1. \A g \in Nat : c.index <= g /\ g <= h.index => Row1(c.video, g) \in Gathered(hits, near)
      BY <1>3, <1>4
    <2> QED BY <1>3, <2>1, NoRunEndsBetween DEF h
  <1>7. k \in Nat /\ l \in Nat
    <2>1. Sorted(hits, near) \in Seq(Chunk)
      BY <1>1, SortedIs
    <2>2. Runs(Sorted(hits, near)) \in Seq(Seq(Chunk))
      BY <2>1, RunsAre
    <2> QED BY <2>2, SequenceIs
  <1> QED BY <1>5, <1>6, <1>7

\* CalmSpans, of any answer.
CalmTold(hits, spans) ==
    /\ \A n \in DOMAIN spans :
          LET s == spans[n] IN
          /\ \A i \in DOMAIN s.body : s.body[i] = [s.id EXCEPT !.index = s.from + i - 1]
          /\ s.source = Source[s.id.video]
          /\ s.id \in ToSet(hits)
    /\ \A n, m \in DOMAIN spans :
          LET s == spans[n]
              t == spans[m]
          IN  n < m /\ s.id.video = t.id.video => s.to + 1 < t.from
    /\ \A h \in ToSet(hits), s \in ToSet(spans) :
          h \in ToSet(s.body) =>
             ToSet(get_chunk_neighbors(h.video, h.index)) \subseteq ToSet(s.body)

\* Every run holds a hit.
LEMMA RunHasHit ==
    ASSUME RetrievalAssumption, RetrievalTypeOK, NEW hits, NEW near, Calmly(hits, near),
           NEW k \in DOMAIN Runs(Sorted(hits, near))
    PROVE  \E h \in ToSet(hits) : h \in ToSet(Runs(Sorted(hits, near))[k])
  <1> DEFINE runs == Runs(Sorted(hits, near))
             c == runs[k][1]
  <1>1. c \in ToSet(runs[k]) /\ c \in Gathered(hits, near)
    <2>1. 1 \in DOMAIN runs[k] /\ runs[k][1] \in Gathered(hits, near)
      BY RunIsStretch
    <2> HIDE DEF runs
    <2> QED BY <2>1 DEF ToSet
  <1>2. Gathers(hits, near) /\ hits \in Seq(Chunk) /\ DOMAIN near = DOMAIN hits
    BY DEF Calmly, Gathers
  <1>3. CASE c \in ToSet(hits)
    BY <1>1, <1>3
  <1>4. CASE c \notin ToSet(hits)
    <2>1. PICK i \in DOMAIN hits : c \in ToSet(near[i])
      BY <1>1, <1>2, <1>4 DEF Gathered
    <2>2. hits[i] \in ToSet(hits) /\ hits[i] \in Gathered(hits, near)
      BY DEF ToSet, Gathered
    <2>3. PICK l \in DOMAIN runs : hits[i] \in ToSet(runs[l])
      BY <1>2, <2>2, RunsCover
    <2>4. l = k
      BY <1>1, <2>1, <2>3, HitAndNeighbor
    <2> QED BY <2>2, <2>3, <2>4
  <1> QED BY <1>3, <1>4

\* So each run is named after a hit.
LEMMA AnchorIsHit ==
    ASSUME RetrievalAssumption, RetrievalTypeOK, NEW hits, NEW near, Calmly(hits, near),
           NEW k \in DOMAIN Runs(Sorted(hits, near))
    PROVE  LET run == Runs(Sorted(hits, near))[k]
           IN  /\ Anchor(run, hits) \in ToSet(hits) /\ Anchor(run, hits) \in ToSet(run)
  <1> DEFINE run == Runs(Sorted(hits, near))[k]
             at == {i \in DOMAIN run : \E h \in ToSet(hits) :
                       h.video = run[i].video /\ h.index = run[i].index}
             a == Anchor(run, hits)
  <1>1. /\ run \in Seq(Chunk) /\ Len(run) \in Nat \ {0}
        /\ \A i \in DOMAIN run : run[i] \in Gathered(hits, near)
    BY RunIsStretch
  <1>2. PICK h \in ToSet(hits) : h \in ToSet(run)
    BY RunHasHit
  <1>3. hits \in Seq(Chunk) /\ ToSet(hits) \subseteq Gathered(hits, near)
    BY DEF Calmly, Gathers, Gathered
  <1> HIDE DEF run
  <1>4. at # {}
    BY <1>2 DEF ToSet
  <1>5. run # <<>>
    BY <1>1
  <1>6. PICK i \in DOMAIN run : a = run[i] /\ i \in at
    BY <1>1, <1>3, <1>4, <1>5, AnchorIs
  <1>7. PICK g \in ToSet(hits) : g.video = run[i].video /\ g.index = run[i].index
    BY <1>6
  <1>8. g = run[i]
    BY <1>1, <1>3, <1>7, GatheredNow
  <1>9. a \in ToSet(hits) /\ a \in ToSet(run)
    BY <1>6, <1>7, <1>8 DEF ToSet
  <1> QED BY <1>9 DEF run

LEMMA CalmExpands ==
    ASSUME RetrievalAssumption, RetrievalTypeOK, NEW hits, NEW near, Calmly(hits, near),
           NEW meta \in Seq(Meta), Len(meta) = Len(hits),
           \A i \in DOMAIN meta : meta[i] = "known"
    PROVE  CalmTold(hits, expand_and_merge(hits, meta, near))
  <1> DEFINE runs == Runs(Sorted(hits, near))
             spans == expand_and_merge(hits, meta, near)
  <1>1. Gathers(hits, near) /\ hits \in Seq(Chunk) /\ DOMAIN near = DOMAIN hits
    BY DEF Calmly, Gathers
  <1>2. /\ DOMAIN spans = DOMAIN runs
        /\ \A n \in DOMAIN runs :
              /\ runs[n] \in Seq(Chunk) /\ runs[n] # <<>>
              /\ spans[n] = Span(runs[n], hits, meta) /\ spans[n].body = runs[n]
    BY <1>1, SpansAre
  <1>3. \A n \in DOMAIN runs :
           /\ \A c \in ToSet(runs[n]) :
                 /\ c \in Gathered(hits, near) /\ c.video = runs[n][1].video
           /\ \A i \in DOMAIN runs[n] :
                 /\ runs[n][i] \in Gathered(hits, near)
                 /\ runs[n][i].video = runs[n][1].video
                 /\ runs[n][i].index = runs[n][1].index + i - 1
    BY RunBounds, RunIsStretch
  <1>4. \A k, l \in DOMAIN runs : k < l /\ runs[k][1].video = runs[l][1].video
           => runs[k][Len(runs[k])].index + 1 < runs[l][1].index
    BY RunsHaveGaps
  <1>5. \A n \in DOMAIN runs : Anchor(runs[n], hits) \in ToSet(hits)
                               /\ Anchor(runs[n], hits) \in ToSet(runs[n])
    BY AnchorIsHit
  <1>6. \A c \in Gathered(hits, near) : \E k \in DOMAIN runs : c \in ToSet(runs[k])
    BY <1>1, RunsCover
  <1>7. \A i \in DOMAIN hits : \A c \in ToSet(near[i]) : \A k, l \in DOMAIN runs :
           hits[i] \in ToSet(runs[k]) /\ c \in ToSet(runs[l]) => k = l
    BY HitAndNeighbor
  <1> HIDE DEF runs, spans
  <1>8. \A n \in DOMAIN runs :
           /\ spans[n].id = Anchor(runs[n], hits)
           /\ spans[n].from = runs[n][1].index
           /\ spans[n].to = runs[n][Len(runs[n])].index
    BY <1>1, <1>2, SpanIs
  <1>9. \A c \in Gathered(hits, near) : c \in Chunk /\ Now(c)
    BY GatheredNow
  <1>10. ASSUME NEW n \in DOMAIN spans, NEW i \in DOMAIN spans[n].body
         PROVE  spans[n].body[i] = [spans[n].id EXCEPT !.index = spans[n].from + i - 1]
    <2> DEFINE c == runs[n][i]
               a == Anchor(runs[n], hits)
    <2>1. /\ n \in DOMAIN runs /\ i \in DOMAIN runs[n] /\ spans[n].body[i] = c
          /\ spans[n].id = a /\ spans[n].from = runs[n][1].index
      BY <1>2, <1>8
    <2>2. c \in Chunk /\ Now(c) /\ a \in Chunk /\ Now(a)
      BY <1>3, <1>5, <1>9, <2>1
    <2>3. c.video = a.video /\ c.index = spans[n].from + i - 1
      BY <1>3, <1>5, <2>1
    <2>4. c.edition = a.edition
      BY <2>2, <2>3 DEF Now
    <2> HIDE DEF c, a
    <2> DEFINE x == spans[n].from + i - 1
    <2>5. x \in Nat
      BY <2>2, <2>3 DEF Chunk
    <2>6. [a EXCEPT !.index = x] \in Chunk
      BY <2>2, <2>5 DEF Chunk
    <2>7. /\ [a EXCEPT !.index = x].video = a.video /\ [a EXCEPT !.index = x].edition = a.edition
          /\ [a EXCEPT !.index = x].index = x
      BY <2>2 DEF Chunk
    <2>8. c.index = x
      BY <2>3
    <2> HIDE DEF x
    <2>9. c = [a EXCEPT !.index = x]
      BY <2>2, <2>3, <2>4, <2>6, <2>7, <2>8, SameChunk
    <2> QED BY <2>1, <2>9 DEF x
  <1>11. ASSUME NEW n \in DOMAIN spans
         PROVE  spans[n].source = Source[spans[n].id.video] /\ spans[n].id \in ToSet(hits)
    <2> DEFINE a == Anchor(runs[n], hits)
               is == {i \in DOMAIN hits : hits[i] = a}
    <2>1. n \in DOMAIN runs /\ spans[n].id = a /\ a \in ToSet(hits)
      BY <1>2, <1>5, <1>8
    <2>2. spans[n].source = IF is = {} THEN "youtube" ELSE SourceOf(a, meta[Min(is)])
      <3>1. spans[n] = Span(runs[n], hits, meta)
        BY <1>2, <2>1
      <3> QED BY <3>1 DEF Span
    <2>3. is # {} /\ is \in SUBSET Nat
      <3>1. DOMAIN hits \in SUBSET Nat
        BY <1>1, SequenceIs
      <3> QED BY <2>1, <3>1 DEF ToSet
    <2>4. Min(is) \in is
      BY <2>3, MinIs
    <2>5. DOMAIN meta = DOMAIN hits
      <3>1. DOMAIN meta = 1 .. Len(meta) /\ DOMAIN hits = 1 .. Len(hits)
        BY <1>1, SequenceIs
      <3> QED BY <3>1
    <2>6. meta[Min(is)] = "known"
      BY <2>4, <2>5
    <2> QED BY <2>1, <2>2, <2>3, <2>6 DEF SourceOf
  <1>12. ASSUME NEW n \in DOMAIN spans, NEW m \in DOMAIN spans, n < m,
                spans[n].id.video = spans[m].id.video
         PROVE  spans[n].to + 1 < spans[m].from
    <2>1. n \in DOMAIN runs /\ m \in DOMAIN runs
      BY <1>2
    <2>2. runs[n][1].video = runs[m][1].video
      BY <1>3, <1>5, <1>8, <1>12, <2>1
    <2> QED BY <1>4, <1>8, <1>12, <2>1, <2>2
  <1>13. ASSUME NEW h \in ToSet(hits), NEW s \in ToSet(spans), h \in ToSet(s.body),
                NEW c \in ToSet(get_chunk_neighbors(h.video, h.index))
         PROVE  c \in ToSet(s.body)
    <2>1. PICK n \in DOMAIN runs : s = spans[n] /\ h \in ToSet(runs[n])
      BY <1>2, <1>13 DEF ToSet
    <2>2. PICK i \in DOMAIN hits : h = hits[i]
      BY DEF ToSet
    <2>3. c \in ToSet(near[i])
      BY <2>2 DEF Calmly
    <2>4. c \in Gathered(hits, near)
      BY <1>1, <2>3 DEF Gathered
    <2>5. PICK l \in DOMAIN runs : c \in ToSet(runs[l])
      BY <1>6, <2>4
    <2>6. n = l
      BY <1>7, <2>1, <2>2, <2>3, <2>5
    <2> QED BY <1>2, <2>1, <2>5, <2>6
  <1>14. CalmTold(hits, spans)
    BY <1>10, <1>11, <1>12, <1>13 DEF CalmTold
  <1> QED BY <1>14 DEF spans

-----------------------------------------------------------------------------
(* Membership: who is taken for a member has paid                           *)

PaidTold ==
    /\ \A u \in User : row[u].is_member => u \in everPaid
    /\ \A r \in Request : request[r].answer => request[r].user \in everPaid
    /\ \A u \in User : circle[u] = "paid" => u \in everPaid

MemberInv == MembershipTypeOK /\ PaidTold

LEMMA MemberBegins ==
    ASSUME MembershipAssumption, MembershipInit
    PROVE  MemberInv
  <1>1. /\ request \in [Request -> RequestRecord]
        /\ \A r \in Request : request[r].answer = FALSE
    <2>1. ASSUME NEW r \in Request PROVE request[r] \in RequestRecord /\ request[r].answer = FALSE
      <3>1. PICK u \in User : request[r] = Idle(u)
        BY DEF MembershipInit
      <3> QED BY <3>1 DEF Idle, RequestRecord
    <2> QED BY <2>1 DEF MembershipInit
  <1>2. 0 \in 0 .. MaxChanges /\ 0 \in 0 .. MaxOutages
    BY DEF MembershipAssumption
  <1>3. NoRow \in Row /\ NoRow.is_member = FALSE
    BY DEF NoRow, Row
  <1>4. MembershipTypeOK
    BY <1>1, <1>2, <1>3 DEF MembershipInit, MembershipTypeOK, Standing
  <1>5. PaidTold
    BY <1>1, <1>3 DEF MembershipInit, PaidTold
  <1> QED BY <1>4, <1>5 DEF MemberInv

LEMMA MemberSteps ==
    ASSUME MembershipAssumption, MemberInv, MembershipNext
    PROVE  MemberInv' /\ everPaid \subseteq everPaid'
  <1> USE DEF MemberInv
  <1>1. ASSUME NEW r \in Request, NEW u \in User, SignsUp(r, u)
        PROVE  MemberInv' /\ everPaid \subseteq everPaid'
    <2>1. MembershipTypeOK'
      BY <1>1 DEF SignsUp, Verifies, MembershipTypeOK, Row, RequestRecord
    <2>2. \A v \in User : row'[v].is_member = row[v].is_member
      BY <1>1 DEF SignsUp, MembershipTypeOK, Row
    <2>3. \A q \in Request : request'[q].answer => request[q].answer /\ request'[q] = request[q]
      BY <1>1 DEF SignsUp, Verifies, MembershipTypeOK
    <2>4. PaidTold'
      BY <1>1, <2>2, <2>3 DEF SignsUp, PaidTold
    <2> QED BY <1>1, <2>1, <2>4 DEF SignsUp
  <1>2. ASSUME NEW r \in Request, NEW u \in User, LogsIn(r, u) \/ LoadsMe(r, u)
        PROVE  MemberInv' /\ everPaid \subseteq everPaid'
    <2>1. MembershipTypeOK'
      <3>1. Verifies(r, u)
        BY <1>2 DEF LogsIn, LoadsMe
      <3>2. request' \in [Request -> RequestRecord]
        BY <3>1 DEF Verifies, MembershipTypeOK, RequestRecord
      <3> QED BY <1>2, <3>2 DEF LogsIn, LoadsMe, MembershipTypeOK
    <2>2. \A q \in Request : request'[q].answer => request[q].answer /\ request'[q] = request[q]
      BY <1>2 DEF LogsIn, LoadsMe, Verifies, MembershipTypeOK
    <2>3. PaidTold'
      BY <1>2, <2>2 DEF LogsIn, LoadsMe, PaidTold
    <2> QED BY <1>2, <2>1, <2>3 DEF LogsIn, LoadsMe
  <1>3. ASSUME NEW r \in Request, SearchesMember(r) \/ ReadsGroups(r) \/ CircleFails(r)
        PROVE  MemberInv' /\ everPaid \subseteq everPaid'
    <2>1. MembershipTypeOK'
      <3>1. request' \in [Request -> RequestRecord]
        BY <1>3 DEF SearchesMember, ReadsGroups, CircleFails, Concludes, MembershipTypeOK,
                    RequestRecord
      <3>2. outages' \in 0 .. MaxOutages
        <4>1. outages' = outages \/ (outages < MaxOutages /\ outages' = outages + 1)
          BY <1>3 DEF SearchesMember, ReadsGroups, CircleFails
        <4> QED BY <4>1 DEF MembershipTypeOK, MembershipAssumption
      <3> QED BY <1>3, <3>1, <3>2 DEF SearchesMember, ReadsGroups, CircleFails, MembershipTypeOK
    <2>2. PaidTold'
      BY <1>3 DEF SearchesMember, ReadsGroups, CircleFails, Concludes, MembershipTypeOK,
                  RequestRecord, PaidTold
    <2> QED BY <1>3, <2>1, <2>2 DEF SearchesMember, ReadsGroups, CircleFails
  <1>4. ASSUME NEW r \in Request, StoresStatus(r)
        PROVE  MemberInv' /\ everPaid \subseteq everPaid'
    <2>1. MembershipTypeOK'
      BY <1>4 DEF StoresStatus, set_member_status, Idle, MembershipTypeOK, Row, RequestRecord
    <2>2. PaidTold'
      BY <1>4 DEF StoresStatus, set_member_status, Idle, MembershipTypeOK, Row, RequestRecord,
                  PaidTold
    <2> QED BY <1>4, <2>1, <2>2 DEF StoresStatus
  <1>5. ASSUME NEW u \in User, RowAges(u)
        PROVE  MemberInv' /\ everPaid \subseteq everPaid'
    <2>1. MembershipTypeOK'
      BY <1>5 DEF RowAges, MembershipTypeOK, Row
    <2>2. PaidTold'
      BY <1>5 DEF RowAges, MembershipTypeOK, Row, PaidTold
    <2> QED BY <1>5, <2>1, <2>2 DEF RowAges
  <1>6. ASSUME NEW u \in User, NEW s \in Standing, CircleChanges(u, s)
        PROVE  MemberInv' /\ everPaid \subseteq everPaid'
    <2>1. MembershipTypeOK'
      BY <1>6 DEF CircleChanges, MembershipTypeOK, MembershipAssumption
    <2>2. PaidTold'
      BY <1>6 DEF CircleChanges, MembershipTypeOK, PaidTold
    <2> QED BY <1>6, <2>1, <2>2 DEF CircleChanges
  <1>7. ASSUME NEW r \in Request, BreaksOff(r)
        PROVE  MemberInv' /\ everPaid \subseteq everPaid'
    <2>1. outages' \in 0 .. MaxOutages
      BY <1>7 DEF BreaksOff, MembershipTypeOK, MembershipAssumption
    <2>2. request[r].user \in User /\ Idle(request[r].user) \in RequestRecord
      BY <1>7 DEF MembershipTypeOK, RequestRecord, Idle
    <2>3. MembershipTypeOK'
      BY <1>7, <2>1, <2>2 DEF BreaksOff, MembershipTypeOK
    <2>4. PaidTold'
      BY <1>7 DEF BreaksOff, Idle, MembershipTypeOK, RequestRecord, PaidTold
    <2> QED BY <1>7, <2>3, <2>4 DEF BreaksOff
  <1> QED BY <1>1, <1>2, <1>3, <1>4, <1>5, <1>6, <1>7 DEF MembershipNext, RequestStep

-----------------------------------------------------------------------------
(* The turn                                                                *)

May(t, v) == Source[v] = "dynamous" => t.user \in everPaid

\* What a turn holds may be shown to its user.
Legal(t) ==
    /\ t.member => t.user \in everPaid
    /\ \A v \in t.catalog : May(t, v)
    /\ t.pc = "list" => May(t, t.video)
    /\ \A c \in ToSet(t.kw) \cup ToSet(t.hits) \cup t.read \cup BodyOf(t.spans) :
          May(t, c.video)

\* How far a call is.
InStage(t) ==
    /\ Ranking(t.kw, Chunk)
    /\ t.pc \in {"idle", "ready"} => t.kw = <<>> /\ t.hits = <<>>
    /\ t.pc \in {"video", "list"} => t.video \in Video /\ t.tool = "get_video_transcript"
    /\ t.pc = "hydrate" /\ t.tool = "search_videos" =>
          Len(t.meta) < Len(t.hits) /\ \A i \in DOMAIN t.meta : t.meta[i] # "none"
    /\ t.pc = "hydrate" /\ t.tool # "search_videos" =>
          t.meta = <<>> \/ Len(t.meta) = Len(t.hits)
    /\ t.pc = "expand" => /\ Gathers(t.hits, t.near) /\ t.todo \subseteq DOMAIN t.hits
                          /\ Len(t.meta) = Len(t.hits)
                          /\ \A i \in DOMAIN t.meta : t.meta[i] # "none"

\* While nothing was changed or failed, what a turn holds is what is stored.
Calm(t) ==
    t.calm => /\ \A c \in ToSet(t.kw) \cup ToSet(t.hits) : Now(c)
              /\ t.pc \in {"hydrate", "expand"} =>
                    \A i \in DOMAIN t.meta : t.meta[i] # "unknown"
              /\ t.pc = "expand" =>
                    \A i \in DOMAIN t.hits : i \notin t.todo =>
                       t.near[i] = get_chunk_neighbors(t.hits[i].video, t.hits[i].index)

Held(t) == t \in TurnRecord /\ Legal(t) /\ InStage(t) /\ Calm(t)

\* A video that was not found is not stored.
CacheTrue == \A v \in Video : cache[v] = "unknown" => edition[v] = 0

RetrievalInv == MemberInv /\ RetrievalTypeOK /\ CacheTrue /\ Held(turn)

\* What a turn holds stays true while the library does.
LEMMA Carried ==
    ASSUME NEW t, Held(t), edition' = edition, everPaid \subseteq everPaid'
    PROVE  Held(t)'
  <1>1. Legal(t)'
    BY DEF Held, Legal, May
  <1>2. InStage(t)'
    BY DEF Held, InStage
  <1>3. \A c : Now(c) => Now(c)'
    BY DEF Now, Chunks
  <1>4. \A v, i : get_chunk_neighbors(v, i)' = get_chunk_neighbors(v, i)
    BY DEF get_chunk_neighbors, Between, Row1, Chunks
  <1>5. Calm(t)'
    BY <1>3, <1>4 DEF Held, Calm
  <1> QED BY <1>1, <1>2, <1>5 DEF Held

\* A step of a turn that keeps the library.
LEMMA TurnSteps ==
    ASSUME RetrievalInv, NEW t, Held(t), turn' = t, turns' \in 0 .. MaxTurns,
           UNCHANGED <<edition, dirty>>, cache' \in [Video -> Meta], CacheTrue',
           UNCHANGED memberVars
    PROVE  RetrievalInv'
  <1>1. MemberInv' /\ everPaid' = everPaid
    BY DEF RetrievalInv, MemberInv, PaidTold, MembershipTypeOK, memberVars
  <1>2. Held(t)'
    BY <1>1, Carried
  <1>3. Held(turn)'
    BY <1>2
  <1>4. RetrievalTypeOK'
    BY DEF RetrievalInv, RetrievalTypeOK, Held
  <1> QED BY <1>1, <1>3, <1>4 DEF RetrievalInv

LEMMA QuietSteps ==
    ASSUME RetrievalInv, NEW t, Held(t), turn' = t,
           UNCHANGED <<edition, dirty, cache, turns>>, UNCHANGED memberVars
    PROVE  RetrievalInv'
  <1>1. cache' \in [Video -> Meta] /\ turns' \in 0 .. MaxTurns
    BY DEF RetrievalInv, RetrievalTypeOK
  <1>2. CacheTrue'
    BY DEF RetrievalInv, CacheTrue
  <1> QED BY <1>1, <1>2, TurnSteps

\* A turn that holds nothing.
LEMMA EmptyHeld ==
    ASSUME NEW t \in TurnRecord, t.pc \in {"idle", "ready", "answered"},
           t.kw = <<>>, t.hits = <<>>, t.spans = <<>>, t.read = {},
           t.member => t.user \in everPaid, \A v \in t.catalog : May(t, v)
    PROVE  Held(t)
  <1>1. ToSet(<<>>) = {} /\ BodyOf(<<>>) = {}
    BY DEF ToSet, BodyOf
  <1>2. Legal(t)
    BY <1>1 DEF Legal
  <1>3. Ranking(<<>>, Chunk)
    BY FusionAssumption DEF Ranking
  <1>4. InStage(t)
    BY <1>3 DEF InStage
  <1>5. Calm(t)
    BY <1>1 DEF Calm
  <1> QED BY <1>2, <1>4, <1>5 DEF Held

LEMMA BlankIs ==
    ASSUME RetrievalAssumption, NEW pc \in {"idle", "ready", "answered"}
    PROVE  /\ Blank(pc) \in TurnRecord /\ Blank(pc).pc = pc
           /\ Blank(pc).kw = <<>> /\ Blank(pc).hits = <<>> /\ Blank(pc).spans = <<>>
           /\ Blank(pc).read = {} /\ Blank(pc).member = FALSE /\ Blank(pc).catalog = {}
  <1>1. (CHOOSE u \in User : TRUE) \in User
    BY DEF RetrievalAssumption
  <1>2. 0 \in 0 .. MaxCalls /\ 0 \in 0 .. MaxTopK
    BY FusionAssumption DEF RetrievalAssumption
  <1> QED BY <1>1, <1>2 DEF Blank, TurnRecord

LEMMA BlankHeld ==
    ASSUME RetrievalAssumption, NEW pc \in {"idle", "ready", "answered"}
    PROVE  Held(Blank(pc))
  <1>1. PICK b \in TurnRecord : b = Blank(pc)
    BY BlankIs
  <1>2. /\ b.pc = pc /\ b.kw = <<>> /\ b.hits = <<>> /\ b.spans = <<>>
        /\ b.read = {} /\ b.member = FALSE /\ b.catalog = {}
    BY <1>1, BlankIs
  <1>3. Held(b)
    BY <1>2, EmptyHeld
  <1> QED BY <1>1, <1>3

LEMMA RestedHeld ==
    ASSUME RetrievalAssumption, RetrievalInv, NEW pc \in {"idle", "ready", "answered"},
           NEW n \in 0 .. MaxCalls
    PROVE  Held([Rested(turn, pc) EXCEPT !.calls = n])
  <1>1. PICK b \in TurnRecord : b = Blank(pc)
    BY BlankIs
  <1>2. /\ b.pc = pc /\ b.kw = <<>> /\ b.hits = <<>> /\ b.spans = <<>>
        /\ b.read = {} /\ b.member = FALSE /\ b.catalog = {}
    BY <1>1, BlankIs
  <1>3. PICK r : r = [Rested(turn, pc) EXCEPT !.calls = n]
    OBVIOUS
  <1>4. /\ turn \in TurnRecord
        /\ turn.member => turn.user \in everPaid
        /\ \A v \in turn.catalog : Source[v] = "dynamous" => turn.user \in everPaid
    BY DEF RetrievalInv, Held, Legal, May
  <1>5. r \in TurnRecord
    BY <1>1, <1>3, <1>4 DEF Rested, TurnRecord
  <1>6. /\ r.pc = pc /\ r.kw = <<>> /\ r.hits = <<>> /\ r.spans = <<>> /\ r.read = {}
        /\ r.user = turn.user /\ r.member = turn.member /\ r.catalog = turn.catalog
    BY <1>1, <1>2, <1>3, <1>4 DEF Rested, TurnRecord
  <1>7. \A v \in r.catalog : May(r, v)
    BY <1>4, <1>6 DEF May
  <1>8. Held(r)
    BY <1>4, <1>5, <1>6, <1>7, EmptyHeld
  <1> QED BY <1>3, <1>8

\* What a turn does not lose on its way.
SameUser(t) == /\ t.user = turn.user /\ t.member = turn.member /\ t.catalog = turn.catalog

\* A step from one query to the next with what is at hand.
LEMMA GoesOn ==
    ASSUME RetrievalInv, NEW t \in TurnRecord, SameUser(t),
           t.kw = turn.kw, t.hits = turn.hits, t.read = turn.read, t.spans = turn.spans,
           t.calm = turn.calm, t.pc \in {"embed", "keyword", "vector", "video", "list"},
           t.pc \in {"video", "list"} => t.video \in Video /\ t.tool = "get_video_transcript",
           t.pc = "list" => May(turn, t.video)
    PROVE  Held(t)
  <1>1. Legal(turn) /\ InStage(turn) /\ Calm(turn)
    BY DEF RetrievalInv, Held
  <1>2. Legal(t)
    BY <1>1 DEF Legal, May, SameUser
  <1>3. InStage(t)
    BY <1>1 DEF InStage
  <1>4. Calm(t)
    BY <1>1 DEF Calm
  <1> QED BY <1>2, <1>3, <1>4 DEF Held

\* An answer of what may be shown.
LEMMA AnswerHeld ==
    ASSUME RetrievalInv, NEW t \in TurnRecord, SameUser(t), t.pc = "answered",
           t.kw = <<>>, t.calm => turn.calm,
           t.calm => \A c \in ToSet(t.hits) : Now(c),
           \A c \in ToSet(t.hits) \cup t.read \cup BodyOf(t.spans) : May(turn, c.video)
    PROVE  Held(t)
  <1>1. Legal(turn)
    BY DEF RetrievalInv, Held
  <1>2. ToSet(<<>>) = {}
    BY DEF ToSet
  <1>3. Legal(t)
    BY <1>1, <1>2 DEF Legal, May, SameUser
  <1>4. Ranking(<<>>, Chunk)
    BY FusionAssumption DEF Ranking
  <1>5. InStage(t)
    BY <1>4 DEF InStage
  <1>6. Calm(t)
    BY <1>2 DEF Calm
  <1> QED BY <1>3, <1>5, <1>6 DEF Held

LEMMA RefusesHeld ==
    ASSUME RetrievalInv, Refuses
    PROVE  \E t : t = turn' /\ Held(t)
  <1>1. turn \in TurnRecord /\ Legal(turn) /\ Calm(turn)
    BY DEF RetrievalInv, Held
  <1>2. PICK t : t = turn'
    OBVIOUS
  <1>3. t = [turn EXCEPT !.pc = "answered", !.ok = FALSE, !.spans = <<>>,
                         !.read = {}, !.kw = <<>>, !.near = <<>>, !.todo = {}]
    BY <1>2 DEF Refuses, Answers
  <1>4. t \in TurnRecord
    <2>1. /\ <<>> \in Seq(Chunk) /\ <<>> \in Seq(Seq(Chunk)) /\ <<>> \in Seq(SpanRecord)
          /\ {} \in SUBSET Chunk /\ {} \in SUBSET Nat
      OBVIOUS
    <2> QED BY <1>1, <1>3, <2>1 DEF TurnRecord
  <1>5. /\ SameUser(t) /\ t.pc = "answered" /\ t.kw = <<>> /\ t.calm = turn.calm
        /\ t.hits = turn.hits /\ t.read = {} /\ t.spans = <<>>
    BY <1>1, <1>3 DEF TurnRecord, SameUser
  <1>6. BodyOf(<<>>) = {}
    BY DEF BodyOf
  <1>7. \A c \in ToSet(t.hits) \cup t.read \cup BodyOf(t.spans) : May(turn, c.video)
    BY <1>1, <1>5, <1>6 DEF Legal
  <1>8. t.calm => \A c \in ToSet(t.hits) : Now(c)
    BY <1>1, <1>5 DEF Calm
  <1>9. Held(t)
    BY <1>4, <1>5, <1>7, <1>8, AnswerHeld
  <1> QED BY <1>2, <1>9

LEMMA SingleIs ==
    ASSUME NEW c \in Chunk, NEW source \in {"youtube", "dynamous"}
    PROVE  /\ Single(c, source) \in SpanRecord /\ Single(c, source).body = <<c>>
           /\ DOMAIN Single(c, source).body = {1} /\ Single(c, source).body[1] = c
  <1>1. <<c>> \in Seq(Chunk) /\ c.index \in Nat
    BY DEF Chunk
  <1>2. Single(c, source) \in SpanRecord
    BY <1>1 DEF Single, SpanRecord
  <1>3. Single(c, source).body = <<c>>
    BY DEF Single
  <1>4. DOMAIN <<c>> = {1} /\ <<c>>[1] = c
    OBVIOUS
  <1> QED BY <1>2, <1>3, <1>4

\* Spans of one chunk each.
LEMMA SinglesAre ==
    ASSUME NEW hits \in Seq(Chunk), NEW source \in [DOMAIN hits -> {"youtube", "dynamous"}]
    PROVE  LET single == [i \in DOMAIN hits |-> Single(hits[i], source[i])]
           IN  single \in Seq(SpanRecord) /\ BodyOf(single) \subseteq ToSet(hits)
  <1> DEFINE single == [i \in DOMAIN hits |-> Single(hits[i], source[i])]
  <1>1. Len(hits) \in Nat /\ DOMAIN hits = 1 .. Len(hits) /\ \A i \in DOMAIN hits : hits[i] \in Chunk
    BY SequenceIs
  <1>2. \A i \in DOMAIN hits : single[i] \in SpanRecord
    BY <1>1, SingleIs
  <1>3. single \in [1 .. Len(hits) -> SpanRecord]
    BY <1>1, <1>2
  <1>4. single \in Seq(SpanRecord)
    BY <1>1, <1>3, IsSequence
  <1>5. ASSUME NEW c \in BodyOf(single) PROVE c \in ToSet(hits)
    <2>1. PICK n \in DOMAIN hits : \E i \in DOMAIN single[n].body : single[n].body[i] = c
      <3>1. DOMAIN single = DOMAIN hits
        OBVIOUS
      <3> HIDE DEF single
      <3> QED BY <1>5, <3>1, BodyIs
    <2>2. /\ single[n] = Single(hits[n], source[n])
          /\ hits[n] \in Chunk /\ source[n] \in {"youtube", "dynamous"}
      BY <1>1
    <2> HIDE DEF single
    <2>3. DOMAIN single[n].body = {1} /\ single[n].body[1] = hits[n]
      BY <2>2, SingleIs
    <2>4. c = hits[n]
      BY <2>1, <2>3
    <2> QED BY <2>4 DEF ToSet
  <1> QED BY <1>4, <1>5

\* The metadata is complete: the answer, or the way to the neighbours.
Completes(t, hits, meta) ==
    /\ t \in TurnRecord /\ SameUser(t) /\ t.kw = <<>> /\ t.tool = turn.tool
    /\ ToSet(t.hits) \subseteq ToSet(hits) /\ ToSet(t.meta) \subseteq ToSet(meta)
    /\ \/ /\ t.pc = "answered" /\ t.ok
          /\ BodyOf(t.spans) \subseteq ToSet(hits) /\ t.read = BodyOf(t.spans)
          /\ Window # 0 => t.spans = <<>> /\ t.hits = <<>>
       \/ /\ t.pc = "expand" /\ t.read = turn.read /\ t.spans = turn.spans
          /\ t.near = [i \in DOMAIN t.hits |-> <<>>] /\ t.todo = DOMAIN t.hits
          /\ Len(t.meta) = Len(t.hits)

LEMMA HydratedIs ==
    ASSUME RetrievalAssumption, turn \in TurnRecord,
           NEW hits \in Seq(Chunk), NEW meta \in Seq(Meta), Len(meta) = Len(hits)
    PROVE  Completes(Hydrated(hits, meta), hits, meta) /\ Hydrated(hits, meta).calm = turn.calm
  <1> DEFINE kept == _apply_per_video_cap(hits)
             h == Kept(hits, kept)
             m == Kept(meta, kept)
             source == [i \in DOMAIN h |-> SourceOf(h[i], m[i])]
             single == [i \in DOMAIN h |-> Single(h[i], source[i])]
             single0 == [i \in DOMAIN h |-> Single(h[i], SourceOf(h[i], m[i]))]
             near == [i \in DOMAIN h |-> <<>>]
  <1>1. DOMAIN hits = 1 .. Len(hits) /\ DOMAIN meta = 1 .. Len(meta)
    BY SequenceIs
  <1>2. kept \in SUBSET DOMAIN hits /\ kept \in SUBSET DOMAIN meta
    BY <1>1 DEF _apply_per_video_cap
  <1> HIDE DEF kept
  <1>3. /\ h \in Seq(Chunk) /\ ToSet(h) \subseteq ToSet(hits) /\ Len(h) = Cardinality(kept)
    BY <1>2, KeptAre
  <1>4. /\ m \in Seq(Meta) /\ ToSet(m) \subseteq ToSet(meta) /\ Len(m) = Cardinality(kept)
    BY <1>2, KeptAre
  <1> HIDE DEF h, m
  <1>5. /\ Len(h) \in Nat /\ DOMAIN h = 1 .. Len(h) /\ DOMAIN h \in SUBSET Nat
        /\ \A i \in DOMAIN h : h[i] \in Chunk
    BY <1>3, SequenceIs
  <1>6. source \in [DOMAIN h -> {"youtube", "dynamous"}]
    <2>1. ASSUME NEW i \in DOMAIN h PROVE SourceOf(h[i], m[i]) \in {"youtube", "dynamous"}
      <3>1. h[i].video \in Video
        BY <1>5 DEF Chunk
      <3> QED BY <3>1 DEF SourceOf, RetrievalAssumption
    <2> QED BY <2>1
  <1>7. single = single0
    OBVIOUS
  <1> HIDE DEF source
  <1>8. single \in Seq(SpanRecord) /\ BodyOf(single) \subseteq ToSet(h)
    BY <1>3, <1>6, SinglesAre
  <1>9. h = <<>> => single = <<>>
    OBVIOUS
  <1>10. near \in Seq(Seq(Chunk))
    <2>1. near \in [1 .. Len(h) -> Seq(Chunk)]
      BY <1>5
    <2> HIDE DEF near
    <2> QED BY <1>5, <2>1, IsSequence
  <1>11. /\ BodyOf(single) \in SUBSET Chunk /\ <<>> \in Seq(Chunk)
         /\ {} \in SUBSET Nat
    BY <1>3, <1>5, <1>8 DEF ToSet
  <1> HIDE DEF single, near
  <1>12. PICK t : t = Hydrated(hits, meta)
    OBVIOUS
  <1>13. t = IF h = <<>> \/ Window = 0
                THEN [turn EXCEPT !.pc = "answered", !.ok = TRUE, !.hits = h,
                        !.meta = m, !.kw = <<>>, !.spans = single, !.read = BodyOf(single)]
                ELSE [turn EXCEPT !.pc = "expand", !.hits = h, !.meta = m, !.kw = <<>>,
                        !.near = near, !.todo = DOMAIN h]
    BY <1>7, <1>12 DEF Hydrated, single, near, h, m, kept
  <1>14. CASE h = <<>> \/ Window = 0
    <2>1. t = [turn EXCEPT !.pc = "answered", !.ok = TRUE, !.hits = h,
                 !.meta = m, !.kw = <<>>, !.spans = single, !.read = BodyOf(single)]
      BY <1>13, <1>14
    <2>2. t \in TurnRecord
      BY <1>3, <1>4, <1>8, <1>11, <2>1 DEF TurnRecord
    <2>3. /\ SameUser(t) /\ t.kw = <<>> /\ t.tool = turn.tool /\ t.pc = "answered" /\ t.ok
          /\ t.hits = h /\ t.meta = m /\ t.spans = single /\ t.read = BodyOf(single)
          /\ t.calm = turn.calm
      BY <2>1 DEF TurnRecord, SameUser
    <2>4. Window # 0 => t.spans = <<>> /\ t.hits = <<>>
      BY <1>9, <1>14, <2>3
    <2> QED BY <1>3, <1>4, <1>8, <1>12, <2>2, <2>3, <2>4 DEF Completes
  <1>15. CASE ~ (h = <<>> \/ Window = 0)
    <2>1. t = [turn EXCEPT !.pc = "expand", !.hits = h, !.meta = m, !.kw = <<>>,
                 !.near = near, !.todo = DOMAIN h]
      BY <1>13, <1>15
    <2>2. t \in TurnRecord
      BY <1>3, <1>4, <1>5, <1>10, <1>11, <2>1 DEF TurnRecord
    <2>3. /\ SameUser(t) /\ t.kw = <<>> /\ t.tool = turn.tool /\ t.pc = "expand"
          /\ t.hits = h /\ t.meta = m /\ t.spans = turn.spans /\ t.read = turn.read
          /\ t.calm = turn.calm /\ t.near = near /\ t.todo = DOMAIN h
      BY <2>1 DEF TurnRecord, SameUser
    <2> QED BY <1>3, <1>4, <1>12, <2>2, <2>3 DEF Completes, near
  <1> QED BY <1>14, <1>15

LEMMA CompletesHeld ==
    ASSUME RetrievalAssumption, RetrievalInv, NEW hits, NEW meta, NEW t,
           Completes(t, hits, meta), t.calm => turn.calm,
           \A c \in ToSet(hits) : May(turn, c.video), "none" \notin ToSet(meta),
           t.calm => (\A c \in ToSet(hits) : Now(c)) /\ "unknown" \notin ToSet(meta)
    PROVE  Held(t)
  <1>1. Legal(turn)
    BY DEF RetrievalInv, Held
  <1>2. t \in TurnRecord
    BY DEF Completes
  <1>3. CASE t.pc = "answered"
    BY <1>2, <1>3, AnswerHeld DEF Completes
  <1>4. CASE t.pc # "answered"
    <2>1. /\ t.pc = "expand" /\ t.read = turn.read /\ t.spans = turn.spans /\ t.kw = <<>>
          /\ t.near = [i \in DOMAIN t.hits |-> <<>>] /\ t.todo = DOMAIN t.hits
          /\ Len(t.meta) = Len(t.hits) /\ SameUser(t)
          /\ ToSet(t.hits) \subseteq ToSet(hits) /\ ToSet(t.meta) \subseteq ToSet(meta)
      BY <1>4 DEF Completes
    <2>2. ToSet(<<>>) = {}
      BY DEF ToSet
    <2>3. Legal(t)
      BY <1>1, <2>1, <2>2 DEF Legal, May, SameUser
    <2>4. Gathers(t.hits, t.near)
      <3>1. t.hits \in Seq(Chunk)
        BY <1>2 DEF TurnRecord
      <3>2. \A h : Nearby(<<>>, h)
        BY DEF Nearby
      <3> QED BY <2>1, <3>1, <3>2 DEF Gathers
    <2>5. \A i \in DOMAIN t.meta : t.meta[i] \in ToSet(meta)
      BY <2>1 DEF ToSet
    <2>6. Ranking(<<>>, Chunk)
      BY FusionAssumption DEF Ranking
    <2>7. InStage(t)
      BY <2>1, <2>4, <2>5, <2>6 DEF InStage
    <2>8. Calm(t)
      BY <2>1, <2>2, <2>5 DEF Calm
    <2> QED BY <1>2, <2>3, <2>7, <2>8 DEF Held
  <1> QED BY <1>3, <1>4

LEMMA ToHydrateHeld ==
    ASSUME RetrievalAssumption, RetrievalInv, NEW hits \in Seq(Chunk), NEW meta \in Seq(Meta),
           Len(meta) <= Len(hits), turn.tool # "search_videos" => meta = <<>>,
           \A c \in ToSet(hits) : May(turn, c.video), "none" \notin ToSet(meta),
           turn.calm => (\A c \in ToSet(hits) : Now(c)) /\ "unknown" \notin ToSet(meta)
    PROVE  Held(ToHydrate(hits, meta))
  <1>1. turn \in TurnRecord /\ Legal(turn)
    BY DEF RetrievalInv, Held
  <1>2. CASE Len(meta) = Len(hits)
    <2>1. PICK t : t = Hydrated(hits, meta)
      OBVIOUS
    <2>2. Completes(t, hits, meta) /\ t.calm = turn.calm
      BY <1>1, <1>2, <2>1, HydratedIs
    <2>3. Held(t)
      BY <2>2, CompletesHeld
    <2> QED BY <1>2, <2>1, <2>3 DEF ToHydrate
  <1>3. CASE Len(meta) # Len(hits)
    <2>1. PICK t : t = [turn EXCEPT !.pc = "hydrate", !.hits = hits, !.meta = meta, !.kw = <<>>]
      OBVIOUS
    <2>2. t \in TurnRecord
      <3>1. <<>> \in Seq(Chunk)
        OBVIOUS
      <3> QED BY <1>1, <2>1, <3>1 DEF TurnRecord
    <2>3. /\ t.pc = "hydrate" /\ t.hits = hits /\ t.meta = meta /\ t.kw = <<>>
          /\ SameUser(t) /\ t.read = turn.read /\ t.spans = turn.spans
          /\ t.tool = turn.tool /\ t.calm = turn.calm
      BY <1>1, <2>1 DEF TurnRecord, SameUser
    <2>4. ToSet(<<>>) = {}
      BY DEF ToSet
    <2>5. Legal(t)
      BY <1>1, <2>3, <2>4 DEF Legal, May, SameUser
    <2>6. Ranking(<<>>, Chunk)
      BY FusionAssumption DEF Ranking
    <2>7. Len(meta) < Len(hits)
      <3>1. Len(meta) \in Nat /\ Len(hits) \in Nat
        OBVIOUS
      <3> QED BY <1>3, <3>1
    <2>8. \A i \in DOMAIN meta : meta[i] \in ToSet(meta)
      BY DEF ToSet
    <2>9. InStage(t)
      BY <2>3, <2>6, <2>7, <2>8 DEF InStage
    <2>10. Calm(t)
      BY <2>3, <2>4, <2>8 DEF Calm
    <2>11. Held(t)
      BY <2>2, <2>5, <2>9, <2>10 DEF Held
    <2> QED BY <1>3, <2>1, <2>11 DEF ToHydrate
  <1> QED BY <1>2, <1>3

\* What a search found is stored, and may be shown.
LEMMA FoundMay ==
    ASSUME RetrievalAssumption, RetrievalInv, NEW n \in Nat,
           NEW r \in keyword_search(turn.member, n) \cup vector_search_pg(turn.member, n)
    PROVE  /\ r \in Seq(Chunk) /\ Len(r) <= n
           /\ \A i, j \in DOMAIN r : r[i] = r[j] => i = j
           /\ \A c \in ToSet(r) : May(turn, c.video) /\ Now(c)
  <1>1. RetrievalTypeOK /\ turn.member \in BOOLEAN /\ Legal(turn)
    BY DEF RetrievalInv, Held, TurnRecord
  <1>2. PICK member \in BOOLEAN : member = turn.member
    BY <1>1
  <1>3. /\ r \in Seq(Searchable(member)) /\ r \in Seq(Chunk) /\ Len(r) <= n
        /\ \A i, j \in DOMAIN r : r[i] = r[j] => i = j
    BY <1>1, <1>2, FindsAre
  <1>4. \A c \in Searchable(member) :
           /\ member \/ Source[c.video] = "youtube"
           /\ c.edition = edition[c.video] /\ c.edition # 0 /\ c.index < Chunks(c.video)
    BY <1>1, SearchableIs
  <1>5. ToSet(r) \subseteq Searchable(member)
    BY <1>3, SequenceIs
  <1>6. ASSUME NEW c \in ToSet(r) PROVE May(turn, c.video) /\ Now(c)
    <2>1. c \in Searchable(member)
      BY <1>5, <1>6
    <2>2. Now(c)
      BY <1>4, <2>1 DEF Now
    <2>3. May(turn, c.video)
      BY <1>1, <1>2, <1>4, <2>1 DEF May, Legal
    <2> QED BY <2>2, <2>3
  <1> QED BY <1>3, <1>6

LEMMA KeywordHeld ==
    ASSUME RetrievalAssumption, RetrievalInv, KeywordAnswers
    PROVE  \E t : t = turn' /\ Held(t)
  <1>1. turn \in TurnRecord /\ Legal(turn) /\ InStage(turn) /\ Calm(turn)
    BY DEF RetrievalInv, Held
  <1>2. turn.top_k \in Nat /\ turn.top_k <= MaxTopK
    BY <1>1, FusionAssumption DEF TurnRecord
  <1>3. CASE turn.tool = "search_videos"
    <2>1. PICK found \in keyword_search(turn.member, turn.top_k * Overfetch) :
             turn' = [turn EXCEPT !.pc = "vector", !.kw = found]
      BY <1>3 DEF KeywordAnswers
    <2>2. PICK n \in Nat : n = turn.top_k * Overfetch /\ n <= MaxTopK * Overfetch
      <3>1. turn.top_k * Overfetch \in Nat /\ turn.top_k * Overfetch <= MaxTopK * Overfetch
        BY <1>2, FusionAssumption
      <3> QED BY <3>1
    <2>3. /\ found \in Seq(Chunk) /\ Len(found) <= n
          /\ \A i, j \in DOMAIN found : found[i] = found[j] => i = j
          /\ \A c \in ToSet(found) : May(turn, c.video) /\ Now(c)
      BY <2>1, <2>2, FoundMay
    <2>4. Ranking(found, Chunk)
      <3>1. Len(found) \in Nat /\ MaxTopK * Overfetch \in Nat
        BY <2>3, FusionAssumption
      <3> QED BY <2>2, <2>3, <3>1 DEF Ranking
    <2>5. PICK t : t = turn'
      OBVIOUS
    <2>6. t \in TurnRecord
      BY <1>1, <2>1, <2>3, <2>5 DEF TurnRecord
    <2>7. /\ t.pc = "vector" /\ t.kw = found /\ t.hits = turn.hits /\ t.read = turn.read
          /\ t.spans = turn.spans /\ SameUser(t) /\ t.calm = turn.calm
      BY <1>1, <2>1, <2>5 DEF TurnRecord, SameUser
    <2>8. Legal(t)
      BY <1>1, <2>3, <2>7 DEF Legal, May, SameUser
    <2>9. InStage(t)
      BY <2>4, <2>7 DEF InStage
    <2>10. Calm(t)
      BY <1>1, <2>3, <2>7 DEF Calm
    <2> QED BY <2>5, <2>6, <2>8, <2>9, <2>10 DEF Held
  <1>4. CASE turn.tool # "search_videos"
    <2>1. PICK found \in keyword_search(turn.member, turn.top_k) : turn' = ToHydrate(found, <<>>)
      BY <1>4 DEF KeywordAnswers
    <2>2. PICK n \in Nat : n = turn.top_k
      BY <1>2
    <2>3. found \in Seq(Chunk) /\ \A c \in ToSet(found) : May(turn, c.video) /\ Now(c)
      BY <2>1, <2>2, FoundMay
    <2>4. <<>> \in Seq(Meta) /\ Len(<<>>) <= Len(found) /\ ToSet(<<>>) = {}
      <3>1. Len(found) \in Nat
        BY <2>3
      <3> QED BY <3>1 DEF ToSet
    <2>5. Held(ToHydrate(found, <<>>))
      BY <1>4, <2>3, <2>4, ToHydrateHeld
    <2> QED BY <2>1, <2>5
  <1> QED BY <1>3, <1>4

\* Metadata from the cache: none is missing, and what is stored is known there.
LEMMA CachedHeld ==
    ASSUME RetrievalAssumption, RetrievalInv, turn.tool = "search_videos",
           NEW hits \in Seq(Chunk), NEW meta \in Seq(Meta), NEW known \in [Video -> Meta],
           \A v \in Video : known[v] = "unknown" => edition[v] = 0,
           \A c \in ToSet(hits) : May(turn, c.video), "none" \notin ToSet(meta),
           turn.calm => (\A c \in ToSet(hits) : Now(c)) /\ "unknown" \notin ToSet(meta)
    PROVE  Held(ToHydrate(hits, FromCache(hits, meta, known)))
  <1> DEFINE got == FromCache(hits, meta, known)
  <1>2. /\ got \in Seq(Meta) /\ Len(got) \in Nat /\ Len(got) <= Len(hits)
        /\ \A i \in DOMAIN got :
              got[i] = IF i <= Len(meta) THEN meta[i] ELSE known[hits[i].video]
        /\ \A i \in DOMAIN got : i > Len(meta) => got[i] # "none"
    BY FromCacheIs
  <1> HIDE DEF got
  <1>3. DOMAIN got \subseteq DOMAIN hits /\ DOMAIN got \subseteq Nat \ {0} /\ Len(meta) \in Nat
        /\ DOMAIN meta = 1 .. Len(meta)
    BY <1>2
  <1>4. \A i \in DOMAIN got : i <= Len(meta) => got[i] \in ToSet(meta)
    BY <1>2, <1>3 DEF ToSet
  <1>5. "none" \notin ToSet(got)
    <2>1. SUFFICES ASSUME NEW i \in DOMAIN got PROVE got[i] # "none"
      BY DEF ToSet
    <2> QED BY <1>2, <1>3, <1>4
  <1>6. ASSUME turn.calm PROVE "unknown" \notin ToSet(got)
    <2>1. SUFFICES ASSUME NEW i \in DOMAIN got PROVE got[i] # "unknown"
      BY DEF ToSet
    <2>2. CASE i <= Len(meta)
      BY <1>4, <1>6, <2>2
    <2>3. CASE ~ (i <= Len(meta))
      <3>1. hits[i] \in Chunk /\ Now(hits[i])
        BY <1>3, <1>6 DEF ToSet
      <3>2. hits[i].video \in Video /\ edition[hits[i].video] # 0
        BY <3>1 DEF Chunk, Now
      <3> QED BY <1>2, <2>3, <3>2
    <2> QED BY <2>2, <2>3
  <1>7. Held(ToHydrate(hits, got))
    BY <1>2, <1>5, <1>6, ToHydrateHeld
  <1> QED BY <1>7 DEF got

LEMMA VectorHeld ==
    ASSUME RetrievalAssumption, RetrievalInv, VectorAnswers
    PROVE  \E t : t = turn' /\ Held(t)
  <1>1. turn \in TurnRecord /\ Legal(turn) /\ InStage(turn) /\ Calm(turn)
    BY DEF RetrievalInv, Held
  <1>2. turn.top_k \in Nat /\ turn.top_k <= MaxTopK
    BY <1>1, FusionAssumption DEF TurnRecord
  <1>3. CASE turn.tool = "search_videos"
    <2>1. PICK found \in vector_search_pg(turn.member, turn.top_k * Overfetch) :
             turn' = ToHydrate(_rrf_merge(turn.kw, found, turn.top_k),
                               FromCache(_rrf_merge(turn.kw, found, turn.top_k), <<>>, cache))
      BY <1>3 DEF VectorAnswers
    <2>2. PICK n \in Nat : n = turn.top_k * Overfetch /\ n <= MaxTopK * Overfetch
      <3>1. turn.top_k * Overfetch \in Nat /\ turn.top_k * Overfetch <= MaxTopK * Overfetch
        BY <1>2, FusionAssumption
      <3> QED BY <3>1
    <2>3. /\ found \in Seq(Chunk) /\ Len(found) <= n
          /\ \A i, j \in DOMAIN found : found[i] = found[j] => i = j
          /\ \A c \in ToSet(found) : May(turn, c.video) /\ Now(c)
      BY <2>1, <2>2, FoundMay
    <2>4. Ranking(found, Chunk)
      <3>1. Len(found) \in Nat /\ MaxTopK * Overfetch \in Nat
        BY <2>3, FusionAssumption
      <3> QED BY <2>2, <2>3, <3>1 DEF Ranking
    <2>5. PICK kw \in Seq(Chunk), top_k \in Nat : kw = turn.kw /\ top_k = turn.top_k
      BY <1>1, <1>2 DEF InStage, Ranking
    <2>6. Ranking(kw, Chunk)
      BY <1>1, <2>5 DEF InStage
    <2>7. PICK hits : hits = _rrf_merge(kw, found, top_k)
      OBVIOUS
    <2>8. hits \in Seq(Chunk) /\ ToSet(hits) \subseteq ToSet(kw) \cup ToSet(found)
      BY <2>3, <2>4, <2>6, <2>7, MergedAre
    <2>9. /\ \A c \in ToSet(hits) : May(turn, c.video)
          /\ turn.calm => \A c \in ToSet(hits) : Now(c)
      BY <1>1, <2>3, <2>5, <2>8 DEF Legal, Calm
    <2>10. <<>> \in Seq(Meta) /\ ToSet(<<>>) = {}
      BY DEF ToSet
    <2>11. PICK known \in [Video -> Meta] : known = cache
      BY DEF RetrievalInv, RetrievalTypeOK
    <2>12. \A v \in Video : known[v] = "unknown" => edition[v] = 0
      BY <2>11 DEF RetrievalInv, CacheTrue
    <2>13. Held(ToHydrate(hits, FromCache(hits, <<>>, known)))
      BY <1>3, <2>8, <2>9, <2>10, <2>12, CachedHeld
    <2> QED BY <2>1, <2>5, <2>7, <2>11, <2>13
  <1>4. CASE turn.tool # "search_videos"
    <2>1. PICK found \in vector_search_pg(turn.member, turn.top_k) : turn' = ToHydrate(found, <<>>)
      BY <1>4 DEF VectorAnswers
    <2>2. PICK n \in Nat : n = turn.top_k
      BY <1>2
    <2>3. found \in Seq(Chunk) /\ \A c \in ToSet(found) : May(turn, c.video) /\ Now(c)
      BY <2>1, <2>2, FoundMay
    <2>4. <<>> \in Seq(Meta) /\ Len(<<>>) <= Len(found) /\ ToSet(<<>>) = {}
      <3>1. Len(found) \in Nat
        BY <2>3
      <3> QED BY <3>1 DEF ToSet
    <2>5. Held(ToHydrate(found, <<>>))
      BY <1>4, <2>3, <2>4, ToHydrateHeld
    <2> QED BY <2>1, <2>5
  <1> QED BY <1>3, <1>4

LEMMA HybridSteps ==
    ASSUME RetrievalAssumption, RetrievalInv, HydratesHybrid, UNCHANGED memberVars
    PROVE  RetrievalInv'
  <1>1. /\ turn \in TurnRecord /\ Legal(turn) /\ InStage(turn) /\ Calm(turn)
        /\ RetrievalTypeOK
    BY DEF RetrievalInv, Held
  <1>2. PICK hits \in Seq(Chunk), meta \in Seq(Meta) : hits = turn.hits /\ meta = turn.meta
    BY <1>1 DEF TurnRecord
  <1>3. turn.pc = "hydrate" /\ turn.tool = "search_videos" /\ UNCHANGED <<edition, dirty, turns>>
    BY DEF HydratesHybrid
  <1>4. Len(meta) < Len(hits) /\ \A i \in DOMAIN meta : meta[i] # "none"
    BY <1>1, <1>2, <1>3 DEF InStage
  <1>5. Len(meta) + 1 \in DOMAIN hits
    BY <1>4
  <1>6. PICK v \in Video : v = hits[Len(meta) + 1].video
    <2>1. hits[Len(meta) + 1] \in Chunk
      BY <1>5
    <2> QED BY <2>1 DEF Chunk
  <1>7. /\ cache' = [cache EXCEPT ![v] = get_video(v)]
        /\ turn' = ToHydrate(hits, FromCache(hits, meta, cache'))
    BY <1>2, <1>6 DEF HydratesHybrid
  <1>8. get_video(v) \in Meta /\ (get_video(v) = "unknown" => edition[v] = 0)
    BY <1>1 DEF get_video, Meta, Stored, RetrievalTypeOK
  <1>9. PICK known \in [Video -> Meta] : known = cache'
    BY <1>1, <1>7, <1>8 DEF RetrievalTypeOK
  <1>10. \A w \in Video : known[w] = "unknown" => edition[w] = 0
    BY <1>1, <1>7, <1>8, <1>9 DEF RetrievalTypeOK, RetrievalInv, CacheTrue
  <1>11. /\ \A c \in ToSet(hits) : May(turn, c.video)
         /\ "none" \notin ToSet(meta)
         /\ turn.calm => (\A c \in ToSet(hits) : Now(c)) /\ "unknown" \notin ToSet(meta)
    BY <1>1, <1>2, <1>3, <1>4 DEF Legal, Calm, ToSet
  <1>12. PICK t : t = ToHydrate(hits, FromCache(hits, meta, known))
    OBVIOUS
  <1>13. Held(t)
    BY <1>3, <1>10, <1>11, <1>12, CachedHeld
  <1>14. CacheTrue'
    BY <1>3, <1>9, <1>10 DEF CacheTrue
  <1>15. turns' \in 0 .. MaxTurns
    BY <1>1, <1>3 DEF RetrievalTypeOK
  <1> QED BY <1>3, <1>7, <1>9, <1>12, <1>13, <1>14, <1>15, TurnSteps

LEMMA OtherHeld ==
    ASSUME RetrievalAssumption, RetrievalInv, HydratesOther
    PROVE  \E t : t = turn' /\ Held(t)
  <1>1. /\ turn \in TurnRecord /\ Legal(turn) /\ InStage(turn) /\ Calm(turn)
        /\ RetrievalTypeOK
    BY DEF RetrievalInv, Held
  <1>2. PICK hits \in Seq(Chunk), meta \in Seq(Meta) : hits = turn.hits /\ meta = turn.meta
    BY <1>1 DEF TurnRecord
  <1>3. turn.pc = "hydrate" /\ turn.tool # "search_videos"
    BY DEF HydratesOther
  <1>4. meta = <<>> \/ Len(meta) = Len(hits)
    BY <1>1, <1>2, <1>3 DEF InStage
  <1>5. PICK v \in Unloaded, failed \in BOOLEAN :
           turn' = [_hydrate_chunks(v, IF failed THEN "unknown" ELSE get_video(v))
                      EXCEPT !.calm = @ /\ ~failed]
    BY DEF HydratesOther
  <1>6. PICK found \in Meta : found = IF failed THEN "unknown" ELSE get_video(v)
    BY DEF get_video, Meta
  <1> DEFINE got == [i \in DOMAIN hits |->
                       IF hits[i].video = v THEN found
                       ELSE IF meta = <<>> THEN "none" ELSE meta[i]]
  <1>7. /\ Len(hits) \in Nat /\ DOMAIN hits = 1 .. Len(hits)
        /\ \A i \in DOMAIN hits : hits[i] \in Chunk
    BY SequenceIs
  <1>8. got \in Seq(Meta) /\ Len(got) = Len(hits)
    <2>1. ASSUME NEW i \in DOMAIN hits PROVE got[i] \in Meta
      BY <1>4, <1>7 DEF Meta
    <2>2. got \in [1 .. Len(hits) -> Meta]
      BY <1>7, <2>1
    <2> HIDE DEF got
    <2> QED BY <1>7, <2>2, IsSequence
  <1>9. /\ \A c \in ToSet(hits) : May(turn, c.video)
        /\ turn.calm => /\ \A c \in ToSet(hits) : Now(c)
                        /\ \A i \in DOMAIN meta : meta[i] # "unknown"
    BY <1>1, <1>2, <1>3 DEF Legal, Calm
  <1>10. ASSUME turn.calm, ~ failed PROVE "unknown" \notin ToSet(got)
    <2>1. SUFFICES ASSUME NEW i \in DOMAIN hits PROVE got[i] # "unknown"
      BY <1>7, <1>8 DEF ToSet
    <2>2. CASE hits[i].video = v
      <3>1. Now(hits[i]) /\ hits[i].video \in Video
        BY <1>7, <1>9, <1>10 DEF ToSet, Chunk
      <3>2. edition[v] \in Nat /\ edition[v] # 0 /\ v \in Video
        BY <1>1, <2>2, <3>1 DEF Now, RetrievalTypeOK
      <3>3. found = "known"
        BY <1>6, <1>10, <3>2 DEF get_video, Stored
      <3> QED BY <2>2, <3>3
    <2>3. CASE hits[i].video # v
      BY <1>4, <1>7, <1>9, <1>10, <2>3
    <2> QED BY <2>2, <2>3
  <1>11. CASE \A i \in DOMAIN got : got[i] # "none"
    <2>1. turn' = [Hydrated(hits, got) EXCEPT !.calm = @ /\ ~failed]
      BY <1>2, <1>5, <1>6, <1>11 DEF _hydrate_chunks
    <2>2. "none" \notin ToSet(got)
      BY <1>11 DEF ToSet
    <2> HIDE DEF got
    <2>3. PICK h : h = Hydrated(hits, got)
      OBVIOUS
    <2>4. Completes(h, hits, got) /\ h.calm = turn.calm
      BY <1>1, <1>8, <2>3, HydratedIs
    <2>5. PICK t : t = [h EXCEPT !.calm = @ /\ ~failed]
      OBVIOUS
    <2>6. t \in TurnRecord
      <3>1. h \in TurnRecord
        BY <2>4 DEF Completes
      <3> QED BY <2>5, <3>1 DEF TurnRecord
    <2>7. /\ t.calm = (turn.calm /\ ~failed)
          /\ t.user = h.user /\ t.member = h.member /\ t.catalog = h.catalog
          /\ t.kw = h.kw /\ t.hits = h.hits /\ t.meta = h.meta /\ t.pc = h.pc /\ t.spans = h.spans
          /\ t.read = h.read /\ t.near = h.near /\ t.todo = h.todo /\ t.tool = h.tool
          /\ t.ok = h.ok
      <3>1. h \in TurnRecord
        BY <2>4 DEF Completes
      <3> QED BY <2>4, <2>5, <3>1 DEF TurnRecord
    <2>8. Completes(t, hits, got)
      BY <2>4, <2>6, <2>7 DEF Completes, SameUser
    <2>9. Held(t)
      BY <1>9, <1>10, <2>2, <2>7, <2>8, CompletesHeld
    <2> QED BY <2>1, <2>3, <2>5, <2>9
  <1>12. CASE ~ \A i \in DOMAIN got : got[i] # "none"
    <2>1. turn' = [[turn EXCEPT !.meta = got] EXCEPT !.calm = @ /\ ~failed]
      BY <1>2, <1>5, <1>6, <1>12 DEF _hydrate_chunks
    <2> HIDE DEF got
    <2>2. PICK t : t = turn'
      OBVIOUS
    <2>3. t \in TurnRecord
      BY <1>1, <1>8, <2>1, <2>2 DEF TurnRecord
    <2>4. /\ t.calm = (turn.calm /\ ~failed) /\ t.meta = got /\ t.pc = "hydrate"
          /\ SameUser(t) /\ t.kw = turn.kw /\ t.hits = hits /\ t.spans = turn.spans
          /\ t.read = turn.read /\ t.tool = turn.tool
      BY <1>1, <1>2, <1>3, <2>1, <2>2 DEF TurnRecord, SameUser
    <2>5. Legal(t)
      BY <1>1, <1>2, <2>4 DEF Legal, May, SameUser
    <2>6. InStage(t)
      BY <1>1, <1>3, <1>8, <2>4 DEF InStage
    <2>7. \A i \in DOMAIN got : got[i] \in ToSet(got)
      BY DEF ToSet
    <2>8. Calm(t)
      BY <1>1, <1>2, <1>10, <2>4, <2>7 DEF Calm
    <2> QED BY <2>2, <2>3, <2>5, <2>6, <2>8 DEF Held
  <1> QED BY <1>11, <1>12

\* The neighbours of the hit i have come, or not.
NeighborsCome(hits, meta, near, i, calm) ==
    /\ hits = turn.hits /\ meta = turn.meta /\ Len(meta) = Len(hits)
    /\ Gathers(hits, near) /\ near \in Seq(Seq(Chunk))
    /\ \A j \in DOMAIN meta : meta[j] # "none"
    /\ calm => /\ turn.calm
               /\ \A j \in DOMAIN meta : meta[j] # "unknown"
               /\ \A j \in DOMAIN hits : Now(hits[j])
               /\ \A j \in DOMAIN hits : j \notin turn.todo \ {i} =>
                     near[j] = get_chunk_neighbors(hits[j].video, hits[j].index)
    /\ turn' = IF turn.todo # {i}
                  THEN [turn EXCEPT !.near = near, !.todo = turn.todo \ {i}, !.calm = calm]
                  ELSE [turn EXCEPT !.pc = "answered", !.ok = TRUE, !.calm = calm,
                          !.near = <<>>, !.todo = {}, !.spans = expand_and_merge(hits, meta, near),
                          !.read = BodyOf(expand_and_merge(hits, meta, near))]

LEMMA FetchIs ==
    ASSUME RetrievalAssumption, RetrievalInv, FetchesNeighbors
    PROVE  \E hits \in Seq(Chunk), meta \in Seq(Meta), i \in turn.todo, calm \in BOOLEAN :
              \E near : NeighborsCome(hits, meta, near, i, calm)
  <1>1. /\ turn \in TurnRecord /\ InStage(turn) /\ Calm(turn) /\ RetrievalTypeOK
        /\ turn.pc = "expand"
    BY DEF RetrievalInv, Held, FetchesNeighbors
  <1>2. PICK hits \in Seq(Chunk), meta \in Seq(Meta), near \in Seq(Seq(Chunk)) :
           hits = turn.hits /\ meta = turn.meta /\ near = turn.near
    BY <1>1 DEF TurnRecord
  <1>3. /\ Gathers(hits, near) /\ turn.todo \subseteq DOMAIN hits /\ Len(meta) = Len(hits)
        /\ \A j \in DOMAIN meta : meta[j] # "none"
    BY <1>1, <1>2 DEF InStage
  <1>4. PICK i \in Expanding, failed \in BOOLEAN :
           LET hit == turn.hits[i]
               n == [turn.near EXCEPT ![i] =
                       IF failed THEN <<>>
                       ELSE get_chunk_neighbors(hit.video, hit.index)]
               calm == turn.calm /\ ~failed
               spans == expand_and_merge(turn.hits, turn.meta, n)
           IN  turn' = IF turn.todo # {i}
                       THEN [turn EXCEPT !.near = n, !.todo = @ \ {i}, !.calm = calm]
                       ELSE [turn EXCEPT !.pc = "answered", !.ok = TRUE, !.calm = calm,
                               !.near = <<>>, !.todo = {}, !.spans = spans,
                               !.read = BodyOf(spans)]
    BY DEF FetchesNeighbors
  <1>5. i \in turn.todo /\ i \in DOMAIN hits
    BY <1>3 DEF Expanding
  <1>6. /\ DOMAIN hits = 1 .. Len(hits) /\ Len(hits) \in Nat
        /\ \A j \in DOMAIN hits : hits[j] \in Chunk
    BY SequenceIs
  <1>7. PICK list : list = IF failed THEN <<>> ELSE get_chunk_neighbors(hits[i].video, hits[i].index)
    OBVIOUS
  <1>8. PICK n : n = [near EXCEPT ![i] = list]
    OBVIOUS
  <1>9. PICK calm \in BOOLEAN : calm = (turn.calm /\ ~failed)
    BY <1>1 DEF TurnRecord
  <1>10. turn' = IF turn.todo # {i}
                    THEN [turn EXCEPT !.near = n, !.todo = turn.todo \ {i}, !.calm = calm]
                    ELSE [turn EXCEPT !.pc = "answered", !.ok = TRUE, !.calm = calm,
                            !.near = <<>>, !.todo = {}, !.spans = expand_and_merge(hits, meta, n),
                            !.read = BodyOf(expand_and_merge(hits, meta, n))]
    BY <1>2, <1>4, <1>7, <1>8, <1>9
  <1>11. Nearby(list, hits[i])
    <2>1. CASE failed
      BY <1>7, <2>1 DEF Nearby
    <2>2. CASE ~ failed
      <3>1. hits[i].video \in Video /\ hits[i].index \in Nat
        BY <1>5, <1>6 DEF Chunk
      <3> QED BY <1>1, <1>7, <2>2, <3>1, NeighborsAre
    <2> QED BY <2>1, <2>2
  <1>12. near \in [DOMAIN hits -> Seq(Chunk)] /\ \A j \in DOMAIN hits : Nearby(near[j], hits[j])
    BY <1>3 DEF Gathers
  <1>13. list \in Seq(Chunk)
    BY <1>11 DEF Nearby
  <1>14. n \in [DOMAIN hits -> Seq(Chunk)] /\ \A j \in DOMAIN hits : Nearby(n[j], hits[j])
    BY <1>5, <1>8, <1>11, <1>12, <1>13
  <1>15. Gathers(hits, n)
    BY <1>14 DEF Gathers
  <1>16. n \in Seq(Seq(Chunk))
    BY <1>6, <1>14, IsSequence
  <1>17. ASSUME calm
         PROVE  /\ turn.calm
                /\ \A j \in DOMAIN meta : meta[j] # "unknown"
                /\ \A j \in DOMAIN hits : Now(hits[j])
                /\ \A j \in DOMAIN hits : j \notin turn.todo \ {i} =>
                      n[j] = get_chunk_neighbors(hits[j].video, hits[j].index)
    <2>1. turn.calm /\ ~ failed
      BY <1>9, <1>17
    <2>2. \A j \in DOMAIN meta : meta[j] # "unknown"
      BY <1>1, <1>2, <2>1 DEF Calm
    <2>3. \A j \in DOMAIN hits : Now(hits[j])
      BY <1>1, <1>2, <2>1 DEF Calm, ToSet
    <2>4. \A j \in DOMAIN hits : j \notin turn.todo =>
             near[j] = get_chunk_neighbors(hits[j].video, hits[j].index)
      BY <1>1, <1>2, <2>1 DEF Calm
    <2>5. ASSUME NEW j \in DOMAIN hits, j \notin turn.todo \ {i}
          PROVE  n[j] = get_chunk_neighbors(hits[j].video, hits[j].index)
      <3>1. CASE j = i
        BY <1>5, <1>7, <1>8, <1>12, <2>1, <3>1
      <3>2. CASE j # i
        BY <1>8, <1>12, <2>4, <2>5, <3>2
      <3> QED BY <3>1, <3>2
    <2> QED BY <2>1, <2>2, <2>3, <2>5
  <1>18. NeighborsCome(hits, meta, n, i, calm)
    BY <1>2, <1>3, <1>10, <1>15, <1>16, <1>17 DEF NeighborsCome
  <1> QED BY <1>5, <1>18

LEMMA FetchHeld ==
    ASSUME RetrievalAssumption, RetrievalInv, FetchesNeighbors
    PROVE  \E t : t = turn' /\ Held(t)
  <1>1. /\ turn \in TurnRecord /\ Legal(turn) /\ InStage(turn)
        /\ turn.pc = "expand" /\ RetrievalTypeOK
    BY DEF RetrievalInv, Held, FetchesNeighbors
  <1>2. PICK hits \in Seq(Chunk), meta \in Seq(Meta), i \in turn.todo, calm \in BOOLEAN :
           \E near : NeighborsCome(hits, meta, near, i, calm)
    BY FetchIs
  <1>3. PICK near : NeighborsCome(hits, meta, near, i, calm)
    BY <1>2
  <1>4. PICK t : t = turn'
    OBVIOUS
  <1>5. CASE turn.todo # {i}
    <2>1. t = [turn EXCEPT !.near = near, !.todo = turn.todo \ {i}, !.calm = calm]
      BY <1>3, <1>4, <1>5 DEF NeighborsCome
    <2>2. near \in Seq(Seq(Chunk)) /\ turn.todo \ {i} \in SUBSET Nat
      BY <1>1, <1>3 DEF NeighborsCome, TurnRecord
    <2>3. t \in TurnRecord
      BY <1>1, <2>1, <2>2 DEF TurnRecord
    <2>4. /\ SameUser(t) /\ t.pc = "expand" /\ t.near = near /\ t.todo = turn.todo \ {i}
          /\ t.calm = calm /\ t.kw = turn.kw /\ t.hits = turn.hits /\ t.meta = turn.meta
          /\ t.read = turn.read /\ t.spans = turn.spans
      BY <1>1, <2>1 DEF TurnRecord, SameUser
    <2>5. Legal(t)
      BY <1>1, <2>4 DEF Legal, May, SameUser
    <2>6. InStage(t)
      BY <1>1, <1>3, <2>4 DEF InStage, NeighborsCome
    <2>7. Calm(t)
      <3>1. SUFFICES ASSUME calm
                     PROVE  /\ \A c \in ToSet(t.kw) \cup ToSet(t.hits) : Now(c)
                            /\ \A j \in DOMAIN t.meta : t.meta[j] # "unknown"
                            /\ \A j \in DOMAIN t.hits : j \notin t.todo =>
                                  t.near[j] = get_chunk_neighbors(t.hits[j].video, t.hits[j].index)
        BY <2>4 DEF Calm
      <3>2. turn.calm /\ Calm(turn)
        BY <1>3, <3>1 DEF NeighborsCome, RetrievalInv, Held
      <3>3. \A c \in ToSet(t.kw) \cup ToSet(t.hits) : Now(c)
        BY <2>4, <3>2 DEF Calm
      <3> QED BY <1>3, <2>4, <3>1, <3>3 DEF NeighborsCome
    <2> QED BY <1>4, <2>3, <2>5, <2>6, <2>7 DEF Held
  <1>6. CASE turn.todo = {i}
    <2> DEFINE spans == expand_and_merge(hits, meta, near)
    <2>1. Gathers(hits, near)
      BY <1>3 DEF NeighborsCome
    <2>2. spans \in Seq(SpanRecord)
      BY <2>1, SpansAre
    <2>3. BodyOf(spans) = Gathered(hits, near)
      BY <2>1, ExpandsTo
    <2> HIDE DEF spans
    <2>4. t = [turn EXCEPT !.pc = "answered", !.ok = TRUE, !.calm = calm,
                 !.near = <<>>, !.todo = {}, !.spans = spans, !.read = BodyOf(spans)]
      BY <1>3, <1>4, <1>6 DEF NeighborsCome, spans
    <2>5. /\ Gathered(hits, near) \in SUBSET Chunk
          /\ \A c \in Gathered(hits, near) : \E j \in DOMAIN hits : hits[j].video = c.video
      BY <2>1, GatheredIs
    <2>6. t \in TurnRecord
      <3>1. <<>> \in Seq(Seq(Chunk)) /\ {} \in SUBSET Nat
        OBVIOUS
      <3> QED BY <1>1, <2>2, <2>3, <2>4, <2>5, <3>1 DEF TurnRecord
    <2>7. /\ SameUser(t) /\ t.pc = "answered" /\ t.calm = calm /\ t.kw = turn.kw
          /\ t.hits = hits /\ t.read = BodyOf(spans) /\ t.spans = spans
      BY <1>1, <1>3, <2>4 DEF TurnRecord, SameUser, NeighborsCome
    <2>8. \A c \in ToSet(hits) : May(turn, c.video)
      BY <1>1, <1>3 DEF Legal, NeighborsCome
    <2>9. \A c \in BodyOf(spans) : May(turn, c.video)
      <3>1. SUFFICES ASSUME NEW c \in Gathered(hits, near) PROVE May(turn, c.video)
        BY <2>3
      <3>2. PICK j \in DOMAIN hits : hits[j].video = c.video
        BY <2>5
      <3>3. hits[j] \in ToSet(hits)
        BY DEF ToSet
      <3> QED BY <2>8, <3>2, <3>3
    <2>10. Legal(t)
      BY <1>1, <2>7, <2>8, <2>9 DEF Legal, May, SameUser
    <2>11. InStage(t)
      BY <1>1, <2>7 DEF InStage
    <2>12. Calm(t)
      <3>1. SUFFICES ASSUME calm PROVE \A c \in ToSet(t.kw) \cup ToSet(t.hits) : Now(c)
        BY <2>7 DEF Calm
      <3>2. turn.calm /\ Calm(turn) /\ hits = turn.hits
        BY <1>3, <3>1 DEF NeighborsCome, RetrievalInv, Held
      <3> QED BY <2>7, <3>2 DEF Calm
    <2> QED BY <1>4, <2>6, <2>10, <2>11, <2>12 DEF Held
  <1> QED BY <1>5, <1>6

LEMMA TurnBeginsHeld ==
    ASSUME RetrievalAssumption, RetrievalInv, NEW u \in User, TurnBegins(u)
    PROVE  \E t : t = turn' /\ Held(t)
  <1>1. PICK found \in get_current_user(u), listed \in {Stored, {}} :
           turn' = [Blank("ready") EXCEPT !.user = u,
                      !.member = found.is_member, !.listed = listed,
                      !.catalog = build_system_prompt(found.is_member)]
    BY DEF TurnBegins
  <1>2. found = row[u] /\ row[u] \in Row
    BY DEF get_current_user, get_user_by_id, RetrievalInv, MemberInv, MembershipTypeOK
  <1>3. PICK m \in BOOLEAN : m = found.is_member /\ (m => u \in everPaid)
    BY <1>2 DEF Row, RetrievalInv, MemberInv, PaidTold
  <1>4. PICK catalog \in SUBSET Video : catalog = build_system_prompt(m)
    BY DEF build_system_prompt, Stored
  <1>5. listed \in SUBSET Video
    BY DEF Stored
  <1>6. PICK b \in TurnRecord : b = Blank("ready")
    BY BlankIs
  <1>7. b.pc = "ready" /\ b.kw = <<>> /\ b.hits = <<>> /\ b.spans = <<>> /\ b.read = {}
    BY <1>6, BlankIs
  <1>8. PICK t : t = turn'
    OBVIOUS
  <1>9. t = [b EXCEPT !.user = u, !.member = m, !.listed = listed, !.catalog = catalog]
    BY <1>1, <1>3, <1>4, <1>6, <1>8
  <1>10. t \in TurnRecord
    BY <1>5, <1>9 DEF TurnRecord
  <1>11. /\ t.pc = "ready" /\ t.kw = <<>> /\ t.hits = <<>> /\ t.spans = <<>> /\ t.read = {}
         /\ t.user = u /\ t.member = m /\ t.catalog = catalog
    BY <1>5, <1>7, <1>9 DEF TurnRecord
  <1>12. \A v \in catalog : May(t, v)
    <2>1. SUFFICES ASSUME NEW v \in catalog, Source[v] = "dynamous" PROVE u \in everPaid
      BY <1>11 DEF May
    <2>2. m
      BY <1>4, <2>1 DEF build_system_prompt
    <2> QED BY <1>3, <2>2
  <1>13. Held(t)
    BY <1>3, <1>10, <1>11, <1>12, EmptyHeld
  <1> QED BY <1>8, <1>13

LEMMA RestHeld ==
    ASSUME RetrievalAssumption, RetrievalInv,
           \/ TurnEnds \/ NextCall \/ BadCall
           \/ \E v \in Video : CallsTranscript(v) /\ ~ Guarded(v)
    PROVE  \E t : t = turn' /\ Held(t)
  <1>1. turn \in TurnRecord
    BY DEF RetrievalInv, Held
  <1>2. CASE TurnEnds
    BY <1>2, BlankHeld DEF TurnEnds
  <1>3. CASE NextCall
    <2>1. PICK n \in 0 .. MaxCalls : n = turn.calls
      BY <1>1 DEF TurnRecord
    <2>2. Rested(turn, "ready") = [Rested(turn, "ready") EXCEPT !.calls = n]
      <3>1. PICK b \in TurnRecord : b = Blank("ready")
        BY BlankIs
      <3>2. PICK r : r = Rested(turn, "ready")
        OBVIOUS
      <3>3. r \in TurnRecord /\ r.calls = n
        BY <1>1, <2>1, <3>1, <3>2 DEF Rested, TurnRecord
      <3>4. r = [r EXCEPT !.calls = n]
        BY <3>3 DEF TurnRecord
      <3> QED BY <3>2, <3>4
    <2>3. Held([Rested(turn, "ready") EXCEPT !.calls = n])
      BY RestedHeld
    <2>4. turn' = [Rested(turn, "ready") EXCEPT !.calls = n]
      BY <1>3, <2>2 DEF NextCall
    <2> QED BY <2>3, <2>4
  <1>4. CASE BadCall \/ \E v \in Video : CallsTranscript(v) /\ ~ Guarded(v)
    <2>1. turn' = [Rested(turn, "answered") EXCEPT !.calls = @ + 1] /\ turn.calls < MaxCalls
      BY <1>4 DEF BadCall, CallsTranscript
    <2>2. PICK n \in 0 .. MaxCalls : n = turn.calls + 1
      BY SMTT(30), <1>1, <2>1 DEF TurnRecord, RetrievalAssumption
    <2>3. PICK b \in TurnRecord : b = Blank("answered")
      BY BlankIs
    <2>4. Rested(turn, "answered").calls = turn.calls
      BY <2>3 DEF Rested, TurnRecord
    <2>5. turn' = [Rested(turn, "answered") EXCEPT !.calls = n]
      BY <2>1, <2>2, <2>4
    <2>6. Held([Rested(turn, "answered") EXCEPT !.calls = n])
      BY RestedHeld
    <2> QED BY <2>5, <2>6
  <1> QED BY <1>2, <1>3, <1>4

LEMMA ClampIs ==
    ASSUME RetrievalAssumption, NEW k \in TopK PROVE k \in 0 .. MaxTopK
  <1>1. PICK v \in {0, MaxTopK + 1, DefaultTopK} : k = _clamp_top_k(v)
    BY DEF TopK
  <1>2. v \in Nat /\ MaxTopK \in Nat \ {0}
    BY FusionAssumption DEF RetrievalAssumption
  <1> QED BY <1>1, <1>2 DEF _clamp_top_k

LEMMA AdvanceHeld ==
    ASSUME RetrievalAssumption, RetrievalInv,
           \/ \E tool \in Tool, k \in TopK : CallsSearch(tool, k)
           \/ \E v \in Video : CallsTranscript(v) /\ Guarded(v)
           \/ Embeds
           \/ LooksUpVideo /\ turn.video \in Stored /\ MayRead(turn.video)
    PROVE  \E t : t = turn' /\ Held(t)
  <1>1. turn \in TurnRecord /\ Legal(turn) /\ InStage(turn)
    BY DEF RetrievalInv, Held
  <1>2. PICK t : t = turn'
    OBVIOUS
  <1>3. CASE \E tool \in Tool, k \in TopK : CallsSearch(tool, k)
    <2>1. PICK tool \in Tool, k \in TopK : CallsSearch(tool, k)
      BY <1>3
    <2>2. PICK pc \in {"keyword", "embed", "vector"}, n \in 0 .. MaxCalls :
             t = [turn EXCEPT !.calls = n, !.tool = tool, !.top_k = k, !.pc = pc]
      <3>1. turn.calls + 1 \in 0 .. MaxCalls
        <4>1. turn.calls < MaxCalls
          BY <2>1 DEF CallsSearch
        <4>2. turn.calls \in 0 .. MaxCalls /\ MaxCalls \in Nat
          BY <1>1 DEF TurnRecord, RetrievalAssumption
        <4> QED BY <4>1, <4>2
      <3>2. PICK pc : pc = CASE tool = "keyword_search_videos" -> "keyword"
                             [] ~turn.embedded -> "embed"
                             [] tool = "search_videos" -> "keyword"
                             [] OTHER -> "vector"
        OBVIOUS
      <3>3. pc \in {"keyword", "embed", "vector"}
        BY <3>2
      <3>4. t = [turn EXCEPT !.calls = turn.calls + 1, !.tool = tool, !.top_k = k, !.pc = pc]
        BY <1>2, <2>1, <3>2 DEF CallsSearch
      <3> QED BY <3>1, <3>3, <3>4
    <2>3. k \in 0 .. MaxTopK
      BY ClampIs
    <2>4. t \in TurnRecord
      BY <1>1, <2>2, <2>3 DEF TurnRecord
    <2>5. /\ SameUser(t) /\ t.kw = turn.kw /\ t.hits = turn.hits /\ t.read = turn.read
          /\ t.spans = turn.spans /\ t.calm = turn.calm /\ t.pc = pc
      BY <1>1, <2>2 DEF TurnRecord, SameUser
    <2>6. Held(t)
      BY <2>4, <2>5, GoesOn
    <2> QED BY <1>2, <2>6
  <1>4. CASE \E v \in Video : CallsTranscript(v) /\ Guarded(v)
    <2>1. PICK v \in Video : CallsTranscript(v) /\ Guarded(v)
      BY <1>4
    <2>2. PICK n \in 0 .. MaxCalls :
             t = [turn EXCEPT !.calls = n, !.pc = "video", !.video = v,
                              !.tool = "get_video_transcript"]
      <3>1. turn.calls + 1 \in 0 .. MaxCalls
        <4>1. turn.calls < MaxCalls
          BY <2>1 DEF CallsTranscript
        <4>2. turn.calls \in 0 .. MaxCalls /\ MaxCalls \in Nat
          BY <1>1 DEF TurnRecord, RetrievalAssumption
        <4> QED BY <4>1, <4>2
      <3> QED BY <1>2, <2>1, <3>1 DEF CallsTranscript
    <2>3. t \in TurnRecord
      BY <1>1, <2>2 DEF TurnRecord, Tool
    <2>4. /\ SameUser(t) /\ t.kw = turn.kw /\ t.hits = turn.hits /\ t.read = turn.read
          /\ t.spans = turn.spans /\ t.calm = turn.calm /\ t.pc = "video" /\ t.video = v
          /\ t.tool = "get_video_transcript"
      BY <1>1, <2>2 DEF TurnRecord, SameUser
    <2>5. Held(t)
      BY <2>3, <2>4, GoesOn
    <2> QED BY <1>2, <2>5
  <1>5. CASE Embeds
    <2>1. PICK pc \in {"keyword", "vector"} : t = [turn EXCEPT !.embedded = TRUE, !.pc = pc]
      BY <1>2, <1>5 DEF Embeds
    <2>2. t \in TurnRecord
      BY <1>1, <2>1 DEF TurnRecord
    <2>3. /\ SameUser(t) /\ t.kw = turn.kw /\ t.hits = turn.hits /\ t.read = turn.read
          /\ t.spans = turn.spans /\ t.calm = turn.calm /\ t.pc = pc
      BY <1>1, <2>1 DEF TurnRecord, SameUser
    <2>4. Held(t)
      BY <2>2, <2>3, GoesOn
    <2> QED BY <1>2, <2>4
  <1>6. CASE LooksUpVideo /\ turn.video \in Stored /\ MayRead(turn.video)
    <2>1. t = [turn EXCEPT !.pc = "list"] /\ turn.pc = "video"
      BY <1>2, <1>6 DEF LooksUpVideo
    <2>2. t \in TurnRecord
      BY <1>1, <2>1 DEF TurnRecord
    <2>3. /\ SameUser(t) /\ t.kw = turn.kw /\ t.hits = turn.hits /\ t.read = turn.read
          /\ t.spans = turn.spans /\ t.calm = turn.calm /\ t.pc = "list"
          /\ t.video = turn.video /\ t.tool = turn.tool
      BY <1>1, <2>1 DEF TurnRecord, SameUser
    <2>4. turn.video \in Video /\ turn.tool = "get_video_transcript"
      BY <1>1, <2>1 DEF InStage
    <2>5. May(turn, turn.video)
      BY <1>1, <1>6 DEF May, MayRead, Legal
    <2>6. Held(t)
      BY <2>2, <2>3, <2>4, <2>5, GoesOn
    <2> QED BY <1>2, <2>6
  <1> QED BY <1>3, <1>4, <1>5, <1>6

LEMMA ListsHeld ==
    ASSUME RetrievalAssumption, RetrievalInv, ListsTranscript
    PROVE  \E t : t = turn' /\ Held(t)
  <1>1. /\ turn \in TurnRecord /\ Legal(turn) /\ InStage(turn) /\ Calm(turn)
        /\ RetrievalTypeOK /\ turn.pc = "list"
    BY DEF RetrievalInv, Held, ListsTranscript
  <1>2. PICK v \in Video : v = turn.video /\ May(turn, v)
    BY <1>1 DEF InStage, Legal
  <1> DEFINE raw == list_chunks_for_video(v)
  <1>3. PICK rows \in Seq(Chunk) : rows = raw /\ \A n \in DOMAIN rows : rows[n].video = v
    <2>1. 0 \in Nat /\ Chunks(v) \in Nat
      BY <1>1, RowsAre
    <2>2. /\ Between(v, 0, Chunks(v)) \in Seq(Chunk)
          /\ \A n \in DOMAIN Between(v, 0, Chunks(v)) :
                Between(v, 0, Chunks(v))[n] = Row1(v, 0 + n - 1)
      BY <1>1, <2>1, RowsAre
    <2> QED BY <2>2 DEF list_chunks_for_video, Row1
  <1> DEFINE all == [i \in DOMAIN rows |-> Single(rows[i], Source[v])]
             source == [i \in DOMAIN rows |-> Source[v]]
             all1 == [i \in DOMAIN rows |-> Single(rows[i], source[i])]
  <1>4. all = all1
    OBVIOUS
  <1>5. source \in [DOMAIN rows -> {"youtube", "dynamous"}]
    BY DEF RetrievalAssumption
  <1> HIDE DEF source, raw
  <1>6. all1 \in Seq(SpanRecord) /\ BodyOf(all1) \subseteq ToSet(rows)
    BY <1>5, SinglesAre
  <1>7. all \in Seq(SpanRecord) /\ BodyOf(all) \subseteq ToSet(rows)
    BY <1>4, <1>6
  <1>8. CASE rows = <<>>
    BY <1>2, <1>3, <1>8, RefusesHeld DEF ListsTranscript, raw
  <1>9. CASE rows # <<>>
    <2>1. PICK text \in _format_transcript(rows) : Answers(TRUE, all, text)
      BY <1>2, <1>3, <1>9 DEF ListsTranscript, raw
    <2> HIDE DEF all, all1
    <2>2. text \subseteq ToSet(rows)
      <3>1. PICK n \in 0 .. Len(rows) : text = ToSet(SubSeq(rows, 1, n))
        BY DEF _format_transcript
      <3>2. /\ DOMAIN SubSeq(rows, 1, n) \subseteq DOMAIN rows
            /\ \A i \in DOMAIN SubSeq(rows, 1, n) : SubSeq(rows, 1, n)[i] = rows[i]
        OBVIOUS
      <3> QED BY <3>1, <3>2 DEF ToSet
    <2>3. ToSet(rows) \in SUBSET Chunk /\ \A c \in ToSet(rows) : c.video = v
      BY <1>3, SequenceIs DEF ToSet
    <2>4. PICK t : t = turn'
      OBVIOUS
    <2>5. t = [turn EXCEPT !.pc = "answered", !.ok = TRUE, !.spans = all,
                           !.read = text, !.kw = <<>>, !.near = <<>>, !.todo = {}]
      BY <2>1, <2>4 DEF Answers
    <2>6. t \in TurnRecord
      <3>1. /\ <<>> \in Seq(Chunk) /\ <<>> \in Seq(Seq(Chunk)) /\ {} \in SUBSET Nat
            /\ text \in SUBSET Chunk
        BY <2>2, <2>3
      <3> QED BY <1>1, <1>7, <2>5, <3>1 DEF TurnRecord
    <2>7. /\ SameUser(t) /\ t.pc = "answered" /\ t.kw = <<>> /\ t.calm = turn.calm
          /\ t.hits = turn.hits /\ t.read = text /\ t.spans = all
      BY <1>1, <2>5 DEF TurnRecord, SameUser
    <2>8. \A c \in ToSet(t.hits) \cup t.read \cup BodyOf(t.spans) : May(turn, c.video)
      BY <1>1, <1>2, <1>7, <2>2, <2>3, <2>7 DEF Legal
    <2>9. t.calm => \A c \in ToSet(t.hits) : Now(c)
      BY <1>1, <2>7 DEF Calm
    <2>10. Held(t)
      BY <2>6, <2>7, <2>8, <2>9, AnswerHeld
    <2> QED BY <2>4, <2>10
  <1> QED BY <1>8, <1>9

\* The library changes under a turn.
LEMMA LibrarySteps ==
    ASSUME RetrievalAssumption, RetrievalInv, NEW v \in Video, Resyncs(v) \/ Deletes(v),
           UNCHANGED memberVars
    PROVE  RetrievalInv'
  <1>1. /\ turn \in TurnRecord /\ Legal(turn) /\ InStage(turn) /\ RetrievalTypeOK /\ CacheTrue
        /\ MemberInv
    BY DEF RetrievalInv, Held
  <1>2. Disturbs /\ UNCHANGED <<cache, turns>>
    BY DEF Resyncs, Deletes
  <1>3. /\ edition' \in [Video -> Nat] /\ \A w \in Video : edition'[w] <= Len(Talk[w])
        /\ dirty' \in BOOLEAN
        /\ \A w \in Video : edition[w] = 0 => edition'[w] = 0
    <2>1. edition \in [Video -> Nat] /\ \A w \in Video : edition[w] <= Len(Talk[w]) /\ Len(Talk[w]) \in Nat
      BY <1>1 DEF RetrievalTypeOK, RetrievalAssumption
    <2>2. CASE Resyncs(v)
      BY <2>1, <2>2 DEF Resyncs
    <2>3. CASE Deletes(v)
      BY <2>1, <2>3 DEF Deletes
    <2> QED BY <2>2, <2>3
  <1>4. MemberInv' /\ everPaid' = everPaid
    BY <1>1 DEF MemberInv, PaidTold, MembershipTypeOK, memberVars
  <1>5. PICK t : t = turn'
    OBVIOUS
  <1>6. t = [turn EXCEPT !.calm = turn.calm /\ turn.pc \in {"idle", "ready"}]
    BY <1>2, <1>5 DEF Disturbs
  <1>7. t \in TurnRecord
    BY ZenonT(60), <1>1, <1>6 DEF TurnRecord
  <1>8. /\ SameUser(t) /\ t.pc = turn.pc /\ t.kw = turn.kw /\ t.hits = turn.hits
        /\ t.read = turn.read /\ t.spans = turn.spans /\ t.meta = turn.meta /\ t.near = turn.near
        /\ t.todo = turn.todo /\ t.tool = turn.tool /\ t.video = turn.video
        /\ t.calm = (turn.calm /\ turn.pc \in {"idle", "ready"})
    BY <1>1, <1>6 DEF TurnRecord, SameUser
  <1>9. Legal(t)'
    BY <1>1, <1>4, <1>8 DEF Legal, May, SameUser
  <1>10. InStage(t)'
    BY <1>1, <1>8 DEF InStage
  <1>11. Calm(t)'
    <2>1. t.calm => t.kw = <<>> /\ t.hits = <<>> /\ t.pc \notin {"hydrate", "expand"}
      BY <1>1, <1>8 DEF InStage
    <2>2. ToSet(<<>>) = {}
      BY DEF ToSet
    <2> QED BY <2>1, <2>2 DEF Calm
  <1>12. Held(t)'
    BY <1>7, <1>9, <1>10, <1>11 DEF Held
  <1>13. Held(turn)'
    BY <1>5, <1>12
  <1>14. RetrievalTypeOK'
    BY <1>1, <1>2, <1>3, <1>5, <1>7 DEF RetrievalTypeOK
  <1>15. CacheTrue'
    BY <1>1, <1>2, <1>3 DEF CacheTrue
  <1> QED BY <1>4, <1>13, <1>14, <1>15 DEF RetrievalInv

LEMMA RetrievalBegins ==
    ASSUME RetrievalAssumption, MembershipAssumption, Init
    PROVE  RetrievalInv
  <1>1. MemberInv
    BY MemberBegins DEF Init
  <1>2. turn = Blank("idle") /\ Held(turn)
    BY BlankHeld DEF Init, RetrievalInit
  <1>3. RetrievalTypeOK
    <2>1. \A v \in Video : 1 <= Len(Talk[v])
      BY DEF RetrievalAssumption
    <2>2. 0 \in 0 .. MaxTurns
      BY DEF RetrievalAssumption
    <2> QED BY <1>2, <2>1, <2>2 DEF Init, RetrievalInit, RetrievalTypeOK, Held, Meta
  <1>4. CacheTrue
    BY DEF Init, RetrievalInit, CacheTrue
  <1> QED BY <1>1, <1>2, <1>3, <1>4 DEF RetrievalInv

LEMMA RetrievalSteps ==
    ASSUME RetrievalAssumption, MembershipAssumption, RetrievalInv, [Next]_vars
    PROVE  RetrievalInv'
  <1>1. CASE UNCHANGED vars
    <2>1. UNCHANGED memberVars /\ UNCHANGED <<edition, dirty, cache, turns>> /\ turn' = turn
      BY <1>1 DEF vars, retrievalVars
    <2>2. PICK t : t = turn
      OBVIOUS
    <2>3. Held(t)
      BY <2>2 DEF RetrievalInv
    <2> QED BY <2>1, <2>2, <2>3, QuietSteps
  <1>2. CASE MembershipNext /\ UNCHANGED retrievalVars
    <2>1. MemberInv' /\ everPaid \subseteq everPaid'
      BY <1>2, MemberSteps DEF RetrievalInv
    <2>2. edition' = edition /\ dirty' = dirty /\ cache' = cache /\ turn' = turn /\ turns' = turns
      BY <1>2 DEF retrievalVars
    <2>3. PICK t : t = turn
      OBVIOUS
    <2>4. Held(t)'
      BY <2>1, <2>2, <2>3, Carried DEF RetrievalInv
    <2>5. Held(turn)'
      BY <2>2, <2>3, <2>4
    <2>6. RetrievalTypeOK'
      BY <2>2 DEF RetrievalInv, RetrievalTypeOK
    <2>7. CacheTrue'
      BY <2>2 DEF RetrievalInv, CacheTrue
    <2> QED BY <2>1, <2>5, <2>6, <2>7 DEF RetrievalInv
  <1>3. ASSUME NEW u \in User, TurnBegins(u), UNCHANGED memberVars
        PROVE  RetrievalInv'
    <2>1. PICK t : t = turn' /\ Held(t)
      BY <1>3, TurnBeginsHeld
    <2>2. turns' \in 0 .. MaxTurns /\ UNCHANGED <<edition, dirty, cache>>
      BY <1>3 DEF TurnBegins, RetrievalInv, RetrievalTypeOK, RetrievalAssumption
    <2>3. cache' \in [Video -> Meta] /\ CacheTrue'
      BY <2>2 DEF RetrievalInv, RetrievalTypeOK, CacheTrue
    <2> QED BY <1>3, <2>1, <2>2, <2>3, TurnSteps
  <1>4. CASE TurnStep /\ UNCHANGED memberVars
    <2>1. CASE HydratesHybrid
      BY <1>4, <2>1, HybridSteps
    <2>2. CASE ~ HydratesHybrid
      <3>1. \E t : t = turn' /\ Held(t)
        <4>1. CASE CallFails
          BY <4>1, RefusesHeld DEF CallFails
        <4>2. CASE LooksUpVideo /\ ~ (turn.video \in Stored /\ MayRead(turn.video))
          BY <4>2, RefusesHeld DEF LooksUpVideo
        <4> QED BY <1>4, <2>2, <4>1, <4>2, RestHeld, AdvanceHeld, KeywordHeld, VectorHeld,
                   OtherHeld, FetchHeld, ListsHeld DEF TurnStep
      <3>2. PICK t : t = turn' /\ Held(t)
        BY <3>1
      <3>3. UNCHANGED <<edition, dirty, cache, turns>>
        BY <1>4, <2>2 DEF TurnStep, BadCall, CallsSearch, CallsTranscript, Embeds, CallFails,
              KeywordAnswers, VectorAnswers, HydratesOther, FetchesNeighbors, LooksUpVideo,
              ListsTranscript, NextCall, TurnEnds
      <3> QED BY <1>4, <3>2, <3>3, QuietSteps
    <2> QED BY <2>1, <2>2
  <1>5. ASSUME NEW v \in Video, Resyncs(v) \/ Deletes(v), UNCHANGED memberVars
        PROVE  RetrievalInv'
    BY <1>5, LibrarySteps
  <1>6. CASE invalidate_cache /\ UNCHANGED memberVars
    <2>1. PICK t : t = turn
      OBVIOUS
    <2>2. Held(t) /\ turn' = t
      BY <1>6, <2>1 DEF RetrievalInv, invalidate_cache
    <2>3. MemberInv' /\ everPaid' = everPaid /\ edition' = edition /\ dirty' = FALSE /\ turns' = turns
      BY <1>6 DEF RetrievalInv, MemberInv, PaidTold, MembershipTypeOK, memberVars, invalidate_cache
    <2>4. Held(t)'
      BY <2>2, <2>3, Carried
    <2>5. Held(turn)'
      BY <2>2, <2>4
    <2>6. cache' = [w \in Video |-> "none"]
      BY <1>6 DEF invalidate_cache
    <2>7. RetrievalTypeOK'
      BY <2>1, <2>2, <2>3, <2>6 DEF RetrievalInv, RetrievalTypeOK, Meta
    <2>8. CacheTrue'
      BY <2>6 DEF CacheTrue
    <2> QED BY <2>3, <2>5, <2>7, <2>8 DEF RetrievalInv
  <1> QED BY <1>1, <1>2, <1>3, <1>4, <1>5, <1>6 DEF Next, LibraryStep

\* Every reachable state has the invariant.
THEOREM RetrievalHolds == Spec => []RetrievalInv
  <1>1. Init => RetrievalInv
    BY RetrievalAssumption, MembershipAssumption, RetrievalBegins
  <1>2. RetrievalInv /\ [Next]_vars => RetrievalInv'
    BY RetrievalAssumption, MembershipAssumption, RetrievalSteps
  <1> QED BY <1>1, <1>2, PTL DEF Spec

(***************************************************************************)
(* A title in the prompt, a chunk in a tool's answer or in its citations:   *)
(* what only members may see reaches only turns of users that have paid,    *)
(* however checks of the membership, changes of the library, re-used hits   *)
(* and stale caches interleave (rag/tools.py, db/repository.py).            *)
(***************************************************************************)
THEOREM LessonsShown == Spec => []LessonsForPayersOnly
  <1>1. RetrievalInv => LessonsForPayersOnly
    <2>1. SUFFICES ASSUME RetrievalInv,
                          NEW v \in turn.catalog \cup
                                      {c.video : c \in turn.read \cup BodyOf(turn.spans)},
                          Source[v] = "dynamous"
                   PROVE  turn.user \in everPaid
      BY DEF LessonsForPayersOnly
    <2>2. Legal(turn)
      BY <2>1 DEF RetrievalInv, Held
    <2> QED BY <2>1, <2>2 DEF Legal, May
  <1> QED BY <1>1, RetrievalHolds, PTL

-----------------------------------------------------------------------------
(* The spans of an answer                                                  *)

\* HitsInOneSpan, of any answer.
HitsHeld(hits, spans) ==
    \A h \in ToSet(hits) :
       Cardinality({n \in DOMAIN spans : h \in ToSet(spans[n].body)}) = 1

Told(t) ==
    t.pc = "answered" /\ t.ok /\ t.tool # "get_video_transcript" =>
       /\ HitsHeld(t.hits, t.spans)
       /\ Apart(t.spans)
       /\ t.calm => CalmTold(t.hits, t.spans)

\* What is shown once is in one span.
LEMMA OneSpan ==
    ASSUME NEW hits, NEW spans, Apart(spans), ToSet(hits) \subseteq BodyOf(spans)
    PROVE  HitsHeld(hits, spans)
  <1>1. SUFFICES ASSUME NEW h \in ToSet(hits)
                 PROVE  Cardinality({n \in DOMAIN spans : h \in ToSet(spans[n].body)}) = 1
    BY DEF HitsHeld
  <1>2. PICK n \in DOMAIN spans : \E i \in DOMAIN spans[n].body : spans[n].body[i] = h
    BY <1>1, BodyIs
  <1>3. ASSUME NEW m \in DOMAIN spans, h \in ToSet(spans[m].body) PROVE m = n
    <2>1. PICK j \in DOMAIN spans[m].body : spans[m].body[j] = h
      BY <1>3 DEF ToSet
    <2> QED BY <1>2, <2>1 DEF Apart
  <1>4. {m \in DOMAIN spans : h \in ToSet(spans[m].body)} = {n}
    BY <1>2, <1>3 DEF ToSet
  <1> QED BY <1>4, FS_Singleton

LEMMA NothingTold ==
    ASSUME NEW t, t.pc = "answered" /\ t.ok => t.hits = <<>> /\ t.spans = <<>>
    PROVE  Told(t)
  <1>1. ToSet(<<>>) = {}
    BY DEF ToSet
  <1>2. HitsHeld(<<>>, <<>>) /\ Apart(<<>>) /\ CalmTold(<<>>, <<>>)
    BY <1>1 DEF HitsHeld, Apart, CalmTold
  <1> QED BY <1>2 DEF Told

LEMMA ToHydrateTold ==
    ASSUME RetrievalAssumption, Window # 0, turn \in TurnRecord,
           NEW hits \in Seq(Chunk), NEW meta \in Seq(Meta), NEW calm,
           NEW t, \/ t = ToHydrate(hits, meta)
                  \/ Len(meta) = Len(hits) /\ t = [Hydrated(hits, meta) EXCEPT !.calm = calm]
    PROVE  Told(t)
  <1>1. CASE Len(meta) = Len(hits)
    <2>1. PICK h : h = Hydrated(hits, meta)
      OBVIOUS
    <2>2. Completes(h, hits, meta)
      BY <1>1, <2>1, HydratedIs
    <2>3. h \in TurnRecord /\ (h.pc = "answered" => h.spans = <<>> /\ h.hits = <<>>)
      BY <2>2 DEF Completes
    <2>4. t = h \/ t = [h EXCEPT !.calm = calm]
      BY <1>1, <2>1 DEF ToHydrate
    <2>5. t.pc = h.pc /\ t.spans = h.spans /\ t.hits = h.hits
      BY <2>3, <2>4 DEF TurnRecord
    <2> QED BY <2>3, <2>5, NothingTold
  <1>2. CASE Len(meta) # Len(hits)
    <2>1. t = [turn EXCEPT !.pc = "hydrate", !.hits = hits, !.meta = meta, !.kw = <<>>]
      BY <1>2 DEF ToHydrate
    <2>2. t.pc = "hydrate"
      BY <2>1 DEF TurnRecord
    <2> QED BY <2>2, NothingTold
  <1> QED BY <1>1, <1>2

\* The last neighbours make the answer.
LEMMA FetchTold ==
    ASSUME RetrievalAssumption, RetrievalInv, FetchesNeighbors
    PROVE  \E t : t = turn' /\ Told(t)
  <1>1. /\ turn \in TurnRecord /\ InStage(turn) /\ turn.pc = "expand" /\ RetrievalTypeOK
    BY DEF RetrievalInv, Held, FetchesNeighbors
  <1>2. PICK hits \in Seq(Chunk), meta \in Seq(Meta), i \in turn.todo, calm \in BOOLEAN :
           \E near : NeighborsCome(hits, meta, near, i, calm)
    BY FetchIs
  <1>3. PICK near : NeighborsCome(hits, meta, near, i, calm)
    BY <1>2
  <1>4. PICK t : t = turn'
    OBVIOUS
  <1>5. CASE turn.todo # {i}
    <2>1. t = [turn EXCEPT !.near = near, !.todo = turn.todo \ {i}, !.calm = calm]
      BY <1>3, <1>4, <1>5 DEF NeighborsCome
    <2>2. t.pc = "expand"
      BY <1>1, <2>1 DEF TurnRecord
    <2> QED BY <1>4, <2>2, NothingTold
  <1>6. CASE turn.todo = {i}
    <2> DEFINE spans == expand_and_merge(hits, meta, near)
    <2>1. Gathers(hits, near)
      BY <1>3 DEF NeighborsCome
    <2>2. BodyOf(spans) = Gathered(hits, near) /\ Apart(spans)
      BY <2>1, ExpandsTo
    <2>3. ToSet(hits) \subseteq Gathered(hits, near)
      BY DEF Gathered
    <2>4. calm => CalmTold(hits, spans)
      <3>1. SUFFICES ASSUME calm PROVE CalmTold(hits, spans)
        OBVIOUS
      <3>2. Calmly(hits, near)
        BY <1>3, <1>6, <2>1, <3>1 DEF Calmly, NeighborsCome
      <3>3. Len(meta) = Len(hits) /\ \A j \in DOMAIN meta : meta[j] = "known"
        <4>1. \A j \in DOMAIN meta : meta[j] \in Meta
          OBVIOUS
        <4> QED BY <1>3, <3>1, <4>1 DEF NeighborsCome, Meta
      <3> QED BY <1>1, <3>2, <3>3, CalmExpands
    <2> HIDE DEF spans
    <2>5. HitsHeld(hits, spans)
      BY <2>2, <2>3, OneSpan
    <2>6. t = [turn EXCEPT !.pc = "answered", !.ok = TRUE, !.calm = calm,
                 !.near = <<>>, !.todo = {}, !.spans = spans, !.read = BodyOf(spans)]
      BY <1>3, <1>4, <1>6 DEF NeighborsCome, spans
    <2>7. t.hits = hits /\ t.spans = spans /\ t.calm = calm
      BY <1>1, <1>3, <2>6 DEF TurnRecord, NeighborsCome
    <2>8. Told(t)
      BY <2>2, <2>4, <2>5, <2>7 DEF Told
    <2> QED BY <1>4, <2>8
  <1> QED BY <1>5, <1>6

LEMMA HydrateTold ==
    ASSUME RetrievalAssumption, Window # 0, RetrievalInv,
           KeywordAnswers \/ VectorAnswers \/ HydratesHybrid \/ HydratesOther
    PROVE  \E t : t = turn' /\ Told(t)
  <1>1. turn \in TurnRecord /\ InStage(turn) /\ RetrievalTypeOK
    BY DEF RetrievalInv, Held
  <1>2. turn.top_k \in Nat /\ turn.top_k * Overfetch \in Nat
    BY <1>1, FusionAssumption DEF TurnRecord
  <1>3. <<>> \in Seq(Meta) /\ turn.hits \in Seq(Chunk) /\ turn.meta \in Seq(Meta)
    BY <1>1 DEF TurnRecord
  <1>4. PICK t : t = turn'
    OBVIOUS
  <1>5. CASE \E hits \in Seq(Chunk), meta \in Seq(Meta) : turn' = ToHydrate(hits, meta)
    <2>1. PICK hits \in Seq(Chunk), meta \in Seq(Meta) : t = ToHydrate(hits, meta)
      BY <1>4, <1>5
    <2>2. Told(t)
      BY <1>1, <2>1, ToHydrateTold
    <2> QED BY <1>4, <2>2
  <1>6. CASE KeywordAnswers
    <2>1. CASE turn.tool = "search_videos"
      <3>1. t.pc = "vector"
        BY <1>1, <1>4, <1>6, <2>1 DEF KeywordAnswers, TurnRecord
      <3> QED BY <1>4, <3>1, NothingTold
    <2>2. CASE turn.tool # "search_videos"
      <3>1. PICK found \in keyword_search(turn.member, turn.top_k) :
               turn' = ToHydrate(found, <<>>)
        BY <1>6, <2>2 DEF KeywordAnswers
      <3>2. PICK n \in Nat : n = turn.top_k
        BY <1>2
      <3>3. found \in Seq(Chunk)
        BY <3>1, <3>2, FoundMay
      <3> QED BY <1>3, <1>5, <3>1, <3>3
    <2> QED BY <2>1, <2>2
  <1>7. CASE VectorAnswers
    <2>1. CASE turn.tool = "search_videos"
      <3>1. PICK found \in vector_search_pg(turn.member, turn.top_k * Overfetch) :
               turn' = ToHydrate(_rrf_merge(turn.kw, found, turn.top_k),
                                 FromCache(_rrf_merge(turn.kw, found, turn.top_k), <<>>, cache))
        BY <1>7, <2>1 DEF VectorAnswers
      <3>2. PICK n \in Nat : n = turn.top_k * Overfetch /\ n <= MaxTopK * Overfetch
        <4>1. turn.top_k * Overfetch <= MaxTopK * Overfetch
          BY <1>1, FusionAssumption DEF TurnRecord
        <4> QED BY <1>2, <4>1
      <3>3. /\ found \in Seq(Chunk) /\ Len(found) <= n
            /\ \A i, j \in DOMAIN found : found[i] = found[j] => i = j
        BY <3>1, <3>2, FoundMay
      <3>4. Ranking(found, Chunk)
        <4>1. Len(found) \in Nat /\ MaxTopK * Overfetch \in Nat
          BY <3>3, FusionAssumption
        <4> QED BY <3>2, <3>3, <4>1 DEF Ranking
      <3>5. PICK kw \in Seq(Chunk), top_k \in Nat : kw = turn.kw /\ top_k = turn.top_k
        BY <1>1, <1>2 DEF InStage, Ranking
      <3>6. Ranking(kw, Chunk)
        BY <1>1, <3>5 DEF InStage
      <3>7. PICK hits \in Seq(Chunk) : hits = _rrf_merge(kw, found, top_k)
        BY <3>3, <3>4, <3>6, MergedAre
      <3>8. PICK known \in [Video -> Meta] : known = cache
        BY <1>1 DEF RetrievalTypeOK
      <3>9. FromCache(hits, <<>>, known) \in Seq(Meta)
        BY <1>3, FromCacheIs
      <3> QED BY <1>5, <3>1, <3>5, <3>7, <3>8, <3>9
    <2>2. CASE turn.tool # "search_videos"
      <3>1. PICK found \in vector_search_pg(turn.member, turn.top_k) :
               turn' = ToHydrate(found, <<>>)
        BY <1>7, <2>2 DEF VectorAnswers
      <3>2. PICK n \in Nat : n = turn.top_k
        BY <1>2
      <3>3. found \in Seq(Chunk)
        BY <3>1, <3>2, FoundMay
      <3> QED BY <1>3, <1>5, <3>1, <3>3
    <2> QED BY <2>1, <2>2
  <1>8. CASE HydratesHybrid
    <2>1. PICK v : v = turn.hits[Len(turn.meta) + 1].video
      OBVIOUS
    <2>2. /\ cache' = [cache EXCEPT ![v] = get_video(v)]
          /\ turn' = ToHydrate(turn.hits, FromCache(turn.hits, turn.meta, cache'))
      BY <1>8, <2>1 DEF HydratesHybrid
    <2>3. PICK known \in [Video -> Meta] : known = cache'
      BY <1>1, <2>2 DEF RetrievalTypeOK, get_video, Meta
    <2>4. PICK hits \in Seq(Chunk), meta \in Seq(Meta) : hits = turn.hits /\ meta = turn.meta
      BY <1>3
    <2>5. FromCache(hits, meta, known) \in Seq(Meta)
      BY FromCacheIs
    <2> QED BY <1>5, <2>2, <2>3, <2>4, <2>5
  <1>9. CASE HydratesOther
    <2>1. PICK v \in Unloaded, failed \in BOOLEAN :
             turn' = [_hydrate_chunks(v, IF failed THEN "unknown" ELSE get_video(v))
                        EXCEPT !.calm = @ /\ ~failed]
      BY <1>9 DEF HydratesOther
    <2>2. PICK found \in Meta : found = IF failed THEN "unknown" ELSE get_video(v)
      BY DEF get_video, Meta
    <2>3. PICK hits \in Seq(Chunk), meta \in Seq(Meta) : hits = turn.hits /\ meta = turn.meta
      BY <1>3
    <2> DEFINE got == [i \in DOMAIN hits |->
                         IF hits[i].video = v THEN found
                         ELSE IF meta = <<>> THEN "none" ELSE meta[i]]
    <2>4. /\ Len(hits) \in Nat /\ DOMAIN hits = 1 .. Len(hits)
      BY SequenceIs
    <2>5. turn.pc = "hydrate" /\ (meta = <<>> \/ Len(meta) = Len(hits))
      BY <1>1, <1>9, <2>3 DEF HydratesOther, InStage
    <2>6. got \in Seq(Meta) /\ Len(got) = Len(hits)
      <3>1. ASSUME NEW i \in DOMAIN hits PROVE got[i] \in Meta
        BY <2>4, <2>5 DEF Meta
      <3>2. got \in [1 .. Len(hits) -> Meta]
        BY <2>4, <3>1
      <3> HIDE DEF got
      <3> QED BY <2>4, <3>2, IsSequence
    <2>7. CASE \A i \in DOMAIN got : got[i] # "none"
      <3>1. t = [Hydrated(hits, got) EXCEPT !.calm = @ /\ ~failed]
        BY <1>4, <2>1, <2>2, <2>3, <2>7 DEF _hydrate_chunks
      <3> HIDE DEF got
      <3>2. PICK calm : calm = (Hydrated(hits, got).calm /\ ~failed)
        OBVIOUS
      <3>3. t = [Hydrated(hits, got) EXCEPT !.calm = calm]
        BY <3>1, <3>2
      <3>4. Told(t)
        BY <1>1, <2>6, <3>3, ToHydrateTold
      <3> QED BY <1>4, <3>4
    <2>8. CASE ~ \A i \in DOMAIN got : got[i] # "none"
      <3>1. t = [[turn EXCEPT !.meta = got] EXCEPT !.calm = @ /\ ~failed]
        BY <1>4, <2>1, <2>2, <2>3, <2>8 DEF _hydrate_chunks
      <3> HIDE DEF got
      <3>2. t.pc = "hydrate"
        BY <1>1, <2>5, <3>1 DEF TurnRecord
      <3> QED BY <1>4, <3>2, NothingTold
    <2> QED BY <2>7, <2>8
  <1> QED BY <1>6, <1>7, <1>8, <1>9

\* The other steps answer nothing, refuse, or show a transcript.
LEMMA OtherTold ==
    ASSUME RetrievalAssumption, RetrievalInv,
           \/ \E u \in User : TurnBegins(u)
           \/ TurnEnds \/ NextCall \/ BadCall \/ Embeds \/ CallFails
           \/ \E tool \in Tool, k \in TopK : CallsSearch(tool, k)
           \/ \E v \in Video : CallsTranscript(v)
           \/ LooksUpVideo \/ ListsTranscript
    PROVE  \E t : t = turn' /\ Told(t)
  <1>1. turn \in TurnRecord /\ InStage(turn)
    BY DEF RetrievalInv, Held
  <1>2. PICK t : t = turn'
    OBVIOUS
  <1>3. ASSUME NEW pc \in {"idle", "ready", "answered"}
        PROVE  Blank(pc).pc = pc /\ Blank(pc).ok = FALSE
    BY DEF Blank
  <1>4. CASE Refuses
    <2>1. t.ok = FALSE
      BY <1>1, <1>2, <1>4 DEF Refuses, Answers, TurnRecord
    <2> QED BY <1>2, <2>1, NothingTold
  <1>5. CASE \E u \in User : TurnBegins(u)
    <2>1. t.pc = "ready"
      BY <1>2, <1>5 DEF TurnBegins, Blank
    <2> QED BY <1>2, <2>1, NothingTold
  <1>6. CASE TurnEnds
    <2>1. t.pc = "idle"
      BY <1>2, <1>6 DEF TurnEnds, Blank
    <2> QED BY <1>2, <2>1, NothingTold
  <1>7. CASE NextCall
    <2>1. t.pc = "ready"
      BY <1>2, <1>7 DEF NextCall, Rested, Blank
    <2> QED BY <1>2, <2>1, NothingTold
  <1>8. CASE turn' = [Rested(turn, "answered") EXCEPT !.calls = @ + 1]
    <2>1. t.ok = FALSE
      BY <1>2, <1>8 DEF Rested, Blank
    <2> QED BY <1>2, <2>1, NothingTold
  <1>9. CASE Embeds
    <2>1. t.pc \in {"keyword", "vector"}
      BY <1>1, <1>2, <1>9 DEF Embeds, TurnRecord
    <2> QED BY <1>2, <2>1, NothingTold
  <1>10. CASE \E tool \in Tool, k \in TopK : CallsSearch(tool, k)
    <2>1. PICK tool \in Tool, k \in TopK : CallsSearch(tool, k)
      BY <1>10
    <2>2. PICK pc : pc = CASE tool = "keyword_search_videos" -> "keyword"
                           [] ~turn.embedded -> "embed"
                           [] tool = "search_videos" -> "keyword"
                           [] OTHER -> "vector"
      OBVIOUS
    <2>3. t = [turn EXCEPT !.calls = @ + 1, !.tool = tool, !.top_k = k, !.pc = pc]
      BY <1>2, <2>1, <2>2 DEF CallsSearch
    <2>4. t.pc = pc /\ pc # "answered"
      BY <1>1, <2>2, <2>3 DEF TurnRecord
    <2> QED BY <1>2, <2>4, NothingTold
  <1>11. CASE \E v \in Video : CallsTranscript(v) /\ Guarded(v)
    <2>1. t.pc = "video"
      BY <1>1, <1>2, <1>11 DEF CallsTranscript, TurnRecord
    <2> QED BY <1>2, <2>1, NothingTold
  <1>12. CASE LooksUpVideo /\ ~ Refuses
    <2>1. t.pc = "list"
      BY <1>1, <1>2, <1>12 DEF LooksUpVideo, TurnRecord
    <2> QED BY <1>2, <2>1, NothingTold
  <1>13. CASE ListsTranscript /\ ~ Refuses
    <2>1. PICK spans, read : Answers(TRUE, spans, read)
      BY <1>13 DEF ListsTranscript
    <2>2. t.tool = "get_video_transcript"
      <3>1. turn.tool = "get_video_transcript"
        BY <1>1, <1>13 DEF ListsTranscript, InStage
      <3> QED BY <1>1, <1>2, <2>1, <3>1 DEF Answers, TurnRecord
    <2>3. Told(t)
      BY <2>2 DEF Told
    <2> QED BY <1>2, <2>3
  <1> QED BY <1>4, <1>5, <1>6, <1>7, <1>8, <1>9, <1>10, <1>11, <1>12, <1>13
        DEF BadCall, CallFails, CallsTranscript

\* What was answered stays true while nothing is changed.
LEMMA ToldCarried ==
    ASSUME NEW t, Told(t), edition' = edition PROVE Told(t)'
  <1>1. \A v, i : get_chunk_neighbors(v, i)' = get_chunk_neighbors(v, i)
    BY DEF get_chunk_neighbors, Between, Row1, Chunks
  <1>2. \A hits, spans : CalmTold(hits, spans) => CalmTold(hits, spans)'
    BY <1>1 DEF CalmTold
  <1> QED BY <1>2 DEF Told

LEMMA ToldSteps ==
    ASSUME RetrievalAssumption, Window # 0, RetrievalInv, Told(turn), [Next]_vars
    PROVE  Told(turn)'
  <1>1. CASE UNCHANGED vars \/ (MembershipNext /\ UNCHANGED retrievalVars) \/ invalidate_cache
    <2>1. edition' = edition /\ turn' = turn
      BY <1>1 DEF vars, retrievalVars, invalidate_cache
    <2>2. PICK t : t = turn
      OBVIOUS
    <2>3. Told(t)'
      BY <2>1, <2>2, ToldCarried
    <2> QED BY <2>1, <2>2, <2>3
  <1>2. CASE (\E u \in User : TurnBegins(u)) \/ TurnStep
    <2>1. \E t : t = turn' /\ Told(t)
      BY <1>2, OtherTold, HydrateTold, FetchTold DEF TurnStep
    <2>2. PICK t : t = turn' /\ Told(t)
      BY <2>1
    <2>3. edition' = edition
      BY <1>2 DEF TurnBegins, TurnStep, BadCall, CallsSearch, CallsTranscript, Embeds, CallFails,
            KeywordAnswers, VectorAnswers, HydratesHybrid, HydratesOther, FetchesNeighbors,
            LooksUpVideo, ListsTranscript, NextCall, TurnEnds
    <2>4. Told(t)'
      BY <2>2, <2>3, ToldCarried
    <2> QED BY <2>2, <2>4
  <1>3. ASSUME NEW v \in Video, Resyncs(v) \/ Deletes(v)
        PROVE  Told(turn)'
    <2>1. PICK t : t = turn'
      OBVIOUS
    <2>2. turn \in TurnRecord /\ t = [turn EXCEPT !.calm = @ /\ turn.pc \in {"idle", "ready"}]
      BY <1>3, <2>1 DEF Resyncs, Deletes, Disturbs, RetrievalInv, Held
    <2>3. /\ t.pc = turn.pc /\ t.ok = turn.ok /\ t.tool = turn.tool /\ t.hits = turn.hits
          /\ t.spans = turn.spans /\ (t.pc = "answered" => ~ t.calm)
      BY <2>2 DEF TurnRecord
    <2>4. Told(t)'
      BY <2>3 DEF Told, HitsHeld, Apart
    <2> QED BY <2>1, <2>4
  <1> QED BY <1>1, <1>2, <1>3 DEF Next, LibraryStep

(***************************************************************************)
(* The spans of a search: no text twice, each hit in exactly one of them;   *)
(* and when nothing changed or failed during the call, runs of one edition  *)
(* that do not touch, with all the neighbours of their hits and the true    *)
(* source_type (rag/expansion.py).  Without expansion (window 0) the hits   *)
(* are answered one by one as they were ranked.                             *)
(***************************************************************************)
THEOREM SpansTold == ASSUME Window # 0 PROVE Spec => []SpansTellTheVideo
  <1>1. Init => Told(turn)
    <2>1. ASSUME Init PROVE turn.pc = "idle"
      BY <2>1 DEF Init, RetrievalInit, Blank
    <2>2. ASSUME Init PROVE Told(turn)
      BY <2>1, <2>2 DEF Told
    <2> QED BY <2>2
  <1>2. RetrievalInv /\ Told(turn) /\ [Next]_vars => Told(turn)'
    BY RetrievalAssumption, ToldSteps
  <1>3. RetrievalInv /\ Told(turn) => SpansTellTheVideo
    <2>1. SUFFICES ASSUME RetrievalInv, Told(turn), Searched
                   PROVE  HitsInOneSpan /\ NothingTwice /\ (turn.calm => CalmSpans)
      BY DEF SpansTellTheVideo
    <2>2. /\ HitsHeld(turn.hits, turn.spans) /\ Apart(turn.spans)
          /\ turn.calm => CalmTold(turn.hits, turn.spans)
      BY <2>1 DEF Told, Searched
    <2> QED BY <2>2 DEF HitsHeld, HitsInOneSpan, Apart, NothingTwice, CalmTold, CalmSpans
  <1> QED BY <1>1, <1>2, <1>3, RetrievalHolds, PTL DEF Spec
=============================================================================
