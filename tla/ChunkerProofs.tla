---------------------------- MODULE ChunkerProofs ----------------------------
(***************************************************************************)
(* Chunking tells the talk, for transcripts of every length, limits and     *)
(* titles of every width, and everything that HybridChunker may group or    *)
(* raise.                                                                   *)
(*                                                                         *)
(* Fold, FlattenSeq and what is made of them are shown to take one element  *)
(* after the other; what holds of the empty sequence and is kept by one     *)
(* element more then holds of all (ByAppending, which takes the sequences   *)
(* it holds of as a set).  Texts come next: what they say (Speech, Said),   *)
(* how long they are, what splitting and joining do to both.                *)
(*                                                                         *)
(* That no chunk is lost or blank rests on the shape of what comes to be    *)
(* split (Plain): it ends with something said.  Grouped is what holds while *)
(* _group_parts goes through the parts, WellSplit what _split_text returns, *)
(* for hard cuts first and then for each separator before those.  Two       *)
(* chunks of three paragraphs take more: a text that is too long falls into *)
(* two pieces that are not blank (Spoken), and otherwise no paragraph is    *)
(* too long, so that each half of them fits where it is forced.             *)
(***************************************************************************)
EXTENDS Transforms, FiniteSetTheorems, SequenceTheorems, TLAPS

-----------------------------------------------------------------------------
(* Counting                                                                *)

\* A set of numbers has a least one.
LEMMA LeastNatural ==
    ASSUME NEW S \in SUBSET Nat, S # {}
    PROVE  \E m \in S : \A n \in S : m <= n
  <1> DEFINE R == OpToRel(<, Nat)
  <1>1. IsWellFoundedOn(R, Nat)
    BY NatLessThanWellFounded
  <1>2. \A x, y \in Nat : y < x => <<y, x>> \in R
    BY DEF OpToRel
  <1> HIDE DEF R
  <1>3. PICK m \in S : \A n \in S : ~ (<<n, m>> \in R)
    BY <1>1, WFMin
  <1>4. ASSUME NEW n \in S PROVE m <= n
    <2>1. ~ (n < m)
      BY <1>2, <1>3, n \in Nat, m \in Nat, Zenon
    <2> QED BY <2>1
  <1> QED BY <1>4

\* What 0 has, and every number that comes after one that has it, all numbers have.
LEMMA ByCounting ==
    ASSUME NEW P, 0 \in P, \A n \in Nat : n \in P => n + 1 \in P
    PROVE  \A n \in Nat : n \in P
  <1> DEFINE bad == {n \in Nat : n \notin P}
  <1> SUFFICES ASSUME bad # {} PROVE FALSE
    OBVIOUS
  <1>1. PICK m \in bad : \A n \in bad : m <= n
    BY LeastNatural
  <1>2. m \in Nat /\ m # 0 /\ m \notin P
    OBVIOUS
  <1>3. m - 1 \in Nat /\ m - 1 \notin bad
    BY <1>1, <1>2
  <1>4. m - 1 \in P
    BY <1>3
  <1>5. (m - 1) + 1 \in P
    BY <1>3, <1>4
  <1> QED BY <1>2, <1>5

\* The greatest of some numbers up to m, when m is among them.
LEMMA HighestOf ==
    ASSUME NEW m \in Nat, NEW S \in SUBSET (1 .. m), m \in S
    PROVE  Max(S) = m
  <1>1. \A x \in S : (x \in S /\ \A y \in S : y <= x) => x = m
    OBVIOUS
  <1>2. m \in S /\ \A y \in S : y <= m
    OBVIOUS
  <1>3. Max(S) \in S /\ \A y \in S : y <= Max(S)
    BY <1>2 DEF Max
  <1> QED BY <1>1, <1>3

-----------------------------------------------------------------------------
(* Folds, and sequences put together                                       *)

\* f folds the elements of s whose numbers are in a set, for the sets of numbers up to n.
FoldsSets(f, step, base, s, n) ==
    f = [S \in SUBSET (1 .. n) |->
           IF S = {} THEN base ELSE step[f[S \ {Max(S)}]][s[Max(S)]]]

\* There is such a function, whatever step is.
LEMMA FoldExists ==
    ASSUME NEW step, NEW base, NEW s, NEW n \in Nat
    PROVE  \E f : FoldsSets(f, step, base, s, n)
  <1> DEFINE Is(f, m) == f = [S \in SUBSET (1 .. m) |->
                         IF S = {} THEN base ELSE step[f[S \ {Max(S)}]][s[Max(S)]]]
             good == {m \in Nat : \E f : Is(f, m)}
  <1>1. 0 \in good
    <2> DEFINE f == [S \in SUBSET (1 .. 0) |-> base]
    <2>1. \A S \in SUBSET (1 .. 0) : S = {}
      OBVIOUS
    <2>2. Is(f, 0)
      BY <2>1
    <2> QED BY <2>2
  <1>2. ASSUME NEW m \in Nat, m \in good PROVE m + 1 \in good
    <2>1. PICK f : Is(f, m)
      BY <1>2
    <2> DEFINE g == [S \in SUBSET (1 .. (m + 1)) |->
                       IF m + 1 \in S THEN step[f[S \ {m + 1}]][s[m + 1]] ELSE f[S]]
    <2>2. ASSUME NEW S \in SUBSET (1 .. (m + 1))
          PROVE  g[S] = IF S = {} THEN base ELSE step[g[S \ {Max(S)}]][s[Max(S)]]
      <3>1. CASE m + 1 \in S
        <4>1. Max(S) = m + 1
          BY <3>1, HighestOf, m + 1 \in Nat
        <4>2. S \ {m + 1} \in SUBSET (1 .. (m + 1)) /\ m + 1 \notin S \ {m + 1}
          OBVIOUS
        <4>3. g[S \ {m + 1}] = f[S \ {m + 1}]
          BY <4>2
        <4> QED BY <3>1, <4>1, <4>3
      <3>2. CASE m + 1 \notin S
        <4>1. S \in SUBSET (1 .. m)
          BY <3>2
        <4>2. g[S] = f[S]
          BY <3>2
        <4>3. f[S] = IF S = {} THEN base ELSE step[f[S \ {Max(S)}]][s[Max(S)]]
          BY <2>1, <4>1
        <4>4. S \ {Max(S)} \in SUBSET (1 .. (m + 1)) /\ m + 1 \notin S \ {Max(S)}
          BY <3>2
        <4>5. g[S \ {Max(S)}] = f[S \ {Max(S)}]
          BY <4>4
        <4> QED BY <4>2, <4>3, <4>5
      <3> QED BY <3>1, <3>2
    <2>3. Is(g, m + 1)
      <3>1. g = [S \in SUBSET (1 .. (m + 1)) |-> g[S]]
        OBVIOUS
      <3> HIDE DEF g
      <3> QED BY <2>2, <3>1
    <2> HIDE DEF Is, g
    <2> QED BY <2>3
  <1> HIDE DEF good
  <1>3. n \in good
    BY <1>1, <1>2, ByCounting
  <1>4. PICK f : Is(f, n)
    BY <1>3 DEF good
  <1>5. FoldsSets(f, step, base, s, n)
    BY <1>4 DEF FoldsSets
  <1> QED BY <1>5

\* The equation of the function behind a fold.
LEMMA FoldUnfolds ==
    ASSUME NEW step, NEW base, NEW X, NEW s \in Seq(X)
    PROVE  \E f : /\ FoldsSets(f, step, base, s, Len(s))
                  /\ Fold(step, base, s) = f[1 .. Len(s)]
  <1> DEFINE it == CHOOSE f : FoldsSets(f, step, base, s, Len(s))
  <1>1. DOMAIN s = 1 .. Len(s) /\ Len(s) \in Nat
    OBVIOUS
  <1>2. Fold(step, base, s) = it[1 .. Len(s)]
    BY <1>1 DEF Fold, FoldLeft, MapThenFoldSet, FoldsSets
  <1>3. FoldsSets(it, step, base, s, Len(s))
    BY <1>1, FoldExists
  <1> HIDE DEF it
  <1> QED BY <1>2, <1>3

\* Fold of nothing, and of one element more: what FoldLeft of the community modules comes
\* to.
LEMMA FoldEmpty ==
    ASSUME NEW step, NEW base
    PROVE  Fold(step, base, <<>>) = base
  <1>1. <<>> \in Seq({0}) /\ Len(<<>>) = 0
    OBVIOUS
  <1>2. PICK f : /\ FoldsSets(f, step, base, <<>>, Len(<<>>))
                 /\ Fold(step, base, <<>>) = f[1 .. Len(<<>>)]
    BY <1>1, FoldUnfolds
  <1>3. 1 .. Len(<<>>) = {}
    BY <1>1
  <1> QED BY <1>2, <1>3 DEF FoldsSets

LEMMA FoldAppend ==
    ASSUME NEW step, NEW base, NEW X, NEW s \in Seq(X), NEW x \in X
    PROVE  Fold(step, base, Append(s, x)) = step[Fold(step, base, s)][x]
  <1> DEFINE t == Append(s, x)
             n == Len(s)
  <1>1. /\ t \in Seq(X) /\ Len(t) = n + 1 /\ n \in Nat /\ t[n + 1] = x
        /\ \A i \in 1 .. n : t[i] = s[i]
    OBVIOUS
  <1> HIDE DEF t, n
  <1>2. PICK f : FoldsSets(f, step, base, s, n) /\ Fold(step, base, s) = f[1 .. n]
    BY FoldUnfolds DEF n
  <1>3. PICK h : FoldsSets(h, step, base, t, n + 1) /\ Fold(step, base, t) = h[1 .. (n + 1)]
    BY <1>1, FoldUnfolds
  <1>4. ASSUME NEW k \in 1 .. (n + 1)
        PROVE  /\ Max(1 .. k) = k /\ (1 .. k) \ {k} = 1 .. (k - 1)
               /\ 1 .. k # {} /\ 1 .. k \in SUBSET (1 .. (n + 1))
               /\ h[1 .. k] = step[h[1 .. (k - 1)]][t[k]]
    <2>1. 1 .. k # {} /\ 1 .. k \in SUBSET (1 .. (n + 1)) /\ k \in 1 .. k /\ k \in Nat
      BY <1>1
    <2>2. Max(1 .. k) = k
      BY <2>1, HighestOf
    <2>3. (1 .. k) \ {k} = 1 .. (k - 1)
      BY <2>1
    <2>4. h[1 .. k] = step[h[(1 .. k) \ {Max(1 .. k)}]][t[Max(1 .. k)]]
      BY <1>3, <2>1 DEF FoldsSets
    <2> QED BY <2>1, <2>2, <2>3, <2>4
  <1> DEFINE same == {k \in Nat : k <= n => h[1 .. k] = f[1 .. k]}
  <1>5. 0 \in same
    <2>1. 1 .. 0 = {}
      OBVIOUS
    <2>2. h[{}] = base
      BY <1>3 DEF FoldsSets
    <2>3. f[{}] = base
      BY <1>2 DEF FoldsSets
    <2> QED BY <2>1, <2>2, <2>3
  <1>6. ASSUME NEW k \in Nat, k \in same PROVE k + 1 \in same
    <2> SUFFICES ASSUME k + 1 <= n PROVE h[1 .. (k + 1)] = f[1 .. (k + 1)]
      OBVIOUS
    <2>1. h[1 .. k] = f[1 .. k] /\ k + 1 \in 1 .. (n + 1) /\ k + 1 \in 1 .. n /\ (k + 1) - 1 = k
      BY <1>1, <1>6
    <2> DEFINE S == 1 .. (k + 1)
    <2>2. /\ Max(S) = k + 1 /\ S \ {k + 1} = 1 .. ((k + 1) - 1) /\ S # {}
          /\ h[S] = step[h[1 .. ((k + 1) - 1)]][t[k + 1]]
      BY <1>4, <2>1
    <2>3. S \in SUBSET (1 .. n)
      BY <2>1, <1>1
    <2>4. f[S] = step[f[S \ {Max(S)}]][s[Max(S)]]
      <3> HIDE DEF S
      <3> QED BY <1>2, <2>2, <2>3 DEF FoldsSets
    <2>5. t[k + 1] = s[k + 1]
      BY <1>1, <2>1
    <2> HIDE DEF S
    <2>6. h[S] = f[S]
      BY <2>1, <2>2, <2>4, <2>5
    <2> QED BY <2>6 DEF S
  <1> HIDE DEF same
  <1>7. n \in same
    BY <1>1, <1>5, <1>6, ByCounting
  <1>8. h[1 .. n] = f[1 .. n]
    BY <1>1, <1>7 DEF same
  <1>9. h[1 .. (n + 1)] = step[h[1 .. ((n + 1) - 1)]][t[n + 1]] /\ (n + 1) - 1 = n
    BY <1>1, <1>4
  <1>10. Fold(step, base, t) = step[Fold(step, base, s)][x]
    BY <1>1, <1>2, <1>3, <1>8, <1>9
  <1> QED BY <1>10 DEF t

\* Induction over sequences, by a set of them.
LEMMA ByAppending ==
    ASSUME NEW X, NEW P, <<>> \in P,
           \A s \in Seq(X), x \in X : s \in P => Append(s, x) \in P
    PROVE  \A s \in Seq(X) : s \in P
  <1> DEFINE good == {n \in Nat : \A s \in Seq(X) : Len(s) = n => s \in P}
  <1>1. 0 \in good
    <2>1. ASSUME NEW s \in Seq(X), Len(s) = 0 PROVE s = <<>>
      BY <2>1
    <2> QED BY <2>1
  <1>2. ASSUME NEW n \in Nat, n \in good PROVE n + 1 \in good
    <2> SUFFICES ASSUME NEW s \in Seq(X), Len(s) = n + 1 PROVE s \in P
      OBVIOUS
    <2>1. s # <<>>
      OBVIOUS
    <2>2. PICK r \in Seq(X), x \in X : s = Append(r, x)
      BY <2>1, SequenceEmptyOrAppend
    <2>3. Len(r) = n
      BY <2>2
    <2>4. r \in P
      BY <1>2, <2>3
    <2> QED BY <2>2, <2>4
  <1> HIDE DEF good
  <1>3. \A n \in Nat : n \in good
    BY <1>1, <1>2, ByCounting
  <1>4. ASSUME NEW s \in Seq(X) PROVE s \in P
    <2>1. Len(s) \in good
      BY <1>3
    <2> QED BY <2>1 DEF good
  <1> QED BY <1>4

\* Whatever step keeps, Fold keeps.
LEMMA FoldType ==
    ASSUME NEW step, NEW G, NEW base \in G, NEW X, NEW s \in Seq(X),
           \A g \in G, x \in X : step[g][x] \in G
    PROVE  Fold(step, base, s) \in G
  <1> DEFINE P == {u \in Seq(X) : Fold(step, base, u) \in G}
  <1>1. <<>> \in P
    BY FoldEmpty
  <1>2. ASSUME NEW u \in Seq(X), NEW x \in X, u \in P PROVE Append(u, x) \in P
    <2>1. Fold(step, base, Append(u, x)) = step[Fold(step, base, u)][x]
      BY FoldAppend
    <2> QED BY <1>2, <2>1
  <1> HIDE DEF P
  <1>3. s \in P
    BY <1>1, <1>2, ByAppending
  <1> QED BY <1>3 DEF P

\* f concatenates the first k sequences of ss, for every k up to n.
FlattensTo(f, ss, n) ==
    f = [i \in 1 .. n |-> IF i = 1 THEN ss[i] ELSE f[i - 1] \o ss[i]]

\* There is such a function.
LEMMA FlattenExists ==
    ASSUME NEW ss, NEW n \in Nat
    PROVE  \E f : FlattensTo(f, ss, n)
  <1> DEFINE good == {m \in Nat : \E f : FlattensTo(f, ss, m)}
  <1>1. 0 \in good
    <2>1. FlattensTo([i \in 1 .. 0 |-> <<>>], ss, 0)
      BY DEF FlattensTo
    <2> QED BY <2>1
  <1>2. ASSUME NEW m \in Nat, m \in good PROVE m + 1 \in good
    <2>1. PICK f : FlattensTo(f, ss, m)
      BY <1>2
    <2> DEFINE g == [i \in 1 .. (m + 1) |->
                       IF i <= m THEN f[i] ELSE IF m = 0 THEN ss[1] ELSE f[m] \o ss[m + 1]]
    <2>2. ASSUME NEW i \in 1 .. (m + 1)
          PROVE  g[i] = IF i = 1 THEN ss[i] ELSE g[i - 1] \o ss[i]
      <3>1. CASE i <= m
        <4>1. i \in 1 .. m
          BY <3>1
        <4>2. f[i] = IF i = 1 THEN ss[i] ELSE f[i - 1] \o ss[i]
          BY <2>1, <4>1 DEF FlattensTo
        <4>3. i # 1 => i - 1 \in 1 .. (m + 1) /\ i - 1 <= m
          BY <4>1
        <4>4. i # 1 => g[i - 1] = f[i - 1]
          BY <4>3
        <4> QED BY <3>1, <4>2, <4>4
      <3>2. CASE i = m + 1
        <4>1. m # 0 => m \in 1 .. (m + 1)
          OBVIOUS
        <4>2. m # 0 => g[m] = f[m]
          BY <4>1
        <4> QED BY <3>2, <4>2
      <3> QED BY <3>1, <3>2
    <2>3. FlattensTo(g, ss, m + 1)
      <3>1. g = [i \in 1 .. (m + 1) |-> g[i]]
        OBVIOUS
      <3> HIDE DEF g
      <3> QED BY <2>2, <3>1 DEF FlattensTo
    <2> QED BY <2>3
  <1> HIDE DEF good
  <1>3. n \in good
    BY <1>1, <1>2, ByCounting
  <1> QED BY <1>3 DEF good

\* FlattenSeq takes the last of its values.
LEMMA FlattenUnfolds ==
    ASSUME NEW X, NEW ss \in Seq(X), ss # <<>>
    PROVE  \E f : FlattensTo(f, ss, Len(ss)) /\ FlattenSeq(ss) = f[Len(ss)]
  <1> DEFINE it == CHOOSE f : FlattensTo(f, ss, Len(ss))
  <1>1. Len(ss) \in Nat /\ Len(ss) # 0
    OBVIOUS
  <1>2. FlattenSeq(ss) = it[Len(ss)]
    BY <1>1 DEF FlattenSeq, FlattensTo
  <1>3. FlattensTo(it, ss, Len(ss))
    BY <1>1, FlattenExists
  <1> HIDE DEF it
  <1> QED BY <1>2, <1>3

\* FlattenSeq of nothing, and of one sequence more.
LEMMA FlattenEmpty == FlattenSeq(<<>>) = <<>>
  <1>1. Len(<<>>) = 0
    OBVIOUS
  <1> QED BY <1>1 DEF FlattenSeq

LEMMA FlattenAppend ==
    ASSUME NEW X, NEW ss \in Seq(Seq(X)), NEW s \in Seq(X)
    PROVE  FlattenSeq(Append(ss, s)) = FlattenSeq(ss) \o s
  <1> DEFINE tt == Append(ss, s)
             n == Len(ss)
  <1>1. /\ tt \in Seq(Seq(X)) /\ tt # <<>> /\ Len(tt) = n + 1 /\ n \in Nat /\ tt[n + 1] = s
        /\ \A i \in 1 .. n : tt[i] = ss[i]
    BY AppendProperties, LenProperties
  <1>2. CASE ss = <<>>
    <2>1. n = 0
      BY <1>2
    <2> HIDE DEF tt, n
    <2>2. PICK h : FlattensTo(h, tt, n + 1) /\ FlattenSeq(tt) = h[n + 1]
      BY <1>1, FlattenUnfolds
    <2>3. h[1] = tt[1]
      BY <2>1, <2>2 DEF FlattensTo
    <2>4. FlattenSeq(tt) = s
      BY <1>1, <2>1, <2>2, <2>3
    <2>5. FlattenSeq(ss) \o s = s
      BY <1>2, FlattenEmpty, ConcatEmptySeq
    <2> QED BY <2>4, <2>5 DEF tt
  <1>3. CASE ss # <<>>
    <2>1. n # 0
      BY <1>3
    <2> HIDE DEF tt
    <2>2. PICK f : FlattensTo(f, ss, n) /\ FlattenSeq(ss) = f[n]
      BY <1>3, FlattenUnfolds
    <2> HIDE DEF n
    <2>3. PICK h : FlattensTo(h, tt, n + 1) /\ FlattenSeq(tt) = h[n + 1]
      BY <1>1, FlattenUnfolds
    <2> DEFINE same == {k \in Nat : k \in 1 .. n => h[k] = f[k]}
    <2>4. 0 \in same
      OBVIOUS
    <2>5. ASSUME NEW k \in Nat, k \in same PROVE k + 1 \in same
      <3> SUFFICES ASSUME k + 1 \in 1 .. n PROVE h[k + 1] = f[k + 1]
        OBVIOUS
      <3>1. /\ k + 1 \in 1 .. (n + 1) /\ tt[k + 1] = ss[k + 1]
            /\ k # 0 => k \in 1 .. n
        BY <1>1
      <3>2. h[k + 1] = IF k + 1 = 1 THEN tt[k + 1] ELSE h[(k + 1) - 1] \o tt[k + 1]
        BY <2>3, <3>1 DEF FlattensTo
      <3>3. f[k + 1] = IF k + 1 = 1 THEN ss[k + 1] ELSE f[(k + 1) - 1] \o ss[k + 1]
        BY <2>2, <3>1 DEF FlattensTo
      <3>4. k # 0 => h[(k + 1) - 1] = f[(k + 1) - 1]
        BY <2>5, <3>1
      <3> QED BY <3>1, <3>2, <3>3, <3>4
    <2> HIDE DEF same
    <2>6. n \in same
      BY <1>1, <2>4, <2>5, ByCounting
    <2>7. h[n] = f[n]
      BY <1>1, <2>1, <2>6 DEF same
    <2>a. n + 1 \in 1 .. (n + 1) /\ n + 1 # 1 /\ (n + 1) - 1 = n
      BY <1>1, <2>1
    <2>8. h[n + 1] = h[(n + 1) - 1] \o tt[n + 1] /\ (n + 1) - 1 = n
      BY <2>3, <2>a DEF FlattensTo
    <2>9. FlattenSeq(tt) = FlattenSeq(ss) \o s
      BY <1>1, <2>2, <2>3, <2>7, <2>8
    <2> QED BY <2>9 DEF tt
  <1> QED BY <1>2, <1>3

\* What is flattened are elements still.
LEMMA FlattenType ==
    ASSUME NEW X, NEW ss \in Seq(Seq(X))
    PROVE  FlattenSeq(ss) \in Seq(X)
  <1> DEFINE P == {tt \in Seq(Seq(X)) : FlattenSeq(tt) \in Seq(X)}
  <1>1. <<>> \in P
    BY FlattenEmpty, EmptySeq
  <1>2. ASSUME NEW tt \in Seq(Seq(X)), NEW t \in Seq(X), tt \in P PROVE Append(tt, t) \in P
    <2>1. FlattenSeq(Append(tt, t)) = FlattenSeq(tt) \o t
      BY FlattenAppend
    <2>2. FlattenSeq(tt) \o t \in Seq(X)
      BY <1>2, ConcatProperties
    <2>3. Append(tt, t) \in Seq(Seq(X))
      BY AppendProperties
    <2> QED BY <2>1, <2>2, <2>3
  <1> HIDE DEF P
  <1>3. ss \in P
    BY <1>1, <1>2, ByAppending
  <1> QED BY <1>3 DEF P

\* s \o Append(t, x) and Append(s \o t, x) are one sequence.
LEMMA ConcatAppend ==
    ASSUME NEW X, NEW s \in Seq(X), NEW t \in Seq(X), NEW x \in X
    PROVE  s \o Append(t, x) = Append(s \o t, x)
  <1>1. Append(t, x) = t \o <<x>> /\ <<x>> \in Seq(X) /\ s \o t \in Seq(X)
    BY AppendIsConcat, ConcatProperties
  <1>2. Append(s \o t, x) = (s \o t) \o <<x>>
    BY <1>1, AppendIsConcat
  <1>3. (s \o t) \o <<x>> = s \o (t \o <<x>>)
    BY <1>1, ConcatAssociative
  <1> QED BY <1>1, <1>2, <1>3

-----------------------------------------------------------------------------
(* Filters                                                                 *)

\* A filter of nothing, and of one element more.
LEMMA OnlyEmpty == ASSUME NEW X PROVE Only(<<>>, X) = <<>>
  <1>1. [i \in DOMAIN <<>> |-> IF <<>>[i] \in X THEN << <<>>[i]>> ELSE <<>>] = <<>>
    OBVIOUS
  <1> QED BY <1>1, FlattenEmpty DEF Only

LEMMA OnlyAppend ==
    ASSUME NEW Y, NEW X, NEW s \in Seq(Y), NEW y \in Y
    PROVE  /\ y \in X => Only(Append(s, y), X) = Append(Only(s, X), y)
           /\ y \notin X => Only(Append(s, y), X) = Only(s, X)
           /\ Only(s, X) \in Seq(Y)
  <1> DEFINE Sole(x) == IF x \in X THEN <<x>> ELSE <<>>
             t == Append(s, y)
             ss == [i \in DOMAIN s |-> Sole(s[i])]
             tt == [i \in DOMAIN t |-> Sole(t[i])]
  <1>0. \A x \in Y : Sole(x) \in Seq(Y)
    OBVIOUS
  <1>1. ss \in Seq(Seq(Y))
    <2>1. DOMAIN s = 1 .. Len(s) /\ Len(s) \in Nat /\ \A i \in 1 .. Len(s) : s[i] \in Y
      BY LenProperties, ElementOfSeq
    <2> HIDE DEF Sole
    <2>2. \A i \in 1 .. Len(s) : Sole(s[i]) \in Seq(Y)
      BY <1>0, <2>1
    <2>3. ss = [i \in 1 .. Len(s) |-> Sole(s[i])]
      BY <2>1
    <2> QED BY <2>1, <2>2, <2>3
  <1>2. tt = Append(ss, Sole(y))
    <2>1. /\ t \in Seq(Y) /\ Len(t) = Len(s) + 1 /\ t[Len(s) + 1] = y
          /\ \A i \in 1 .. Len(s) : t[i] = s[i]
          /\ DOMAIN t = 1 .. (Len(s) + 1) /\ DOMAIN s = 1 .. Len(s) /\ Len(s) \in Nat
      BY AppendProperties, LenProperties
    <2> HIDE DEF Sole, t
    <2>2. /\ ss \in Seq(Seq(Y)) /\ Len(ss) = Len(s) /\ \A i \in 1 .. Len(s) : ss[i] = Sole(s[i])
      BY <1>1, <2>1
    <2>3. tt = [i \in 1 .. (Len(s) + 1) |-> Sole(t[i])]
      BY <2>1
    <2>4. \A i \in 1 .. (Len(s) + 1) : Sole(t[i]) \in Seq(Y)
      BY <1>0, <2>1
    <2>5. tt \in Seq(Seq(Y)) /\ Len(tt) = Len(s) + 1
      <3> HIDE DEF ss
      <3> QED BY <2>1, <2>3, <2>4
    <2> DEFINE vv == Append(ss, Sole(y))
    <2>6. /\ vv \in Seq(Seq(Y)) /\ Len(vv) = Len(s) + 1 /\ vv[Len(s) + 1] = Sole(y)
          /\ \A i \in 1 .. Len(s) : vv[i] = ss[i]
      <3> HIDE DEF ss
      <3> QED BY <1>0, <2>2, AppendProperties
    <2> HIDE DEF ss, vv
    <2>7. ASSUME NEW i \in 1 .. (Len(s) + 1) PROVE tt[i] = vv[i]
      <3>1. tt[i] = Sole(t[i])
        BY <2>3
      <3>2. i \in 1 .. Len(s) \/ i = Len(s) + 1
        BY <2>1
      <3> HIDE DEF tt
      <3> QED BY <2>1, <2>2, <2>6, <3>1, <3>2
    <2> HIDE DEF tt
    <2> QED BY <2>5, <2>6, <2>7, SeqEqual DEF vv
  <1>3. FlattenSeq(tt) = FlattenSeq(ss) \o Sole(y)
    <2> HIDE DEF ss, tt, Sole
    <2> QED BY <1>0, <1>1, <1>2, FlattenAppend
  <1>4. Only(s, X) = FlattenSeq(ss) /\ Only(Append(s, y), X) = FlattenSeq(tt)
    BY DEF Only
  <1>5. FlattenSeq(ss) \in Seq(Y)
    BY <1>1, FlattenType
  <1> HIDE DEF ss, tt
  <1>6. y \in X => Sole(y) = <<y>> /\ FlattenSeq(ss) \o <<y>> = Append(FlattenSeq(ss), y)
    BY <1>5, AppendIsConcat
  <1>7. y \notin X => Sole(y) = <<>> /\ FlattenSeq(ss) \o <<>> = FlattenSeq(ss)
    BY <1>5, ConcatEmptySeq
  <1> QED BY <1>3, <1>4, <1>5, <1>6, <1>7

\* A function applied to the elements of a sequence.
LEMMA MapAppend ==
    ASSUME NEW Y, NEW Z, NEW f \in [Y -> Z], NEW s \in Seq(Y), NEW y \in Y
    PROVE  /\ [i \in DOMAIN Append(s, y) |-> f[Append(s, y)[i]]]
                = Append([i \in DOMAIN s |-> f[s[i]]], f[y])
           /\ [i \in DOMAIN s |-> f[s[i]]] \in Seq(Z)
  <1> DEFINE t == Append(s, y)
             ss == [i \in DOMAIN s |-> f[s[i]]]
             tt == [i \in DOMAIN t |-> f[t[i]]]
             vv == Append(ss, f[y])
             n == Len(s)
  <1>1. /\ t \in Seq(Y) /\ t[n + 1] = y /\ \A i \in 1 .. n : t[i] = s[i]
        /\ DOMAIN t = 1 .. (n + 1) /\ DOMAIN s = 1 .. n /\ n \in Nat
        /\ \A i \in 1 .. n : s[i] \in Y
    BY AppendProperties, LenProperties, ElementOfSeq
  <1> HIDE DEF t, n
  <1>2. ss = [i \in 1 .. n |-> f[s[i]]] /\ \A i \in 1 .. n : f[s[i]] \in Z
    BY <1>1
  <1>3. ss \in Seq(Z) /\ Len(ss) = n /\ \A i \in 1 .. n : ss[i] = f[s[i]]
    BY <1>1, <1>2
  <1> HIDE DEF ss
  <1>4. /\ vv \in Seq(Z) /\ Len(vv) = n + 1 /\ vv[n + 1] = f[y]
        /\ \A i \in 1 .. n : vv[i] = ss[i]
    BY <1>3, AppendProperties
  <1>5. tt = [i \in 1 .. (n + 1) |-> f[t[i]]] /\ \A i \in 1 .. (n + 1) : t[i] \in Y
    BY <1>1
  <1>6. tt \in Seq(Z) /\ Len(tt) = n + 1 /\ \A i \in 1 .. (n + 1) : tt[i] = f[t[i]]
    <2> HIDE DEF tt
    <2> QED BY <1>1, <1>5
  <1> HIDE DEF tt, vv
  <1>7. ASSUME NEW i \in 1 .. (n + 1) PROVE tt[i] = vv[i]
    <2>1. i \in 1 .. n \/ i = n + 1
      BY <1>1
    <2> QED BY <1>1, <1>3, <1>4, <1>6, <2>1
  <1>8. tt = vv
    BY <1>4, <1>6, <1>7, SeqEqual
  <1> QED BY <1>3, <1>8 DEF tt, vv, ss, t

\* A filter takes sequences one after the other.
LEMMA OnlyConcat ==
    ASSUME NEW Y, NEW X, NEW s \in Seq(Y), NEW t \in Seq(Y)
    PROVE  Only(s \o t, X) = Only(s, X) \o Only(t, X)
  <1> DEFINE P == {u \in Seq(Y) : Only(s \o u, X) = Only(s, X) \o Only(u, X)}
  <1>0. \A u \in Seq(Y) : Only(u, X) \in Seq(Y)
    <2> SUFFICES ASSUME NEW u \in Seq(Y), u # <<>> PROVE Only(u, X) \in Seq(Y)
      BY OnlyEmpty, EmptySeq
    <2>1. PICK r \in Seq(Y), y \in Y : u = Append(r, y)
      BY SequenceEmptyOrAppend
    <2> QED BY OnlyAppend, <2>1
  <1>1. <<>> \in P
    <2>1. s \o <<>> = s /\ Only(s, X) \o <<>> = Only(s, X)
      BY <1>0, ConcatEmptySeq
    <2> QED BY <2>1, OnlyEmpty, EmptySeq
  <1>2. ASSUME NEW u \in Seq(Y), NEW y \in Y, u \in P PROVE Append(u, y) \in P
    <2>1. s \o Append(u, y) = Append(s \o u, y) /\ s \o u \in Seq(Y) /\ Append(u, y) \in Seq(Y)
      BY ConcatAppend, ConcatProperties, AppendProperties
    <2>2. Only(s \o u, X) = Only(s, X) \o Only(u, X)
      BY <1>2
    <2> DEFINE su == s \o u
    <2>a. su \in Seq(Y) /\ s \o Append(u, y) = Append(su, y)
      BY <2>1
    <2>b. /\ y \in X => Only(Append(su, y), X) = Append(Only(su, X), y)
          /\ y \notin X => Only(Append(su, y), X) = Only(su, X)
      <3> HIDE DEF su
      <3> QED BY <2>a, OnlyAppend
    <2>3. CASE y \in X
      <3>1. Only(s \o Append(u, y), X) = Append(Only(s \o u, X), y)
        BY <2>a, <2>b, <2>3
      <3>2. Only(Append(u, y), X) = Append(Only(u, X), y)
        BY <2>3, OnlyAppend
      <3>3. Only(s, X) \o Append(Only(u, X), y) = Append(Only(s, X) \o Only(u, X), y)
        BY <1>0, ConcatAppend
      <3> QED BY <2>1, <2>2, <3>1, <3>2, <3>3
    <2>4. CASE y \notin X
      <3>1. Only(s \o Append(u, y), X) = Only(s \o u, X)
        BY <2>a, <2>b, <2>4
      <3>2. Only(Append(u, y), X) = Only(u, X)
        BY <2>4, OnlyAppend
      <3> QED BY <2>1, <2>2, <3>1, <3>2
    <2> QED BY <2>3, <2>4
  <1> HIDE DEF P
  <1>3. t \in P
    BY <1>1, <1>2, ByAppending
  <1> QED BY <1>3 DEF P

\* A filter keeps what it is to keep, and nothing else.
LEMMA OnlyKeeps ==
    ASSUME NEW Y, NEW X, NEW s \in Seq(Y)
    PROVE  /\ Only(s, X) \in Seq(Y \cap X)
           /\ \A i \in 1 .. Len(s) : s[i] \in X =>
                 \E j \in 1 .. Len(Only(s, X)) : Only(s, X)[j] = s[i]
  <1> DEFINE keeps(u) == /\ Only(u, X) \in Seq(Y \cap X)
                         /\ \A i \in 1 .. Len(u) : u[i] \in X =>
                               \E j \in 1 .. Len(Only(u, X)) : Only(u, X)[j] = u[i]
             P == {u \in Seq(Y) : keeps(u)}
  <1>1. <<>> \in P
    BY OnlyEmpty, EmptySeq
  <1>2. ASSUME NEW u \in Seq(Y), NEW y \in Y, u \in P PROVE Append(u, y) \in P
    <2> DEFINE v == Append(u, y)
    <2>1. /\ v \in Seq(Y) /\ Len(v) = Len(u) + 1 /\ v[Len(u) + 1] = y /\ Len(u) \in Nat
          /\ \A i \in 1 .. Len(u) : v[i] = u[i]
      BY AppendProperties, LenProperties
    <2>2. keeps(u)
      BY <1>2
    <2>3. CASE y \notin X
      <3>1. Only(v, X) = Only(u, X)
        BY <2>3, OnlyAppend
      <3> HIDE DEF v
      <3>2. ASSUME NEW i \in 1 .. Len(v), v[i] \in X
            PROVE  \E j \in 1 .. Len(Only(v, X)) : Only(v, X)[j] = v[i]
        <4>1. i \in 1 .. Len(u)
          BY <2>1, <2>3, <3>2
        <4> QED BY <2>1, <2>2, <3>1, <3>2, <4>1
      <3>3. keeps(v)
        BY <2>2, <3>1, <3>2
      <3> QED BY <2>1, <3>3 DEF v
    <2>4. CASE y \in X
      <3> DEFINE o == Only(u, X)
      <3>1. Only(v, X) = Append(o, y)
        BY <2>4, OnlyAppend
      <3>2. /\ Append(o, y) \in Seq(Y \cap X) /\ Len(Append(o, y)) = Len(o) + 1
            /\ Append(o, y)[Len(o) + 1] = y /\ Len(o) \in Nat
            /\ \A i \in 1 .. Len(o) : Append(o, y)[i] = o[i]
        BY <2>2, <2>4, AppendProperties, LenProperties
      <3> HIDE DEF v, o
      <3>3. ASSUME NEW i \in 1 .. Len(v), v[i] \in X
            PROVE  \E j \in 1 .. Len(Only(v, X)) : Only(v, X)[j] = v[i]
        <4>1. CASE i = Len(u) + 1
          <5>1. Len(o) + 1 \in 1 .. Len(Only(v, X)) /\ Only(v, X)[Len(o) + 1] = v[i]
            BY <2>1, <3>1, <3>2, <4>1
          <5> QED BY <5>1
        <4>2. CASE i # Len(u) + 1
          <5>1. i \in 1 .. Len(u) /\ u[i] = v[i]
            BY <2>1, <4>2
          <5>2. PICK j \in 1 .. Len(o) : o[j] = u[i]
            BY <2>2, <3>3, <5>1 DEF o
          <5>3. j \in 1 .. Len(Only(v, X)) /\ Only(v, X)[j] = v[i]
            BY <3>1, <3>2, <5>1, <5>2
          <5> QED BY <5>3
        <4> QED BY <4>1, <4>2
      <3>4. keeps(v)
        BY <3>1, <3>2, <3>3
      <3> QED BY <2>1, <3>4 DEF v
    <2> QED BY <2>3, <2>4
  <1> HIDE DEF P
  <1>3. s \in P
    BY <1>1, <1>2, ByAppending
  <1> QED BY <1>3 DEF P

-----------------------------------------------------------------------------
(* The length of a text, and what it says                                  *)

\* Tokens have a width, characters that of one.
LEMMA TokenTypes ==
    ASSUME NEW t \in Token
    PROVE  /\ t[1] \in Kind /\ t[2] \in Nat /\ t = <<t[1], t[2]>>
           /\ Width[t[1]] \in Nat /\ Width[t[1]] >= 1
           /\ t[1] = "char" => Width[t[1]] = 1
           /\ t[1] = "title" => Width[t[1]] = TitleLen
  <1>1. t[1] \in Kind /\ t[2] \in Nat /\ t = <<t[1], t[2]>>
    BY DEF Token
  <1>2. TitleLen \in Nat /\ TitleLen >= 1
    BY ChunkerAssumption
  <1> QED BY <1>1, <1>2 DEF Kind, Width

\* The length of a text is the sum of the widths.
LEMMA LenIs ==
    /\ len(<<>>) = 0
    /\ \A text \in Text : len(text) \in Nat
    /\ \A text \in Text, t \in Token : len(Append(text, t)) = len(text) + Width[t[1]]
  <1> DEFINE step == [n \in Nat |-> [t \in Token |-> n + Width[t[1]]]]
  <1>1. \A n \in Nat, t \in Token : step[n][t] = n + Width[t[1]] /\ step[n][t] \in Nat
    BY TokenTypes
  <1>2. \A text : len(text) = Fold(step, 0, text)
    BY DEF len
  <1> HIDE DEF step
  <1>3. \A text \in Text : len(text) \in Nat
    BY <1>1, <1>2, FoldType DEF Text
  <1>4. ASSUME NEW text \in Text, NEW t \in Token
        PROVE  len(Append(text, t)) = len(text) + Width[t[1]]
    <2>1. Fold(step, 0, Append(text, t)) = step[Fold(step, 0, text)][t]
      BY FoldAppend DEF Text
    <2> QED BY <1>1, <1>2, <1>3, <2>1
  <1> QED BY <1>2, <1>3, <1>4, FoldEmpty

\* Texts put together are as long as both.
LEMMA LenConcat ==
    ASSUME NEW a \in Text, NEW b \in Text
    PROVE  len(a \o b) = len(a) + len(b)
  <1> DEFINE P == {u \in Text : len(a \o u) = len(a) + len(u)}
  <1>1. <<>> \in P
    <2>1. a \o <<>> = a /\ <<>> \in Text
      BY ConcatEmptySeq, EmptySeq DEF Text
    <2> QED BY <2>1, LenIs
  <1>2. ASSUME NEW u \in Text, NEW t \in Token, u \in P PROVE Append(u, t) \in P
    <2>1. a \o Append(u, t) = Append(a \o u, t) /\ a \o u \in Text /\ Append(u, t) \in Text
      BY ConcatAppend, ConcatProperties, AppendProperties DEF Text
    <2>2. len(Append(a \o u, t)) = len(a \o u) + Width[t[1]]
      BY <2>1, LenIs
    <2>3. len(Append(u, t)) = len(u) + Width[t[1]]
      BY LenIs
    <2>4. len(a) \in Nat /\ len(u) \in Nat /\ Width[t[1]] \in Nat
      BY LenIs, TokenTypes
    <2>5. len(a \o u) = len(a) + len(u)
      BY <1>2
    <2>6. len(a \o Append(u, t)) = len(a) + len(Append(u, t))
      BY <2>1, <2>2, <2>3, <2>4, <2>5
    <2> QED BY <2>1, <2>6
  <1> HIDE DEF P
  <1>3. b \in P
    BY <1>1, <1>2, ByAppending DEF Text
  <1> QED BY <1>3 DEF P

\* A text that is not empty has a length, and one of characters has theirs.
LEMMA LenBounds ==
    ASSUME NEW a \in Text
    PROVE  /\ len(a) >= Len(a)
           /\ a \in Seq({"char"} \X Nat) => len(a) = Len(a)
  <1> DEFINE P == {u \in Text : /\ len(u) >= Len(u)
                                /\ u \in Seq({"char"} \X Nat) => len(u) = Len(u)}
  <1>1. <<>> \in P
    <2>1. <<>> \in Text /\ Len(<<>>) = 0
      BY EmptySeq DEF Text
    <2> QED BY <2>1, LenIs
  <1>2. ASSUME NEW u \in Text, NEW t \in Token, u \in P PROVE Append(u, t) \in P
    <2>1. /\ Append(u, t) \in Text /\ Len(Append(u, t)) = Len(u) + 1
          /\ Append(u, t)[Len(u) + 1] = t /\ \A i \in 1 .. Len(u) : Append(u, t)[i] = u[i]
          /\ Len(u) \in Nat /\ u \in [1 .. Len(u) -> Token]
      BY AppendProperties, LenProperties DEF Text
    <2>2. len(Append(u, t)) = len(u) + Width[t[1]] /\ len(u) \in Nat
      BY LenIs
    <2>3. Width[t[1]] \in Nat /\ Width[t[1]] >= 1 /\ (t[1] = "char" => Width[t[1]] = 1)
      BY TokenTypes
    <2>4. len(u) >= Len(u) /\ (u \in Seq({"char"} \X Nat) => len(u) = Len(u))
      BY <1>2
    <2>5. len(Append(u, t)) >= Len(Append(u, t))
      BY <2>1, <2>2, <2>3, <2>4
    <2>6. ASSUME Append(u, t) \in Seq({"char"} \X Nat)
          PROVE  len(Append(u, t)) = Len(Append(u, t))
      <3>1. /\ Append(u, t)[Len(u) + 1] \in {"char"} \X Nat
            /\ \A i \in 1 .. Len(u) : Append(u, t)[i] \in {"char"} \X Nat
        BY <2>1, <2>6, ElementOfSeq
      <3>2. t[1] = "char" /\ \A i \in 1 .. Len(u) : u[i] \in {"char"} \X Nat
        BY <2>1, <3>1
      <3>3. u \in Seq({"char"} \X Nat)
        BY <2>1, <3>2
      <3> QED BY <2>1, <2>2, <2>3, <2>4, <3>2, <3>3
    <2> QED BY <2>1, <2>5, <2>6
  <1> HIDE DEF P
  <1>3. a \in P
    BY <1>1, <1>2, ByAppending DEF Text
  <1> QED BY <1>3 DEF P

\* What is said: nothing by nothing, and by one token more.
LEMMA SpeechIs ==
    /\ Speech(<<>>) = <<>>
    /\ \A a \in Text : Speech(a) \in Text
    /\ \A a \in Text, b \in Text : Speech(a \o b) = Speech(a) \o Speech(b)
    /\ \A a \in Text, t \in Token :
          Speech(Append(a, t)) = IF t[1] = "char" THEN Append(Speech(a), t) ELSE Speech(a)
  <1>1. \A t \in Token : t \in {"char"} \X Nat <=> t[1] = "char"
    BY DEF Token
  <1>2. ASSUME NEW a \in Text PROVE Speech(a) \in Text
    <2>1. Speech(a) \in Seq(Token \cap ({"char"} \X Nat))
      BY OnlyKeeps DEF Text, Speech
    <2> QED BY <2>1, SeqMonotonic DEF Text
  <1>3. \A a \in Text, b \in Text : Speech(a \o b) = Speech(a) \o Speech(b)
    BY OnlyConcat DEF Text, Speech
  <1>4. ASSUME NEW a \in Text, NEW t \in Token
        PROVE  Speech(Append(a, t)) = IF t[1] = "char" THEN Append(Speech(a), t) ELSE Speech(a)
    BY <1>1, OnlyAppend DEF Text, Speech
  <1>5. Speech(<<>>) = <<>>
    BY OnlyEmpty DEF Speech
  <1> QED BY <1>2, <1>3, <1>4, <1>5

\* A text without characters says nothing.
LEMMA SpeechOfBlank ==
    ASSUME NEW a \in Text, blank(a)
    PROVE  Speech(a) = <<>>
  <1> DEFINE P == {u \in Text : blank(u) => Speech(u) = <<>>}
  <1>1. <<>> \in P
    BY SpeechIs, EmptySeq DEF Text
  <1>2. ASSUME NEW u \in Text, NEW t \in Token, u \in P PROVE Append(u, t) \in P
    <2>1. /\ Append(u, t) \in Text /\ Len(Append(u, t)) = Len(u) + 1
          /\ Append(u, t)[Len(u) + 1] = t /\ \A i \in 1 .. Len(u) : Append(u, t)[i] = u[i]
          /\ Len(u) \in Nat /\ DOMAIN u = 1 .. Len(u) /\ DOMAIN Append(u, t) = 1 .. (Len(u) + 1)
      BY AppendProperties, LenProperties DEF Text
    <2>2. ASSUME blank(Append(u, t)) PROVE blank(u) /\ t[1] # "char"
      BY <2>1, <2>2 DEF blank, Break
    <2>3. blank(Append(u, t)) => Speech(Append(u, t)) = <<>>
      BY <1>2, <2>2, SpeechIs
    <2> QED BY <2>1, <2>3
  <1> HIDE DEF P
  <1>3. a \in P
    BY <1>1, <1>2, ByAppending DEF Text
  <1> QED BY <1>3 DEF P

\* What the texts of a sequence say, one after the other.
Said(texts) == FlattenSeq([i \in DOMAIN texts |-> Speech(texts[i])])

\* What no text says, and one text more.
LEMMA SaidIs ==
    /\ Said(<<>>) = <<>>
    /\ \A ts \in Seq(Text) : Said(ts) \in Text
    /\ \A ts \in Seq(Text), t \in Text : Said(Append(ts, t)) = Said(ts) \o Speech(t)
  <1> DEFINE f == [t \in Text |-> Speech(t)]
  <1>1. f \in [Text -> Text] /\ \A t \in Text : f[t] = Speech(t)
    BY SpeechIs
  <1>2. ASSUME NEW ts \in Seq(Text)
        PROVE  /\ [i \in DOMAIN ts |-> Speech(ts[i])] = [i \in DOMAIN ts |-> f[ts[i]]]
               /\ [i \in DOMAIN ts |-> f[ts[i]]] \in Seq(Text)
    <2>1. \A i \in DOMAIN ts : ts[i] \in Text
      BY LenProperties, ElementOfSeq
    <2>2. [i \in DOMAIN ts |-> Speech(ts[i])] = [i \in DOMAIN ts |-> f[ts[i]]]
      BY <1>1, <2>1
    <2> HIDE DEF f
    <2>3. [i \in DOMAIN ts |-> f[ts[i]]] \in Seq(Text)
      <3>1. DOMAIN ts = 1 .. Len(ts) /\ Len(ts) \in Nat /\ \A i \in DOMAIN ts : f[ts[i]] \in Text
        BY <1>1, <2>1, LenProperties
      <3> QED BY <3>1
    <2> QED BY <2>2, <2>3
  <1> HIDE DEF f
  <1>3. ASSUME NEW ts \in Seq(Text) PROVE Said(ts) \in Text
    BY <1>2, FlattenType DEF Said, Text
  <1>4. ASSUME NEW ts \in Seq(Text), NEW t \in Text
        PROVE  Said(Append(ts, t)) = Said(ts) \o Speech(t)
    <2> DEFINE us == Append(ts, t)
               m == [i \in DOMAIN ts |-> f[ts[i]]]
    <2>1. us \in Seq(Text)
      BY AppendProperties
    <2>2. [i \in DOMAIN us |-> f[us[i]]] = Append(m, f[t])
      BY <1>1, MapAppend
    <2>3. Said(us) = FlattenSeq([i \in DOMAIN us |-> f[us[i]]]) /\ Said(ts) = FlattenSeq(m)
      <3> HIDE DEF us
      <3> QED BY <1>2, <2>1 DEF Said
    <2>4. m \in Seq(Seq(Token)) /\ f[t] \in Seq(Token)
      BY <1>1, <1>2 DEF Text
    <2>5. FlattenSeq(Append(m, f[t])) = FlattenSeq(m) \o f[t]
      <3> HIDE DEF m
      <3> QED BY <2>4, FlattenAppend
    <2> HIDE DEF m, us
    <2>6. Said(us) = Said(ts) \o Speech(t)
      BY <1>1, <2>2, <2>3, <2>5
    <2> QED BY <2>6 DEF us
  <1>5. Said(<<>>) = <<>>
    <2>1. [i \in DOMAIN <<>> |-> Speech(<<>>[i])] = <<>>
      OBVIOUS
    <2> QED BY <2>1, FlattenEmpty DEF Said
  <1> QED BY <1>3, <1>4, <1>5

\* Sequences of texts say what each of them says.
LEMMA SaidConcat ==
    ASSUME NEW ts \in Seq(Text), NEW us \in Seq(Text)
    PROVE  Said(ts \o us) = Said(ts) \o Said(us)
  <1> DEFINE P == {vs \in Seq(Text) : Said(ts \o vs) = Said(ts) \o Said(vs)}
  <1>1. <<>> \in P
    <2>1. ts \o <<>> = ts /\ Said(ts) \o <<>> = Said(ts)
      BY SaidIs, ConcatEmptySeq DEF Text
    <2> QED BY <2>1, SaidIs, EmptySeq
  <1>2. ASSUME NEW vs \in Seq(Text), NEW v \in Text, vs \in P PROVE Append(vs, v) \in P
    <2> DEFINE tv == ts \o vs
    <2>1. ts \o Append(vs, v) = Append(tv, v) /\ tv \in Seq(Text) /\ Append(vs, v) \in Seq(Text)
      BY ConcatAppend, ConcatProperties, AppendProperties
    <2>2. Said(Append(tv, v)) = Said(tv) \o Speech(v)
      <3> HIDE DEF tv
      <3> QED BY <2>1, SaidIs
    <2>3. Said(Append(vs, v)) = Said(vs) \o Speech(v)
      BY SaidIs
    <2>4. Said(tv) = Said(ts) \o Said(vs)
      BY <1>2
    <2>5. (Said(ts) \o Said(vs)) \o Speech(v) = Said(ts) \o (Said(vs) \o Speech(v))
      <3>1. Said(ts) \in Seq(Token) /\ Said(vs) \in Seq(Token) /\ Speech(v) \in Seq(Token)
        BY SaidIs, SpeechIs DEF Text
      <3> QED BY <3>1, ConcatAssociative
    <2> HIDE DEF tv
    <2>6. Said(ts \o Append(vs, v)) = Said(ts) \o Said(Append(vs, v))
      BY <2>1, <2>2, <2>3, <2>4, <2>5
    <2> QED BY <2>1, <2>6
  <1> HIDE DEF P
  <1>3. us \in P
    BY <1>1, <1>2, ByAppending
  <1> QED BY <1>3 DEF P

\* One text says what it says.
LEMMA SaidOne ==
    ASSUME NEW t \in Text
    PROVE  Said(<<t>>) = Speech(t)
  <1>1. Append(<<>>, t) = <<t>> /\ <<>> \in Seq(Text)
    BY EmptySeq
  <1>2. Said(Append(<<>>, t)) = Said(<<>>) \o Speech(t)
    BY <1>1, SaidIs
  <1>3. <<>> \o Speech(t) = Speech(t)
    BY SpeechIs, ConcatEmptySeq DEF Text
  <1> QED BY <1>1, <1>2, <1>3, SaidIs

\* The texts of sequences of texts, in one sequence.
LEMMA SaidFlatten ==
    ASSUME NEW tss \in Seq(Seq(Text)), NEW us \in Seq(Text),
           Len(us) = Len(tss),
           \A i \in 1 .. Len(us) : Said(tss[i]) = Speech(us[i])
    PROVE  Said(FlattenSeq(tss)) = Said(us)
  <1> DEFINE holds(vss) == \A zs \in Seq(Text) :
                 Len(zs) = Len(vss) /\ (\A i \in 1 .. Len(zs) : Said(vss[i]) = Speech(zs[i]))
                 => Said(FlattenSeq(vss)) = Said(zs)
             P == {vss \in Seq(Seq(Text)) : holds(vss)}
  <1>1. <<>> \in P
    <2>1. holds(<<>>)
      <3> SUFFICES ASSUME NEW zs \in Seq(Text), Len(zs) = Len(<<>>)
                   PROVE  Said(FlattenSeq(<<>>)) = Said(zs)
        OBVIOUS
      <3>1. zs = <<>>
        OBVIOUS
      <3> QED BY <3>1, FlattenEmpty
    <2> QED BY <2>1, EmptySeq
  <1>2. ASSUME NEW vss \in Seq(Seq(Text)), NEW vs \in Seq(Text), vss \in P
        PROVE  Append(vss, vs) \in P
    <2> DEFINE wss == Append(vss, vs)
    <2>1. /\ wss \in Seq(Seq(Text)) /\ Len(wss) = Len(vss) + 1 /\ Len(vss) \in Nat
          /\ wss[Len(vss) + 1] = vs /\ \A i \in 1 .. Len(vss) : wss[i] = vss[i]
      BY AppendProperties, LenProperties
    <2>2. FlattenSeq(wss) = FlattenSeq(vss) \o vs /\ FlattenSeq(vss) \in Seq(Text)
      BY FlattenAppend, FlattenType
    <2>3. Said(FlattenSeq(wss)) = Said(FlattenSeq(vss)) \o Said(vs)
      BY <2>2, SaidConcat
    <2> HIDE DEF wss
    <2>4. ASSUME NEW zs \in Seq(Text), Len(zs) = Len(wss),
                 \A i \in 1 .. Len(zs) : Said(wss[i]) = Speech(zs[i])
          PROVE  Said(FlattenSeq(wss)) = Said(zs)
      <3>1. zs # <<>>
        BY <2>1, <2>4
      <3>2. PICK xs \in Seq(Text), x \in Text : zs = Append(xs, x)
        BY <3>1, SequenceEmptyOrAppend
      <3>3. /\ Len(zs) = Len(xs) + 1 /\ Len(xs) \in Nat /\ zs[Len(xs) + 1] = x
            /\ \A i \in 1 .. Len(xs) : zs[i] = xs[i]
        BY <3>2, AppendProperties, LenProperties
      <3>4. Len(xs) = Len(vss)
        BY <2>1, <2>4, <3>3
      <3>5. \A i \in 1 .. Len(xs) : Said(vss[i]) = Speech(xs[i])
        BY <2>1, <2>4, <3>3, <3>4
      <3>6. Said(FlattenSeq(vss)) = Said(xs)
        BY <1>2, <3>4, <3>5
      <3>7. Said(vs) = Speech(x)
        BY <2>1, <2>4, <3>3, <3>4
      <3>8. Said(zs) = Said(xs) \o Speech(x)
        BY <3>2, SaidIs
      <3> QED BY <2>3, <3>6, <3>7, <3>8
    <2>5. holds(wss)
      BY <2>4
    <2> HIDE DEF holds
    <2> QED BY <2>1, <2>5 DEF wss
  <1> HIDE DEF P
  <1>3. tss \in P
    BY <1>1, <1>2, ByAppending
  <1> QED BY <1>3 DEF P

\* Leaving out blank texts leaves out nothing that is said.
LEMMA SaidOnly ==
    ASSUME NEW ts \in Seq(Text), NEW X,
           \A i \in 1 .. Len(ts) : ts[i] \notin X => Speech(ts[i]) = <<>>
    PROVE  Said(Only(ts, X)) = Said(ts)
  <1> DEFINE Y == {t \in Text : t \notin X => Speech(t) = <<>>}
             P == {us \in Seq(Y) : Said(Only(us, X)) = Said(us)}
  <1>1. ts \in Seq(Y)
    <2>1. ts \in [1 .. Len(ts) -> Text] /\ Len(ts) \in Nat
      BY LenProperties
    <2>2. \A i \in 1 .. Len(ts) : ts[i] \in Y
      BY <2>1
    <2> HIDE DEF Y
    <2> QED BY <2>1, <2>2
  <1>2. <<>> \in P
    BY OnlyEmpty, EmptySeq
  <1>3. ASSUME NEW us \in Seq(Y), NEW u \in Y, us \in P PROVE Append(us, u) \in P
    <2>1. us \in Seq(Text) /\ u \in Text
      BY SeqMonotonic
    <2>2. Said(Append(us, u)) = Said(us) \o Speech(u)
      BY <2>1, SaidIs
    <2>3. Append(us, u) \in Seq(Y)
      BY AppendProperties
    <2>4. Only(us, X) \in Seq(Text)
      BY <2>1, OnlyAppend
    <2>5. CASE u \in X
      <3>1. Only(Append(us, u), X) = Append(Only(us, X), u)
        BY <2>1, <2>5, OnlyAppend
      <3>2. Said(Append(Only(us, X), u)) = Said(Only(us, X)) \o Speech(u)
        BY <2>1, <2>4, SaidIs
      <3> QED BY <1>3, <2>2, <2>3, <3>1, <3>2
    <2>6. CASE u \notin X
      <3>1. Only(Append(us, u), X) = Only(us, X)
        BY <2>1, <2>6, OnlyAppend
      <3>2. Said(us) \o <<>> = Said(us)
        BY <2>1, SaidIs, ConcatEmptySeq DEF Text
      <3>3. Speech(u) = <<>>
        BY <2>6
      <3> QED BY <1>3, <2>2, <2>3, <3>1, <3>2, <3>3
    <2> QED BY <2>5, <2>6
  <1> HIDE DEF P, Y
  <1>4. ts \in P
    BY <1>1, <1>2, <1>3, ByAppending
  <1> QED BY <1>4 DEF P

\* A sequence is its front and its last element.
LEMMA FrontLast ==
    ASSUME NEW S, NEW s \in Seq(S), s # <<>>
    PROVE  /\ Front(s) \in Seq(S) /\ Last(s) \in S /\ Append(Front(s), Last(s)) = s
           /\ Len(s) = Len(Front(s)) + 1 /\ \A i \in 1 .. Len(Front(s)) : Front(s)[i] = s[i]
  <1>1. PICK r \in Seq(S), x \in S : s = Append(r, x)
    BY SequenceEmptyOrAppend
  <1>2. /\ Len(s) = Len(r) + 1 /\ Len(r) \in Nat /\ s[Len(r) + 1] = x
        /\ \A i \in 1 .. Len(r) : s[i] = r[i]
    BY <1>1, AppendProperties, LenProperties
  <1>3. Last(s) = x
    BY <1>2 DEF Last
  <1>4. Front(s) = r
    <2>1. \A i \in 1 .. Len(r) : s[i] \in S
      BY <1>2, ElementOfSeq
    <2>2. /\ SubSeq(s, 1, Len(r)) \in Seq(S)
          /\ Len(SubSeq(s, 1, Len(r))) = IF 1 <= Len(r) THEN Len(r) - 1 + 1 ELSE 0
          /\ \A i \in 1 .. Len(r) - 1 + 1 : SubSeq(s, 1, Len(r))[i] = s[1 + i - 1]
      BY <1>2, <2>1, SubSeqProperties
    <2> DEFINE f == SubSeq(s, 1, Len(r))
    <2>3. f \in Seq(S) /\ Len(f) = Len(r) /\ \A i \in 1 .. Len(r) : f[i] = r[i]
      BY <1>2, <2>2
    <2> HIDE DEF f
    <2>4. f = r
      BY <2>3, SeqEqual
    <2>5. Front(s) = f
      BY <1>2 DEF Front, f
    <2> QED BY <2>4, <2>5
  <1> QED BY <1>1, <1>2, <1>3, <1>4

\* The part of a text from a to b.
LEMMA PartOf ==
    ASSUME NEW t \in Text, NEW a \in Nat, NEW b \in Nat, 1 <= a, a <= b + 1, b <= Len(t)
    PROVE  /\ SubSeq(t, a, b) \in Text /\ Len(SubSeq(t, a, b)) = b - a + 1
           /\ DOMAIN SubSeq(t, a, b) = 1 .. (b - a + 1)
           /\ \A i \in 1 .. (b - a + 1) : SubSeq(t, a, b)[i] = t[a + i - 1]
           /\ Len(t) \in Nat
  <1>1. Len(t) \in Nat /\ \A i \in 1 .. Len(t) : t[i] \in Token
    BY LenProperties, ElementOfSeq DEF Text
  <1>2. \A i \in a .. b : t[i] \in Token
    BY <1>1
  <1> DEFINE u == SubSeq(t, a, b)
  <1>3. /\ u \in Seq(Token) /\ Len(u) = IF a <= b THEN b - a + 1 ELSE 0
        /\ \A i \in 1 .. b - a + 1 : u[i] = t[a + i - 1]
    BY <1>2, SubSeqProperties
  <1> HIDE DEF u
  <1>4. u \in Text /\ Len(u) = b - a + 1 /\ DOMAIN u = 1 .. (b - a + 1)
    BY <1>3, LenProperties DEF Text
  <1> QED BY <1>1, <1>3, <1>4 DEF u

\* A text is what is before a part of it, the part, and what is after it.
LEMMA AroundPart ==
    ASSUME NEW t \in Text, NEW a \in Nat, NEW b \in Nat, 1 <= a, a <= b + 1, b <= Len(t)
    PROVE  t = (SubSeq(t, 1, a - 1) \o SubSeq(t, a, b)) \o SubSeq(t, b + 1, Len(t))
  <1>1. Len(t) \in Nat /\ t \in Seq(Token)
    BY LenProperties DEF Text
  <1>0. \A m \in 1 .. Len(t) + 1 : \A k \in m - 1 .. Len(t) : \A n \in k .. Len(t) :
           SubSeq(t, m, k) \o SubSeq(t, k + 1, n) = SubSeq(t, m, n)
    BY <1>1, ConcatAdjacentSubSeq
  <1>2. SubSeq(t, 1, a - 1) \o SubSeq(t, (a - 1) + 1, b) = SubSeq(t, 1, b)
    <2>1. 1 \in 1 .. Len(t) + 1 /\ a - 1 \in 1 - 1 .. Len(t) /\ b \in a - 1 .. Len(t)
      BY <1>1
    <2> QED BY <1>0, <2>1
  <1>3. SubSeq(t, 1, b) \o SubSeq(t, b + 1, Len(t)) = SubSeq(t, 1, Len(t))
    <2>1. 1 \in 1 .. Len(t) + 1 /\ b \in 1 - 1 .. Len(t) /\ Len(t) \in b .. Len(t)
      BY <1>1
    <2> QED BY <1>0, <2>1
  <1>4. (a - 1) + 1 = a
    OBVIOUS
  <1> QED BY <1>1, <1>2, <1>3, <1>4, SubSeqFull

\* A part is no longer than the whole, and no text without a token that is not blank.
LEMMA LenOfPart ==
    ASSUME NEW t \in Text, NEW a \in Nat, NEW b \in Nat, 1 <= a, a <= b + 1, b <= Len(t)
    PROVE  len(SubSeq(t, a, b)) <= len(t)
  <1>1. /\ Len(t) \in Nat /\ SubSeq(t, 1, a - 1) \in Text /\ SubSeq(t, a, b) \in Text
        /\ SubSeq(t, b + 1, Len(t)) \in Text
    BY PartOf
  <1> DEFINE x == SubSeq(t, 1, a - 1)
             y == SubSeq(t, a, b)
             z == SubSeq(t, b + 1, Len(t))
  <1>2. t = (x \o y) \o z
    BY AroundPart
  <1> HIDE DEF x, y, z
  <1>3. x \in Text /\ y \in Text /\ z \in Text /\ x \o y \in Text
    BY <1>1, ConcatProperties DEF Text, x, y, z
  <1>4. len(t) = len(x) + len(y) + len(z)
    BY <1>2, <1>3, LenConcat
  <1>5. len(x) \in Nat /\ len(y) \in Nat /\ len(z) \in Nat
    BY <1>3, LenIs
  <1>6. len(y) <= len(t)
    BY <1>4, <1>5
  <1> QED BY <1>6 DEF y

\* What is around a part is not said if it is breaks.
LEMMA SpeechOfPart ==
    ASSUME NEW t \in Text, NEW a \in Nat, NEW b \in Nat, 1 <= a, a <= b + 1, b <= Len(t),
           \A i \in 1 .. Len(t) : i < a \/ i > b => t[i][1] \in Break
    PROVE  Speech(SubSeq(t, a, b)) = Speech(t)
  <1> DEFINE x == SubSeq(t, 1, a - 1)
             y == SubSeq(t, a, b)
             z == SubSeq(t, b + 1, Len(t))
  <1>1. Len(t) \in Nat /\ a - 1 \in Nat /\ b + 1 \in Nat
    BY LenProperties DEF Text
  <1>2. /\ x \in Text /\ DOMAIN x = 1 .. ((a - 1) - 1 + 1)
        /\ \A i \in 1 .. ((a - 1) - 1 + 1) : x[i] = t[1 + i - 1]
    BY <1>1, PartOf
  <1>3. /\ z \in Text /\ DOMAIN z = 1 .. (Len(t) - (b + 1) + 1)
        /\ \A i \in 1 .. (Len(t) - (b + 1) + 1) : z[i] = t[(b + 1) + i - 1]
    BY <1>1, PartOf
  <1>4. y \in Text
    BY PartOf
  <1>5. t = (x \o y) \o z
    BY AroundPart
  <1> HIDE DEF x, y, z
  <1>6. blank(x)
    <2> SUFFICES ASSUME NEW i \in DOMAIN x PROVE x[i][1] \in Break
      BY DEF blank
    <2>1. i \in 1 .. Len(t) /\ i < a /\ x[i] = t[i]
      BY <1>1, <1>2
    <2> QED BY <2>1
  <1>7. blank(z)
    <2> SUFFICES ASSUME NEW i \in DOMAIN z PROVE z[i][1] \in Break
      BY DEF blank
    <2>1. b + i \in 1 .. Len(t) /\ b + i > b /\ z[i] = t[b + i]
      BY <1>1, <1>3
    <2> QED BY <2>1
  <1>8. Speech(x) = <<>> /\ Speech(z) = <<>>
    BY <1>2, <1>3, <1>6, <1>7, SpeechOfBlank
  <1>9. x \o y \in Text
    BY <1>2, <1>4, ConcatProperties DEF Text
  <1>10. Speech(t) = (Speech(x) \o Speech(y)) \o Speech(z)
    <2>1. Speech(x \o y) = Speech(x) \o Speech(y)
      BY <1>2, <1>4, SpeechIs
    <2> DEFINE w == x \o y
    <2>2. Speech(w \o z) = Speech(w) \o Speech(z)
      <3> HIDE DEF w
      <3> QED BY <1>3, <1>9, SpeechIs DEF w
    <2> QED BY <1>5, <2>1, <2>2
  <1>11. Speech(y) \in Seq(Token)
    BY <1>4, SpeechIs DEF Text
  <1>12. (<<>> \o Speech(y)) \o <<>> = Speech(y)
    BY <1>11, ConcatEmptySeq
  <1> QED BY <1>8, <1>10, <1>12 DEF y

-----------------------------------------------------------------------------
(* Splitting at a separator, and joining                                   *)

\* Splitting nothing, and one token more.
LEMMA SplitIs ==
    ASSUME NEW sep
    PROVE  /\ split(<<>>, sep) = << <<>> >>
           /\ \A text \in Text : split(text, sep) \in Seq(Text) /\ split(text, sep) # <<>>
           /\ \A text \in Text, t \in Token :
                 split(Append(text, t), sep)
                   = IF t[1] = sep THEN Append(split(text, sep), <<>>)
                     ELSE Append(Front(split(text, sep)), Append(Last(split(text, sep)), t))
  <1> DEFINE G == Seq(Text) \ {<<>>}
             next(parts, t) == IF t[1] = sep THEN Append(parts, <<>>)
                               ELSE Append(Front(parts), Append(Last(parts), t))
             step == [parts \in G |-> [t \in Token |-> next(parts, t)]]
  <1>1. \A text : split(text, sep) = Fold(step, << <<>> >>, text)
    BY DEF split
  <1>2. ASSUME NEW parts \in G, NEW t \in Token PROVE next(parts, t) \in G
    <2>1. parts \in Seq(Text) /\ parts # <<>> /\ <<>> \in Text
      BY EmptySeq DEF Text
    <2>2. Append(parts, <<>>) \in G
      BY <2>1, AppendProperties
    <2>3. Front(parts) \in Seq(Text) /\ Last(parts) \in Text
      BY <2>1, FrontLast
    <2>4. Append(Last(parts), t) \in Text
      BY <2>3, AppendProperties DEF Text
    <2>5. Append(Front(parts), Append(Last(parts), t)) \in G
      BY <2>3, <2>4, AppendProperties
    <2> QED BY <2>2, <2>5
  <1> HIDE DEF next
  <1>3. \A parts \in G, t \in Token : step[parts][t] = next(parts, t) /\ step[parts][t] \in G
    BY <1>2
  <1>4. << <<>> >> \in G
    <2>1. <<>> \in Text
      BY EmptySeq DEF Text
    <2>2. Append(<<>>, <<>>) = << <<>> >> /\ Append(<<>>, <<>>) \in G
      BY <2>1, AppendProperties, EmptySeq
    <2> QED BY <2>2
  <1> HIDE DEF step, G
  <1>5. ASSUME NEW text \in Text PROVE split(text, sep) \in G
    <2>1. text \in Seq(Token)
      BY DEF Text
    <2>2. Fold(step, << <<>> >>, text) \in G
      BY <1>3, <1>4, <2>1, FoldType
    <2> QED BY <1>1, <2>2
  <1>6. ASSUME NEW text \in Text, NEW t \in Token
        PROVE  split(Append(text, t), sep) = next(split(text, sep), t)
    <2>1. Fold(step, << <<>> >>, Append(text, t)) = step[Fold(step, << <<>> >>, text)][t]
      BY FoldAppend DEF Text
    <2> QED BY <1>1, <1>3, <1>5, <2>1
  <1> QED BY <1>1, <1>5, <1>6, FoldEmpty DEF next, G

\* Splitting loses nothing that is said: a separator is no character.
LEMMA SaidSplit ==
    ASSUME NEW text \in Text, NEW sep, sep # "char"
    PROVE  Said(split(text, sep)) = Speech(text)
  <1> DEFINE P == {u \in Text : Said(split(u, sep)) = Speech(u)}
  <1>0. <<>> \in Text
    BY EmptySeq DEF Text
  <1>1. <<>> \in P
    BY <1>0, SplitIs, SaidOne, SpeechIs
  <1>2. ASSUME NEW u \in Text, NEW t \in Token, u \in P PROVE Append(u, t) \in P
    <2>1. Append(u, t) \in Text
      BY AppendProperties DEF Text
    <2> DEFINE ps == split(u, sep)
               qs == Front(ps)
               q == Last(ps)
    <2>2. ps \in Seq(Text) /\ ps # <<>> /\ Said(ps) = Speech(u)
      BY <1>2, SplitIs
    <2>3. qs \in Seq(Text) /\ q \in Text /\ ps = Append(qs, q)
      BY <2>2, FrontLast
    <2>4. split(Append(u, t), sep) = IF t[1] = sep THEN Append(ps, <<>>)
                                     ELSE Append(qs, Append(q, t))
      BY SplitIs
    <2> HIDE DEF ps, qs, q
    <2>5. CASE t[1] = sep
      <3>1. Said(Append(ps, <<>>)) = Said(ps) \o <<>>
        BY <1>0, <2>2, SaidIs, SpeechIs
      <3>2. Said(ps) \o <<>> = Said(ps)
        BY <2>2, SaidIs, ConcatEmptySeq DEF Text
      <3>3. Speech(Append(u, t)) = Speech(u)
        BY <2>5, SpeechIs
      <3> QED BY <2>1, <2>2, <2>4, <2>5, <3>1, <3>2, <3>3
    <2>6. CASE t[1] # sep
      <3>0. Append(q, t) \in Text
        BY <2>3, AppendProperties DEF Text
      <3>1. Said(Append(qs, Append(q, t))) = Said(qs) \o Speech(Append(q, t))
        BY <2>3, <3>0, SaidIs
      <3>2. Said(ps) = Said(qs) \o Speech(q)
        BY <2>3, SaidIs
      <3>3. Said(qs) \in Seq(Token) /\ Speech(q) \in Seq(Token)
        BY <2>3, SaidIs, SpeechIs DEF Text
      <3>4. Speech(Append(q, t)) = IF t[1] = "char" THEN Append(Speech(q), t) ELSE Speech(q)
        BY <2>3, SpeechIs
      <3>5. Speech(Append(u, t)) = IF t[1] = "char" THEN Append(Speech(u), t) ELSE Speech(u)
        BY SpeechIs
      <3>6. Said(qs) \o Append(Speech(q), t) = Append(Said(qs) \o Speech(q), t)
        BY <3>3, ConcatAppend
      <3>7. Said(Append(qs, Append(q, t))) = Speech(Append(u, t))
        BY <2>2, <3>1, <3>2, <3>4, <3>5, <3>6
      <3> QED BY <2>1, <2>4, <2>6, <3>7
    <2> QED BY <2>5, <2>6
  <1> HIDE DEF P
  <1>3. text \in P
    BY <1>1, <1>2, ByAppending DEF Text
  <1> QED BY <1>3 DEF P

\* The k-th part of a text goes from a to b: it ends where the separators are, and has
\* none in it.
PlaceOf(text, sep, parts, k, a, b) ==
    /\ parts[k] = SubSeq(text, a, b)
    /\ a >= 1 /\ a <= b + 1 /\ b <= Len(text)
    /\ IF k = 1 THEN a = 1 ELSE a > 1 /\ text[a - 1][1] = sep
    /\ IF k = Len(parts) THEN b = Len(text) ELSE b < Len(text) /\ text[b + 1][1] = sep
    /\ \A i \in a .. b : text[i][1] # sep

\* Every part of a text that was split has such a place.
LEMMA SplitPlaces ==
    ASSUME NEW text \in Text, NEW sep, NEW k \in 1 .. Len(split(text, sep))
    PROVE  \E a, b \in Nat : PlaceOf(text, sep, split(text, sep), k, a, b)
  <1> DEFINE P == {u \in Text : \A j \in 1 .. Len(split(u, sep)) :
                                  \E a, b \in Nat : PlaceOf(u, sep, split(u, sep), j, a, b)}
  <1>0. <<>> \in Text
    BY EmptySeq DEF Text
  <1>1. <<>> \in P
    <2> DEFINE one == << <<>> >>
               none == <<>>
    <2>1. SubSeq(none, 1, 0) = none
      BY SubSeqEmpty
    <2>2. Len(one) = 1 /\ one[1] = none /\ Len(none) = 0
      OBVIOUS
    <2>3. PlaceOf(none, sep, one, 1, 1, 0)
      <3> HIDE DEF none, one
      <3> QED BY <2>1, <2>2 DEF PlaceOf
    <2>4. \A j \in 1 .. Len(one) : \E a, b \in Nat : PlaceOf(none, sep, one, j, a, b)
      <3> HIDE DEF none, one
      <3>1. \A j \in 1 .. Len(one) : j = 1
        BY <2>2
      <3> QED BY <2>3, <3>1
    <2>5. split(none, sep) = one
      BY SplitIs
    <2> HIDE DEF one
    <2>6. none \in P
      <3> HIDE DEF none
      <3> QED BY <1>0, <2>4, <2>5 DEF none
    <2> QED BY <2>6
  <1>2. ASSUME NEW u \in Text, NEW t \in Token, u \in P PROVE Append(u, t) \in P
    <2> DEFINE v == Append(u, t)
               ps == split(u, sep)
               vs == split(v, sep)
               qs == Front(ps)
               q == Last(ps)
    <2>1. /\ v \in Text /\ Len(v) = Len(u) + 1 /\ Len(u) \in Nat /\ v[Len(u) + 1] = t
          /\ \A i \in 1 .. Len(u) : v[i] = u[i]
      BY AppendProperties, LenProperties DEF Text
    <2>2. ps \in Seq(Text) /\ ps # <<>> /\ Len(ps) \in Nat
      BY SplitIs, LenProperties
    <2>3. /\ qs \in Seq(Text) /\ q \in Text /\ ps = Append(qs, q) /\ Len(ps) = Len(qs) + 1
          /\ \A i \in 1 .. Len(qs) : qs[i] = ps[i]
          /\ Len(qs) \in Nat /\ ps[Len(ps)] = q
      BY <2>2, FrontLast, LenProperties DEF Last
    <2>4. vs = IF t[1] = sep THEN Append(ps, <<>>) ELSE Append(qs, Append(q, t))
      BY SplitIs
    <2>5. \A j \in 1 .. Len(ps) : \E a, b \in Nat : PlaceOf(u, sep, ps, j, a, b)
      BY <1>2
    <2> HIDE DEF ps, qs, q, vs
    <2>6. \A a, b \in Nat : 1 <= a /\ a <= b + 1 /\ b <= Len(u) => SubSeq(v, a, b) = SubSeq(u, a, b)
      <3> SUFFICES ASSUME NEW a \in Nat, NEW b \in Nat, 1 <= a, a <= b + 1, b <= Len(u)
                   PROVE  SubSeq(v, a, b) = SubSeq(u, a, b)
        OBVIOUS
      <3> HIDE DEF v
      <3>1. /\ SubSeq(u, a, b) \in Seq(Token) /\ Len(SubSeq(u, a, b)) = b - a + 1
            /\ \A i \in 1 .. (b - a + 1) : SubSeq(u, a, b)[i] = u[a + i - 1]
        BY PartOf DEF Text
      <3>2. /\ SubSeq(v, a, b) \in Seq(Token) /\ Len(SubSeq(v, a, b)) = b - a + 1
            /\ \A i \in 1 .. (b - a + 1) : SubSeq(v, a, b)[i] = v[a + i - 1]
        BY <2>1, PartOf DEF Text
      <3>3. \A i \in 1 .. (b - a + 1) : v[a + i - 1] = u[a + i - 1]
        BY <2>1
      <3> QED BY <3>1, <3>2, <3>3, SeqEqual
    <2>7. ASSUME NEW j \in 1 .. Len(vs) PROVE \E a, b \in Nat : PlaceOf(v, sep, vs, j, a, b)
      <3>1. CASE t[1] = sep
        <4>1. /\ Len(vs) = Len(ps) + 1 /\ vs[Len(ps) + 1] = <<>>
              /\ \A i \in 1 .. Len(ps) : vs[i] = ps[i]
          BY <1>0, <2>2, <2>4, <3>1, AppendProperties
        <4>2. CASE j = Len(ps) + 1
          <5>1. SubSeq(v, Len(v) + 1, Len(v)) = <<>>
            BY <2>1, SubSeqEmpty
          <5>2. Len(ps) # 0
            BY <2>2
          <5> HIDE DEF v
          <5>3. PlaceOf(v, sep, vs, j, Len(v) + 1, Len(v))
            <6>1. j # 1 /\ j = Len(vs) /\ vs[j] = <<>> /\ (Len(v) + 1) - 1 = Len(v)
              BY <2>2, <4>1, <4>2, <5>2
            <6>2. Len(v) + 1 > 1 /\ v[Len(v)][1] = sep /\ Len(v) \in Nat
              BY <2>1, <3>1
            <6> QED BY <5>1, <6>1, <6>2 DEF PlaceOf
          <5>4. Len(v) + 1 \in Nat /\ Len(v) \in Nat
            BY <2>1
          <5> QED BY <5>3, <5>4
        <4>3. CASE j # Len(ps) + 1
          <5>1. j \in 1 .. Len(ps)
            BY <2>2, <4>1, <4>3
          <5>2. PICK a, b \in Nat : PlaceOf(u, sep, ps, j, a, b)
            BY <2>5, <5>1
          <5> HIDE DEF v
          <5>3. SubSeq(v, a, b) = SubSeq(u, a, b)
            BY <2>6, <5>2 DEF PlaceOf
          <5>4. PlaceOf(v, sep, vs, j, a, b)
            <6>1. /\ ps[j] = SubSeq(u, a, b) /\ a >= 1 /\ a <= b + 1 /\ b <= Len(u)
                  /\ \A i \in a .. b : u[i][1] # sep
                  /\ IF j = 1 THEN a = 1 ELSE a > 1 /\ u[a - 1][1] = sep
                  /\ IF j = Len(ps) THEN b = Len(u) ELSE b < Len(u) /\ u[b + 1][1] = sep
              BY <5>2 DEF PlaceOf
            <6>2. vs[j] = SubSeq(v, a, b) /\ j # Len(vs)
              <7>1. vs[j] = ps[j]
                BY <4>1, <5>1
              <7>2. j # Len(ps) + 1
                BY <4>3
              <7> QED BY <4>1, <5>3, <6>1, <7>1, <7>2
            <6>a. \A i \in 1 .. Len(u) : v[i][1] = u[i][1]
              BY <2>1
            <6>b. \A i \in a .. b : i \in 1 .. Len(u)
              BY <6>1
            <6>c. \A i \in a .. b : v[i][1] # sep
              BY <6>1, <6>a, <6>b
            <6>3. b < Len(v) /\ v[b + 1][1] = sep
              <7>1. CASE b = Len(u)
                BY <2>1, <3>1, <6>1, <7>1
              <7>2. CASE b # Len(u)
                <8>1. b + 1 \in 1 .. Len(u) /\ u[b + 1][1] = sep
                  BY <2>1, <6>1, <7>2
                <8> QED BY <2>1, <6>a, <8>1
              <7> QED BY <7>1, <7>2
            <6>4. IF j = 1 THEN a = 1 ELSE a > 1 /\ v[a - 1][1] = sep
              <7>1. a > 1 => a - 1 \in 1 .. Len(u)
                BY <2>1, <6>1
              <7> QED BY <6>1, <6>a, <7>1
            <6> QED BY <2>1, <6>1, <6>2, <6>3, <6>4, <6>c DEF PlaceOf
          <5> QED BY <5>4
        <4> QED BY <4>2, <4>3
      <3>2. CASE t[1] # sep
        <4>0. Append(q, t) \in Text
          BY <2>3, AppendProperties DEF Text
        <4>1. /\ Len(vs) = Len(ps) /\ vs[Len(ps)] = Append(q, t)
              /\ \A i \in 1 .. Len(qs) : vs[i] = ps[i]
          BY <2>3, <2>4, <3>2, <4>0, AppendProperties
        <4>2. PICK a, b \in Nat : PlaceOf(u, sep, ps, j, a, b)
          BY <2>5, <4>1
        <4>3. CASE j = Len(ps)
          <5>1. b = Len(u) /\ q = SubSeq(u, a, b) /\ a >= 1 /\ a <= b + 1
            BY <2>3, <4>2, <4>3 DEF PlaceOf
          <5>2. /\ SubSeq(v, a, b + 1) \in Seq(Token) /\ Len(SubSeq(v, a, b + 1)) = (b + 1) - a + 1
                /\ \A i \in 1 .. ((b + 1) - a + 1) : SubSeq(v, a, b + 1)[i] = v[a + i - 1]
            <6> HIDE DEF v
            <6> QED BY <2>1, <5>1, PartOf DEF Text
          <5>3. /\ q \in Seq(Token) /\ Len(q) = b - a + 1
                /\ \A i \in 1 .. (b - a + 1) : q[i] = u[a + i - 1]
            BY <5>1, PartOf DEF Text
          <5>4. /\ Append(q, t) \in Seq(Token) /\ Len(Append(q, t)) = Len(q) + 1
                /\ Append(q, t)[Len(q) + 1] = t /\ \A i \in 1 .. Len(q) : Append(q, t)[i] = q[i]
            BY <5>3, AppendProperties
          <5>5. ASSUME NEW i \in 1 .. ((b + 1) - a + 1)
                PROVE  SubSeq(v, a, b + 1)[i] = Append(q, t)[i]
            <6>1. CASE i = Len(q) + 1
              <7>1. a + i - 1 = Len(u) + 1
                BY <5>1, <5>3, <6>1
              <7> HIDE DEF v
              <7> QED BY <2>1, <5>2, <5>4, <6>1, <7>1
            <6>2. CASE i # Len(q) + 1
              <7>1. i \in 1 .. Len(q) /\ a + i - 1 \in 1 .. Len(u) /\ i \in 1 .. (b - a + 1)
                BY <5>1, <5>3, <6>2
              <7>2. v[a + i - 1] = u[a + i - 1]
                BY <2>1, <7>1
              <7> HIDE DEF v
              <7> QED BY <5>2, <5>3, <5>4, <7>1, <7>2
            <6> QED BY <6>1, <6>2
          <5> HIDE DEF v
          <5>6. Len(Append(q, t)) = (b + 1) - a + 1
            BY <5>1, <5>3, <5>4
          <5>7. SubSeq(v, a, b + 1) = Append(q, t)
            BY <5>2, <5>4, <5>5, <5>6, SeqEqual
          <5>8. /\ IF j = 1 THEN a = 1 ELSE a > 1 /\ v[a - 1][1] = sep
                /\ \A i \in a .. (b + 1) : v[i][1] # sep
            BY <2>1, <3>2, <4>2, <5>1 DEF PlaceOf
          <5>9. PlaceOf(v, sep, vs, j, a, b + 1)
            <6>1. vs[j] = SubSeq(v, a, b + 1) /\ j = Len(vs) /\ b + 1 = Len(v)
              BY <2>1, <4>1, <4>3, <5>1, <5>7
            <6>2. a >= 1 /\ a <= (b + 1) + 1 /\ b + 1 <= Len(v)
              BY <2>1, <5>1, <6>1
            <6> QED BY <5>8, <6>1, <6>2 DEF PlaceOf
          <5> QED BY <5>9
        <4>4. CASE j # Len(ps)
          <5>1. j \in 1 .. Len(qs) /\ b < Len(u)
            BY <2>3, <4>1, <4>2, <4>4 DEF PlaceOf
          <5> HIDE DEF v
          <5>2. SubSeq(v, a, b) = SubSeq(u, a, b)
            BY <2>6, <4>2 DEF PlaceOf
          <5>3. PlaceOf(v, sep, vs, j, a, b)
            <6>1. /\ ps[j] = SubSeq(u, a, b) /\ a >= 1 /\ a <= b + 1 /\ b <= Len(u)
                  /\ \A i \in a .. b : u[i][1] # sep
                  /\ IF j = 1 THEN a = 1 ELSE a > 1 /\ u[a - 1][1] = sep
                  /\ IF j = Len(ps) THEN b = Len(u) ELSE b < Len(u) /\ u[b + 1][1] = sep
              BY <4>2 DEF PlaceOf
            <6>2. vs[j] = SubSeq(v, a, b) /\ j # Len(vs)
              BY <4>1, <4>4, <5>1, <5>2, <6>1
            <6>a. \A i \in 1 .. Len(u) : v[i][1] = u[i][1]
              BY <2>1
            <6>b. \A i \in a .. b : i \in 1 .. Len(u)
              BY <6>1
            <6>c. \A i \in a .. b : v[i][1] # sep
              BY <6>1, <6>a, <6>b
            <6>3. b < Len(v) /\ v[b + 1][1] = sep
              <7>1. CASE b = Len(u)
                BY <2>1, <4>4, <5>1, <6>1, <7>1
              <7>2. CASE b # Len(u)
                <8>1. b + 1 \in 1 .. Len(u) /\ u[b + 1][1] = sep
                  BY <2>1, <6>1, <7>2
                <8> QED BY <2>1, <6>a, <8>1
              <7> QED BY <7>1, <7>2
            <6>4. IF j = 1 THEN a = 1 ELSE a > 1 /\ v[a - 1][1] = sep
              <7>1. a > 1 => a - 1 \in 1 .. Len(u)
                BY <2>1, <6>1
              <7> QED BY <6>1, <6>a, <7>1
            <6> QED BY <2>1, <6>1, <6>2, <6>3, <6>4, <6>c DEF PlaceOf
          <5> QED BY <5>3
        <4> QED BY <4>3, <4>4
      <3> QED BY <3>1, <3>2
    <2> HIDE DEF v
    <2>8. v \in P
      BY <2>1, <2>7 DEF vs
    <2> QED BY <2>8 DEF v
  <1> HIDE DEF P
  <1>3. text \in P
    BY <1>1, <1>2, ByAppending DEF Text
  <1> QED BY <1>3 DEF P

\* A separator as the code puts it between two texts.
Mark(sep) == << <<sep, 0>> >>

\* A separator is a token, and says nothing.
LEMMA MarkIs ==
    ASSUME NEW sep \in Kind, sep # "char"
    PROVE  /\ Mark(sep) \in Text /\ Len(Mark(sep)) = 1 /\ Mark(sep)[1] = <<sep, 0>>
           /\ len(Mark(sep)) = Width[sep] /\ Width[sep] \in Nat /\ Speech(Mark(sep)) = <<>>
  <1> DEFINE t == <<sep, 0>>
  <1>1. t \in Token /\ t[1] = sep /\ <<>> \in Text
    BY EmptySeq DEF Token, Text
  <1>2. Mark(sep) = Append(<<>>, t)
    BY DEF Mark
  <1> HIDE DEF t
  <1>3. Append(<<>>, t) \in Text /\ Len(Append(<<>>, t)) = 1 /\ Append(<<>>, t)[1] = t
    BY <1>1, AppendProperties DEF Text
  <1>4. len(Append(<<>>, t)) = 0 + Width[t[1]] /\ Width[t[1]] \in Nat
    BY <1>1, LenIs, TokenTypes
  <1>5. Speech(Append(<<>>, t)) = <<>>
    BY <1>1, SpeechIs
  <1> QED BY <1>1, <1>2, <1>3, <1>4, <1>5 DEF t

\* Joining nothing, and one text more.
LEMMA JoinIs ==
    ASSUME NEW sep \in Kind, sep # "char"
    PROVE  /\ join(<<>>, sep) = <<>>
           /\ \A ps \in Seq(Text) : join(ps, sep) \in Text
           /\ \A ps \in Seq(Text), p \in Text :
                 join(Append(ps, p), sep) = IF join(ps, sep) = <<>> THEN p
                                            ELSE (join(ps, sep) \o Mark(sep)) \o p
  <1> DEFINE next(text, p) == IF text = <<>> THEN p ELSE (text \o Mark(sep)) \o p
             step == [text \in Text |-> [p \in Text |-> next(text, p)]]
  <1>1. \A ps : join(ps, sep) = Fold(step, <<>>, ps)
    BY DEF join, Mark
  <1>2. ASSUME NEW text \in Text, NEW p \in Text PROVE next(text, p) \in Text
    <2>1. text \o Mark(sep) \in Text
      BY MarkIs, ConcatProperties DEF Text
    <2>2. (text \o Mark(sep)) \o p \in Text
      BY <2>1, ConcatProperties DEF Text
    <2> QED BY <2>2
  <1> HIDE DEF next
  <1>3. \A text \in Text, p \in Text : step[text][p] = next(text, p) /\ step[text][p] \in Text
    BY <1>2
  <1> HIDE DEF step
  <1>4. <<>> \in Text
    BY EmptySeq DEF Text
  <1>5. ASSUME NEW ps \in Seq(Text) PROVE join(ps, sep) \in Text
    <2>1. Fold(step, <<>>, ps) \in Text
      BY <1>3, <1>4, FoldType
    <2> QED BY <1>1, <2>1
  <1>6. ASSUME NEW ps \in Seq(Text), NEW p \in Text
        PROVE  join(Append(ps, p), sep) = next(join(ps, sep), p)
    <2>1. Fold(step, <<>>, Append(ps, p)) = step[Fold(step, <<>>, ps)][p]
      BY FoldAppend
    <2> QED BY <1>1, <1>3, <1>5, <2>1
  <1> QED BY <1>1, <1>5, <1>6, FoldEmpty DEF next

\* Two texts with a separator between them say what the two say.
LEMMA SpeechJoined ==
    ASSUME NEW sep \in Kind, sep # "char", NEW a \in Text, NEW b \in Text
    PROVE  /\ Speech((a \o Mark(sep)) \o b) = Speech(a) \o Speech(b)
           /\ len((a \o Mark(sep)) \o b) = len(a) + Width[sep] + len(b)
           /\ (a \o Mark(sep)) \o b \in Text
  <1> DEFINE m == Mark(sep)
             am == a \o m
  <1>1. m \in Text /\ Speech(m) = <<>> /\ len(m) = Width[sep]
    BY MarkIs
  <1>2. Speech(am) = Speech(a) \o Speech(m) /\ len(am) = len(a) + len(m)
    <2> HIDE DEF m
    <2> QED BY <1>1, SpeechIs, LenConcat
  <1>3. am \in Text
    <2> HIDE DEF m
    <2> QED BY <1>1, ConcatProperties DEF Text
  <1>4. am \o b \in Text
    <2> HIDE DEF am
    <2> QED BY <1>3, ConcatProperties DEF Text
  <1>5. Speech(am \o b) = Speech(am) \o Speech(b) /\ len(am \o b) = len(am) + len(b)
    <2> HIDE DEF am
    <2> QED BY <1>3, SpeechIs, LenConcat
  <1>6. Speech(a) \o <<>> = Speech(a)
    BY SpeechIs, ConcatEmptySeq DEF Text
  <1> QED BY <1>1, <1>2, <1>4, <1>5, <1>6

\* Joining loses and adds nothing that is said.
LEMMA SaidJoin ==
    ASSUME NEW sep \in Kind, sep # "char", NEW ps \in Seq(Text)
    PROVE  Speech(join(ps, sep)) = Said(ps)
  <1> DEFINE P == {qs \in Seq(Text) : Speech(join(qs, sep)) = Said(qs)}
  <1>1. <<>> \in P
    BY JoinIs, SpeechIs, SaidIs, EmptySeq
  <1>2. ASSUME NEW qs \in Seq(Text), NEW q \in Text, qs \in P PROVE Append(qs, q) \in P
    <2>1. Append(qs, q) \in Seq(Text) /\ join(qs, sep) \in Text
      BY AppendProperties, JoinIs
    <2>2. Said(Append(qs, q)) = Said(qs) \o Speech(q)
      BY SaidIs
    <2>3. Speech(join(qs, sep)) = Said(qs)
      BY <1>2
    <2>4. Speech(q) \in Seq(Token)
      BY SpeechIs DEF Text
    <2>5. CASE join(qs, sep) = <<>>
      <3>1. join(Append(qs, q), sep) = q
        BY <2>5, JoinIs
      <3>2. Said(qs) = <<>>
        BY <2>3, <2>5, SpeechIs
      <3>3. <<>> \o Speech(q) = Speech(q)
        BY <2>4, ConcatEmptySeq
      <3> QED BY <2>1, <2>2, <3>1, <3>2, <3>3
    <2>6. CASE join(qs, sep) # <<>>
      <3>1. join(Append(qs, q), sep) = (join(qs, sep) \o Mark(sep)) \o q
        BY <2>6, JoinIs
      <3>2. Speech((join(qs, sep) \o Mark(sep)) \o q) = Speech(join(qs, sep)) \o Speech(q)
        BY <2>1, SpeechJoined
      <3> QED BY <2>1, <2>2, <2>3, <3>1, <3>2
    <2> QED BY <2>5, <2>6
  <1> HIDE DEF P
  <1>3. ps \in P
    BY <1>1, <1>2, ByAppending
  <1> QED BY <1>3 DEF P

\* What is joined is no shorter than each part, and not empty if the first is not.
LEMMA LenOfJoin ==
    ASSUME NEW sep \in Kind, sep # "char", NEW ps \in Seq(Text)
    PROVE  /\ \A i \in 1 .. Len(ps) : len(ps[i]) <= len(join(ps, sep))
           /\ ps # <<>> /\ ps[1] # <<>> => join(ps, sep) # <<>>
  <1> DEFINE good(qs) == /\ \A i \in 1 .. Len(qs) : len(qs[i]) <= len(join(qs, sep))
                         /\ qs # <<>> /\ qs[1] # <<>> => join(qs, sep) # <<>>
             P == {qs \in Seq(Text) : good(qs)}
  <1>1. <<>> \in P
    BY EmptySeq
  <1>2. ASSUME NEW qs \in Seq(Text), NEW q \in Text, qs \in P PROVE Append(qs, q) \in P
    <2> DEFINE rs == Append(qs, q)
    <2>1. /\ rs \in Seq(Text) /\ Len(rs) = Len(qs) + 1 /\ Len(qs) \in Nat /\ rs[Len(qs) + 1] = q
          /\ \A i \in 1 .. Len(qs) : rs[i] = qs[i] /\ qs[i] \in Text
      BY AppendProperties, LenProperties, ElementOfSeq
    <2>2. join(rs, sep) = IF join(qs, sep) = <<>> THEN q ELSE (join(qs, sep) \o Mark(sep)) \o q
      BY JoinIs
    <2>3. good(qs)
      BY <1>2
    <2>4. join(qs, sep) \in Text /\ len(<<>>) = 0 /\ len(q) \in Nat /\ len(join(qs, sep)) \in Nat
      BY JoinIs, LenIs
    <2>5. \A i \in 1 .. Len(qs) : len(qs[i]) \in Nat
      BY <2>1, LenIs
    <2>6. Width[sep] \in Nat
      BY MarkIs
    <2>7. join(rs, sep) \in Text /\ len(join(rs, sep)) \in Nat
      BY <2>1, JoinIs, LenIs
    <2> HIDE DEF rs
    <2>8. CASE join(qs, sep) = <<>>
      <3>1. \A i \in 1 .. Len(qs) : len(qs[i]) = 0
        BY <2>3, <2>4, <2>5, <2>8
      <3>2. join(rs, sep) = q
        BY <2>2, <2>8
      <3>3. \A i \in 1 .. Len(rs) : len(rs[i]) <= len(join(rs, sep))
        BY <2>1, <2>4, <3>1, <3>2
      <3>4. rs[1] # <<>> => q # <<>>
        <4>1. qs # <<>> => qs[1] = <<>> /\ rs[1] = qs[1]
          BY <2>1, <2>3, <2>8
        <4>2. qs = <<>> => rs[1] = q
          BY <2>1
        <4> QED BY <4>1, <4>2
      <3>5. good(rs)
        BY <3>2, <3>3, <3>4
      <3> QED BY <2>1, <3>5 DEF rs
    <2>9. CASE join(qs, sep) # <<>>
      <3>1. len(join(rs, sep)) = len(join(qs, sep)) + Width[sep] + len(q)
        BY <2>2, <2>4, <2>9, SpeechJoined
      <3>2. \A i \in 1 .. Len(rs) : len(rs[i]) <= len(join(rs, sep))
        BY <2>1, <2>3, <2>4, <2>5, <2>6, <3>1
      <3>3. Len(join(qs, sep)) >= 1
        BY <2>4, <2>9, EmptySeq DEF Text
      <3>4. len(join(qs, sep)) >= 1
        BY <2>4, <3>3, LenBounds, LenProperties DEF Text
      <3>5. len(join(rs, sep)) >= 1
        BY <2>4, <2>6, <3>1, <3>4
      <3>6. join(rs, sep) # <<>>
        BY <2>4, <3>5
      <3>7. good(rs)
        BY <3>2, <3>6
      <3> QED BY <2>1, <3>7 DEF rs
    <2> QED BY <2>8, <2>9
  <1> HIDE DEF P
  <1>3. ps \in P
    BY <1>1, <1>2, ByAppending
  <1> QED BY <1>3 DEF P

\* Joining what was split gives as long a text, if the first part is not empty.
LEMMA JoinOfSplit ==
    ASSUME NEW sep \in Kind, sep # "char", NEW text \in Text, split(text, sep)[1] # <<>>
    PROVE  len(join(split(text, sep), sep)) = len(text)
  <1> DEFINE P == {u \in Text : split(u, sep)[1] # <<>> => len(join(split(u, sep), sep)) = len(u)}
  <1>0. <<>> \in Text
    BY EmptySeq DEF Text
  <1>a. \A a, b \in Text : len((a \o Mark(sep)) \o b) = len(a) + Width[sep] + len(b)
    BY SpeechJoined
  <1>1. <<>> \in P
    BY <1>0, SplitIs
  <1>2. ASSUME NEW u \in Text, NEW t \in Token, u \in P PROVE Append(u, t) \in P
    <2> DEFINE ps == split(u, sep)
               qs == Front(ps)
               q == Last(ps)
               qt == Append(q, t)
               vs == split(Append(u, t), sep)
    <2>1. Append(u, t) \in Text /\ len(Append(u, t)) = len(u) + Width[t[1]]
      BY LenIs, AppendProperties DEF Text
    <2>2. ps \in Seq(Text) /\ ps # <<>> /\ (ps[1] # <<>> => len(join(ps, sep)) = len(u))
      BY <1>2, SplitIs
    <2>3. /\ qs \in Seq(Text) /\ q \in Text /\ ps = Append(qs, q) /\ Len(ps) = Len(qs) + 1
          /\ Len(qs) \in Nat /\ \A i \in 1 .. Len(qs) : qs[i] = ps[i]
      BY <2>2, FrontLast, LenProperties
    <2>4. vs = IF t[1] = sep THEN Append(ps, <<>>) ELSE Append(qs, qt)
      BY SplitIs
    <2>5. qt \in Text /\ len(qt) = len(q) + Width[t[1]]
      BY <2>3, LenIs, AppendProperties DEF Text
    <2>6. Width[t[1]] \in Nat /\ Width[sep] \in Nat /\ t[1] \in Kind
      BY TokenTypes, MarkIs
    <2>7. Len(ps) = 1 => ps[1] = u
      <3> SUFFICES ASSUME Len(ps) = 1 PROVE ps[1] = u
        OBVIOUS
      <3>1. PICK a, b \in Nat : PlaceOf(u, sep, ps, 1, a, b)
        <4>1. 1 \in 1 .. Len(ps)
          OBVIOUS
        <4> QED BY <4>1, SplitPlaces
      <3>2. ps[1] = SubSeq(u, 1, Len(u))
        BY <3>1 DEF PlaceOf
      <3> QED BY <3>2, SubSeqFull DEF Text
    <2>8. len(<<>>) = 0 /\ len(u) \in Nat /\ len(q) \in Nat
      BY <2>3, LenIs
    <2>9. join(ps, sep) \in Text /\ join(qs, sep) \in Text
      BY <2>2, <2>3, JoinIs
    <2>10. len(join(ps, sep)) \in Nat /\ len(join(qs, sep)) \in Nat
      BY <2>9, LenIs
    <2>11. ps[1] # <<>> => join(ps, sep) # <<>>
      BY <2>2, LenOfJoin
    <2>12. qs # <<>> /\ qs[1] # <<>> => join(qs, sep) # <<>>
      BY <2>3, LenOfJoin
    <2> HIDE DEF ps, qs, q, qt, vs
    <2>13. ASSUME vs[1] # <<>> PROVE len(join(vs, sep)) = len(u) + Width[t[1]]
      <3>1. CASE t[1] = sep
        <4>1. vs[1] = ps[1]
          BY <1>0, <2>2, <2>3, <2>4, <3>1, AppendProperties
        <4>2. join(vs, sep) = (join(ps, sep) \o Mark(sep)) \o <<>>
          BY <1>0, <2>2, <2>4, <2>11, <2>13, <3>1, <4>1, JoinIs
        <4>3. len(join(vs, sep)) = len(join(ps, sep)) + Width[sep] + 0
          BY <1>0, <1>a, <2>8, <2>9, <4>2
        <4> QED BY <2>2, <2>6, <2>8, <2>13, <3>1, <4>1, <4>3
      <3>2. CASE t[1] # sep /\ qs = <<>>
        <4>1. ps[1] = u /\ ps = Append(<<>>, q)
          BY <2>3, <2>7, <3>2
        <4>2. q = u
          BY <2>3, <4>1
        <4>3. join(vs, sep) = qt
          BY <2>3, <2>4, <2>5, <3>2, JoinIs
        <4> QED BY <2>5, <4>2, <4>3
      <3>3. CASE t[1] # sep /\ qs # <<>>
        <4>1. Len(qs) >= 1
          BY <2>3, <3>3
        <4>2. vs[1] = qs[1] /\ ps[1] = qs[1]
          BY <2>3, <2>4, <2>5, <3>3, <4>1, AppendProperties
        <4>3. join(vs, sep) = (join(qs, sep) \o Mark(sep)) \o qt
          BY <2>3, <2>4, <2>5, <2>12, <2>13, <3>3, <4>2, JoinIs
        <4>4. join(ps, sep) = (join(qs, sep) \o Mark(sep)) \o q
          BY <2>3, <2>12, <2>13, <3>3, <4>2, JoinIs
        <4>5. len(join(vs, sep)) = len(join(qs, sep)) + Width[sep] + len(qt)
          BY <1>a, <2>5, <2>9, <4>3
        <4>6. len(join(ps, sep)) = len(join(qs, sep)) + Width[sep] + len(q)
          BY <1>a, <2>3, <2>9, <4>4
        <4>7. len(join(ps, sep)) = len(u)
          BY <2>2, <2>13, <4>2
        <4> QED BY <2>5, <2>6, <2>8, <2>10, <4>5, <4>6, <4>7
      <3> QED BY <3>1, <3>2, <3>3
    <2> QED BY <2>1, <2>13 DEF vs
  <1> HIDE DEF P
  <1>3. text \in P
    BY <1>1, <1>2, ByAppending DEF Text
  <1> QED BY <1>3 DEF P

-----------------------------------------------------------------------------
(* Paragraphs                                                              *)

\* Some numbers up to n have a greatest one.
LEMMA GreatestUpTo ==
    ASSUME NEW n \in Nat, NEW S \in SUBSET (1 .. n), S # {}
    PROVE  \E m \in S : \A i \in S : i <= m
  <1> DEFINE T == {n - i : i \in S}
  <1>1. T \in SUBSET Nat /\ T # {}
    <2>1. \A i \in S : n - i \in Nat
      OBVIOUS
    <2>2. PICK i \in S : TRUE
      OBVIOUS
    <2>3. n - i \in T
      OBVIOUS
    <2>4. T \in SUBSET Nat
      BY <2>1
    <2> QED BY <2>3, <2>4
  <1>2. PICK k \in T : \A j \in T : k <= j
    BY <1>1, LeastNatural
  <1>3. PICK m \in S : k = n - m
    OBVIOUS
  <1>4. ASSUME NEW i \in S PROVE i <= m
    <2>1. n - i \in T
      OBVIOUS
    <2>2. n - m <= n - i
      BY <1>2, <1>3, <2>1
    <2> QED BY <2>2
  <1> QED BY <1>4

\* text runs from a to b in a whole, from a token that is no break to another.
Runs(whole, text, a, b) ==
    /\ text = SubSeq(whole, a, b)
    /\ 1 <= a /\ a <= b /\ b <= Len(whole)
    /\ whole[a][1] \notin Break /\ whole[b][1] \notin Break

\* strip() loses nothing that is said, and leaves no break at either end.
LEMMA StripIs ==
    ASSUME NEW text \in Text
    PROVE  /\ strip(text) \in Text /\ Speech(strip(text)) = Speech(text)
           /\ blank(text) => strip(text) = <<>>
           /\ ~ blank(text) =>
                 \E a, b \in Nat : /\ Runs(text, strip(text), a, b)
                                   /\ \A i \in 1 .. Len(text) : i < a \/ i > b => text[i][1] \in Break
  <1> DEFINE kept == {i \in DOMAIN text : text[i][1] \notin Break}
             Lo == CHOOSE i \in kept : \A j \in kept : i <= j
             Hi == CHOOSE i \in kept : \A j \in kept : j <= i
  <1>1. strip(text) = IF kept = {} THEN <<>> ELSE SubSeq(text, Lo, Hi)
    BY DEF strip
  <1>2. kept = {} <=> blank(text)
    BY DEF blank
  <1>3. DOMAIN text = 1 .. Len(text) /\ Len(text) \in Nat
    BY LenProperties DEF Text
  <1>4. CASE blank(text)
    <2>1. strip(text) = <<>>
      BY <1>1, <1>2, <1>4
    <2>2. Speech(text) = <<>>
      BY <1>4, SpeechOfBlank
    <2>3. <<>> \in Text
      BY EmptySeq DEF Text
    <2> QED BY <1>4, <2>1, <2>2, <2>3, SpeechIs
  <1>5. CASE ~ blank(text)
    <2>1. kept # {} /\ kept \in SUBSET (1 .. Len(text)) /\ kept \in SUBSET Nat
      BY <1>2, <1>3, <1>5
    <2>2. \A i \in 1 .. Len(text) : i \notin kept => text[i][1] \in Break
      BY <1>3
    <2>3. \A i \in kept : text[i][1] \notin Break
      OBVIOUS
    <2> HIDE DEF kept
    <2>4. Lo \in kept /\ \A j \in kept : Lo <= j
      BY <2>1, LeastNatural
    <2>5. Hi \in kept /\ \A j \in kept : j <= Hi
      BY <1>3, <2>1, GreatestUpTo
    <2> HIDE DEF Lo, Hi
    <2>6. strip(text) = SubSeq(text, Lo, Hi)
      BY <1>1, <2>1
    <2>7. /\ Lo \in Nat /\ Hi \in Nat /\ 1 <= Lo /\ Lo <= Hi
          /\ Hi <= Len(text)
      BY <2>1, <2>4, <2>5
    <2>8. Runs(text, strip(text), Lo, Hi)
      BY <2>3, <2>4, <2>5, <2>6, <2>7 DEF Runs
    <2>9. \A i \in 1 .. Len(text) : i < Lo \/ i > Hi => text[i][1] \in Break
      BY <2>2, <2>4, <2>5, <2>7
    <2>10. strip(text) \in Text
      BY <2>6, <2>7, PartOf
    <2>11. Speech(strip(text)) = Speech(text)
      BY <2>6, <2>7, <2>9, SpeechOfPart
    <2> QED BY <1>5, <2>7, <2>8, <2>9, <2>10, <2>11
  <1> QED BY <1>4, <1>5

\* p is a paragraph of the whole: it holds no mark of one, and only breaks or the ends
\* of the whole are around it.
IsParagraph(whole, p) ==
    \E a, b \in Nat :
       /\ Runs(whole, p, a, b)
       /\ a = 1 \/ whole[a - 1][1] \in Break
       /\ b = Len(whole) \/ whole[b + 1][1] \in Break
       /\ \A j \in a .. b : whole[j][1] # "para"

\* What is left of a part between two marks of paragraphs is a paragraph.
LEMMA StripPart ==
    ASSUME NEW text \in Text, NEW k \in 1 .. Len(split(text, "para")),
           ~ blank(split(text, "para")[k])
    PROVE  IsParagraph(text, strip(split(text, "para")[k]))
  <1> DEFINE ps == split(text, "para")
             p == ps[k]
             s == strip(p)
  <1>1. PICK a, b \in Nat : PlaceOf(text, "para", ps, k, a, b)
    BY SplitPlaces
  <1>2. p = SubSeq(text, a, b) /\ 1 <= a /\ a <= b + 1 /\ b <= Len(text)
    BY <1>1 DEF PlaceOf
  <1>3. \A j \in a .. b : text[j][1] # "para"
    BY <1>1 DEF PlaceOf
  <1>4. (a = 1 \/ text[a - 1][1] = "para") /\ (b = Len(text) \/ text[b + 1][1] = "para")
    <2>1. IF k = 1 THEN a = 1 ELSE a > 1 /\ text[a - 1][1] = "para"
      BY <1>1 DEF PlaceOf
    <2>2. IF k = Len(ps) THEN b = Len(text) ELSE b < Len(text) /\ text[b + 1][1] = "para"
      BY <1>1 DEF PlaceOf
    <2> QED BY <2>1, <2>2
  <1> HIDE DEF p
  <1>5. /\ p \in Text /\ Len(p) = b - a + 1 /\ Len(text) \in Nat
        /\ \A i \in 1 .. (b - a + 1) : p[i] = text[a + i - 1]
    BY <1>2, PartOf
  <1>6. ~ blank(p)
    BY DEF p
  <1>7. PICK c, d \in Nat : /\ Runs(p, s, c, d)
                            /\ \A i \in 1 .. Len(p) : i < c \/ i > d => p[i][1] \in Break
    BY <1>5, <1>6, StripIs
  <1> HIDE DEF s
  <1>8. /\ s = SubSeq(p, c, d) /\ 1 <= c /\ c <= d /\ d <= Len(p)
        /\ p[c][1] \notin Break /\ p[d][1] \notin Break
    BY <1>7 DEF Runs
  <1> DEFINE x == a + c - 1
             y == a + d - 1
  <1>9. /\ x \in Nat /\ y \in Nat /\ 1 <= x /\ x <= y /\ y <= Len(text) /\ a <= x /\ y <= b
        /\ y - x = d - c
    BY <1>2, <1>5, <1>8
  <1>10. s = SubSeq(text, x, y)
    <2> DEFINE u == SubSeq(text, x, y)
    <2>1. /\ u \in Seq(Token) /\ Len(u) = y - x + 1
          /\ \A i \in 1 .. (y - x + 1) : u[i] = text[x + i - 1]
      <3> HIDE DEF x, y
      <3> QED BY <1>9, PartOf DEF Text
    <2>2. /\ s \in Seq(Token) /\ Len(s) = d - c + 1
          /\ \A i \in 1 .. (d - c + 1) : s[i] = p[c + i - 1]
      <3>1. c <= d + 1
        BY <1>8
      <3>2. /\ SubSeq(p, c, d) \in Text /\ Len(SubSeq(p, c, d)) = d - c + 1
            /\ \A i \in 1 .. (d - c + 1) : SubSeq(p, c, d)[i] = p[c + i - 1]
        BY <1>5, <1>8, <3>1, PartOf
      <3> QED BY <1>8, <3>2 DEF Text
    <2>3. ASSUME NEW i \in 1 .. (d - c + 1) PROVE s[i] = u[i]
      <3>1. c + i - 1 \in 1 .. (b - a + 1) /\ a + (c + i - 1) - 1 = x + i - 1
        BY <1>5, <1>8
      <3>2. p[c + i - 1] = text[x + i - 1]
        BY <1>5, <3>1
      <3> HIDE DEF u, x, y
      <3> QED BY <1>9, <2>1, <2>2, <3>2
    <2> HIDE DEF u, x, y
    <2>4. s = u
      BY <1>9, <2>1, <2>2, <2>3, SeqEqual
    <2> QED BY <2>4 DEF u
  <1>11. p[c] = text[x] /\ p[d] = text[y]
    BY <1>5, <1>8
  <1>12. x = 1 \/ text[x - 1][1] \in Break
    <2>1. CASE c = 1
      BY <1>4, <2>1 DEF Break
    <2>2. CASE c # 1
      <3>1. c - 1 \in 1 .. Len(p) /\ c - 1 < c /\ c - 1 \in 1 .. (b - a + 1)
            /\ a + (c - 1) - 1 = x - 1
        BY <1>5, <1>8, <2>2
      <3>2. p[c - 1][1] \in Break /\ p[c - 1] = text[x - 1]
        BY <1>5, <1>7, <3>1
      <3> QED BY <3>2
    <2> QED BY <2>1, <2>2
  <1>13. y = Len(text) \/ text[y + 1][1] \in Break
    <2>1. CASE d = Len(p)
      <3>1. y = b
        BY <1>5, <2>1
      <3> QED BY <1>4, <3>1 DEF Break
    <2>2. CASE d # Len(p)
      <3>1. d + 1 \in 1 .. Len(p) /\ d + 1 > d /\ d + 1 \in 1 .. (b - a + 1)
            /\ a + (d + 1) - 1 = y + 1
        BY <1>5, <1>8, <2>2
      <3>2. p[d + 1][1] \in Break /\ p[d + 1] = text[y + 1]
        BY <1>5, <1>7, <3>1
      <3> QED BY <3>2
    <2> QED BY <2>1, <2>2
  <1>14. \A j \in x .. y : text[j][1] # "para"
    BY <1>3, <1>9
  <1> HIDE DEF x, y
  <1>15. Runs(text, s, x, y)
    BY <1>8, <1>9, <1>10, <1>11 DEF Runs
  <1>16. IsParagraph(text, s)
    BY <1>9, <1>12, <1>13, <1>14, <1>15 DEF IsParagraph
  <1> QED BY <1>16 DEF s, p

\* The paragraphs of a text say what it says (chunker.py:48).
LEMMA ParagraphsAre ==
    ASSUME NEW text \in Text
    PROVE  /\ Paragraphs(text) \in Seq(Text) /\ Said(Paragraphs(text)) = Speech(text)
           /\ \A i \in 1 .. Len(Paragraphs(text)) :
                 Paragraphs(text)[i] # <<>> /\ IsParagraph(text, Paragraphs(text)[i])
  <1> DEFINE ps == split(text, "para")
             Y == {p \in Text : p = <<>> \/ IsParagraph(text, p)}
             f == [p \in Text |-> strip(p)]
             ss == [i \in DOMAIN ps |-> strip(ps[i])]
             X == Text \ {<<>>}
  <1>1. /\ ps \in Seq(Text) /\ Len(ps) \in Nat /\ DOMAIN ps = 1 .. Len(ps)
        /\ \A i \in 1 .. Len(ps) : ps[i] \in Text
    BY SplitIs, LenProperties, ElementOfSeq
  <1>2. Said(ps) = Speech(text)
    BY SaidSplit
  <1>3. \A i \in 1 .. Len(ps) : /\ strip(ps[i]) \in Y
                                /\ Speech(strip(ps[i])) = Speech(ps[i])
    <2> SUFFICES ASSUME NEW i \in 1 .. Len(ps)
                 PROVE  strip(ps[i]) \in Y /\ Speech(strip(ps[i])) = Speech(ps[i])
      OBVIOUS
    <2>1. /\ strip(ps[i]) \in Text /\ Speech(strip(ps[i])) = Speech(ps[i])
          /\ blank(ps[i]) => strip(ps[i]) = <<>>
      <3> HIDE DEF ps
      <3> QED BY <1>1, StripIs
    <2>2. ~ blank(ps[i]) => IsParagraph(text, strip(ps[i]))
      BY StripPart
    <2> QED BY <2>1, <2>2
  <1>4. Paragraphs(text) = Only(ss, X)
    BY DEF Paragraphs
  <1> HIDE DEF ps, Y
  <1>5. ss \in Seq(Y) /\ Len(ss) = Len(ps) /\ \A i \in 1 .. Len(ps) : ss[i] = strip(ps[i])
    BY <1>1, <1>3
  <1>6. Said(ss) = Said(ps)
    <2>1. [i \in DOMAIN ss |-> Speech(ss[i])] = [i \in DOMAIN ps |-> Speech(ps[i])]
      BY <1>1, <1>3, <1>5
    <2> QED BY <2>1 DEF Said
  <1> HIDE DEF ss
  <1>7. ss \in Seq(Text)
    BY <1>5, SeqMonotonic DEF Y
  <1>8. \A i \in 1 .. Len(ss) : ss[i] \notin X => Speech(ss[i]) = <<>>
    BY <1>7, ElementOfSeq, SpeechIs
  <1>9. Said(Only(ss, X)) = Said(ss)
    BY <1>7, <1>8, SaidOnly
  <1>10. Only(ss, X) \in Seq(Y \cap X)
    BY <1>5, OnlyKeeps
  <1>11. \A i \in 1 .. Len(Only(ss, X)) : Only(ss, X)[i] \in Y \cap X
    BY <1>10, ElementOfSeq
  <1>12. Only(ss, X) \in Seq(Text)
    BY <1>10, SeqMonotonic DEF Y
  <1> QED BY <1>2, <1>4, <1>6, <1>9, <1>11, <1>12 DEF Y

-----------------------------------------------------------------------------
(* Texts as they come to be split                                          *)

\* The title as a chunk of its own.
Heading == << <<"title", 0>> >>

\* A full stop is within a sentence, a line break comes alone, and the title is a line
\* of its own and the first.
Sound(t) ==
    /\ \A i \in 1 .. Len(t) : t[i][1] = "stop" =>
          i > 1 /\ t[i - 1][1] = "char" /\ i < Len(t) /\ t[i + 1][1] = "char"
    /\ \A i \in 1 .. Len(t) : t[i][1] = "line" /\ i < Len(t) => t[i + 1][1] \notin Break
    /\ \A i \in 1 .. Len(t) : t[i][1] = "title" =>
          t[i] = <<"title", 0>> /\ i = 1 /\ (Len(t) = 1 \/ t[2][1] = "line")

\* A text holds a token of a kind; it begins with something that is no break.
Has(t, kind) == \E i \in 1 .. Len(t) : t[i][1] = kind
Starts(t) == t[1][1] \notin Break

\* headed tells whether the title may be in it.
Plain(t, headed) ==
    /\ t \in Text /\ t # <<>> /\ Sound(t)
    /\ t[Len(t)][1] \notin Break
    /\ headed => Starts(t)
    /\ ~ headed => ~ Has(t, "title")

\* The texts that come to be split at each separator, and at none.
ForParas(headed) == {t \in Text : Plain(t, headed) /\ (headed => ~ Has(t, "para"))}
ForLines(headed) == {t \in Text : Plain(t, headed) /\ ~ Has(t, "para")}
ForStops(headed) == {t \in Text : Plain(t, headed) /\ ~ Has(t, "para") /\ ~ Has(t, "line")}
ForCuts(headed) ==
    {t \in Text : Plain(t, headed) /\ ~ Has(t, "para") /\ ~ Has(t, "line") /\ ~ Has(t, "stop")}

\* A part with no character at its edges outside it is sound.
LEMMA SoundPart ==
    ASSUME NEW t \in Text, Sound(t), NEW a \in Nat, NEW b \in Nat,
           1 <= a, a <= b, b <= Len(t),
           a = 1 \/ t[a - 1][1] # "char", b = Len(t) \/ t[b + 1][1] # "char"
    PROVE  /\ Sound(SubSeq(t, a, b)) /\ SubSeq(t, a, b) # <<>> /\ SubSeq(t, a, b) \in Text
           /\ SubSeq(t, a, b)[1] = t[a]
           /\ SubSeq(t, a, b)[Len(SubSeq(t, a, b))] = t[b]
           /\ \A kind : (\A i \in a .. b : t[i][1] # kind) => ~ Has(SubSeq(t, a, b), kind)
           /\ ~ Has(t, "title") => ~ Has(SubSeq(t, a, b), "title")
  <1> DEFINE p == SubSeq(t, a, b)
             n == b - a + 1
  <1>1. /\ p \in Text /\ Len(p) = n /\ Len(t) \in Nat
        /\ \A i \in 1 .. n : p[i] = t[a + i - 1]
    BY PartOf
  <1> HIDE DEF p
  <1>2. \A i \in 1 .. n : a + i - 1 \in 1 .. Len(t) /\ a + i - 1 \in a .. b
    BY <1>1
  <1>3. n \in Nat /\ n >= 1
    OBVIOUS
  <1>4. p[1] = t[a] /\ p[n] = t[b]
    BY <1>1, <1>3
  <1>5. p # <<>>
    BY <1>1, <1>3
  <1>6. ASSUME NEW kind, \A i \in a .. b : t[i][1] # kind PROVE ~ Has(p, kind)
    BY <1>1, <1>2, <1>6 DEF Has
  <1>7. ~ Has(t, "title") => ~ Has(p, "title")
    BY <1>1, <1>2 DEF Has
  <1>8. ASSUME NEW i \in 1 .. Len(p), p[i][1] = "stop"
        PROVE  i > 1 /\ p[i - 1][1] = "char" /\ i < Len(p) /\ p[i + 1][1] = "char"
    <2> DEFINE j == a + i - 1
    <2>1. i \in 1 .. n /\ j \in 1 .. Len(t) /\ t[j][1] = "stop"
      BY <1>1, <1>2, <1>8
    <2>2. j > 1 /\ t[j - 1][1] = "char" /\ j < Len(t) /\ t[j + 1][1] = "char"
      <3> HIDE DEF j
      <3> QED BY <2>1 DEF Sound
    <2>3. i # 1
      <3> SUFFICES ASSUME i = 1 PROVE FALSE
        OBVIOUS
      <3>1. j = a
        OBVIOUS
      <3> QED BY <2>2, <3>1
    <2>4. i # n
      <3> SUFFICES ASSUME i = n PROVE FALSE
        OBVIOUS
      <3>1. j = b
        OBVIOUS
      <3> QED BY <1>1, <2>2, <3>1
    <2>5. i - 1 \in 1 .. n /\ i + 1 \in 1 .. n /\ a + (i - 1) - 1 = j - 1 /\ a + (i + 1) - 1 = j + 1
      BY <2>1, <2>3, <2>4
    <2>6. p[i - 1] = t[j - 1] /\ p[i + 1] = t[j + 1]
      BY <1>1, <2>5
    <2> QED BY <1>1, <2>2, <2>5, <2>6
  <1>9. ASSUME NEW i \in 1 .. Len(p), p[i][1] = "line", i < Len(p)
        PROVE  p[i + 1][1] \notin Break
    <2> DEFINE j == a + i - 1
    <2>1. /\ i \in 1 .. n /\ j \in 1 .. Len(t) /\ t[j][1] = "line" /\ j < Len(t)
          /\ i + 1 \in 1 .. n /\ a + (i + 1) - 1 = j + 1
      BY <1>1, <1>2, <1>9
    <2>2. p[i + 1] = t[j + 1]
      BY <1>1, <2>1
    <2>3. t[j + 1][1] \notin Break
      <3> HIDE DEF j
      <3> QED BY <2>1 DEF Sound
    <2> QED BY <2>2, <2>3
  <1>10. ASSUME NEW i \in 1 .. Len(p), p[i][1] = "title"
         PROVE  p[i] = <<"title", 0>> /\ i = 1 /\ (Len(p) = 1 \/ p[2][1] = "line")
    <2> DEFINE j == a + i - 1
    <2>1. i \in 1 .. n /\ j \in 1 .. Len(t) /\ p[i] = t[j]
      BY <1>1, <1>2
    <2>2. t[j] = <<"title", 0>> /\ j = 1 /\ (Len(t) = 1 \/ t[2][1] = "line")
      <3> HIDE DEF j
      <3> QED BY <1>10, <2>1 DEF Sound
    <2>3. i = 1 /\ a = 1
      BY <2>1, <2>2
    <2>4. Len(p) # 1 => 2 \in 1 .. n /\ a + 2 - 1 = 2 /\ Len(t) # 1
      BY <1>1, <1>3, <2>3
    <2>5. Len(p) # 1 => p[2] = t[2]
      BY <1>1, <2>4
    <2> QED BY <2>1, <2>2, <2>3, <2>4, <2>5
  <1>11. Sound(p)
    BY <1>8, <1>9, <1>10 DEF Sound
  <1> QED BY <1>1, <1>4, <1>5, <1>6, <1>7, <1>11 DEF p

-----------------------------------------------------------------------------
(* Groups of parts                                                         *)

\* A text is not blank if a part of it is not.
LEMMA BlankConcat ==
    ASSUME NEW a \in Text, NEW b \in Text
    PROVE  /\ ~ blank(a) => ~ blank(a \o b)
           /\ ~ blank(b) => ~ blank(a \o b)
           /\ blank(<<>>)
  <1>1. /\ a \o b \in Text /\ Len(a \o b) = Len(a) + Len(b) /\ Len(a) \in Nat /\ Len(b) \in Nat
        /\ \A i \in 1 .. Len(a) + Len(b) : (a \o b)[i] =
                     IF i <= Len(a) THEN a[i] ELSE b[i - Len(a)]
        /\ DOMAIN a = 1 .. Len(a) /\ DOMAIN b = 1 .. Len(b)
    BY ConcatProperties, LenProperties DEF Text
  <1> DEFINE c == a \o b
  <1>2. DOMAIN c = 1 .. (Len(a) + Len(b))
    <2> HIDE DEF c
    <2>1. DOMAIN c = 1 .. Len(c)
      BY <1>1, LenProperties DEF Text, c
    <2> QED BY <1>1, <2>1 DEF c
  <1> HIDE DEF c
  <1>3. ASSUME blank(c), NEW i \in DOMAIN a PROVE a[i][1] \in Break
    <2>1. i \in DOMAIN c /\ c[i] = a[i]
      BY <1>1, <1>2 DEF c
    <2> QED BY <1>3, <2>1 DEF blank
  <1>4. ASSUME blank(c), NEW i \in DOMAIN b PROVE b[i][1] \in Break
    <2>1. Len(a) + i \in DOMAIN c /\ c[Len(a) + i] = b[i]
      BY <1>1, <1>2 DEF c
    <2> QED BY <1>4, <2>1 DEF blank
  <1>5. blank(<<>>)
    BY DEF blank
  <1> QED BY <1>3, <1>4, <1>5 DEF blank, c

\* The texts that are not blank.
NotBlank == {c \in Text : ~ blank(c)}

\* How many texts are not blank.
Spoken(ts) == Len(Only(ts, NotBlank))

\* The number of texts that are not blank, of none, of one more, of two sequences.
LEMMA SpokenIs ==
    /\ Spoken(<<>>) = 0
    /\ \A ts \in Seq(Text) : Spoken(ts) \in Nat
    /\ \A ts \in Seq(Text), t \in Text :
          Spoken(Append(ts, t)) = Spoken(ts) + (IF blank(t) THEN 0 ELSE 1)
    /\ \A ts \in Seq(Text), us \in Seq(Text) : Spoken(ts \o us) = Spoken(ts) + Spoken(us)
  <1>1. Spoken(<<>>) = 0
    BY OnlyEmpty, EmptySeq DEF Spoken
  <1>2. \A ts \in Seq(Text) : Only(ts, NotBlank) \in Seq(Text \cap NotBlank)
    BY OnlyKeeps
  <1>3. \A ts \in Seq(Text) : Only(ts, NotBlank) \in Seq(Text)
    BY <1>2, SeqMonotonic
  <1>4. \A ts \in Seq(Text) : Spoken(ts) \in Nat
    BY <1>3, LenProperties DEF Spoken
  <1>5. ASSUME NEW ts \in Seq(Text), NEW t \in Text
        PROVE  Spoken(Append(ts, t)) = Spoken(ts) + (IF blank(t) THEN 0 ELSE 1)
    <2>1. t \in NotBlank <=> ~ blank(t)
      BY DEF NotBlank
    <2>2. CASE blank(t)
      <3>1. Only(Append(ts, t), NotBlank) = Only(ts, NotBlank)
        BY <2>1, <2>2, OnlyAppend
      <3> QED BY <1>4, <2>2, <3>1 DEF Spoken
    <2>3. CASE ~ blank(t)
      <3>1. Only(Append(ts, t), NotBlank) = Append(Only(ts, NotBlank), t)
        BY <2>1, <2>3, OnlyAppend
      <3>2. Len(Append(Only(ts, NotBlank), t)) = Len(Only(ts, NotBlank)) + 1
        BY <1>3, AppendProperties
      <3> QED BY <2>3, <3>1, <3>2 DEF Spoken
    <2> QED BY <2>2, <2>3
  <1>6. ASSUME NEW ts \in Seq(Text), NEW us \in Seq(Text)
        PROVE  Spoken(ts \o us) = Spoken(ts) + Spoken(us)
    <2>1. Only(ts \o us, NotBlank) = Only(ts, NotBlank) \o Only(us, NotBlank)
      BY OnlyConcat
    <2> QED BY <1>3, <2>1, ConcatProperties DEF Spoken
  <1> QED BY <1>1, <1>4, <1>5, <1>6

\* A piece is no longer than a chunk may be; only the title may be.
Fits(p, headed) ==
    \/ len(p) <= MaxChars
    \/ headed /\ p = Heading

\* Pieces that say what t says, of which none is too long, the last not blank; two of them
\* speak, unless t is but the title.
WellSplit(t, pieces, headed) ==
    /\ pieces \in Seq(Text) /\ pieces # <<>>
    /\ Said(pieces) = Speech(t)
    /\ \A i \in 1 .. Len(pieces) : Fits(pieces[i], headed)
    /\ ~ blank(Last(pieces))
    /\ t = Heading => pieces = <<Heading>>
    /\ Starts(t) /\ t # Heading => Spoken(pieces) >= 2

\* What the grouping of the parts so far has come to.
Grouped(ps, g, sep, headed) ==
    /\ g \in Group
    /\ ps = <<>> => g = NoGroup
    /\ Said(g.result) \o Speech(g.current) = Said(ps)
    /\ \A i \in 1 .. Len(g.result) : Fits(g.result[i], headed)
    /\ Fits(g.current, headed)
    /\ ps # <<>> /\ Last(ps) # <<>> => ~ blank(g.current)
    /\ ps # <<>> /\ ps[1] # <<>> /\ Starts(ps[1]) =>
          \/ g.result = <<>> /\ g.current = join(ps, sep) /\ ~ blank(g.current)
          \/ Spoken(g.result) >= 1

\* Closing the group in hand loses nothing and makes no chunk too long.
LEMMA ClosedIs ==
    ASSUME NEW g \in Group, NEW headed,
           \A i \in 1 .. Len(g.result) : Fits(g.result[i], headed), Fits(g.current, headed)
    PROVE  /\ Closed(g) \in Seq(Text) /\ Said(Closed(g)) = Said(g.result) \o Speech(g.current)
           /\ \A i \in 1 .. Len(Closed(g)) : Fits(Closed(g)[i], headed)
           /\ Spoken(Closed(g)) = Spoken(g.result) + (IF blank(g.current) THEN 0 ELSE 1)
           /\ g.current # <<>> => Closed(g) = Append(g.result, g.current)
  <1>1. g.result \in Seq(Text) /\ g.current \in Text
    BY DEF Group
  <1> DEFINE r == g.result
             c == g.current
  <1>2. CASE c = <<>>
    <2>1. Closed(g) = r
      BY <1>2 DEF Closed
    <2>2. Said(r) \o <<>> = Said(r) /\ Speech(c) = <<>>
      BY <1>1, <1>2, SaidIs, SpeechIs, ConcatEmptySeq DEF Text
    <2>3. blank(c) /\ Spoken(r) \in Nat
      BY <1>1, <1>2, BlankConcat, SpokenIs
    <2>4. Spoken(r) = Spoken(r) + (IF blank(c) THEN 0 ELSE 1)
      BY <2>3
    <2>5. \A i \in 1 .. Len(r) : Fits(r[i], headed)
      OBVIOUS
    <2>6. Said(r) = Said(r) \o Speech(c)
      BY <2>2
    <2>7. r \in Seq(Text)
      BY <1>1
    <2>8. c # <<>> => Closed(g) = Append(r, c)
      BY <1>2
    <2> HIDE DEF r, c
    <2>9. /\ Closed(g) \in Seq(Text) /\ Said(Closed(g)) = Said(r) \o Speech(c)
          /\ \A i \in 1 .. Len(Closed(g)) : Fits(Closed(g)[i], headed)
          /\ Spoken(Closed(g)) = Spoken(r) + (IF blank(c) THEN 0 ELSE 1)
          /\ c # <<>> => Closed(g) = Append(r, c)
      BY <2>1, <2>4, <2>5, <2>6, <2>7, <2>8
    <2> QED BY <2>9 DEF r, c
  <1>3. CASE c # <<>>
    <2>1. Closed(g) = Append(r, c)
      BY <1>3 DEF Closed
    <2> HIDE DEF r, c
    <2>2. r \in Seq(Text) /\ c \in Text
      BY <1>1 DEF r, c
    <2>3. Said(Append(r, c)) = Said(r) \o Speech(c)
      BY <2>2, SaidIs
    <2>4. Spoken(Append(r, c)) = Spoken(r) + (IF blank(c) THEN 0 ELSE 1)
      BY <2>2, SpokenIs
    <2>5. /\ Append(r, c) \in Seq(Text) /\ Len(Append(r, c)) = Len(r) + 1 /\ Len(r) \in Nat
          /\ Append(r, c)[Len(r) + 1] = c
          /\ \A i \in 1 .. Len(r) : Append(r, c)[i] = r[i]
      BY <2>2, AppendProperties, LenProperties
    <2>6. \A i \in 1 .. Len(Append(r, c)) : Fits(Append(r, c)[i], headed)
      BY <2>5 DEF r, c
    <2> QED BY <2>1, <2>3, <2>4, <2>5, <2>6 DEF r, c
  <1> QED BY <1>2, <1>3

\* A text that ends with something said is not blank.
LEMMA PlainNotBlank ==
    ASSUME NEW headed, NEW t, Plain(t, headed)
    PROVE  t \in Text /\ t # <<>> /\ ~ blank(t)
  <1>1. t \in Text /\ t # <<>> /\ t[Len(t)][1] \notin Break
    BY DEF Plain
  <1>2. Len(t) \in DOMAIN t
    BY <1>1, LenProperties, EmptySeq DEF Text
  <1> QED BY <1>1, <1>2 DEF blank

\* One part more leaves the parts grouped: it goes on in the group in hand, begins one,
\* or is split itself, and its last piece goes on (chunker.py:319-333).
LEMMA GroupStep ==
    ASSUME NEW sep \in Kind, sep # "char", NEW headed, NEW finer,
           NEW ps \in Seq(Text), NEW p \in Text, NEW g, Grouped(ps, g, sep, headed),
           p = <<>> \/ Plain(p, headed),
           p # <<>> /\ len(p) > MaxChars => WellSplit(p, finer[p], headed)
    PROVE  Grouped(Append(ps, p), Add(g, p, sep, finer), sep, headed)
  <1> DEFINE qs == Append(ps, p)
             h == Add(g, p, sep, finer)
             cand == Candidate(g, p, sep)
  <1>1. /\ qs \in Seq(Text) /\ qs # <<>> /\ Last(qs) = p /\ Len(ps) \in Nat
        /\ ps = <<>> => qs[1] = p
        /\ ps # <<>> => qs[1] = ps[1]
    <2>1. qs \in Seq(Text) /\ qs # <<>> /\ Len(qs) = Len(ps) + 1 /\ Len(ps) \in Nat
          /\ qs[Len(ps) + 1] = p /\ \A i \in 1 .. Len(ps) : qs[i] = ps[i]
      BY AppendProperties, LenProperties
    <2>2. ps = <<>> => Len(ps) = 0
      OBVIOUS
    <2>3. ps # <<>> => 1 \in 1 .. Len(ps)
      OBVIOUS
    <2> HIDE DEF qs
    <2> QED BY <2>1, <2>2, <2>3 DEF Last
  <1>2. /\ g \in Group /\ g.result \in Seq(Text) /\ g.current \in Text
        /\ Said(g.result) \o Speech(g.current) = Said(ps)
        /\ \A i \in 1 .. Len(g.result) : Fits(g.result[i], headed)
        /\ Fits(g.current, headed)
    BY DEF Grouped, Group
  <1>3. ps = <<>> => g = NoGroup
    BY DEF Grouped
  <1>4. ps # <<>> /\ ps[1] # <<>> /\ Starts(ps[1]) =>
          \/ g.result = <<>> /\ g.current = join(ps, sep) /\ ~ blank(g.current)
          \/ Spoken(g.result) >= 1
    BY DEF Grouped
  <1>5. p # <<>> => ~ blank(p)
    BY PlainNotBlank
  <1>6. Said(qs) = Said(ps) \o Speech(p)
    BY SaidIs
  <1>7. /\ Said(g.result) \in Seq(Token) /\ Speech(g.current) \in Seq(Token)
        /\ Speech(p) \in Seq(Token) /\ Said(ps) \in Seq(Token)
    BY <1>2, SaidIs, SpeechIs DEF Text
  <1>8. join(qs, sep) = IF join(ps, sep) = <<>> THEN p ELSE (join(ps, sep) \o Mark(sep)) \o p
    BY JoinIs
  <1>9. cand = IF g.current = <<>> THEN p ELSE (g.current \o Mark(sep)) \o p
    BY DEF Candidate, Mark
  <1>10. /\ cand \in Text /\ Speech(cand) = Speech(g.current) \o Speech(p)
         /\ p # <<>> => ~ blank(cand)
         /\ ~ blank(g.current) => ~ blank(cand)
    <2>1. CASE g.current = <<>>
      <3>1. Speech(g.current) = <<>> /\ <<>> \o Speech(p) = Speech(p)
        BY <1>7, <2>1, SpeechIs, ConcatEmptySeq
      <3>2. blank(g.current)
        BY <1>2, <2>1, BlankConcat
      <3> QED BY <1>5, <1>9, <2>1, <3>1, <3>2
    <2>2. CASE g.current # <<>>
      <3> DEFINE c == g.current
                 cm == c \o Mark(sep)
      <3>1. c \in Text /\ Mark(sep) \in Text
        BY <1>2, MarkIs
      <3>2. Speech(cm \o p) = Speech(c) \o Speech(p) /\ cm \o p \in Text
        <4> HIDE DEF c
        <4> QED BY <3>1, SpeechJoined
      <3>3. cm \in Text /\ (~ blank(c) => ~ blank(cm))
        <4> HIDE DEF c
        <4> QED BY <3>1, BlankConcat, ConcatProperties DEF Text
      <3>4. (~ blank(cm) => ~ blank(cm \o p)) /\ (~ blank(p) => ~ blank(cm \o p))
        <4> HIDE DEF cm
        <4> QED BY <3>3, BlankConcat
      <3>5. cand = cm \o p
        BY <1>9, <2>2
      <3> QED BY <1>5, <3>2, <3>3, <3>4, <3>5
    <2> QED BY <2>1, <2>2
  <1>11. MaxChars \in Nat /\ MaxChars >= 1 /\ len(cand) \in Nat /\ len(p) \in Nat /\ len(<<>>) = 0
    BY <1>10, ChunkerAssumption, LenIs
  <1>12. /\ Closed(g) \in Seq(Text) /\ Said(Closed(g)) = Said(ps)
         /\ \A i \in 1 .. Len(Closed(g)) : Fits(Closed(g)[i], headed)
         /\ Spoken(Closed(g)) = Spoken(g.result) + (IF blank(g.current) THEN 0 ELSE 1)
    BY <1>2, ClosedIs
  <1>13. Spoken(g.result) \in Nat
    BY <1>2, SpokenIs
  <1>14. ps # <<>> /\ ps[1] # <<>> /\ Starts(ps[1]) => Spoken(Closed(g)) >= 1
    BY <1>4, <1>12, <1>13
  <1>15. ps = <<>> => cand = p /\ Closed(g) = <<>> /\ Said(ps) = <<>> /\ join(ps, sep) = <<>>
    BY <1>3, <1>9, SaidIs, JoinIs DEF NoGroup, Closed
  <1>16. CASE len(cand) <= MaxChars
    <2>1. h = [g EXCEPT !.current = cand]
      BY <1>16 DEF Add
    <2>2. h.result = g.result /\ h.current = cand /\ h \in Group
      BY <1>2, <1>10, <2>1 DEF Group
    <2>3. Said(g.result) \o Speech(cand) = Said(qs)
      <3>1. Said(g.result) \o (Speech(g.current) \o Speech(p))
              = (Said(g.result) \o Speech(g.current)) \o Speech(p)
        BY <1>7, ConcatAssociative
      <3> QED BY <1>2, <1>6, <1>10, <3>1
    <2>4. Fits(cand, headed)
      BY <1>16 DEF Fits
    <2>5. ASSUME qs[1] # <<>>, Starts(qs[1])
          PROVE  \/ g.result = <<>> /\ cand = join(qs, sep) /\ ~ blank(cand)
                 \/ Spoken(g.result) >= 1
      <3>1. CASE ps = <<>>
        <4>1. g.result = <<>> /\ cand = p /\ join(qs, sep) = p /\ ~ blank(p)
          BY <1>1, <1>3, <1>5, <1>8, <1>15, <2>5, <3>1 DEF NoGroup
        <4> QED BY <4>1
      <3>2. CASE ps # <<>>
        <4>1. \/ g.result = <<>> /\ g.current = join(ps, sep) /\ ~ blank(g.current)
              \/ Spoken(g.result) >= 1
          BY <1>1, <1>4, <2>5, <3>2
        <4>2. ASSUME g.current = join(ps, sep), ~ blank(g.current)
              PROVE  cand = join(qs, sep) /\ ~ blank(cand)
          <5>1. g.current # <<>>
            BY <4>2, BlankConcat, <1>2
          <5> QED BY <1>8, <1>9, <1>10, <4>2, <5>1
        <4> QED BY <4>1, <4>2
      <3> QED BY <3>1, <3>2
    <2> HIDE DEF qs, h, cand
    <2>6. Grouped(qs, h, sep, headed)
      BY <1>1, <1>2, <1>10, <2>2, <2>3, <2>4, <2>5 DEF Grouped
    <2> QED BY <2>6 DEF qs, h
  <1>17. CASE len(cand) > MaxChars /\ len(p) <= MaxChars
    <2>1. h = [result |-> Closed(g), current |-> p]
      BY <1>11, <1>17 DEF Add
    <2>2. h.result = Closed(g) /\ h.current = p /\ h \in Group
      BY <1>12, <2>1 DEF Group
    <2>3. Fits(p, headed)
      BY <1>17 DEF Fits
    <2>4. ps # <<>>
      BY <1>11, <1>15, <1>17
    <2>5. qs[1] # <<>> /\ Starts(qs[1]) => Spoken(Closed(g)) >= 1
      BY <1>1, <1>14, <2>4
    <2> HIDE DEF qs, h, cand
    <2>6. Grouped(qs, h, sep, headed)
      BY <1>1, <1>5, <1>6, <1>12, <2>2, <2>3, <2>4, <2>5 DEF Grouped
    <2> QED BY <2>6 DEF qs, h
  <1>18. CASE len(cand) > MaxChars /\ len(p) > MaxChars
    <2> DEFINE w == finer[p]
               fr == Front(w)
               la == Last(w)
               cl == Closed(g)
    <2>1. p # <<>> /\ WellSplit(p, w, headed)
      BY <1>11, <1>18
    <2> HIDE DEF w
    <2>2. /\ w \in Seq(Text) /\ w # <<>> /\ Said(w) = Speech(p) /\ ~ blank(la)
          /\ \A i \in 1 .. Len(w) : Fits(w[i], headed)
          /\ p = Heading => w = <<Heading>>
          /\ Starts(p) /\ p # Heading => Spoken(w) >= 2
      BY <2>1 DEF WellSplit
    <2>3. h = [result |-> cl \o fr, current |-> la]
      BY <1>11, <1>18, <2>2 DEF Add, w
    <2>4. /\ fr \in Seq(Text) /\ la \in Text /\ Append(fr, la) = w /\ Len(w) = Len(fr) + 1
          /\ \A i \in 1 .. Len(fr) : fr[i] = w[i]
          /\ Len(fr) \in Nat /\ la = w[Len(w)]
      BY <2>2, FrontLast, LenProperties DEF Last
    <2> HIDE DEF fr, la
    <2>5. /\ cl \o fr \in Seq(Text) /\ Len(cl \o fr) = Len(cl) + Len(fr) /\ Len(cl) \in Nat
          /\ \A i \in 1 .. Len(cl) + Len(fr) :
                (cl \o fr)[i] = IF i <= Len(cl) THEN cl[i] ELSE fr[i - Len(cl)]
      BY <1>12, <2>4, ConcatProperties, LenProperties
    <2>6. h.result = cl \o fr /\ h.current = la /\ h \in Group
      BY <2>3, <2>4, <2>5 DEF Group
    <2>7. Said(cl \o fr) \o Speech(la) = Said(qs)
      <3>1. Said(cl \o fr) = Said(cl) \o Said(fr)
        BY <1>12, <2>4, SaidConcat
      <3>2. Said(w) = Said(fr) \o Speech(la)
        BY <2>4, SaidIs
      <3>3. Said(cl) \in Seq(Token) /\ Said(fr) \in Seq(Token) /\ Speech(la) \in Seq(Token)
        BY <1>12, <2>4, SaidIs, SpeechIs DEF Text
      <3>4. (Said(cl) \o Said(fr)) \o Speech(la) = Said(cl) \o (Said(fr) \o Speech(la))
        BY <3>3, ConcatAssociative
      <3> QED BY <1>6, <1>12, <2>2, <3>1, <3>2, <3>4
    <2>8. \A i \in 1 .. Len(cl \o fr) : Fits((cl \o fr)[i], headed)
      <3> SUFFICES ASSUME NEW i \in 1 .. Len(cl) + Len(fr) PROVE Fits((cl \o fr)[i], headed)
        BY <2>5
      <3>1. CASE i <= Len(cl)
        BY <1>12, <2>5, <3>1
      <3>2. CASE i > Len(cl)
        <4>1. i - Len(cl) \in 1 .. Len(fr)
          BY <2>4, <2>5, <3>2
        <4>2. Fits(fr[i - Len(cl)], headed)
          BY <2>2, <2>4, <4>1
        <4> QED BY <2>5, <3>2, <4>2
      <3> QED BY <2>5, <3>1, <3>2
    <2>9. Fits(la, headed)
      BY <2>2, <2>4
    <2>10. Spoken(cl \o fr) = Spoken(cl) + Spoken(fr) /\ Spoken(cl) \in Nat /\ Spoken(fr) \in Nat
      BY <1>12, <2>4, SpokenIs
    <2>11. Spoken(w) = Spoken(fr) + 1
      BY <2>2, <2>4, SpokenIs
    <2>12. ASSUME qs[1] # <<>>, Starts(qs[1])
           PROVE  \/ cl \o fr = <<>> /\ la = join(qs, sep) /\ ~ blank(la)
                  \/ Spoken(cl \o fr) >= 1
      <3>1. CASE ps # <<>>
        BY <1>1, <1>14, <2>10, <2>12, <3>1
      <3>2. CASE ps = <<>> /\ p # Heading
        <4>1. Spoken(w) >= 2
          BY <1>1, <2>2, <2>12, <3>2
        <4> QED BY <2>10, <2>11, <4>1
      <3>3. CASE ps = <<>> /\ p = Heading
        <4>1. w = <<p>> /\ cl = <<>> /\ join(qs, sep) = p
          BY <1>8, <1>15, <2>2, <3>3
        <4>2. Len(w) = 1 /\ w[1] = p
          BY <4>1
        <4>3. la = p /\ fr = <<>>
          BY <2>4, <4>2
        <4>4. cl \o fr = <<>>
          BY <4>1, <4>3
        <4> QED BY <2>2, <4>1, <4>3, <4>4
      <3> QED BY <3>1, <3>2, <3>3
    <2> HIDE DEF qs, h, cand, cl
    <2>13. Grouped(qs, h, sep, headed)
      BY <1>1, <2>2, <2>6, <2>7, <2>8, <2>9, <2>12 DEF Grouped
    <2> QED BY <2>13 DEF qs, h
  <1> QED BY <1>11, <1>16, <1>17, <1>18

\* What is joined is no shorter than there are parts.
LEMMA JoinKeepsParts ==
    ASSUME NEW sep \in Kind, sep # "char", NEW ps \in Seq(Text), ps # <<>>, ps[1] # <<>>
    PROVE  Len(join(ps, sep)) >= Len(ps)
  <1> DEFINE P == {qs \in Seq(Text) : qs # <<>> /\ qs[1] # <<>> =>
                                         Len(join(qs, sep)) >= Len(qs)}
  <1>1. <<>> \in P
    BY EmptySeq
  <1>2. ASSUME NEW qs \in Seq(Text), NEW p \in Text, qs \in P PROVE Append(qs, p) \in P
    <2> DEFINE a == Append(qs, p)
               j == join(qs, sep)
    <2>1. /\ a \in Seq(Text) /\ Len(a) = Len(qs) + 1 /\ Len(qs) \in Nat
          /\ a[Len(qs) + 1] = p /\ \A i \in 1 .. Len(qs) : a[i] = qs[i]
      BY AppendProperties, LenProperties
    <2>2. j \in Text /\ Len(j) \in Nat /\ Len(p) \in Nat
      BY JoinIs, LenProperties DEF Text
    <2>3. join(a, sep) = IF j = <<>> THEN p ELSE (j \o Mark(sep)) \o p
      BY JoinIs
    <2> HIDE DEF a
    <2>4. ASSUME a[1] # <<>> PROVE Len(join(a, sep)) >= Len(a)
      <3>1. CASE qs = <<>>
        <4>1. Len(qs) = 0 /\ j = <<>>
          BY <3>1, JoinIs
        <4>2. p # <<>> /\ join(a, sep) = p
          BY <2>1, <2>3, <2>4, <4>1
        <4>3. Len(p) >= 1
          BY <2>2, <4>2, EmptySeq DEF Text
        <4> QED BY <2>1, <4>1, <4>2, <4>3
      <3>2. CASE qs # <<>>
        <4>1. qs[1] # <<>>
          <5>1. 1 \in 1 .. Len(qs)
            BY <2>1, <3>2, EmptySeq
          <5> QED BY <2>1, <2>4, <5>1
        <4>2. Len(j) >= Len(qs) /\ j # <<>>
          BY <1>2, <3>2, <4>1, LenOfJoin
        <4>3. Mark(sep) \in Text /\ Len(Mark(sep)) = 1
          BY MarkIs
        <4> HIDE DEF j
        <4> DEFINE m == Mark(sep)
                   jm == j \o Mark(sep)
        <4>4. jm \in Text /\ Len(jm) = Len(j) + 1
          <5>1. m \in Seq(Token) /\ Len(m) = 1 /\ j \in Seq(Token)
            BY <2>2, <4>3 DEF Text
          <5> HIDE DEF m
          <5>2. j \o m \in Seq(Token) /\ Len(j \o m) = Len(j) + Len(m)
            BY <5>1, ConcatProperties
          <5> QED BY <5>1, <5>2 DEF Text, m
        <4> HIDE DEF jm
        <4>5. Len(jm \o p) = Len(jm) + Len(p)
          BY <4>4, ConcatProperties DEF Text
        <4>6. join(a, sep) = jm \o p
          BY <2>3, <4>2 DEF jm
        <4> QED BY <2>1, <2>2, <4>2, <4>4, <4>5, <4>6
      <3> QED BY <3>1, <3>2
    <2>5. a \in P
      BY <2>1, <2>4
    <2> QED BY <2>5 DEF a
  <1> HIDE DEF P
  <1>3. ps \in P
    BY <1>1, <1>2, ByAppending
  <1> QED BY <1>3 DEF P

\* Grouping the parts leaves them grouped, whatever comes of the ones that are too long.
LEMMA GroupingIs ==
    ASSUME NEW sep \in Kind, sep # "char", NEW headed, NEW finer, NEW ps \in Seq(Text),
           \A i \in 1 .. Len(ps) : ps[i] = <<>> \/ Plain(ps[i], headed),
           \A i \in 1 .. Len(ps) : ps[i] # <<>> /\ len(ps[i]) > MaxChars =>
                                      WellSplit(ps[i], finer[ps[i]], headed)
    PROVE  \E g : /\ Grouped(ps, g, sep, headed)
                  /\ _group_parts(ps, sep, finer)
                       = IF blank(g.current) THEN g.result ELSE Closed(g)
  <1> DEFINE step == [g \in Group |-> [part \in Text |-> Add(g, part, sep, finer)]]
             F == {p \in Text : /\ p = <<>> \/ Plain(p, headed)
                                /\ p # <<>> /\ len(p) > MaxChars =>
                                      WellSplit(p, finer[p], headed)}
             P == {qs \in Seq(F) : Grouped(qs, Fold(step, NoGroup, qs), sep, headed)}
  <1>1. _group_parts(ps, sep, finer)
          = LET g == Fold(step, NoGroup, ps) IN IF blank(g.current) THEN g.result ELSE Closed(g)
    BY DEF _group_parts
  <1>2. \A g \in Group, p \in Text : step[g][p] = Add(g, p, sep, finer)
    OBVIOUS
  <1>3. ps \in Seq(F)
    <2>1. \A i \in 1 .. Len(ps) : ps[i] \in F
      BY ElementOfSeq
    <2> HIDE DEF F
    <2> QED BY <2>1
  <1> HIDE DEF step
  <1>4. <<>> \in P
    <2>1. Fold(step, NoGroup, <<>>) = NoGroup
      BY FoldEmpty
    <2>2. NoGroup \in Group /\ NoGroup.result = <<>> /\ NoGroup.current = <<>>
      <3>1. <<>> \in Seq(Text) /\ <<>> \in Text
        BY EmptySeq DEF Text
      <3> QED BY <3>1 DEF NoGroup, Group
    <2>3. Said(<<>>) = <<>> /\ Speech(<<>>) = <<>> /\ <<>> \o <<>> = <<>>
      BY SaidIs, SpeechIs
    <2>4. Fits(<<>>, headed)
      BY LenIs, ChunkerAssumption DEF Fits
    <2>5. 1 .. Len(<<>>) = {}
      OBVIOUS
    <2>6. Grouped(<<>>, NoGroup, sep, headed)
      <3> DEFINE e == <<>>
      <3>1. /\ Said(e) \o Speech(e) = Said(e) /\ Fits(e, headed) /\ 1 .. Len(e) = {}
            /\ NoGroup.result = e /\ NoGroup.current = e
        BY <2>2, <2>3, <2>4, <2>5
      <3>2. ~ (e # <<>>)
        OBVIOUS
      <3> HIDE DEF e
      <3>3. Grouped(e, NoGroup, sep, headed)
        BY <2>2, <3>1, <3>2 DEF Grouped
      <3> QED BY <3>3 DEF e
    <2> QED BY <2>1, <2>6, EmptySeq
  <1>5. ASSUME NEW qs \in Seq(F), NEW p \in F, qs \in P PROVE Append(qs, p) \in P
    <2> DEFINE g == Fold(step, NoGroup, qs)
    <2>1. Grouped(qs, g, sep, headed)
      BY <1>5
    <2>2. qs \in Seq(Text) /\ p \in Text /\ (p = <<>> \/ Plain(p, headed))
          /\ (p # <<>> /\ len(p) > MaxChars => WellSplit(p, finer[p], headed))
      <3>1. F \subseteq Text
        OBVIOUS
      <3> QED BY <3>1, SeqMonotonic
    <2>3. Fold(step, NoGroup, Append(qs, p)) = step[g][p]
      <3> HIDE DEF F
      <3> QED BY FoldAppend
    <2> HIDE DEF g
    <2>4. g \in Group
      BY <2>1 DEF Grouped
    <2>5. Grouped(Append(qs, p), Add(g, p, sep, finer), sep, headed)
      BY <2>1, <2>2, GroupStep
    <2>6. Append(qs, p) \in Seq(F)
      <3> HIDE DEF F
      <3> QED BY AppendProperties
    <2> QED BY <1>2, <2>2, <2>3, <2>4, <2>5, <2>6
  <1> HIDE DEF P, F
  <1>6. ps \in P
    BY <1>3, <1>4, <1>5, ByAppending
  <1> QED BY <1>1, <1>6 DEF P

\* How SplitAt splits, when the finer separators split well what it leaves to them.
LEMMA SplitsWell ==
    ASSUME NEW sep \in {"para", "line", "stop"}, NEW headed, NEW finer, NEW F,
           \A p \in F : /\ Plain(p, headed)
                        /\ len(p) > MaxChars => WellSplit(p, finer[p], headed),
           NEW t \in Text, Plain(t, headed), len(t) > MaxChars,
           \A i \in 1 .. Len(split(t, sep)) : split(t, sep)[i] = <<>> \/ split(t, sep)[i] \in F,
           Last(split(t, sep)) # <<>>,
           Starts(t) => split(t, sep)[1] # <<>> /\ Starts(split(t, sep)[1])
    PROVE  WellSplit(t, SplitAt(sep, finer)[t], headed)
  <1> DEFINE parts == split(t, sep)
             grouped == _group_parts(parts, sep, finer)
             whole == SplitAt(sep, finer)[t]
  <1>1. sep \in Kind /\ sep # "char" /\ sep # "title"
    BY DEF Kind
  <1>2. parts \in Seq(Text) /\ parts # <<>> /\ Len(parts) \in Nat /\ Len(parts) >= 1
    BY SplitIs, LenProperties, EmptySeq
  <1>3. len(t) \in Nat /\ MaxChars \in Nat /\ ~ (len(t) <= MaxChars)
    BY LenIs, ChunkerAssumption
  <1>4. whole = IF Len(parts) > 1 /\ Fitting(grouped) THEN grouped ELSE finer[t]
    <2> HIDE DEF grouped
    <2> QED BY <1>3 DEF SplitAt, grouped
  <1>5. t # <<>> /\ (headed => Starts(t))
    BY DEF Plain
  <1>6. CASE Len(parts) = 1
    <2>1. PICK a, b \in Nat : PlaceOf(t, sep, parts, 1, a, b)
      BY <1>2, SplitPlaces
    <2>2. parts[1] = SubSeq(t, 1, Len(t))
      BY <1>6, <2>1 DEF PlaceOf
    <2>3. SubSeq(t, 1, Len(t)) = t
      BY DEF Text
    <2>4. t \in F
      BY <1>2, <1>5, <2>2, <2>3
    <2> QED BY <1>3, <1>4, <1>6, <2>4
  <1>7. CASE Len(parts) > 1
    <2>1. PICK a, b \in Nat : PlaceOf(t, sep, parts, 1, a, b)
      BY <1>2, SplitPlaces
    <2>2. b < Len(t) /\ t[b + 1][1] = sep
      BY <1>7, <2>1 DEF PlaceOf
    <2>3. t # Heading
      <3> SUFFICES ASSUME t = Heading PROVE FALSE
        OBVIOUS
      <3>1. Len(t) = 1 /\ t[1][1] = "title"
        BY DEF Heading
      <3> QED BY <1>1, <2>2, <3>1
    <2>4. \A i \in 1 .. Len(parts) : parts[i] = <<>> \/ Plain(parts[i], headed)
      OBVIOUS
    <2>5. \A i \in 1 .. Len(parts) : parts[i] # <<>> /\ len(parts[i]) > MaxChars =>
                                       WellSplit(parts[i], finer[parts[i]], headed)
      OBVIOUS
    <2>6. PICK g : /\ Grouped(parts, g, sep, headed)
                   /\ grouped = IF blank(g.current) THEN g.result ELSE Closed(g)
      <3> HIDE DEF parts
      <3> QED BY <1>1, <1>2, <2>4, <2>5, GroupingIs
    <2>7. Said(parts) = Speech(t)
      BY <1>1, SaidSplit
    <2>8. Starts(t) => len(join(parts, sep)) = len(t) /\ Len(join(parts, sep)) >= 2
      <3> SUFFICES ASSUME Starts(t) PROVE len(join(parts, sep)) = len(t) /\ Len(join(parts, sep)) >= 2
        OBVIOUS
      <3>1. parts[1] # <<>>
        OBVIOUS
      <3>2. len(join(parts, sep)) = len(t)
        BY <1>1, <3>1, JoinOfSplit
      <3>3. Len(join(parts, sep)) >= Len(parts)
        <4> HIDE DEF parts
        <4> QED BY <1>1, <1>2, <3>1, JoinKeepsParts
      <3>4. Len(join(parts, sep)) \in Nat
        <4> HIDE DEF parts
        <4> QED BY <1>1, <1>2, JoinIs, LenProperties DEF Text
      <3> QED BY <1>2, <1>7, <3>2, <3>3, <3>4
    <2>9. Starts(t) => parts[1] # <<>> /\ Starts(parts[1])
      OBVIOUS
    <2>10. Last(parts) # <<>>
      OBVIOUS
    <2> HIDE DEF parts, grouped
    <2>11. /\ g \in Group /\ Said(g.result) \o Speech(g.current) = Said(parts)
           /\ \A i \in 1 .. Len(g.result) : Fits(g.result[i], headed)
           /\ Fits(g.current, headed)
      BY <2>6 DEF Grouped
    <2>12. ~ blank(g.current)
      BY <1>2, <2>6, <2>10 DEF Grouped
    <2>13. Starts(t) => \/ g.result = <<>> /\ g.current = join(parts, sep)
                        \/ Spoken(g.result) >= 1
      BY <1>2, <2>6, <2>9 DEF Grouped
    <2>14. g.result \in Seq(Text) /\ g.current \in Text /\ g.current # <<>>
      BY <2>11, <2>12, BlankConcat DEF Group
    <2>15. /\ grouped = Append(g.result, g.current)
           /\ grouped \in Seq(Text) /\ Said(grouped) = Speech(t)
           /\ \A i \in 1 .. Len(grouped) : Fits(grouped[i], headed)
           /\ Spoken(grouped) = Spoken(g.result) + 1
      <3>1. /\ Closed(g) \in Seq(Text) /\ Said(Closed(g)) = Said(g.result) \o Speech(g.current)
            /\ \A i \in 1 .. Len(Closed(g)) : Fits(Closed(g)[i], headed)
            /\ Spoken(Closed(g)) = Spoken(g.result) + (IF blank(g.current) THEN 0 ELSE 1)
            /\ g.current # <<>> => Closed(g) = Append(g.result, g.current)
        BY <2>11, ClosedIs
      <3>2. grouped = Closed(g)
        BY <2>6, <2>12
      <3> QED BY <2>7, <2>11, <2>12, <2>14, <3>1, <3>2
    <2>16. /\ Len(grouped) = Len(g.result) + 1 /\ Len(g.result) \in Nat
           /\ grouped[Len(g.result) + 1] = g.current /\ Last(grouped) = g.current
           /\ grouped # <<>>
      <3>1. /\ Len(grouped) = Len(g.result) + 1 /\ Len(g.result) \in Nat
            /\ grouped[Len(g.result) + 1] = g.current
        BY <2>14, <2>15, AppendProperties, LenProperties
      <3> QED BY <3>1 DEF Last
    <2>17. Starts(t) => \/ Spoken(grouped) >= 2
                        \/ g.result = <<>> /\ g.current = join(parts, sep)
      <3>1. Spoken(g.result) \in Nat
        BY <2>14, SpokenIs
      <3>2. Spoken(g.result) >= 1 => Spoken(grouped) >= 2
        BY <2>15, <3>1
      <3> QED BY <2>13, <3>2
    <2>18. Fitting(grouped)
      <3> SUFFICES ASSUME ~ Fitting(grouped) PROVE FALSE
        OBVIOUS
      <3>1. Len(grouped) = 1 /\ ~ (len(grouped[1]) <= MaxChars)
        BY <2>16 DEF Fitting
      <3>2. grouped[1] = g.current /\ g.result = <<>>
        <4>1. PICK m \in Nat : m = Len(g.result)
          BY <2>16
        <4>2. m + 1 = 1
          BY <2>16, <3>1, <4>1
        <4>3. m = 0
          BY <4>2
        <4>4. Len(g.result) = 0 /\ m + 1 = 1
          BY <4>1, <4>3
        <4> QED BY <2>14, <2>16, <4>1, <4>4, EmptySeq
      <3>3. headed /\ g.current = Heading
        BY <2>11, <3>1, <3>2 DEF Fits
      <3>4. ~ (Spoken(g.result) >= 1)
        BY <3>2, SpokenIs
      <3>5. Heading = join(parts, sep) /\ Len(join(parts, sep)) >= 2
        BY <1>5, <2>8, <2>13, <3>3, <3>4
      <3>6. Len(Heading) = 1
        BY DEF Heading
      <3>7. ~ (1 >= 2)
        OBVIOUS
      <3> QED BY <3>5, <3>6, <3>7
    <2>19. Starts(t) => Spoken(grouped) >= 2
      <3> SUFFICES ASSUME Starts(t), g.result = <<>>, g.current = join(parts, sep) PROVE FALSE
        BY <2>17
      <3>1. Len(grouped) = 1 /\ grouped[1] = g.current
        BY <2>16
      <3>2. len(g.current) <= MaxChars
        BY <2>18, <3>1 DEF Fitting
      <3> QED BY <1>3, <2>8, <3>2
    <2>20. WellSplit(t, grouped, headed)
      BY <2>3, <2>12, <2>15, <2>16, <2>19 DEF WellSplit
    <2> QED BY <1>4, <1>7, <2>18, <2>20
  <1>8. Len(parts) = 1 \/ Len(parts) > 1
    <2> HIDE DEF parts
    <2> QED BY <1>2
  <1> QED BY <1>6, <1>7, <1>8

-----------------------------------------------------------------------------
(* Every cut                                                               *)

\* The parts of a text that is cut at a separator, the coarser ones being cut before.
LEMMA PartsArePlain ==
    ASSUME NEW sep \in {"para", "line", "stop"}, NEW headed, NEW t \in Text, Plain(t, headed),
           headed => ~ Has(t, "para"),
           sep \in {"line", "stop"} => ~ Has(t, "para"),
           sep = "stop" => ~ Has(t, "line")
    PROVE  /\ \A i \in 1 .. Len(split(t, sep)) :
                 \/ split(t, sep)[i] = <<>>
                 \/ /\ split(t, sep)[i] \in Text
                    /\ Plain(split(t, sep)[i], headed)
                    /\ ~ Has(split(t, sep)[i], sep)
                    /\ \A kind : ~ Has(t, kind) => ~ Has(split(t, sep)[i], kind)
           /\ Last(split(t, sep)) # <<>>
           /\ Starts(t) => split(t, sep)[1] # <<>> /\ Starts(split(t, sep)[1])
  <1> DEFINE parts == split(t, sep)
  <1>1. parts \in Seq(Text) /\ parts # <<>> /\ Len(parts) \in Nat /\ Len(parts) >= 1
    <2>1. parts \in Seq(Text) /\ parts # <<>>
      BY SplitIs
    <2> HIDE DEF parts
    <2> QED BY <2>1, EmptySeq
  <1>2. /\ t # <<>> /\ Sound(t) /\ t[Len(t)][1] \notin Break
        /\ headed => Starts(t)
        /\ ~ headed => ~ Has(t, "title")
    BY DEF Plain
  <1>3. Len(t) \in Nat /\ Len(t) >= 1
    BY <1>2, LenProperties, EmptySeq DEF Text
  <1>4. \A k \in 1 .. Len(parts) : \E a, b \in Nat : PlaceOf(t, sep, parts, k, a, b)
    BY SplitPlaces
  <1>5. \A kind : \A i \in 1 .. Len(t) : ~ Has(t, kind) => t[i][1] # kind
    BY DEF Has
  <1> HIDE DEF parts
  <1>6. ASSUME NEW k \in 1 .. Len(parts), NEW a \in Nat, NEW b \in Nat,
               PlaceOf(t, sep, parts, k, a, b)
        PROVE  /\ parts[k] = SubSeq(t, a, b) /\ a >= 1 /\ a <= b + 1 /\ b <= Len(t)
               /\ (k = 1 /\ a = 1) \/ (k # 1 /\ a > 1 /\ t[a - 1][1] = sep)
               /\ (k = Len(parts) /\ b = Len(t))
                    \/ (k # Len(parts) /\ b < Len(t) /\ t[b + 1][1] = sep)
               /\ \A i \in a .. b : t[i][1] # sep
    <2>1. parts[k] = SubSeq(t, a, b) /\ a >= 1 /\ a <= b + 1 /\ b <= Len(t)
      BY <1>6 DEF PlaceOf
    <2>2. IF k = 1 THEN a = 1 ELSE a > 1 /\ t[a - 1][1] = sep
      BY <1>6 DEF PlaceOf
    <2>3. IF k = Len(parts) THEN b = Len(t) ELSE b < Len(t) /\ t[b + 1][1] = sep
      BY <1>6 DEF PlaceOf
    <2>4. \A i \in a .. b : t[i][1] # sep
      BY <1>6 DEF PlaceOf
    <2> QED BY <2>1, <2>2, <2>3, <2>4
  <1>7. ASSUME NEW k \in 1 .. Len(parts)
        PROVE  \/ parts[k] = <<>>
               \/ /\ parts[k] \in Text /\ Plain(parts[k], headed) /\ ~ Has(parts[k], sep)
                  /\ \A kind : ~ Has(t, kind) => ~ Has(parts[k], kind)
    <2>1. PICK a, b \in Nat : PlaceOf(t, sep, parts, k, a, b)
      BY <1>4
    <2>2. /\ parts[k] = SubSeq(t, a, b) /\ a >= 1 /\ a <= b + 1 /\ b <= Len(t)
          /\ (k = 1 /\ a = 1) \/ (k # 1 /\ a > 1 /\ t[a - 1][1] = sep)
          /\ (k = Len(parts) /\ b = Len(t))
                \/ (k # Len(parts) /\ b < Len(t) /\ t[b + 1][1] = sep)
          /\ \A i \in a .. b : t[i][1] # sep
      BY <1>6, <2>1
    <2>3. CASE a = b + 1
      <3>1. parts[k] \in Text /\ Len(parts[k]) = 0
        BY <2>2, <2>3, PartOf
      <3> QED BY <3>1, EmptySeq DEF Text
    <2>4. CASE a # b + 1
      <3>1. a <= b /\ a \in 1 .. Len(t) /\ b \in 1 .. Len(t)
        BY <1>3, <2>2, <2>4
      <3>2. (a = 1 \/ t[a - 1][1] # "char") /\ (b = Len(t) \/ t[b + 1][1] # "char")
        BY <2>2
      <3> DEFINE p == SubSeq(t, a, b)
      <3>3. /\ Sound(p) /\ p # <<>> /\ p \in Text /\ p[1] = t[a] /\ p[Len(p)] = t[b]
            /\ \A kind : (\A i \in a .. b : t[i][1] # kind) => ~ Has(p, kind)
            /\ ~ Has(t, "title") => ~ Has(p, "title")
        BY <1>2, <2>2, <3>1, <3>2, SoundPart
      <3> HIDE DEF p
      <3>4. t[b][1] \notin Break
        <4>1. CASE b = Len(t)
          BY <1>2, <4>1
        <4>2. CASE b # Len(t)
          <5>1. t[b + 1][1] = sep /\ b < Len(t) /\ t[b][1] # sep
            BY <2>2, <3>1, <4>2
          <5>2. t[b][1] = "line" => t[b + 1][1] \notin Break
            BY <1>2, <3>1, <5>1 DEF Sound
          <5>3. CASE sep = "para"
            BY <5>1, <5>2, <5>3 DEF Break
          <5>4. CASE sep = "line"
            BY <1>5, <3>1, <5>1, <5>4 DEF Break
          <5>5. CASE sep = "stop"
            BY <1>5, <3>1, <5>1, <5>5 DEF Break
          <5> QED BY <5>3, <5>4, <5>5
        <4> QED BY <4>1, <4>2
      <3>5. headed => Starts(p)
        <4> SUFFICES ASSUME headed PROVE t[a][1] \notin Break
          BY <3>3 DEF Starts
        <4>1. CASE a = 1
          BY <1>2, <4>1 DEF Starts
        <4>2. CASE a # 1
          <5>1. t[a - 1][1] = sep /\ a - 1 \in 1 .. Len(t) /\ a - 1 < Len(t) /\ (a - 1) + 1 = a
            BY <2>2, <3>1, <4>2
          <5>2. CASE sep = "para"
            BY <1>5, <5>1, <5>2
          <5>3. CASE sep = "line"
            BY <1>2, <5>1, <5>3 DEF Sound
          <5>4. CASE sep = "stop"
            BY <1>5, <3>1, <5>4 DEF Break
          <5> QED BY <5>2, <5>3, <5>4
        <4> QED BY <4>1, <4>2
      <3>6. ~ Has(p, sep)
        BY <2>2, <3>3
      <3>7. ASSUME NEW kind, ~ Has(t, kind) PROVE ~ Has(p, kind)
        <4>1. \A i \in a .. b : i \in 1 .. Len(t)
          BY <3>1
        <4>2. \A i \in a .. b : t[i][1] # kind
          BY <1>5, <3>7, <4>1
        <4> QED BY <3>3, <4>2
      <3>8. Plain(p, headed)
        BY <1>2, <3>3, <3>4, <3>5 DEF Plain
      <3>9. parts[k] = p
        BY <2>2 DEF p
      <3> QED BY <3>3, <3>6, <3>7, <3>8, <3>9
    <2> QED BY <2>3, <2>4
  <1>8. Last(parts) # <<>>
    <2>1. Len(parts) \in 1 .. Len(parts)
      BY <1>1
    <2>2. PICK a, b \in Nat : PlaceOf(t, sep, parts, Len(parts), a, b)
      BY <1>4, <2>1
    <2>3. /\ parts[Len(parts)] = SubSeq(t, a, b) /\ a >= 1 /\ a <= b + 1 /\ b = Len(t)
          /\ a = 1 \/ (a > 1 /\ t[a - 1][1] = sep)
      BY <1>6, <2>1, <2>2
    <2>4. a # b + 1
      <3> SUFFICES ASSUME a = b + 1 PROVE FALSE
        OBVIOUS
      <3>1. t[Len(t)][1] = sep /\ Len(t) \in 1 .. Len(t)
        BY <1>3, <2>3
      <3>2. sep = "stop"
        BY <1>2, <3>1 DEF Break
      <3> QED BY <1>2, <1>3, <3>1, <3>2 DEF Sound
    <2>5. Len(parts[Len(parts)]) = b - a + 1 /\ b - a + 1 # 0
      <3>1. Len(SubSeq(t, a, b)) = b - a + 1
        BY <2>3, PartOf
      <3> QED BY <2>3, <2>4, <3>1
    <2>6. parts[Len(parts)] # <<>>
      BY <2>5
    <2> QED BY <2>6 DEF Last
  <1>9. ASSUME Starts(t) PROVE parts[1] # <<>> /\ Starts(parts[1])
    <2>1. 1 \in 1 .. Len(parts)
      BY <1>1
    <2>2. PICK a, b \in Nat : PlaceOf(t, sep, parts, 1, a, b)
      BY <1>4, <2>1
    <2>3. /\ parts[1] = SubSeq(t, 1, b) /\ a = 1 /\ b <= Len(t)
          /\ b = Len(t) \/ (b < Len(t) /\ t[b + 1][1] = sep)
      BY <1>6, <2>1, <2>2
    <2>4. b # 0
      <3> SUFFICES ASSUME b = 0 PROVE FALSE
        OBVIOUS
      <3>1. t[1][1] = sep /\ 1 \in 1 .. Len(t)
        BY <1>3, <2>3
      <3>2. sep = "stop"
        BY <1>9, <3>1 DEF Break, Starts
      <3> QED BY <1>2, <1>3, <3>1, <3>2 DEF Sound
    <2>5. Len(SubSeq(t, 1, b)) = b /\ SubSeq(t, 1, b)[1] = t[1]
      <3>1. 1 <= b + 1 /\ b - 1 + 1 = b /\ 1 \in 1 .. b /\ 1 + 1 - 1 = 1
        BY <2>4
      <3> QED BY <2>3, <3>1, PartOf
    <2>6. parts[1] # <<>>
      BY <2>3, <2>4, <2>5
    <2> QED BY <1>9, <2>3, <2>5, <2>6 DEF Starts
  <1>10. /\ \A i \in 1 .. Len(parts) :
               \/ parts[i] = <<>>
               \/ /\ parts[i] \in Text /\ Plain(parts[i], headed) /\ ~ Has(parts[i], sep)
                  /\ \A kind : ~ Has(t, kind) => ~ Has(parts[i], kind)
         /\ Last(parts) # <<>>
         /\ Starts(t) => parts[1] # <<>> /\ Starts(parts[1])
    BY <1>7, <1>8, <1>9
  <1> QED BY <1>10 DEF parts

\* Pieces that follow on each other say what the whole says.
LEMMA CutsTell ==
    ASSUME NEW t \in Text, NEW ps \in Seq(Text), NEW e \in [0 .. Len(ps) -> 0 .. Len(t)],
           e[0] = 0, e[Len(ps)] = Len(t),
           \A i \in 1 .. Len(ps) : e[i - 1] <= e[i] /\ ps[i] = SubSeq(t, e[i - 1] + 1, e[i])
    PROVE  Said(ps) = Speech(t)
  <1> DEFINE n == Len(ps)
             upto(k) == SubSeq(ps, 1, k)
             P == {k \in Nat : k <= n => Said(upto(k)) = Speech(SubSeq(t, 1, e[k]))}
  <1>1. n \in Nat /\ Len(t) \in Nat /\ t \in Seq(Token)
    BY LenProperties DEF Text
  <1>2. 0 \in P
    <2>1. upto(0) = <<>> /\ SubSeq(t, 1, e[0]) = <<>>
      BY SubSeqEmpty
    <2> QED BY <2>1, SaidIs, SpeechIs
  <1>3. ASSUME NEW k \in Nat, k \in P PROVE k + 1 \in P
    <2> SUFFICES ASSUME k + 1 <= n
                 PROVE  Said(upto(k + 1)) = Speech(SubSeq(t, 1, e[k + 1]))
      OBVIOUS
    <2>1. k + 1 \in 1 .. n /\ (k + 1) - 1 = k /\ k \in 0 .. n /\ k + 1 \in 0 .. n /\ k <= n
      BY <1>1
    <2>2. /\ e[k] \in 0 .. Len(t) /\ e[k + 1] \in 0 .. Len(t) /\ e[k] <= e[k + 1]
          /\ ps[k + 1] = SubSeq(t, e[k] + 1, e[k + 1]) /\ ps[k + 1] \in Text
      BY <2>1, ElementOfSeq
    <2>3. Said(upto(k)) = Speech(SubSeq(t, 1, e[k]))
      BY <1>3, <2>1
    <2>4. upto(k + 1) = Append(upto(k), ps[k + 1]) /\ upto(k) \in Seq(Text)
      <3> DEFINE u == SubSeq(ps, 1, k)
                 v == SubSeq(ps, 1, k + 1)
      <3>1. u \in Seq(Text) /\ Len(u) = k /\ \A i \in 1 .. k : u[i] = ps[i]
        BY <2>1
      <3>2. v \in Seq(Text) /\ Len(v) = k + 1 /\ \A i \in 1 .. (k + 1) : v[i] = ps[i]
        BY <2>1
      <3> HIDE DEF u, v
      <3> DEFINE w == Append(u, ps[k + 1])
      <3>3. /\ w \in Seq(Text) /\ Len(w) = k + 1 /\ w[k + 1] = ps[k + 1]
            /\ \A i \in 1 .. k : w[i] = u[i]
        <4> DEFINE p == ps[k + 1]
        <4>1. p \in Text /\ u \in Seq(Text) /\ Len(u) = k
          BY <2>2, <3>1
        <4> HIDE DEF p
        <4> QED BY <4>1, AppendProperties DEF p
      <3> HIDE DEF w
      <3>4. w \in Seq(Text) /\ Len(w) = k + 1 /\ \A i \in 1 .. (k + 1) : w[i] = v[i]
        <4>1. SUFFICES ASSUME NEW i \in 1 .. (k + 1) PROVE w[i] = v[i]
          BY <3>3
        <4>2. i \in 1 .. k \/ i = k + 1
          OBVIOUS
        <4> QED BY <3>1, <3>2, <3>3, <4>2
      <3>5. v = w
        BY <3>2, <3>4, SeqEqual
      <3> QED BY <3>1, <3>5 DEF u, v, w
    <2> DEFINE x == SubSeq(t, 1, e[k])
               y == SubSeq(t, e[k] + 1, e[k + 1])
    <2>5. x \o y = SubSeq(t, 1, e[k + 1])
      <3>1. 1 \in 1 .. Len(t) + 1 /\ e[k] \in 1 - 1 .. Len(t) /\ e[k + 1] \in e[k] .. Len(t)
        BY <1>1, <2>2
      <3> QED BY <1>1, <3>1, ConcatAdjacentSubSeq
    <2>6. x \in Text /\ y \in Text
      <3>1. 1 <= e[k] + 1 /\ e[k] \in Nat /\ e[k] + 1 \in Nat /\ e[k + 1] \in Nat
            /\ e[k] + 1 <= e[k + 1] + 1 /\ e[k] <= Len(t) /\ e[k + 1] <= Len(t) /\ 1 <= e[k] + 1
        BY <1>1, <2>2
      <3> QED BY <3>1, PartOf
    <2> HIDE DEF x
    <2>7. Speech(x \o y) = Speech(x) \o Speech(y)
      <3> HIDE DEF y
      <3> QED BY <2>6, SpeechIs
    <2>8. Said(Append(upto(k), ps[k + 1])) = Said(upto(k)) \o Speech(ps[k + 1])
      <3> HIDE DEF upto
      <3> QED BY <2>2, <2>4, SaidIs
    <2> QED BY <2>2, <2>3, <2>4, <2>5, <2>7, <2>8 DEF x
  <1> HIDE DEF P
  <1>4. \A k \in Nat : k \in P
    BY <1>2, <1>3, ByCounting
  <1>5. Said(upto(n)) = Speech(SubSeq(t, 1, e[n]))
    BY <1>1, <1>4 DEF P
  <1>6. upto(n) = ps /\ SubSeq(t, 1, Len(t)) = t
    BY <1>1, SubSeqFull
  <1> QED BY <1>5, <1>6

\* Where none is blank, all are counted.
LEMMA AllSpoken ==
    ASSUME NEW ps \in Seq(Text), \A i \in 1 .. Len(ps) : ~ blank(ps[i])
    PROVE  Spoken(ps) = Len(ps)
  <1> DEFINE F == {p \in Text : ~ blank(p)}
             P == {qs \in Seq(F) : Spoken(qs) = Len(qs)}
  <1>1. ps \in Seq(F)
    <2>1. \A i \in 1 .. Len(ps) : ps[i] \in F
      BY ElementOfSeq
    <2> HIDE DEF F
    <2> QED BY <2>1
  <1>2. <<>> \in P
    BY SpokenIs, EmptySeq
  <1>3. ASSUME NEW qs \in Seq(F), NEW p \in F, qs \in P PROVE Append(qs, p) \in P
    <2>1. qs \in Seq(Text) /\ p \in Text /\ ~ blank(p)
      <3>1. F \subseteq Text
        OBVIOUS
      <3> QED BY <3>1, SeqMonotonic
    <2>2. Spoken(Append(qs, p)) = Spoken(qs) + 1
      BY <2>1, SpokenIs
    <2> HIDE DEF F
    <2>3. Append(qs, p) \in Seq(F) /\ Len(Append(qs, p)) = Len(qs) + 1
      BY AppendProperties
    <2> QED BY <1>3, <2>2, <2>3
  <1> HIDE DEF P, F
  <1>4. ps \in P
    BY <1>1, <1>2, <1>3, ByAppending
  <1> QED BY <1>4 DEF P

\* Multiples of a number are in its order.
LEMMA Multiples ==
    ASSUME NEW m \in Nat, NEW k \in Nat, NEW n \in Nat, k < n
    PROVE  k * m + m <= n * m /\ k * m \in Nat /\ n * m \in Nat
  OBVIOUS

\* How many pieces of m there are in l, the last one not empty.
LEMMA RoundUp ==
    ASSUME NEW m \in Nat, m >= 1, NEW l \in Nat, l >= 1
    PROVE  /\ (l + m - 1) \div m \in Nat /\ (l + m - 1) \div m >= 1
           /\ ((l + m - 1) \div m) * m >= l
           /\ ((l + m - 1) \div m - 1) * m < l
  OBVIOUS

\* A text without separators is cut at the limit; the title stays whole.
LEMMA CutsWell ==
    ASSUME NEW headed, NEW t \in ForCuts(headed), len(t) > MaxChars
    PROVE  WellSplit(t, HardCut(t), headed)
  <1>1. /\ t \in Text /\ t # <<>> /\ Sound(t) /\ t[Len(t)][1] \notin Break
        /\ headed => Starts(t)
        /\ ~ headed => ~ Has(t, "title")
        /\ ~ Has(t, "para") /\ ~ Has(t, "line") /\ ~ Has(t, "stop")
    BY DEF ForCuts, Plain
  <1>2. Len(t) \in Nat /\ Len(t) >= 1 /\ MaxChars \in Nat /\ MaxChars >= 1 /\ len(t) \in Nat
        /\ t \in Seq(Token)
    BY <1>1, LenIs, LenProperties, EmptySeq, ChunkerAssumption DEF Text
  <1> DEFINE n == (Len(t) + MaxChars - 1) \div MaxChars
             top(i) == IF i < n THEN i * MaxChars ELSE Len(t)
             pieces == [i \in 1 .. n |-> SubSeq(t, (i - 1) * MaxChars + 1, top(i))]
             e == [k \in 0 .. n |-> top(k)]
  <1>3. n \in Nat /\ n >= 1 /\ n * MaxChars >= Len(t) /\ (n - 1) * MaxChars < Len(t)
    BY <1>2, RoundUp
  <1>4. HardCut(t) = IF blank(pieces[n]) THEN Front(pieces) ELSE pieces
    BY DEF HardCut
  <1> HIDE DEF n
  <1>5. \A k \in Nat : k < n => /\ k * MaxChars + MaxChars <= n * MaxChars
                                /\ k * MaxChars \in Nat /\ k * MaxChars < Len(t)
    <2> SUFFICES ASSUME NEW k \in Nat, k < n
                 PROVE  /\ k * MaxChars + MaxChars <= n * MaxChars
                        /\ k * MaxChars \in Nat /\ k * MaxChars < Len(t)
      OBVIOUS
    <2>1. k * MaxChars + MaxChars <= n * MaxChars /\ k * MaxChars \in Nat /\ n * MaxChars \in Nat
      BY <1>2, <1>3, Multiples
    <2>2. k = n - 1 \/ (k < n - 1 /\ n - 1 \in Nat)
      BY <1>3
    <2>3. k < n - 1 => k * MaxChars + MaxChars <= (n - 1) * MaxChars
      BY <1>2, <2>2, Multiples
    <2> QED BY <1>2, <1>3, <2>1, <2>2, <2>3
  <1>6. \A k \in Nat : k + 1 < n => (k + 1) * MaxChars = k * MaxChars + MaxChars
    BY <1>2
  <1>7. \A i \in 1 .. n : /\ top(i - 1) = (i - 1) * MaxChars /\ top(i - 1) \in Nat
                          /\ top(i) \in Nat /\ top(i - 1) < top(i) /\ top(i) <= Len(t)
                          /\ top(i) - top(i - 1) <= MaxChars
    <2> SUFFICES ASSUME NEW i \in 1 .. n
                 PROVE  /\ top(i - 1) = (i - 1) * MaxChars /\ top(i - 1) \in Nat
                        /\ top(i) \in Nat /\ top(i - 1) < top(i) /\ top(i) <= Len(t)
                        /\ top(i) - top(i - 1) <= MaxChars
      OBVIOUS
    <2>1. i - 1 \in Nat /\ i - 1 < n /\ i \in Nat /\ (i - 1) + 1 = i
      BY <1>3
    <2>2. top(i - 1) = (i - 1) * MaxChars /\ (i - 1) * MaxChars \in Nat
          /\ (i - 1) * MaxChars < Len(t)
          /\ (i - 1) * MaxChars + MaxChars <= n * MaxChars
      BY <1>5, <2>1
    <2>3. CASE i < n
      <3>1. i * MaxChars = (i - 1) * MaxChars + MaxChars
        BY <1>6, <2>1, <2>3
      <3>2. top(i) = i * MaxChars /\ i * MaxChars < Len(t) /\ i * MaxChars \in Nat
        BY <1>5, <2>1, <2>3
      <3> QED BY <1>2, <2>2, <3>1, <3>2
    <2>4. CASE ~ (i < n)
      <3>1. i = n /\ top(i) = Len(t)
        BY <1>3, <2>4
      <3>2. (n - 1) * MaxChars + MaxChars = n * MaxChars
        BY <1>2, <1>3
      <3> QED BY <1>2, <1>3, <2>2, <3>1, <3>2
    <2> QED BY <2>3, <2>4
  <1>8. top(0) = 0 /\ top(n) = Len(t)
    <2>1. 0 \in Nat /\ 0 < n /\ ~ (n < n) /\ 0 * MaxChars = 0
      BY <1>2, <1>3
    <2> QED BY <2>1
  <1> HIDE DEF top
  <1>9. \A i \in 1 .. n : /\ pieces[i] = SubSeq(t, top(i - 1) + 1, top(i))
                          /\ pieces[i] \in Text /\ Len(pieces[i]) = top(i) - top(i - 1)
                          /\ \A j \in 1 .. Len(pieces[i]) : pieces[i][j] = t[top(i - 1) + j]
                                                           /\ top(i - 1) + j \in 1 .. Len(t)
    <2> SUFFICES ASSUME NEW i \in 1 .. n
                 PROVE  /\ pieces[i] = SubSeq(t, top(i - 1) + 1, top(i))
                        /\ pieces[i] \in Text /\ Len(pieces[i]) = top(i) - top(i - 1)
                        /\ \A j \in 1 .. Len(pieces[i]) : pieces[i][j] = t[top(i - 1) + j]
                                                         /\ top(i - 1) + j \in 1 .. Len(t)
      OBVIOUS
    <2> DEFINE a == top(i - 1) + 1
               b == top(i)
               p == SubSeq(t, a, b)
    <2>1. pieces[i] = p
      BY <1>7
    <2>2. a \in Nat /\ b \in Nat /\ 1 <= a /\ a <= b + 1 /\ b <= Len(t)
          /\ b - a + 1 = b - top(i - 1)
          /\ top(i - 1) \in Nat
      BY <1>7
    <2>3. p \in Text /\ Len(p) = b - a + 1 /\ \A j \in 1 .. (b - a + 1) : p[j] = t[a + j - 1]
      <3> HIDE DEF a, b
      <3> QED BY <1>1, <2>2, PartOf
    <2>4. \A j \in 1 .. (b - a + 1) : a + j - 1 = top(i - 1) + j /\ top(i - 1) + j \in 1 .. Len(t)
      BY <1>2, <2>2
    <2> HIDE DEF p
    <2>5. \A j \in 1 .. Len(p) : p[j] = t[top(i - 1) + j] /\ top(i - 1) + j \in 1 .. Len(t)
      <3> HIDE DEF a, b
      <3> QED BY <2>3, <2>4
    <2>6. Len(p) = top(i) - top(i - 1)
      BY <2>2, <2>3
    <2> HIDE DEF pieces
    <2> QED BY <2>1, <2>3, <2>5, <2>6 DEF p
  <1>10. pieces \in Seq(Text) /\ Len(pieces) = n /\ pieces # <<>>
    <2>1. \A i \in 1 .. n : pieces[i] \in Text
      BY <1>9
    <2>2. pieces \in [1 .. n -> Text]
      BY <2>1
    <2> HIDE DEF pieces
    <2> QED BY <1>3, <2>2
  <1>11. e \in [0 .. n -> 0 .. Len(t)] /\ e[0] = 0 /\ e[n] = Len(t)
         /\ \A i \in 1 .. n : e[i - 1] = top(i - 1) /\ e[i] = top(i)
    <2>1. \A k \in 0 .. n : top(k) \in 0 .. Len(t)
      <3> SUFFICES ASSUME NEW k \in 0 .. n PROVE top(k) \in 0 .. Len(t)
        OBVIOUS
      <3>1. CASE k = 0
        BY <1>2, <1>8, <3>1
      <3>2. CASE k # 0
        <4>1. k \in 1 .. n
          BY <1>3, <3>2
        <4> QED BY <1>2, <1>7, <4>1
      <3> QED BY <3>1, <3>2
    <2>2. \A i \in 1 .. n : i - 1 \in 0 .. n /\ i \in 0 .. n
      BY <1>3
    <2>3. 0 \in 0 .. n /\ n \in 0 .. n
      BY <1>3
    <2> QED BY <1>8, <2>1, <2>2, <2>3
  <1>12. \A i \in 1 .. Len(t) : t[i] \in Token
    BY <1>2, ElementOfSeq
  <1>13. \A i \in 1 .. Len(t) : t[i][1] \notin Break
    BY <1>1, <1>12 DEF Has, Break
  <1>14. \A i \in 1 .. n : ~ blank(pieces[i])
    <2> SUFFICES ASSUME NEW i \in 1 .. n PROVE ~ blank(pieces[i])
      OBVIOUS
    <2>1. Len(pieces[i]) \in Nat /\ 1 \in 1 .. Len(pieces[i])
      <3> HIDE DEF pieces
      <3> QED BY <1>7, <1>9
    <2>2. pieces[i][1] = t[top(i - 1) + 1] /\ top(i - 1) + 1 \in 1 .. Len(t)
      <3> HIDE DEF pieces
      <3> QED BY <1>9, <2>1
    <2>3. 1 \in DOMAIN pieces[i] /\ pieces[i][1][1] \notin Break
      <3> HIDE DEF pieces
      <3>1. DOMAIN pieces[i] = 1 .. Len(pieces[i])
        BY <1>9, LenProperties DEF Text
      <3> QED BY <1>13, <2>1, <2>2, <3>1
    <2> HIDE DEF pieces
    <2> QED BY <2>3 DEF blank
  <1>15. HardCut(t) = pieces
    <2>1. ~ blank(pieces[n])
      <3> HIDE DEF pieces
      <3> QED BY <1>3, <1>14
    <2> HIDE DEF pieces
    <2> QED BY <1>4, <2>1
  <1>16. Said(pieces) = Speech(t)
    <2>1. \A i \in 1 .. n : e[i - 1] <= e[i] /\ pieces[i] = SubSeq(t, e[i - 1] + 1, e[i])
      <3> HIDE DEF pieces, e
      <3> QED BY <1>7, <1>9, <1>11
    <2> HIDE DEF pieces, e
    <2> QED BY <1>1, <1>10, <1>11, <2>1, CutsTell
  <1> HIDE DEF pieces, e
  <1>17. ~ blank(Last(pieces)) /\ Spoken(pieces) = n
    <2>1. Spoken(pieces) = Len(pieces)
      BY <1>10, <1>14, AllSpoken
    <2>2. Last(pieces) = pieces[n]
      BY <1>10 DEF Last
    <2> QED BY <1>3, <1>10, <1>14, <2>1, <2>2
  <1>18. CASE Has(t, "title")
    <2>1. PICK i \in 1 .. Len(t) : t[i][1] = "title"
      BY <1>18 DEF Has
    <2>2. t[i] = <<"title", 0>> /\ i = 1 /\ (Len(t) = 1 \/ t[2][1] = "line")
      BY <1>1, <2>1 DEF Sound
    <2>3. Len(t) = 1
      <3>1. Len(t) # 1 => 2 \in 1 .. Len(t)
        <4> DEFINE m == Len(t)
        <4>1. m \in Nat /\ m >= 1
          BY <1>2
        <4> HIDE DEF m
        <4>2. m # 1 => 2 \in 1 .. m
          BY <4>1
        <4> QED BY <4>2 DEF m
      <3> QED BY <1>1, <2>2, <3>1 DEF Has
    <2>4. t = Heading
      <3>1. Heading \in Seq(Token) /\ Len(Heading) = 1 /\ Heading[1] = <<"title", 0>>
        BY DEF Heading, Token, Kind
      <3> HIDE DEF Heading
      <3>2. \A j \in 1 .. Len(t) : t[j] = Heading[j]
        BY <2>2, <2>3, <3>1
      <3> QED BY <1>2, <2>3, <3>1, <3>2, SeqEqual
    <2>5. n = 1 /\ top(1) = 1 /\ top(0) = 0
      <3>1. CASE n = 1
        BY <1>8, <2>3, <3>1
      <3>2. CASE n # 1
        <4>1. 1 \in 1 .. n /\ 2 \in 1 .. n /\ 1 - 1 = 0 /\ 2 - 1 = 1
          BY <1>3, <3>2
        <4>2. top(0) < top(1) /\ top(1) < top(2) /\ top(2) <= Len(t)
              /\ top(0) \in Nat /\ top(1) \in Nat /\ top(2) \in Nat
          BY <1>7, <4>1
        <4> QED BY <2>3, <4>2
      <3> QED BY <3>1, <3>2
    <2>6. pieces[1] = t
      <3>1. pieces[1] = SubSeq(t, top(1 - 1) + 1, top(1))
        BY <1>3, <1>9
      <3>2. pieces[1] = SubSeq(t, 1, Len(t))
        BY <2>3, <2>5, <3>1
      <3> QED BY <1>2, <3>2, SubSeqFull
    <2>7. pieces = <<t>>
      <3>1. <<t>> \in Seq(Text) /\ Len(<<t>>) = 1 /\ <<t>>[1] = t
        BY <1>1
      <3> DEFINE o == <<t>>
      <3> HIDE DEF o
      <3>2. \A j \in 1 .. Len(pieces) : pieces[j] = o[j]
        BY <1>10, <2>5, <2>6, <3>1 DEF o
      <3>3. pieces = o
        BY <1>10, <2>5, <3>1, <3>2, SeqEqual DEF o
      <3> QED BY <3>3 DEF o
    <2>8. headed /\ \A j \in 1 .. Len(pieces) : Fits(pieces[j], headed)
      BY <1>1, <1>10, <1>18, <2>4, <2>5, <2>6 DEF Fits
    <2> QED BY <1>10, <1>15, <1>16, <1>17, <2>4, <2>7, <2>8 DEF WellSplit
  <1>19. CASE ~ Has(t, "title")
    <2>1. \A i \in 1 .. Len(t) : t[i][1] = "char"
      BY <1>1, <1>12, <1>19, TokenTypes DEF Has, Kind
    <2>2. t \in Seq({"char"} \X Nat)
      <3>1. \A i \in 1 .. Len(t) : t[i] \in {"char"} \X Nat
        BY <1>12, <2>1, TokenTypes
      <3> QED BY <1>2, <3>1
    <2>3. len(t) = Len(t)
      BY <1>1, <2>2, LenBounds
    <2>4. n >= 2
      <3>1. n # 1
        <4> SUFFICES ASSUME n = 1 PROVE FALSE
          OBVIOUS
        <4>1. 1 \in 1 .. n /\ 1 - 1 = 0
          OBVIOUS
        <4>2. top(1) = Len(t) /\ top(0) = 0 /\ top(1) - top(0) <= MaxChars
          BY <1>7, <1>8, <4>1
        <4> QED BY <1>2, <2>3, <4>2
      <3> QED BY <1>3, <3>1
    <2>5. \A i \in 1 .. n : len(pieces[i]) <= MaxChars
      <3> SUFFICES ASSUME NEW i \in 1 .. n PROVE len(pieces[i]) <= MaxChars
        OBVIOUS
      <3>1. pieces[i] \in Text /\ Len(pieces[i]) <= MaxChars
        BY <1>7, <1>9
      <3>2. \A j \in 1 .. Len(pieces[i]) : pieces[i][j] \in {"char"} \X Nat
        <4>1. \A j \in 1 .. Len(t) : t[j] \in {"char"} \X Nat
          BY <1>12, <2>1, TokenTypes
        <4> QED BY <1>9, <4>1
      <3>3. pieces[i] \in Seq({"char"} \X Nat)
        BY <3>1, <3>2, LenProperties DEF Text
      <3>4. len(pieces[i]) = Len(pieces[i])
        BY <3>1, <3>3, LenBounds
      <3> QED BY <3>1, <3>4
    <2>6. \A i \in 1 .. Len(pieces) : Fits(pieces[i], headed)
      BY <1>10, <2>5 DEF Fits
    <2>7. t # Heading
      <3> SUFFICES ASSUME t = Heading PROVE FALSE
        OBVIOUS
      <3>1. Len(t) = 1 /\ t[1][1] = "title"
        BY DEF Heading
      <3> QED BY <1>19, <3>1 DEF Has
    <2> QED BY <1>10, <1>15, <1>16, <1>17, <2>4, <2>6, <2>7 DEF WellSplit
  <1> QED BY <1>18, <1>19

-----------------------------------------------------------------------------
(* Every text that comes to be split is split well.                        *)

\* ... at full stops, and hard if there are none (chunker.py:292-308);
LEMMA StopsWell ==
    ASSUME NEW headed, NEW t \in ForStops(headed), len(t) > MaxChars
    PROVE  WellSplit(t, SplitAt("stop", [u \in Text |-> HardCut(u)])[t], headed)
  <1> DEFINE finer == [u \in Text |-> HardCut(u)]
             F == ForCuts(headed)
  <1>1. t \in Text /\ Plain(t, headed) /\ ~ Has(t, "para") /\ ~ Has(t, "line")
    BY DEF ForStops
  <1>2. \A p \in F : Plain(p, headed) /\ (len(p) > MaxChars => WellSplit(p, finer[p], headed))
    <2> SUFFICES ASSUME NEW p \in F
                 PROVE  Plain(p, headed) /\ (len(p) > MaxChars => WellSplit(p, finer[p], headed))
      OBVIOUS
    <2>1. p \in Text /\ Plain(p, headed) /\ finer[p] = HardCut(p)
      BY DEF ForCuts
    <2>2. len(p) > MaxChars => WellSplit(p, HardCut(p), headed)
      BY CutsWell
    <2> QED BY <2>1, <2>2
  <1>3. /\ \A i \in 1 .. Len(split(t, "stop")) :
              \/ split(t, "stop")[i] = <<>>
              \/ /\ split(t, "stop")[i] \in Text
                 /\ Plain(split(t, "stop")[i], headed)
                 /\ ~ Has(split(t, "stop")[i], "stop")
                 /\ \A kind : ~ Has(t, kind) => ~ Has(split(t, "stop")[i], kind)
        /\ Last(split(t, "stop")) # <<>>
        /\ Starts(t) => split(t, "stop")[1] # <<>> /\ Starts(split(t, "stop")[1])
    BY <1>1, PartsArePlain
  <1>4. \A i \in 1 .. Len(split(t, "stop")) : split(t, "stop")[i] = <<>> \/ split(t, "stop")[i] \in F
    BY <1>1, <1>3 DEF ForCuts
  <1> HIDE DEF finer, F
  <1>5. WellSplit(t, SplitAt("stop", finer)[t], headed)
    BY <1>1, <1>2, <1>3, <1>4, SplitsWell
  <1> QED BY <1>5 DEF finer

\* ... at line breaks before that;
LEMMA LinesWell ==
    ASSUME NEW headed, NEW t \in ForLines(headed), len(t) > MaxChars
    PROVE  WellSplit(t, SplitAt("line", SplitAt("stop", [u \in Text |-> HardCut(u)]))[t], headed)
  <1> DEFINE finer == SplitAt("stop", [u \in Text |-> HardCut(u)])
             F == ForStops(headed)
  <1>1. t \in Text /\ Plain(t, headed) /\ ~ Has(t, "para")
    BY DEF ForLines
  <1>2. \A p \in F : Plain(p, headed) /\ (len(p) > MaxChars => WellSplit(p, finer[p], headed))
    <2> SUFFICES ASSUME NEW p \in F
                 PROVE  Plain(p, headed) /\ (len(p) > MaxChars => WellSplit(p, finer[p], headed))
      OBVIOUS
    <2>1. Plain(p, headed)
      BY DEF ForStops
    <2>2. len(p) > MaxChars => WellSplit(p, finer[p], headed)
      BY StopsWell
    <2> QED BY <2>1, <2>2
  <1>3. /\ \A i \in 1 .. Len(split(t, "line")) :
              \/ split(t, "line")[i] = <<>>
              \/ /\ split(t, "line")[i] \in Text
                 /\ Plain(split(t, "line")[i], headed)
                 /\ ~ Has(split(t, "line")[i], "line")
                 /\ \A kind : ~ Has(t, kind) => ~ Has(split(t, "line")[i], kind)
        /\ Last(split(t, "line")) # <<>>
        /\ Starts(t) => split(t, "line")[1] # <<>> /\ Starts(split(t, "line")[1])
    BY <1>1, PartsArePlain
  <1>4. \A i \in 1 .. Len(split(t, "line")) : split(t, "line")[i] = <<>> \/ split(t, "line")[i] \in F
    BY <1>1, <1>3 DEF ForStops
  <1> HIDE DEF finer, F
  <1>5. WellSplit(t, SplitAt("line", finer)[t], headed)
    BY <1>1, <1>2, <1>3, <1>4, SplitsWell
  <1> QED BY <1>5 DEF finer

\* ... at paragraphs before that: what _split_text does (chunker.py:285-308).
THEOREM SplitTextTells ==
    ASSUME NEW headed, NEW t \in ForParas(headed), len(t) > MaxChars
    PROVE  WellSplit(t, _split_text(t), headed)
  <1> DEFINE finer == SplitAt("line", SplitAt("stop", [u \in Text |-> HardCut(u)]))
             F == ForLines(headed)
  <1>1. t \in Text /\ Plain(t, headed) /\ (headed => ~ Has(t, "para"))
    BY DEF ForParas
  <1>2. \A p \in F : Plain(p, headed) /\ (len(p) > MaxChars => WellSplit(p, finer[p], headed))
    <2> SUFFICES ASSUME NEW p \in F
                 PROVE  Plain(p, headed) /\ (len(p) > MaxChars => WellSplit(p, finer[p], headed))
      OBVIOUS
    <2>1. Plain(p, headed)
      BY DEF ForLines
    <2>2. len(p) > MaxChars => WellSplit(p, finer[p], headed)
      BY LinesWell
    <2> QED BY <2>1, <2>2
  <1>3. /\ \A i \in 1 .. Len(split(t, "para")) :
              \/ split(t, "para")[i] = <<>>
              \/ /\ split(t, "para")[i] \in Text
                 /\ Plain(split(t, "para")[i], headed)
                 /\ ~ Has(split(t, "para")[i], "para")
                 /\ \A kind : ~ Has(t, kind) => ~ Has(split(t, "para")[i], kind)
        /\ Last(split(t, "para")) # <<>>
        /\ Starts(t) => split(t, "para")[1] # <<>> /\ Starts(split(t, "para")[1])
    BY <1>1, PartsArePlain
  <1>4. \A i \in 1 .. Len(split(t, "para")) : split(t, "para")[i] = <<>> \/ split(t, "para")[i] \in F
    BY <1>3 DEF ForLines
  <1>5. _split_text(t) = SplitAt("para", finer)[t]
    BY DEF _split_text
  <1> HIDE DEF finer, F
  <1>6. WellSplit(t, SplitAt("para", finer)[t], headed)
    BY <1>1, <1>2, <1>3, <1>4, SplitsWell
  <1> QED BY <1>5, <1>6

-----------------------------------------------------------------------------
(* Chunks of whole paragraphs                                              *)

\* What speaks first and last, holds no paragraph's mark, and where the title, if it is
\* there, comes first.
Whole(t, headed) == t \in Text /\ Plain(t, headed) /\ Starts(t) /\ ~ Has(t, "para")

\* Two such texts with a line break between them are one.
LEMMA WholeJoined ==
    ASSUME NEW headed, NEW a, Whole(a, headed), NEW b, Whole(b, FALSE)
    PROVE  /\ Whole((a \o Mark("line")) \o b, headed)
           /\ (a \o Mark("line")) \o b # Heading
  <1> DEFINE m == Mark("line")
             am == a \o m
             t == am \o b
  <1>1. /\ a \in Text /\ a # <<>> /\ Sound(a) /\ a[Len(a)][1] \notin Break /\ a[1][1] \notin Break
        /\ ~ headed => ~ Has(a, "title")
        /\ ~ Has(a, "para")
    BY DEF Whole, Plain, Starts
  <1>2. /\ b \in Text /\ b # <<>> /\ Sound(b) /\ b[Len(b)][1] \notin Break /\ b[1][1] \notin Break
        /\ ~ Has(b, "title") /\ ~ Has(b, "para")
    BY DEF Whole, Plain, Starts
  <1>3. /\ Len(a) \in Nat /\ Len(a) >= 1 /\ Len(b) \in Nat /\ Len(b) >= 1
        /\ a \in Seq(Token) /\ b \in Seq(Token)
    BY <1>1, <1>2, EmptySeq DEF Text
  <1>4. m \in Seq(Token) /\ Len(m) = 1 /\ m[1] = <<"line", 0>>
    BY MarkIs DEF Kind, Text
  <1> HIDE DEF m
  <1>5. /\ am \in Seq(Token) /\ Len(am) = Len(a) + 1
        /\ \A i \in 1 .. Len(a) : am[i] = a[i]
        /\ am[Len(a) + 1] = m[1]
    <2>1. /\ am \in Seq(Token) /\ Len(am) = Len(a) + Len(m)
          /\ \A i \in 1 .. Len(a) + Len(m) : am[i] = IF i <= Len(a) THEN a[i] ELSE m[i - Len(a)]
      BY <1>3, <1>4, ConcatProperties
    <2>2. Len(a) + 1 \in 1 .. Len(a) + Len(m) /\ ~ (Len(a) + 1 <= Len(a))
          /\ (Len(a) + 1) - Len(a) = 1
          /\ \A i \in 1 .. Len(a) : i \in 1 .. Len(a) + Len(m) /\ i <= Len(a)
      BY <1>3, <1>4
    <2> HIDE DEF am
    <2>3. am[Len(a) + 1] = m[1]
      BY <2>1, <2>2
    <2> QED BY <1>4, <2>1, <2>2, <2>3
  <1> HIDE DEF am
  <1>6. /\ t \in Seq(Token) /\ Len(t) = Len(a) + 1 + Len(b)
        /\ \A i \in 1 .. Len(am) + Len(b) : t[i] = IF i <= Len(am) THEN am[i] ELSE b[i - Len(am)]
    <2>1. /\ t \in Seq(Token) /\ Len(t) = Len(am) + Len(b)
          /\ \A i \in 1 .. Len(am) + Len(b) : t[i] = IF i <= Len(am) THEN am[i] ELSE b[i - Len(am)]
      BY <1>3, <1>5, ConcatProperties
    <2> HIDE DEF t
    <2> QED BY <1>5, <2>1
  <1> HIDE DEF t
  <1>7. \A i \in 1 .. Len(a) : t[i] = a[i] /\ i \in 1 .. Len(t)
    <2> SUFFICES ASSUME NEW i \in 1 .. Len(a) PROVE t[i] = a[i] /\ i \in 1 .. Len(t)
      OBVIOUS
    <2>1. i \in 1 .. Len(am) + Len(b) /\ i <= Len(am) /\ i \in 1 .. Len(t)
      BY <1>3, <1>5, <1>6
    <2> QED BY <1>5, <1>6, <2>1
  <1>8. t[Len(a) + 1] = <<"line", 0>> /\ Len(a) + 1 \in 1 .. Len(t)
    <2>1. Len(a) + 1 \in 1 .. Len(am) + Len(b) /\ Len(a) + 1 <= Len(am) /\ Len(a) + 1 \in 1 .. Len(t)
      BY <1>3, <1>5, <1>6
    <2> QED BY <1>4, <1>5, <1>6, <2>1
  <1>9. \A j \in 1 .. Len(b) : t[Len(a) + 1 + j] = b[j] /\ Len(a) + 1 + j \in 1 .. Len(t)
    <2> SUFFICES ASSUME NEW j \in 1 .. Len(b)
                 PROVE  t[Len(a) + 1 + j] = b[j] /\ Len(a) + 1 + j \in 1 .. Len(t)
      OBVIOUS
    <2>1. /\ Len(a) + 1 + j \in 1 .. Len(am) + Len(b) /\ ~ (Len(a) + 1 + j <= Len(am))
          /\ (Len(a) + 1 + j) - Len(am) = j /\ Len(a) + 1 + j \in 1 .. Len(t)
      BY <1>3, <1>5, <1>6
    <2> QED BY <1>6, <2>1
  <1>10. ASSUME NEW i \in 1 .. Len(t)
         PROVE  \/ i \in 1 .. Len(a)
                \/ i = Len(a) + 1
                \/ \E j \in 1 .. Len(b) : i = Len(a) + 1 + j
    <2> DEFINE k == Len(a)
               l == Len(b)
    <2>1. k \in Nat /\ l \in Nat /\ i \in 1 .. (k + 1 + l)
      BY <1>3, <1>6
    <2> HIDE DEF k, l
    <2>2. \/ i \in 1 .. k
          \/ i = k + 1
          \/ i - (k + 1) \in 1 .. l /\ i = k + 1 + (i - (k + 1))
      BY <2>1
    <2>3. \/ i \in 1 .. k
          \/ i = k + 1
          \/ \E j \in 1 .. l : i = k + 1 + j
      BY <2>2
    <2> QED BY <2>3 DEF k, l
  <1>11. ASSUME NEW i \in 1 .. Len(t), t[i][1] = "stop"
         PROVE  i > 1 /\ t[i - 1][1] = "char" /\ i < Len(t) /\ t[i + 1][1] = "char"
    <2>1. CASE i \in 1 .. Len(a)
      <3>1. i > 1 /\ a[i - 1][1] = "char" /\ i < Len(a) /\ a[i + 1][1] = "char"
        BY <1>1, <1>7, <1>11, <2>1 DEF Sound
      <3>2. i - 1 \in 1 .. Len(a) /\ i + 1 \in 1 .. Len(a)
        BY <1>3, <2>1, <3>1
      <3> QED BY <1>3, <1>6, <1>7, <3>1, <3>2
    <2>2. CASE i = Len(a) + 1
      BY <1>8, <1>11, <2>2
    <2>3. ASSUME NEW j \in 1 .. Len(b), i = Len(a) + 1 + j
          PROVE  i > 1 /\ t[i - 1][1] = "char" /\ i < Len(t) /\ t[i + 1][1] = "char"
      <3>1. b[j][1] = "stop"
        BY <1>9, <1>11, <2>3
      <3>2. j > 1 /\ b[j - 1][1] = "char" /\ j < Len(b) /\ b[j + 1][1] = "char"
        BY <1>2, <3>1 DEF Sound
      <3>3. j - 1 \in 1 .. Len(b) /\ j + 1 \in 1 .. Len(b)
            /\ i - 1 = Len(a) + 1 + (j - 1) /\ i + 1 = Len(a) + 1 + (j + 1)
        BY <1>3, <2>3, <3>2
      <3>4. t[i - 1] = b[j - 1] /\ t[i + 1] = b[j + 1]
        BY <1>9, <3>3
      <3> QED BY <1>3, <1>6, <2>3, <3>2, <3>4
    <2> QED BY <1>10, <2>1, <2>2, <2>3
  <1>12. ASSUME NEW i \in 1 .. Len(t), t[i][1] = "line", i < Len(t)
         PROVE  t[i + 1][1] \notin Break
    <2>1. CASE i \in 1 .. Len(a)
      <3>1. a[i][1] = "line" /\ i # Len(a)
        BY <1>1, <1>7, <1>12, <2>1 DEF Break
      <3>2. i < Len(a) /\ i + 1 \in 1 .. Len(a)
        BY <1>3, <2>1, <3>1
      <3>3. a[i + 1][1] \notin Break
        BY <1>1, <2>1, <3>1, <3>2 DEF Sound
      <3> QED BY <1>7, <3>2, <3>3
    <2>2. CASE i = Len(a) + 1
      <3>1. 1 \in 1 .. Len(b) /\ i + 1 = Len(a) + 1 + 1
        BY <1>3, <2>2
      <3>2. t[i + 1] = b[1]
        BY <1>9, <3>1
      <3> QED BY <1>2, <3>2
    <2>3. ASSUME NEW j \in 1 .. Len(b), i = Len(a) + 1 + j
          PROVE  t[i + 1][1] \notin Break
      <3>1. b[j][1] = "line" /\ j < Len(b)
        BY <1>3, <1>6, <1>9, <1>12, <2>3
      <3>2. b[j + 1][1] \notin Break
        BY <1>2, <3>1 DEF Sound
      <3>3. j + 1 \in 1 .. Len(b) /\ i + 1 = Len(a) + 1 + (j + 1)
        BY <1>3, <2>3, <3>1
      <3>4. t[i + 1] = b[j + 1]
        BY <1>9, <3>3
      <3> QED BY <3>2, <3>4
    <2> QED BY <1>10, <2>1, <2>2, <2>3
  <1>13. ASSUME NEW i \in 1 .. Len(t), t[i][1] = "title"
         PROVE  i \in 1 .. Len(a) /\ a[i][1] = "title"
    <2>1. CASE i \in 1 .. Len(a)
      BY <1>7, <1>13, <2>1
    <2>2. CASE i = Len(a) + 1
      BY <1>8, <1>13, <2>2
    <2>3. ASSUME NEW j \in 1 .. Len(b), i = Len(a) + 1 + j PROVE FALSE
      <3>1. b[j][1] = "title"
        BY <1>9, <1>13, <2>3
      <3> QED BY <1>2, <3>1 DEF Has
    <2> QED BY <1>10, <2>1, <2>2, <2>3
  <1>14. ASSUME NEW i \in 1 .. Len(t), t[i][1] = "title"
         PROVE  t[i] = <<"title", 0>> /\ i = 1 /\ (Len(t) = 1 \/ t[2][1] = "line")
    <2>1. i \in 1 .. Len(a) /\ a[i][1] = "title"
      BY <1>13, <1>14
    <2>2. a[i] = <<"title", 0>> /\ i = 1 /\ (Len(a) = 1 \/ a[2][1] = "line")
      BY <1>1, <2>1 DEF Sound
    <2>3. CASE Len(a) = 1
      BY <1>7, <1>8, <2>1, <2>2, <2>3
    <2>4. CASE Len(a) # 1
      <3>1. 2 \in 1 .. Len(a)
        <4> DEFINE k == Len(a)
        <4>1. k \in Nat /\ k >= 1 /\ k # 1
          BY <1>3, <2>4
        <4> HIDE DEF k
        <4>2. 2 \in 1 .. k
          BY <4>1
        <4> QED BY <4>2 DEF k
      <3> QED BY <1>7, <2>1, <2>2, <2>4, <3>1
    <2> QED BY <2>3, <2>4
  <1>15. Sound(t)
    BY <1>11, <1>12, <1>14 DEF Sound
  <1>16. ~ Has(t, "para")
    <2> SUFFICES ASSUME NEW i \in 1 .. Len(t), t[i][1] = "para" PROVE FALSE
      BY DEF Has
    <2>1. CASE i \in 1 .. Len(a)
      BY <1>1, <1>7, <2>1 DEF Has
    <2>2. CASE i = Len(a) + 1
      BY <1>8, <2>2
    <2>3. ASSUME NEW j \in 1 .. Len(b), i = Len(a) + 1 + j PROVE FALSE
      BY <1>2, <1>9, <2>3 DEF Has
    <2> QED BY <1>10, <2>1, <2>2, <2>3
  <1>17. ~ headed => ~ Has(t, "title")
    BY <1>1, <1>13 DEF Has
  <1>18. t[1] = a[1] /\ t[Len(t)] = b[Len(b)] /\ t # <<>> /\ Len(t) >= 2
    <2>1. 1 \in 1 .. Len(a) /\ Len(b) \in 1 .. Len(b) /\ Len(t) = Len(a) + 1 + Len(b)
      BY <1>3, <1>6
    <2>2. Len(t) # 0 /\ Len(t) >= 2
      BY <1>3, <1>6
    <2>3. t # <<>>
      BY <2>2
    <2> QED BY <1>7, <1>9, <2>1, <2>2, <2>3
  <1>19. Whole(t, headed)
    BY <1>1, <1>2, <1>6, <1>15, <1>16, <1>17, <1>18 DEF Whole, Plain, Starts, Text
  <1>20. t # Heading
    <2> SUFFICES ASSUME t = Heading PROVE FALSE
      OBVIOUS
    <2>1. Len(t) = 1
      BY DEF Heading
    <2> QED BY <1>18, <2>1
  <1> QED BY <1>19, <1>20 DEF t, am, m

\* The title is such a text; it says nothing that was said.
LEMMA HeadingIs ==
    /\ Whole(Heading, TRUE) /\ Heading \in Text /\ Heading \o Mark("line") = Title
    /\ Title \in Text /\ Speech(Title) = <<>> /\ ~ blank(Title)
    /\ len(Heading) = TitleLen /\ len(Title) = TitleLen + 1
  <1>1. /\ <<"title", 0>> \in Token /\ <<"line", 0>> \in Token
        /\ <<"title", 0>>[1] = "title" /\ <<"line", 0>>[1] = "line"
    BY DEF Token, Kind
  <1>2. Heading \in Seq(Token) /\ Len(Heading) = 1 /\ Heading[1] = <<"title", 0>> /\ Heading # <<>>
    BY <1>1 DEF Heading
  <1>3. Title = Append(Heading, <<"line", 0>>) /\ Heading \o Mark("line") = Title
    <2> DEFINE x == <<"title", 0>>
               y == <<"line", 0>>
    <2>1. x \in Token /\ y \in Token
      BY <1>1
    <2> HIDE DEF x, y
    <2>3. <<x>> \in Seq(Token)
      BY <2>1
    <2>2. Append(<<x>>, y) = <<x, y>>
      <3> DEFINE s == <<x>>
                 v == <<x, y>>
      <3>1. s \in Seq(Token) /\ Len(s) = 1 /\ s[1] = x
        BY <2>1
      <3>2. v \in Seq(Token) /\ Len(v) = 2 /\ v[1] = x /\ v[2] = y
        BY <2>1
      <3> HIDE DEF s, v
      <3> DEFINE u == Append(s, y)
      <3>3. u \in Seq(Token) /\ Len(u) = Len(s) + 1 /\ \A i \in 1 .. Len(s) : u[i] = s[i]
        BY <2>1, <3>1, AppendProperties
      <3>4. u[Len(s) + 1] = y
        BY <2>1, <3>1, AppendProperties
      <3> HIDE DEF u
      <3>5. Len(u) = 2 /\ u[1] = x /\ u[2] = y
        BY <3>1, <3>3, <3>4
      <3>6. \A i \in 1 .. Len(u) : u[i] = v[i]
        BY <3>2, <3>5
      <3>7. u = v
        BY <3>2, <3>3, <3>5, <3>6, SeqEqual
      <3> QED BY <3>7 DEF u, v, s
    <2>4. <<x>> \o <<y>> = Append(<<x>>, y)
      <3> DEFINE s == <<x>>
      <3> HIDE DEF s
      <3>1. s \in Seq(Token)
        BY <2>3 DEF s
      <3>2. Append(s, y) = s \o <<y>>
        BY <2>1, <3>1, AppendIsConcat
      <3> QED BY <3>2 DEF s
    <2> QED BY <2>2, <2>4 DEF Title, Heading, Mark, x, y
  <1>4. Heading = Append(<<>>, <<"title", 0>>)
    BY DEF Heading
  <1> HIDE DEF Heading
  <1>5. "title" \notin Break
    BY DEF Break
  <1>6. Whole(Heading, TRUE)
    <2>1. 1 .. Len(Heading) = {1}
      BY <1>2
    <2>2. Heading[1][1] = "title"
      BY <1>1, <1>2
    <2>3. Sound(Heading)
      BY <1>2, <2>1, <2>2 DEF Sound
    <2>4. ~ Has(Heading, "para")
      BY <2>1, <2>2 DEF Has
    <2>5. Heading[Len(Heading)][1] \notin Break /\ Starts(Heading)
      BY <1>2, <1>5, <2>2 DEF Starts
    <2> QED BY <1>2, <2>3, <2>4, <2>5 DEF Whole, Plain, Text
  <1>7. Title \in Text
    BY <1>1, <1>2, <1>3, AppendProperties DEF Text
  <1>8. Speech(Heading) = <<>> /\ Speech(Title) = <<>>
    <2>1. Speech(Heading) = Speech(<<>>)
      BY <1>1, <1>4, SpeechIs, EmptySeq DEF Text
    <2>2. Speech(Title) = Speech(Heading)
      BY <1>1, <1>2, <1>3, SpeechIs DEF Text
    <2> QED BY <2>1, <2>2, SpeechIs
  <1>9. ~ blank(Title)
    <2>1. Title[1] = <<"title", 0>> /\ 1 \in DOMAIN Title
      BY DEF Title
    <2> QED BY <1>1, <1>5, <2>1 DEF blank
  <1>10. len(Heading) = TitleLen /\ len(Title) = TitleLen + 1
    <2>1. Width["title"] = TitleLen /\ Width["line"] = 1 /\ TitleLen \in Nat
      BY ChunkerAssumption DEF Width
    <2>2. len(Heading) = len(<<>>) + Width["title"]
      BY <1>1, <1>4, LenIs, EmptySeq DEF Text
    <2>3. len(Title) = len(Heading) + Width["line"]
      BY <1>1, <1>2, <1>3, LenIs DEF Text
    <2> QED BY <2>1, <2>2, <2>3, LenIs
  <1> QED BY <1>2, <1>3, <1>6, <1>7, <1>8, <1>9, <1>10 DEF Text

\* Paragraphs in a group make one text.
LEMMA WholeLines ==
    ASSUME NEW ps \in Seq({p \in Text : Whole(p, FALSE)}), ps # <<>>
    PROVE  Whole(join(ps, "line"), FALSE) /\ join(ps, "line") # <<>>
  <1> DEFINE F == {p \in Text : Whole(p, FALSE)}
             P == {qs \in Seq(F) : qs # <<>> => Whole(join(qs, "line"), FALSE)}
  <1>1. <<>> \in P
    BY EmptySeq
  <1>2. ASSUME NEW qs \in Seq(F), NEW p \in F, qs \in P PROVE Append(qs, p) \in P
    <2>1. qs \in Seq(Text) /\ p \in Text /\ Whole(p, FALSE) /\ "line" \in Kind
      <3>1. F \subseteq Text
        OBVIOUS
      <3> QED BY <3>1, SeqMonotonic DEF Kind
    <2> DEFINE j == join(qs, "line")
    <2>2. join(Append(qs, p), "line") = IF j = <<>> THEN p ELSE (j \o Mark("line")) \o p
      BY <2>1, JoinIs
    <2>3. qs = <<>> => j = <<>>
      BY <2>1, JoinIs
    <2>4. qs # <<>> => Whole(j, FALSE)
      BY <1>2
    <2> HIDE DEF j
    <2>5. Whole(join(Append(qs, p), "line"), FALSE)
      <3>1. CASE j = <<>>
        BY <2>1, <2>2, <3>1
      <3>2. CASE j # <<>>
        <4>1. Whole((j \o Mark("line")) \o p, FALSE)
          BY <2>1, <2>3, <2>4, <3>2, WholeJoined
        <4> QED BY <2>2, <3>2, <4>1
      <3> QED BY <3>1, <3>2
    <2>6. Append(qs, p) \in Seq(F)
      <3> HIDE DEF F
      <3> QED BY AppendProperties
    <2> QED BY <2>5, <2>6
  <1>3. ps \in Seq(F)
    OBVIOUS
  <1> HIDE DEF P, F
  <1>4. ps \in P
    BY <1>1, <1>2, <1>3, ByAppending
  <1> QED BY <1>4 DEF P, Whole, Plain

\* A transcript as fetch and Transcribed leave it: sound, and without the title.
Talk(t) == t \in Text /\ Sound(t) /\ ~ Has(t, "title")
\* The paragraphs that may come to be grouped.
Paras == {p \in Text : Whole(p, FALSE)}

\* What lies between breaks of a talk may come to be split.
LEMMA RunIsWhole ==
    ASSUME NEW t, Talk(t), NEW p, NEW a \in Nat, NEW b \in Nat, Runs(t, p, a, b),
           a = 1 \/ t[a - 1][1] \in Break, b = Len(t) \/ t[b + 1][1] \in Break
    PROVE  /\ p \in Text /\ Plain(p, FALSE) /\ Starts(p) /\ p # <<>>
           /\ (\A j \in a .. b : t[j][1] # "para") => Whole(p, FALSE)
  <1>1. t \in Text /\ Sound(t) /\ ~ Has(t, "title")
    BY DEF Talk
  <1>2. /\ p = SubSeq(t, a, b) /\ 1 <= a /\ a <= b /\ b <= Len(t)
        /\ t[a][1] \notin Break /\ t[b][1] \notin Break
    BY DEF Runs
  <1>3. (a = 1 \/ t[a - 1][1] # "char") /\ (b = Len(t) \/ t[b + 1][1] # "char")
    BY DEF Break
  <1>4. /\ Sound(p) /\ p # <<>> /\ p \in Text /\ p[1] = t[a] /\ p[Len(p)] = t[b]
        /\ \A kind : (\A i \in a .. b : t[i][1] # kind) => ~ Has(p, kind)
        /\ ~ Has(t, "title") => ~ Has(p, "title")
    BY <1>1, <1>2, <1>3, SoundPart
  <1>5. Plain(p, FALSE) /\ Starts(p)
    BY <1>1, <1>2, <1>4 DEF Plain, Starts
  <1> QED BY <1>4, <1>5 DEF Whole

\* The paragraphs of a talk may come to be grouped.
LEMMA ParagraphsWhole ==
    ASSUME NEW t, Talk(t)
    PROVE  /\ Paragraphs(t) \in Seq(Paras) /\ Said(Paragraphs(t)) = Speech(t)
           /\ \A i \in 1 .. Len(Paragraphs(t)) : IsParagraph(t, Paragraphs(t)[i])
  <1> DEFINE ps == Paragraphs(t)
  <1>1. t \in Text
    BY DEF Talk
  <1>2. /\ ps \in Seq(Text) /\ Said(ps) = Speech(t)
        /\ \A i \in 1 .. Len(ps) : ps[i] # <<>> /\ IsParagraph(t, ps[i])
    BY <1>1, ParagraphsAre
  <1> HIDE DEF ps
  <1>3. ASSUME NEW i \in 1 .. Len(ps) PROVE ps[i] \in Paras
    <2>1. PICK a, b \in Nat :
             /\ Runs(t, ps[i], a, b)
             /\ a = 1 \/ t[a - 1][1] \in Break
             /\ b = Len(t) \/ t[b + 1][1] \in Break
             /\ \A j \in a .. b : t[j][1] # "para"
      BY <1>2 DEF IsParagraph
    <2>2. Whole(ps[i], FALSE)
      BY <2>1, RunIsWhole
    <2> QED BY <2>2 DEF Paras, Whole
  <1>4. ps \in Seq(Paras)
    BY <1>2, <1>3, LenProperties
  <1> QED BY <1>2, <1>4 DEF ps

\* p is in one of the groups.
Holds(g, p) == \E j \in 1 .. Len(g) : \E k \in 1 .. Len(g[j]) : g[j][k] = p

\* The groups so far hold the paragraphs so far, in order.
Groups(g, ps, qs) ==
    /\ g \in Seq(Seq(Paras))
    /\ \A j \in 1 .. Len(g) : g[j] # <<>>
    /\ FlattenSeq(g) = [i \in DOMAIN qs |-> ps[qs[i]]]
    /\ \A i \in 1 .. Len(qs) : Holds(g, ps[qs[i]])

\* A paragraph begins a group, or goes on in the last one.
LEMMA GroupNew ==
    ASSUME NEW g \in Seq(Seq(Paras)), \A j \in 1 .. Len(g) : g[j] # <<>>, NEW p \in Paras
    PROVE  /\ Append(g, <<p>>) \in Seq(Seq(Paras))
           /\ \A j \in 1 .. Len(Append(g, <<p>>)) : Append(g, <<p>>)[j] # <<>>
           /\ FlattenSeq(Append(g, <<p>>)) = Append(FlattenSeq(g), p)
           /\ Holds(Append(g, <<p>>), p)
           /\ \A q : Holds(g, q) => Holds(Append(g, <<p>>), q)
  <1> DEFINE o == <<p>>
             h == Append(g, o)
  <1>1. o \in Seq(Paras) /\ Len(o) = 1 /\ o[1] = p /\ o # <<>>
    OBVIOUS
  <1>2. \A s \in Seq(Paras) : s \o o = Append(s, p)
    BY AppendIsConcat
  <1> HIDE DEF o
  <1>3. FlattenSeq(h) = FlattenSeq(g) \o o /\ FlattenSeq(g) \in Seq(Paras)
    BY <1>1, FlattenAppend, FlattenType
  <1>4. /\ h \in Seq(Seq(Paras)) /\ Len(h) = Len(g) + 1 /\ Len(g) \in Nat
        /\ \A j \in 1 .. Len(g) : h[j] = g[j]
        /\ h[Len(g) + 1] = o
    BY <1>1, AppendProperties, LenProperties
  <1> HIDE DEF h
  <1>5. Holds(h, p)
    <2>1. Len(g) + 1 \in 1 .. Len(h) /\ h[Len(g) + 1] = o
      BY <1>4
    <2>2. 1 \in 1 .. Len(o) /\ o[1] = p
      BY <1>1
    <2> QED BY <2>1, <2>2 DEF Holds
  <1>6. ASSUME NEW q, Holds(g, q) PROVE Holds(h, q)
    <2>1. PICK j \in 1 .. Len(g) : \E k \in 1 .. Len(g[j]) : g[j][k] = q
      BY <1>6 DEF Holds
    <2>2. j \in 1 .. Len(h) /\ h[j] = g[j]
      BY <1>4
    <2> QED BY <2>1, <2>2 DEF Holds
  <1>7. ASSUME NEW j \in 1 .. Len(h) PROVE h[j] # <<>>
    <2>1. CASE j \in 1 .. Len(g)
      BY <1>4, <2>1
    <2>2. CASE j \notin 1 .. Len(g)
      <3>1. j = Len(g) + 1
        BY <1>4, <2>2
      <3> QED BY <1>1, <1>4, <3>1
    <2> QED BY <2>1, <2>2
  <1> QED BY <1>2, <1>3, <1>4, <1>5, <1>6, <1>7 DEF h, o

\* ... and here it goes on.
LEMMA GroupMore ==
    ASSUME NEW g \in Seq(Seq(Paras)), \A j \in 1 .. Len(g) : g[j] # <<>>, NEW p \in Paras, g # <<>>
    PROVE  /\ Append(Front(g), Append(Last(g), p)) \in Seq(Seq(Paras))
           /\ \A j \in 1 .. Len(Append(Front(g), Append(Last(g), p))) :
                 Append(Front(g), Append(Last(g), p))[j] # <<>>
           /\ FlattenSeq(Append(Front(g), Append(Last(g), p))) = Append(FlattenSeq(g), p)
           /\ Holds(Append(Front(g), Append(Last(g), p)), p)
           /\ \A q : Holds(g, q) => Holds(Append(Front(g), Append(Last(g), p)), q)
  <1> DEFINE f == Front(g)
             l == Last(g)
             o == Append(l, p)
             h == Append(f, o)
  <1>1. /\ f \in Seq(Seq(Paras)) /\ l \in Seq(Paras) /\ Append(f, l) = g
        /\ Len(g) = Len(f) + 1 /\ \A i \in 1 .. Len(f) : f[i] = g[i]
    BY FrontLast
  <1>2. l = g[Len(g)]
    BY DEF Last
  <1> HIDE DEF f, l
  <1>3. /\ o \in Seq(Paras) /\ o # <<>> /\ Len(o) = Len(l) + 1 /\ Len(l) \in Nat /\ o[Len(l) + 1] = p
        /\ \A i \in 1 .. Len(l) : o[i] = l[i]
    BY <1>1, AppendProperties, LenProperties
  <1>4. FlattenSeq(f) \in Seq(Paras) /\ FlattenSeq(Append(f, l)) = FlattenSeq(f) \o l
    BY <1>1, FlattenAppend, FlattenType
  <1>5. FlattenSeq(f) \o o = Append(FlattenSeq(f) \o l, p)
    BY <1>1, <1>4, ConcatAppend
  <1> HIDE DEF o
  <1>6. FlattenSeq(h) = FlattenSeq(f) \o o
    BY <1>1, <1>3, FlattenAppend
  <1>7. /\ h \in Seq(Seq(Paras)) /\ Len(h) = Len(f) + 1 /\ Len(f) \in Nat
        /\ \A j \in 1 .. Len(f) : h[j] = f[j]
        /\ h[Len(f) + 1] = o
    BY <1>1, <1>3, AppendProperties, LenProperties
  <1> HIDE DEF h
  <1>8. Holds(h, p)
    <2>1. Len(f) + 1 \in 1 .. Len(h) /\ Len(l) + 1 \in 1 .. Len(o)
      BY <1>3, <1>7
    <2> QED BY <1>3, <1>7, <2>1 DEF Holds
  <1>9. ASSUME NEW q, Holds(g, q) PROVE Holds(h, q)
    <2>1. PICK j \in 1 .. Len(g) : \E k \in 1 .. Len(g[j]) : g[j][k] = q
      BY <1>9 DEF Holds
    <2>2. PICK k \in 1 .. Len(g[j]) : g[j][k] = q
      BY <2>1
    <2>3. CASE j \in 1 .. Len(f)
      <3>1. h[j] = g[j] /\ j \in 1 .. Len(h)
        BY <1>1, <1>7, <2>3
      <3> QED BY <2>2, <3>1 DEF Holds
    <2>4. CASE j \notin 1 .. Len(f)
      <3>1. j = Len(f) + 1 /\ g[j] = l /\ j \in 1 .. Len(h)
        BY <1>1, <1>2, <1>7, <2>4
      <3>2. k \in 1 .. Len(l) /\ k \in 1 .. Len(o) /\ h[j] = o /\ o[k] = q
        BY <1>3, <1>7, <2>2, <3>1
      <3> QED BY <3>1, <3>2 DEF Holds
    <2> QED BY <2>3, <2>4
  <1>10. ASSUME NEW j \in 1 .. Len(h) PROVE h[j] # <<>>
    <2>1. CASE j \in 1 .. Len(f)
      <3>1. j \in 1 .. Len(g)
        BY <1>1, <1>7, <2>1
      <3> QED BY <1>1, <1>7, <2>1, <3>1
    <2>2. CASE j \notin 1 .. Len(f)
      <3>1. j = Len(f) + 1
        BY <1>7, <2>2
      <3> QED BY <1>3, <1>7, <3>1
    <2> QED BY <2>1, <2>2
  <1> QED BY <1>1, <1>4, <1>5, <1>6, <1>7, <1>8, <1>9, <1>10 DEF h, o, f, l

\* HybridChunker gives chunks that hold the paragraphs, all of them and in order.
LEMMA HybridIs ==
    ASSUME NEW ps \in Seq(Paras), NEW cuts, NEW headed \in BOOLEAN
    PROVE  /\ HybridChunks(ps, cuts, headed) \in Seq({c \in Text : Whole(c, headed) /\ c # Heading})
           /\ Said(HybridChunks(ps, cuts, headed)) = Said(ps)
           /\ \A i \in 1 .. Len(ps) : \E j \in 1 .. Len(HybridChunks(ps, cuts, headed)) :
                 len(ps[i]) <= len(HybridChunks(ps, cuts, headed)[j])
  <1> DEFINE D == DOMAIN ps
             next(g, i) == IF g = <<>> \/ i - 1 \in cuts THEN Append(g, <<ps[i]>>)
                           ELSE Append(Front(g), Append(Last(g), ps[i]))
             step == [g \in Seq(Seq(Text)) |-> [i \in DOMAIN ps |-> next(g, i)]]
             ids == [i \in DOMAIN ps |-> i]
             gs == Fold(step, <<>>, ids)
             raw == HybridChunks(ps, cuts, headed)
             P == {qs \in Seq(D) : Groups(Fold(step, <<>>, qs), ps, qs)}
  <1>1. raw = [i \in DOMAIN gs |-> (IF headed THEN Title ELSE <<>>) \o join(gs[i], "line")]
    BY DEF HybridChunks
  <1>2. /\ Len(ps) \in Nat /\ D = 1 .. Len(ps) /\ ps \in [D -> Paras]
        /\ \A i \in D : ps[i] \in Paras
    BY LenProperties
  <1>3. Paras \subseteq Text
    BY DEF Paras
  <1>4. Seq(Seq(Paras)) \subseteq Seq(Seq(Text))
    <2>1. Seq(Paras) \subseteq Seq(Text)
      BY <1>3, SeqMonotonic
    <2> QED BY <2>1, SeqMonotonic
  <1>5. \A g \in Seq(Seq(Text)), i \in D : step[g][i] = next(g, i)
    OBVIOUS
  <1> HIDE DEF step
  <1>6. ids \in Seq(D) /\ Len(ids) = Len(ps) /\ \A i \in 1 .. Len(ps) : ids[i] = i
    <2>1. ids \in [1 .. Len(ps) -> D]
      BY <1>2
    <2> QED BY <1>2, <2>1
  <1> HIDE DEF D
  <1>7. <<>> \in P
    <2>1. Fold(step, <<>>, <<>>) = <<>>
      BY FoldEmpty
    <2> DEFINE e == <<>>
    <2>2. /\ e \in Seq(D) /\ e \in Seq(Seq(Paras)) /\ 1 .. Len(e) = {} /\ DOMAIN e = {}
      BY EmptySeq
    <2>3. FlattenSeq(e) = e
      BY FlattenEmpty
    <2>4. e = [i \in DOMAIN e |-> ps[e[i]]]
      BY <2>2
    <2> HIDE DEF e
    <2>5. Groups(e, ps, e)
      BY <2>2, <2>3, <2>4 DEF Groups
    <2>6. Fold(step, e, e) = e
      BY <2>1 DEF e
    <2> QED BY <2>2, <2>5, <2>6 DEF e
  <1>8. ASSUME NEW qs \in Seq(D), NEW x \in D, qs \in P PROVE Append(qs, x) \in P
    <2> DEFINE g == Fold(step, <<>>, qs)
               p == ps[x]
               rs == Append(qs, x)
    <2>1. Groups(g, ps, qs)
      BY <1>8
    <2>2. Fold(step, <<>>, rs) = step[g][x]
      BY FoldAppend
    <2> HIDE DEF g
    <2>3. /\ g \in Seq(Seq(Paras)) /\ \A j \in 1 .. Len(g) : g[j] # <<>>
          /\ FlattenSeq(g) = [i \in DOMAIN qs |-> ps[qs[i]]]
          /\ \A i \in 1 .. Len(qs) : Holds(g, ps[qs[i]])
      BY <2>1 DEF Groups
    <2>4. step[g][x] = next(g, x)
      BY <1>4, <1>5, <2>3
    <2>5. p \in Paras
      BY <1>2
    <2> DEFINE h == next(g, x)
    <2>6. /\ h \in Seq(Seq(Paras)) /\ \A j \in 1 .. Len(h) : h[j] # <<>>
          /\ FlattenSeq(h) = Append(FlattenSeq(g), p)
          /\ Holds(h, p) /\ \A q : Holds(g, q) => Holds(h, q)
      <3>1. CASE g = <<>> \/ x - 1 \in cuts
        <4>1. h = Append(g, <<p>>)
          BY <3>1
        <4> HIDE DEF h, p
        <4> QED BY <2>3, <2>5, <4>1, GroupNew
      <3>2. CASE ~ (g = <<>> \/ x - 1 \in cuts)
        <4>1. h = Append(Front(g), Append(Last(g), p)) /\ g # <<>>
          BY <3>2
        <4> HIDE DEF h, p
        <4> QED BY <2>3, <2>5, <4>1, GroupMore
      <3> QED BY <3>1, <3>2
    <2> HIDE DEF next, h
    <2>7. [i \in DOMAIN rs |-> ps[rs[i]]] = Append([i \in DOMAIN qs |-> ps[qs[i]]], ps[x])
      BY <1>2, MapAppend
    <2>8. /\ rs \in Seq(D) /\ Len(rs) = Len(qs) + 1 /\ Len(qs) \in Nat /\ rs[Len(qs) + 1] = x
          /\ \A i \in 1 .. Len(qs) : rs[i] = qs[i]
      BY AppendProperties, LenProperties
    <2> HIDE DEF rs, p
    <2>9. ASSUME NEW i \in 1 .. Len(rs) PROVE Holds(h, ps[rs[i]])
      <3>1. CASE i \in 1 .. Len(qs)
        BY <2>3, <2>6, <2>8, <3>1
      <3>2. CASE i \notin 1 .. Len(qs)
        <4>1. i = Len(qs) + 1
          BY <2>8, <3>2
        <4> QED BY <2>6, <2>8, <4>1 DEF p
      <3> QED BY <3>1, <3>2
    <2>10. Groups(h, ps, rs)
      BY <2>3, <2>6, <2>7, <2>9 DEF Groups, p
    <2> QED BY <2>2, <2>4, <2>8, <2>10 DEF h, rs
  <1> HIDE DEF P, next, ids
  <1>9. ids \in P
    BY <1>6, <1>7, <1>8, ByAppending
  <1>10. Groups(gs, ps, ids)
    BY <1>9 DEF P
  <1> HIDE DEF gs
  <1>11. [i \in DOMAIN ids |-> ps[ids[i]]] = ps
    <2>1. DOMAIN ids = 1 .. Len(ps)
      BY <1>6, LenProperties
    <2>2. [i \in DOMAIN ids |-> ps[ids[i]]] = [i \in 1 .. Len(ps) |-> ps[i]]
      BY <1>6, <2>1
    <2>3. ps = [i \in 1 .. Len(ps) |-> ps[i]]
      BY <1>2 DEF D
    <2> QED BY <2>2, <2>3
  <1>12. /\ gs \in Seq(Seq(Paras)) /\ \A j \in 1 .. Len(gs) : gs[j] # <<>>
         /\ FlattenSeq(gs) = ps
         /\ \A i \in 1 .. Len(ps) : Holds(gs, ps[i])
    BY <1>6, <1>10, <1>11 DEF Groups
  <1>13. /\ Len(gs) \in Nat /\ DOMAIN gs = 1 .. Len(gs)
         /\ \A i \in 1 .. Len(gs) : gs[i] \in Seq(Paras) /\ gs[i] \in Seq(Text)
    <2>1. Seq(Paras) \subseteq Seq(Text)
      BY <1>3, SeqMonotonic
    <2> QED BY <1>12, <2>1, LenProperties, ElementOfSeq
  <1> DEFINE piece(i) == (IF headed THEN Title ELSE <<>>) \o join(gs[i], "line")
  <1>14. ASSUME NEW i \in 1 .. Len(gs)
         PROVE  /\ piece(i) \in Text /\ Whole(piece(i), headed) /\ piece(i) # Heading
                /\ Speech(piece(i)) = Said(gs[i])
                /\ len(join(gs[i], "line")) <= len(piece(i))
    <2> DEFINE j == join(gs[i], "line")
    <2>1. "line" \in Kind /\ "line" # "char"
      BY DEF Kind
    <2>2. j \in Text /\ Speech(j) = Said(gs[i]) /\ len(j) \in Nat
      BY <1>13, <2>1, JoinIs, SaidJoin, LenIs
    <2>3. Whole(j, FALSE)
      BY <1>12, <1>13, WholeLines DEF Paras
    <2> HIDE DEF j
    <2>4. CASE headed
      <3>1. piece(i) = Title \o j
        BY <2>4 DEF j
      <3>2. Title \in Text /\ Speech(Title) = <<>> /\ len(Title) \in Nat
        BY HeadingIs, LenIs
      <3>3. Speech(Title \o j) = Speech(Title) \o Speech(j) /\ len(Title \o j) = len(Title) + len(j)
            /\ Title \o j \in Text
        <4> DEFINE m == Title
        <4>1. m \in Text
          BY <3>2
        <4> HIDE DEF m
        <4>2. Speech(m \o j) = Speech(m) \o Speech(j) /\ len(m \o j) = len(m) + len(j) /\ m \o j \in Text
          BY <2>2, <4>1, SpeechIs, LenConcat, ConcatProperties DEF Text
        <4> QED BY <4>2 DEF m
      <3>4. <<>> \o Speech(j) = Speech(j)
        BY <2>2, SpeechIs, ConcatEmptySeq DEF Text
      <3>5. Whole((Heading \o Mark("line")) \o j, headed) /\ (Heading \o Mark("line")) \o j # Heading
        <4>1. Whole(Heading, headed)
          BY <2>4, HeadingIs
        <4> QED BY <2>3, <4>1, WholeJoined
      <3>6. Whole(Title \o j, headed) /\ Title \o j # Heading
        BY <3>5, HeadingIs
      <3>7. len(j) <= len(Title \o j)
        BY <2>2, <3>2, <3>3
      <3> HIDE DEF piece
      <3> QED BY <2>2, <3>1, <3>2, <3>3, <3>4, <3>6, <3>7 DEF j
    <2>5. CASE ~ headed
      <3>1. piece(i) = j
        <4>1. piece(i) = <<>> \o j
          BY <2>5 DEF j
        <4>2. <<>> \o j = j
          BY <2>2, ConcatEmptySeq DEF Text
        <4> QED BY <4>1, <4>2
      <3>2. j # Heading
        <4> SUFFICES ASSUME j = Heading PROVE FALSE
          OBVIOUS
        <4>1. ~ Has(j, "title")
          BY <2>3 DEF Whole, Plain
        <4>2. Len(Heading) = 1 /\ Heading[1][1] = "title"
          BY DEF Heading
        <4> QED BY <4>1, <4>2 DEF Has
      <3>3. Whole(j, headed)
        <4>1. headed = FALSE
          BY <2>5
        <4> QED BY <2>3, <4>1
      <3> HIDE DEF piece
      <3> QED BY <2>2, <3>1, <3>2, <3>3 DEF j
    <2> QED BY <2>4, <2>5
  <1> HIDE DEF raw
  <1>15. Len(raw) = Len(gs) /\ raw \in Seq({c \in Text : Whole(c, headed) /\ c # Heading})
         /\ \A i \in 1 .. Len(gs) : raw[i] = piece(i)
    <2> DEFINE C == {c \in Text : Whole(c, headed) /\ c # Heading}
    <2>1. \A i \in 1 .. Len(gs) : piece(i) \in C
      BY <1>14
    <2> HIDE DEF C
    <2>2. raw = [i \in 1 .. Len(gs) |-> piece(i)]
      BY <1>1, <1>13
    <2> HIDE DEF piece
    <2>3. raw \in [1 .. Len(gs) -> C] /\ \A i \in 1 .. Len(gs) : raw[i] = piece(i)
      BY <2>1, <2>2
    <2>4. raw \in Seq(C) /\ Len(raw) = Len(gs)
      BY <1>13, <2>3
    <2> QED BY <2>3, <2>4 DEF C
  <1> HIDE DEF piece
  <1>16. Said(raw) = Said(ps)
    <2>1. raw \in Seq(Text)
      <3>1. {c \in Text : Whole(c, headed) /\ c # Heading} \subseteq Text
        OBVIOUS
      <3> QED BY <1>15, <3>1, SeqMonotonic
    <2>2. gs \in Seq(Seq(Text))
      BY <1>4, <1>12
    <2>3. \A i \in 1 .. Len(raw) : Said(gs[i]) = Speech(raw[i])
      BY <1>14, <1>15
    <2>4. Said(FlattenSeq(gs)) = Said(raw)
      BY <1>15, <2>1, <2>2, <2>3, SaidFlatten
    <2> QED BY <1>12, <2>4
  <1>17. ASSUME NEW i \in 1 .. Len(ps) PROVE \E j \in 1 .. Len(raw) : len(ps[i]) <= len(raw[j])
    <2>1. PICK j \in 1 .. Len(gs) : \E k \in 1 .. Len(gs[j]) : gs[j][k] = ps[i]
      BY <1>12 DEF Holds
    <2>2. PICK k \in 1 .. Len(gs[j]) : gs[j][k] = ps[i]
      BY <2>1
    <2>3. len(gs[j][k]) <= len(join(gs[j], "line"))
      BY <1>13, LenOfJoin DEF Kind
    <2>4. len(join(gs[j], "line")) <= len(raw[j])
      BY <1>14, <1>15
    <2>5. len(ps[i]) \in Nat /\ len(join(gs[j], "line")) \in Nat /\ len(raw[j]) \in Nat
      <3>1. ps[i] \in Text
        BY <1>2, <1>3 DEF D
      <3>2. join(gs[j], "line") \in Text
        BY <1>13, JoinIs DEF Kind
      <3>3. raw[j] \in Text
        BY <1>14, <1>15
      <3> QED BY <3>1, <3>2, <3>3, LenIs
    <2> QED BY <1>15, <2>2, <2>3, <2>4, <2>5
  <1> QED BY <1>15, <1>16, <1>17 DEF raw

-----------------------------------------------------------------------------
(* The limit, and the chunks that are forced                               *)

\* Joining more gives no less.
LEMMA JoinedPart ==
    ASSUME NEW sep \in Kind, sep # "char", NEW xs \in Seq(Text), NEW ys \in Seq(Text)
    PROVE  /\ len(join(xs, sep)) <= len(join(xs \o ys, sep))
           /\ len(join(ys, sep)) <= len(join(xs \o ys, sep))
  <1> DEFINE J == [s \in Seq(Text) |-> join(s, sep)]
             P == {s \in Seq(Text) : /\ len(J[xs]) <= len(J[xs \o s])
                                     /\ len(J[s]) <= len(J[xs \o s])}
  <1>1. \A s \in Seq(Text) : J[s] \in Text /\ len(J[s]) \in Nat
    BY JoinIs, LenIs
  <1>2. \A s \in Seq(Text), p \in Text :
           J[Append(s, p)] = IF J[s] = <<>> THEN p ELSE (J[s] \o Mark(sep)) \o p
    BY JoinIs, AppendProperties
  <1>3. J[<<>>] = <<>> /\ len(<<>>) = 0
    BY JoinIs, LenIs, EmptySeq
  <1>0. \A s \in Seq(Text) : J[s] = join(s, sep) /\ xs \o s \in Seq(Text)
    BY ConcatProperties
  <1> HIDE DEF J
  <1>4. <<>> \in P
    <2>1. xs \o <<>> = xs /\ <<>> \in Seq(Text)
      BY ConcatEmptySeq, EmptySeq
    <2>2. len(J[xs]) <= len(J[xs]) /\ len(J[<<>>]) <= len(J[xs])
      <3>1. len(J[xs]) \in Nat /\ len(J[<<>>]) = 0
        BY <1>1, <1>3
      <3> QED BY <3>1
    <2>3. len(J[xs]) <= len(J[xs \o <<>>]) /\ len(J[<<>>]) <= len(J[xs \o <<>>])
      BY <2>1, <2>2
    <2> QED BY <2>1, <2>3
  <1>5. ASSUME NEW s \in Seq(Text), NEW p \in Text, s \in P PROVE Append(s, p) \in P
    <2> DEFINE u == xs \o s
               v == xs \o Append(s, p)
    <2>0. \A x \in Seq(Text), y \in Seq(Text), z \in Text : x \o Append(y, z) = Append(x \o y, z)
      BY ConcatAppend
    <2>1. v = Append(u, p)
      BY <2>0
    <2>2. u \in Seq(Text) /\ Append(s, p) \in Seq(Text)
      BY ConcatProperties, AppendProperties
    <2>3. len(J[xs]) <= len(J[u]) /\ len(J[s]) <= len(J[u])
      BY <1>5
    <2> HIDE DEF u, v
    <2>4. J[v] = IF J[u] = <<>> THEN p ELSE (J[u] \o Mark(sep)) \o p
      BY <1>2, <2>1, <2>2
    <2>5. J[Append(s, p)] = IF J[s] = <<>> THEN p ELSE (J[s] \o Mark(sep)) \o p
      BY <1>2
    <2>6. len(p) \in Nat /\ Width[sep] \in Nat /\ Width[sep] >= 0
          /\ len(J[u]) \in Nat /\ len(J[s]) \in Nat /\ len(J[xs]) \in Nat
      <3>1. len(p) \in Nat
        BY LenIs
      <3>2. Width[sep] \in Nat
        BY MarkIs
      <3>3. len(J[u]) \in Nat /\ len(J[s]) \in Nat /\ len(J[xs]) \in Nat
        BY <1>1, <2>2
      <3> QED BY <3>1, <3>2, <3>3
    <2>7. \A x \in Text : len((x \o Mark(sep)) \o p) = len(x) + Width[sep] + len(p)
      BY SpeechJoined
    <2>8. len(J[v]) = IF J[u] = <<>> THEN len(p) ELSE len(J[u]) + Width[sep] + len(p)
      BY <1>1, <2>2, <2>4, <2>7
    <2>9. len(J[Append(s, p)]) = IF J[s] = <<>> THEN len(p) ELSE len(J[s]) + Width[sep] + len(p)
      BY <1>1, <2>5, <2>7
    <2>10. J[u] = <<>> => len(J[s]) = 0 /\ len(J[xs]) = 0
      <3> SUFFICES ASSUME J[u] = <<>> PROVE len(J[s]) = 0 /\ len(J[xs]) = 0
        OBVIOUS
      <3>1. len(J[u]) = 0
        BY <1>3
      <3> QED BY <2>3, <2>6, <3>1
    <2>11. J[u] = <<>> => J[s] = <<>>
      <3>1. \A x \in Text : len(x) >= Len(x) /\ Len(x) \in Nat
        BY LenBounds, LenProperties DEF Text
      <3>2. len(J[s]) = 0 => Len(J[s]) = 0
        BY <1>1, <3>1
      <3>3. Len(J[s]) = 0 => J[s] = <<>>
        BY <1>1, EmptySeq DEF Text
      <3> QED BY <2>10, <3>2, <3>3
    <2>12. len(J[xs]) <= len(J[v]) /\ len(J[Append(s, p)]) <= len(J[v])
      <3>1. CASE J[u] = <<>>
        BY <2>6, <2>8, <2>9, <2>10, <2>11, <3>1
      <3>2. CASE J[u] # <<>>
        <4>1. len(J[v]) = len(J[u]) + Width[sep] + len(p)
          BY <2>8, <3>2
        <4>2. len(J[xs]) <= len(J[v])
          <5> DEFINE x == len(J[u])
                     y == len(J[xs])
                     z == len(J[v])
                     w == Width[sep]
          <5>1. x \in Nat /\ y \in Nat /\ w \in Nat /\ len(p) \in Nat /\ y <= x /\ z = x + w + len(p)
            BY <2>3, <2>6, <4>1
          <5> HIDE DEF x, y, z, w
          <5>2. y <= z
            BY <5>1
          <5> QED BY <5>2 DEF y, z
        <4>3. len(J[Append(s, p)]) <= len(J[v])
          <5>1. CASE J[s] = <<>>
            BY <2>6, <2>9, <4>1, <5>1
          <5>2. CASE J[s] # <<>>
            BY <2>3, <2>6, <2>9, <4>1, <5>2
          <5> QED BY <5>1, <5>2
        <4> QED BY <4>2, <4>3
      <3> QED BY <3>1, <3>2
    <2> QED BY <2>2, <2>12 DEF v
  <1> HIDE DEF P
  <1>6. ys \in P
    BY <1>4, <1>5, ByAppending
  <1> QED BY <1>0, <1>6 DEF P

\* Flattening leaves out none that is not blank.
LEMMA SpokenOfFlatten ==
    ASSUME NEW tss \in Seq(Seq(Text)), NEW k \in 1 .. Len(tss)
    PROVE  Spoken(tss[k]) <= Spoken(FlattenSeq(tss))
  <1> DEFINE P == {us \in Seq(Seq(Text)) :
                      \A i \in 1 .. Len(us) : Spoken(us[i]) <= Spoken(FlattenSeq(us))}
  <1>1. <<>> \in P
    BY EmptySeq
  <1>2. ASSUME NEW us \in Seq(Seq(Text)), NEW t \in Seq(Text), us \in P PROVE Append(us, t) \in P
    <2> DEFINE a == Append(us, t)
    <2>1. FlattenSeq(a) = FlattenSeq(us) \o t /\ FlattenSeq(us) \in Seq(Text)
      BY FlattenAppend, FlattenType
    <2>2. Spoken(FlattenSeq(a)) = Spoken(FlattenSeq(us)) + Spoken(t)
          /\ Spoken(FlattenSeq(us)) \in Nat /\ Spoken(t) \in Nat
      BY <2>1, SpokenIs
    <2>3. a \in Seq(Seq(Text)) /\ Len(a) = Len(us) + 1 /\ Len(us) \in Nat /\ a[Len(us) + 1] = t
          /\ \A i \in 1 .. Len(us) : a[i] = us[i] /\ us[i] \in Seq(Text)
      BY AppendProperties, LenProperties, ElementOfSeq
    <2> HIDE DEF a
    <2>4. ASSUME NEW i \in 1 .. Len(a) PROVE Spoken(a[i]) <= Spoken(FlattenSeq(a))
      <3>1. CASE i \in 1 .. Len(us)
        <4>1. Spoken(us[i]) <= Spoken(FlattenSeq(us)) /\ Spoken(us[i]) \in Nat
          BY <1>2, <2>3, <3>1, SpokenIs
        <4> QED BY <2>2, <2>3, <3>1, <4>1
      <3>2. CASE i \notin 1 .. Len(us)
        <4>1. i = Len(us) + 1
          BY <2>3, <3>2
        <4> QED BY <2>2, <2>3, <4>1
      <3> QED BY <3>1, <3>2
    <2> QED BY <2>3, <2>4 DEF a
  <1> HIDE DEF P
  <1>3. tss \in P
    BY <1>1, <1>2, ByAppending
  <1> QED BY <1>3 DEF P

\* Chunks of a text that keep what it says and of which none is too long.
ChunksOf(cs, said) ==
    /\ cs \in Seq(Text) /\ Said(cs) = said
    /\ \A i \in 1 .. Len(cs) : ~ blank(cs[i]) /\ len(cs[i]) <= MaxChars + len(Title)

\* _enforce_max_chars keeps what is said within the limit, and makes two of what was too
\* long (chunker.py:271-282).
LEMMA EnforceIs ==
    ASSUME NEW headed, NEW raw,
           raw \in Seq({c \in ForParas(headed) : Starts(c) /\ c # Heading})
    PROVE  /\ ChunksOf(_enforce_max_chars(raw), Said(raw))
           /\ Len(_enforce_max_chars(raw)) < 2 =>
                 \A i \in 1 .. Len(raw) : len(raw[i]) <= MaxChars
  <1> DEFINE C == {c \in ForParas(headed) : Starts(c) /\ c # Heading}
             X == {c \in Text : Fits(c, headed)}
             part(c) == IF len(c) <= MaxChars THEN <<c>> ELSE _split_text(c)
             tss == [i \in DOMAIN raw |-> part(raw[i])]
             fs == FlattenSeq(tss)
             cs == _enforce_max_chars(raw)
  <1>1. cs = Only(fs, NotBlank)
    BY DEF _enforce_max_chars, NotBlank
  <1>2. /\ Len(raw) \in Nat /\ DOMAIN raw = 1 .. Len(raw) /\ raw \in Seq(Text)
        /\ \A i \in 1 .. Len(raw) : raw[i] \in C /\ raw[i] \in Text
    <2>1. C \subseteq Text
      BY DEF ForParas
    <2> HIDE DEF C
    <2>2. raw \in Seq(C)
      BY DEF C
    <2>3. raw \in Seq(Text)
      BY <2>1, <2>2, SeqMonotonic
    <2> QED BY <2>2, <2>3, LenProperties, ElementOfSeq
  <1>3. MaxChars \in Nat
    BY ChunkerAssumption
  <1>4. ASSUME NEW c \in C
        PROVE  /\ part(c) \in Seq(X) /\ Said(part(c)) = Speech(c)
               /\ len(c) > MaxChars => Spoken(part(c)) >= 2
    <2>1. c \in ForParas(headed) /\ c \in Text /\ len(c) \in Nat /\ Starts(c) /\ c # Heading
      BY LenIs DEF ForParas
    <2>2. CASE len(c) <= MaxChars
      <3>1. part(c) = <<c>> /\ c \in X /\ ~ (len(c) > MaxChars)
        BY <1>3, <2>1, <2>2 DEF Fits
      <3>2. Said(<<c>>) = Speech(c)
        BY <2>1, SaidOne
      <3>3. <<c>> \in Seq(X)
        <4> HIDE DEF X
        <4> QED BY <3>1
      <3> HIDE DEF part, X
      <3> QED BY <3>1, <3>2, <3>3
    <2>3. CASE ~ (len(c) <= MaxChars)
      <3>1. part(c) = _split_text(c) /\ len(c) > MaxChars
        BY <1>3, <2>1, <2>3
      <3> DEFINE w == _split_text(c)
      <3>2. WellSplit(c, w, headed)
        BY <2>1, <3>1, SplitTextTells
      <3> HIDE DEF w
      <3>3. /\ w \in Seq(Text) /\ Said(w) = Speech(c) /\ Spoken(w) >= 2
            /\ \A i \in 1 .. Len(w) : Fits(w[i], headed)
        BY <2>1, <3>2 DEF WellSplit
      <3>4. \A i \in 1 .. Len(w) : w[i] \in X
        BY <3>3, ElementOfSeq
      <3>5. w \in Seq(X)
        <4> HIDE DEF X
        <4> QED BY <3>3, <3>4, LenProperties
      <3>6. part(c) = w
        BY <3>1 DEF w
      <3> HIDE DEF part, X
      <3> QED BY <3>3, <3>5, <3>6
    <2> QED BY <2>2, <2>3
  <1> HIDE DEF C, part
  <1>5. tss \in Seq(Seq(X)) /\ Len(tss) = Len(raw) /\ \A i \in 1 .. Len(raw) : tss[i] = part(raw[i])
    <2>1. \A i \in 1 .. Len(raw) : part(raw[i]) \in Seq(X)
      BY <1>2, <1>4
    <2> HIDE DEF X
    <2>2. tss \in [1 .. Len(raw) -> Seq(X)]
      BY <1>2, <2>1
    <2> QED BY <1>2, <2>2
  <1> HIDE DEF tss
  <1>6. X \subseteq Text /\ tss \in Seq(Seq(Text))
    <2>1. X \subseteq Text
      OBVIOUS
    <2>2. Seq(X) \subseteq Seq(Text)
      BY <2>1, SeqMonotonic
    <2> HIDE DEF X
    <2> QED BY <1>5, <2>1, <2>2, SeqMonotonic
  <1>7. fs \in Seq(X) /\ fs \in Seq(Text)
    <2> HIDE DEF X
    <2>1. fs \in Seq(X)
      BY <1>5, FlattenType
    <2> QED BY <1>6, <2>1, SeqMonotonic
  <1>8. Said(fs) = Said(raw)
    <2>1. \A i \in 1 .. Len(raw) : Said(tss[i]) = Speech(raw[i])
      BY <1>2, <1>4, <1>5
    <2> QED BY <1>2, <1>5, <1>6, <2>1, SaidFlatten
  <1>9. \A i \in 1 .. Len(raw) : Spoken(tss[i]) <= Spoken(fs)
    BY <1>5, <1>6, SpokenOfFlatten
  <1> HIDE DEF fs
  <1>10. cs \in Seq(X \cap NotBlank) /\ Said(cs) = Said(fs) /\ Len(cs) = Spoken(fs)
    <2>1. Only(fs, NotBlank) \in Seq(X \cap NotBlank)
      <3> HIDE DEF X
      <3> QED BY <1>7, OnlyKeeps
    <2>2. \A i \in 1 .. Len(fs) : fs[i] \notin NotBlank => Speech(fs[i]) = <<>>
      <3> SUFFICES ASSUME NEW i \in 1 .. Len(fs), fs[i] \notin NotBlank PROVE Speech(fs[i]) = <<>>
        OBVIOUS
      <3>1. fs[i] \in Text
        BY <1>7, ElementOfSeq
      <3> QED BY <3>1, SpeechOfBlank DEF NotBlank
    <2>3. Said(Only(fs, NotBlank)) = Said(fs)
      BY <1>7, <2>2, SaidOnly
    <2> HIDE DEF X
    <2> QED BY <1>1, <2>1, <2>3 DEF Spoken
  <1> HIDE DEF cs
  <1>11. \A i \in 1 .. Len(cs) : cs[i] \in X /\ cs[i] \in NotBlank
    BY <1>10, ElementOfSeq
  <1>12. cs \in Seq(Text)
    <2>1. X \cap NotBlank \subseteq Text
      OBVIOUS
    <2> QED BY <1>10, <2>1, SeqMonotonic
  <1>13. \A i \in 1 .. Len(cs) : ~ blank(cs[i]) /\ len(cs[i]) <= MaxChars + len(Title)
    <2> SUFFICES ASSUME NEW i \in 1 .. Len(cs)
                 PROVE  ~ blank(cs[i]) /\ len(cs[i]) <= MaxChars + len(Title)
      OBVIOUS
    <2>1. cs[i] \in Text /\ ~ blank(cs[i]) /\ Fits(cs[i], headed) /\ len(cs[i]) \in Nat
      BY <1>11, LenIs DEF NotBlank
    <2>2. len(Title) = TitleLen + 1 /\ len(Heading) = TitleLen /\ TitleLen \in Nat
      BY HeadingIs, ChunkerAssumption
    <2>3. len(cs[i]) <= MaxChars \/ cs[i] = Heading
      BY <2>1 DEF Fits
    <2> QED BY <1>3, <2>1, <2>2, <2>3
  <1>14. ChunksOf(cs, Said(raw))
    BY <1>8, <1>10, <1>12, <1>13 DEF ChunksOf
  <1>15. ASSUME Len(cs) < 2, NEW i \in 1 .. Len(raw) PROVE len(raw[i]) <= MaxChars
    <2>1. len(raw[i]) \in Nat
      BY <1>2, LenIs
    <2>2. len(raw[i]) > MaxChars => Spoken(tss[i]) >= 2
      BY <1>2, <1>4, <1>5
    <2>3. Spoken(tss[i]) <= Spoken(fs) /\ Spoken(tss[i]) \in Nat /\ Spoken(fs) \in Nat
      <3>1. tss[i] \in Seq(Text)
        BY <1>5, <1>6, ElementOfSeq
      <3> QED BY <1>7, <1>9, <3>1, SpokenIs
    <2> QED BY <1>3, <1>10, <1>15, <2>1, <2>2, <2>3
  <1> QED BY <1>14, <1>15 DEF cs

\* One element more, in one place.
LEMMA AppendIs ==
    ASSUME NEW S, NEW s \in Seq(S), NEW x \in S
    PROVE  /\ Append(s, x) \in Seq(S) /\ Append(s, x) # <<>>
           /\ Len(Append(s, x)) = Len(s) + 1 /\ Len(s) \in Nat
           /\ Append(s, x)[Len(s) + 1] = x /\ \A i \in 1 .. Len(s) : Append(s, x)[i] = s[i]
  BY AppendProperties, LenProperties

\* Chunks of some paragraphs put under the title.
UnderTitle(ps) == Title \o join(ps, "para")

\* A chunk under the title says what its paragraphs say and is not blank.
LEMMA UnderTitleIs ==
    ASSUME NEW ps \in Seq(Text)
    PROVE  /\ UnderTitle(ps) \in Text /\ Speech(UnderTitle(ps)) = Said(ps) /\ ~ blank(UnderTitle(ps))
           /\ len(UnderTitle(ps)) = len(Title) + len(join(ps, "para"))
  <1> DEFINE m == Title
             j == join(ps, "para")
  <1>1. m \in Text /\ Speech(m) = <<>> /\ ~ blank(m)
    BY HeadingIs
  <1>2. j \in Text /\ Speech(j) = Said(ps)
    BY JoinIs, SaidJoin DEF Kind
  <1>3. UnderTitle(ps) = m \o j
    BY DEF UnderTitle
  <1> HIDE DEF m, j
  <1>4. /\ m \o j \in Text /\ Speech(m \o j) = Speech(m) \o Speech(j) /\ ~ blank(m \o j)
        /\ len(m \o j) = len(m) + len(j)
    BY <1>1, <1>2, SpeechIs, LenConcat, BlankConcat, ConcatProperties DEF Text
  <1>5. <<>> \o Speech(j) = Speech(j)
    BY <1>2, SpeechIs, ConcatEmptySeq DEF Text
  <1> QED BY <1>1, <1>2, <1>3, <1>4, <1>5 DEF m, j

\* What putting paragraphs together has come to.
Forced(qs, g) ==
    /\ g.result \in Seq(Text) /\ g.parts \in Seq(Text) /\ g.n \in Nat
    /\ Said(g.result) \o Said(g.parts) = Said(qs)
    /\ \A i \in 1 .. Len(g.result) : /\ ~ blank(g.result[i])
                                     /\ len(g.result[i]) <= MaxChars + len(Title)
    /\ len(join(g.parts, "para")) <= MaxChars
    /\ len(Title) <= g.n
    /\ g.parts # <<>> => len(Title) + len(join(g.parts, "para")) <= g.n
    /\ qs # <<>> => g.parts # <<>>
    /\ g.result = <<>> => g.parts = qs

\* One paragraph more, as _force_paragraph_split takes it (chunker.py:350-359).
ForcedNext(g, para) ==
    IF g.n + len(para) + 2 > MaxChars /\ g.parts # <<>>
       THEN [result |-> Append(g.result, UnderTitle(g.parts)),
             parts |-> <<para>>, n |-> len(Title) + len(para)]
       ELSE [g EXCEPT !.parts = Append(@, para), !.n = @ + len(para) + 2]

\* What it keeps on the way.
ForcedGroups == [result : Seq(Text), parts : Seq(Text), n : Nat]

\* One paragraph more loses nothing, and makes no chunk longer than the limit and the
\* title.
LEMMA ForcedStep ==
    ASSUME NEW qs \in Seq(Text), NEW p \in Text, len(p) <= MaxChars,
           NEW g \in ForcedGroups, Forced(qs, g)
    PROVE  ForcedNext(g, p) \in ForcedGroups /\ Forced(Append(qs, p), ForcedNext(g, p))
  <1> DEFINE h == ForcedNext(g, p)
             t == UnderTitle(g.parts)
             j == join(g.parts, "para")
             u == Append(g.parts, p)
  <1>1. /\ g.result \in Seq(Text) /\ g.parts \in Seq(Text) /\ g.n \in Nat
        /\ Said(g.result) \o Said(g.parts) = Said(qs)
        /\ \A i \in 1 .. Len(g.result) : /\ ~ blank(g.result[i])
                                         /\ len(g.result[i]) <= MaxChars + len(Title)
        /\ len(j) <= MaxChars
        /\ len(Title) <= g.n
        /\ g.parts # <<>> => len(Title) + len(j) <= g.n
        /\ qs # <<>> => g.parts # <<>>
        /\ g.result = <<>> => g.parts = qs
    BY DEF Forced
  <1>2. /\ len(p) \in Nat /\ MaxChars \in Nat /\ len(Title) \in Nat /\ len(j) \in Nat /\ j \in Text
        /\ "para" \in Kind /\ Width["para"] = 2
    BY <1>1, LenIs, HeadingIs, JoinIs, ChunkerAssumption DEF Kind, Width
  <1>3. Said(Append(qs, p)) = Said(qs) \o Speech(p)
    BY SaidIs
  <1>4. /\ Said(g.result) \in Seq(Token) /\ Said(g.parts) \in Seq(Token) /\ Speech(p) \in Seq(Token)
    BY <1>1, SaidIs, SpeechIs DEF Text
  <1>5. t \in Text /\ Speech(t) = Said(g.parts) /\ ~ blank(t) /\ len(t) = len(Title) + len(j)
    BY <1>1, UnderTitleIs
  <1>6. CASE g.n + len(p) + 2 > MaxChars /\ g.parts # <<>>
    <2> DEFINE r == Append(g.result, t)
    <2>1. h = [result |-> r, parts |-> <<p>>, n |-> len(Title) + len(p)]
      BY <1>6 DEF ForcedNext
    <2> HIDE DEF t
    <2>2. /\ r \in Seq(Text) /\ r # <<>> /\ Len(r) = Len(g.result) + 1 /\ Len(g.result) \in Nat
          /\ r[Len(g.result) + 1] = t /\ \A i \in 1 .. Len(g.result) : r[i] = g.result[i]
      <3>1. g.result \in Seq(Text) /\ t \in Text
        BY <1>1, <1>5
      <3> QED BY <3>1, AppendIs
    <2>3. Said(r) = Said(g.result) \o Speech(t)
      BY <1>1, <1>5, SaidIs
    <2> HIDE DEF r
    <2>4. h.result = r /\ h.parts = <<p>> /\ h.n = len(Title) + len(p)
      BY <2>1
    <2>5. <<p>> \in Seq(Text) /\ <<p>> # <<>>
      OBVIOUS
    <2>6. h \in ForcedGroups
      <3>1. len(Title) + len(p) \in Nat
        BY <1>2
      <3> QED BY <2>1, <2>2, <2>5, <3>1 DEF ForcedGroups
    <2>7. Said(<<p>>) = Speech(p)
      BY SaidOne
    <2>8. Said(r) \o Said(<<p>>) = Said(Append(qs, p))
      BY <1>1, <1>3, <1>5, <2>3, <2>7
    <2>9. \A i \in 1 .. Len(r) : ~ blank(r[i]) /\ len(r[i]) <= MaxChars + len(Title)
      <3> SUFFICES ASSUME NEW i \in 1 .. Len(r)
                   PROVE  ~ blank(r[i]) /\ len(r[i]) <= MaxChars + len(Title)
        OBVIOUS
      <3>1. CASE i \in 1 .. Len(g.result)
        BY <1>1, <2>2, <3>1
      <3>2. CASE i \notin 1 .. Len(g.result)
        <4>1. r[i] = t
          BY <2>2, <3>2
        <4>2. len(t) <= MaxChars + len(Title)
          BY <1>1, <1>2, <1>5
        <4> QED BY <1>5, <4>1, <4>2
      <3> QED BY <3>1, <3>2
    <2>10. join(<<p>>, "para") = p
      <3>1. <<p>> = Append(<<>>, p) /\ <<>> \in Seq(Text)
        OBVIOUS
      <3>2. join(Append(<<>>, p), "para") = p
        BY <1>2, <3>1, JoinIs
      <3> QED BY <3>1, <3>2
    <2> HIDE DEF h
    <2> DEFINE o == <<p>>
    <2>11. /\ h.parts = o /\ o \in Seq(Text) /\ o # <<>> /\ Said(r) \o Said(o) = Said(Append(qs, p))
           /\ join(o, "para") = p
      BY <2>4, <2>5, <2>8, <2>10
    <2>12. h.n \in Nat /\ len(Title) <= h.n /\ len(Title) + len(p) <= h.n
      BY <1>2, <2>4
    <2> HIDE DEF o
    <2>13. len(join(h.parts, "para")) <= MaxChars /\ len(Title) + len(join(h.parts, "para")) <= h.n
      BY <2>11, <2>12
    <2>14. Forced(Append(qs, p), h)
      BY <2>2, <2>4, <2>9, <2>11, <2>12, <2>13 DEF Forced
    <2> QED BY <2>6, <2>14 DEF h
  <1>7. CASE ~ (g.n + len(p) + 2 > MaxChars /\ g.parts # <<>>)
    <2>1. h = [g EXCEPT !.parts = Append(@, p), !.n = @ + len(p) + 2]
      BY <1>7 DEF ForcedNext
    <2>2. u \in Seq(Text) /\ u # <<>>
      BY <1>1, AppendProperties
    <2>3. Said(u) = Said(g.parts) \o Speech(p)
      BY <1>1, SaidIs
    <2>4. join(u, "para") = IF j = <<>> THEN p ELSE (j \o Mark("para")) \o p
      BY <1>1, <1>2, JoinIs
    <2> HIDE DEF u, j
    <2>5. h.result = g.result /\ h.parts = u /\ h.n = g.n + len(p) + 2 /\ h \in ForcedGroups
      <3> DEFINE k == g.n + len(p) + 2
      <3>1. k \in Nat
        BY <1>1, <1>2
      <3>2. g = [result |-> g.result, parts |-> g.parts, n |-> g.n]
        BY DEF ForcedGroups
      <3>3. h = [result |-> g.result, parts |-> u, n |-> k]
        BY <2>1, <3>2 DEF u
      <3> HIDE DEF h, k
      <3>4. h \in ForcedGroups /\ h.result = g.result /\ h.parts = u /\ h.n = k
        BY <1>1, <2>2, <3>1, <3>3 DEF ForcedGroups
      <3> QED BY <3>4 DEF k
    <2>6. len(join(u, "para")) = IF j = <<>> THEN len(p) ELSE len(j) + 2 + len(p)
      <3>1. len((j \o Mark("para")) \o p) = len(j) + 2 + len(p)
        BY <1>2, SpeechJoined
      <3> QED BY <2>4, <3>1
    <2>7. /\ len(join(u, "para")) <= MaxChars
          /\ len(Title) + len(join(u, "para")) <= g.n + len(p) + 2
          /\ g.n + len(p) + 2 \in Nat /\ len(Title) <= g.n + len(p) + 2
      <3>1. CASE g.parts = <<>>
        <4>1. j = <<>>
          BY <1>2, <3>1, JoinIs DEF j
        <4>2. len(join(u, "para")) = len(p)
          BY <2>6, <4>1
        <4> QED BY <1>1, <1>2, <4>2
      <3>2. CASE g.parts # <<>>
        <4>1. g.n + len(p) + 2 <= MaxChars /\ len(Title) + len(j) <= g.n
          BY <1>1, <1>2, <1>7, <3>2 DEF j
        <4>2. len(join(u, "para")) <= len(j) + 2 + len(p) /\ len(join(u, "para")) \in Nat
          <5>1. CASE j = <<>>
            BY <1>2, <2>6, <5>1
          <5>2. CASE j # <<>>
            BY <1>2, <2>6, <5>2
          <5> QED BY <5>1, <5>2
        <4>3. PICK w \in Nat : w = len(join(u, "para"))
          BY <4>2
        <4>4. PICK m \in Nat : m = len(Title)
          BY <1>2
        <4>5. PICK i \in Nat : i = len(j)
          BY <1>2
        <4>6. PICK l \in Nat : l = len(p)
          BY <1>2
        <4>7. g.n \in Nat /\ m <= g.n /\ g.n + l + 2 <= MaxChars /\ m + i <= g.n /\ w <= i + 2 + l
          BY <1>1, <4>1, <4>2, <4>3, <4>4, <4>5, <4>6
        <4>8. w <= MaxChars /\ m + w <= g.n + l + 2 /\ g.n + l + 2 \in Nat /\ m <= g.n + l + 2
          BY <1>2, <4>7
        <4> QED BY <4>3, <4>4, <4>6, <4>8
      <3> QED BY <3>1, <3>2
    <2>8. Said(g.result) \o Said(u) = Said(Append(qs, p))
      <3>1. Said(g.result) \o (Said(g.parts) \o Speech(p))
              = (Said(g.result) \o Said(g.parts)) \o Speech(p)
        BY <1>4, ConcatAssociative
      <3> QED BY <1>1, <1>3, <2>3, <3>1
    <2>9. g.result = <<>> => u = Append(qs, p)
      BY <1>1 DEF u
    <2> HIDE DEF h
    <2>10. Forced(Append(qs, p), h)
      BY <1>1, <2>2, <2>5, <2>7, <2>8, <2>9 DEF Forced
    <2> QED BY <2>5, <2>10 DEF h
  <1> QED BY <1>6, <1>7

\* _force_paragraph_split makes two chunks at least, that say what the paragraphs say
\* (chunker.py:339-373).
LEMMA ForceSplitIs ==
    ASSUME NEW ps \in Seq(Paras), Len(ps) >= 3, \A i \in 1 .. Len(ps) : len(ps[i]) <= MaxChars
    PROVE  /\ ChunksOf(_force_paragraph_split(ps), Said(ps))
           /\ Len(_force_paragraph_split(ps)) >= 2
  <1> DEFINE step == [g \in ForcedGroups |-> [para \in Text |-> ForcedNext(g, para)]]
             base == [result |-> <<>>, parts |-> <<>>, n |-> len(Title)]
             g == Fold(step, base, ps)
             all == IF g.parts = <<>> THEN g.result ELSE Append(g.result, UnderTitle(g.parts))
             mid == IF Len(ps) \div 2 > 1 THEN Len(ps) \div 2 ELSE 1
             xs == SubSeq(ps, 1, mid)
             ys == SubSeq(ps, mid + 1, Len(ps))
             halves == <<UnderTitle(xs), UnderTitle(ys)>>
             F == {p \in Text : len(p) <= MaxChars}
             P == {qs \in Seq(F) : Fold(step, base, qs) \in ForcedGroups
                                    /\ Forced(qs, Fold(step, base, qs))}
  <1>1. _force_paragraph_split(ps) = IF Len(all) < 2 /\ Len(ps) >= 2 THEN halves ELSE all
    BY DEF _force_paragraph_split, ForcedNext, ForcedGroups, UnderTitle
  <1>2. ps \in Seq(Text) /\ ps \in Seq(F) /\ Len(ps) \in Nat
    <2>1. Paras \subseteq Text
      BY DEF Paras
    <2>2. ps \in Seq(Text)
      BY <2>1, SeqMonotonic
    <2>3. \A i \in 1 .. Len(ps) : ps[i] \in F
      BY <2>2, ElementOfSeq
    <2> HIDE DEF F
    <2>4. ps \in Seq(F)
      BY <2>2, <2>3, LenProperties
    <2> QED BY <2>2, <2>4, LenProperties
  <1>3. MaxChars \in Nat /\ len(Title) \in Nat
    BY ChunkerAssumption, HeadingIs, LenIs
  <1>4. \A c \in ForcedGroups, p \in Text : step[c][p] = ForcedNext(c, p)
    OBVIOUS
  <1>5. base \in ForcedGroups /\ Forced(<<>>, base)
    <2> DEFINE e == <<>>
    <2>1. /\ e \in Seq(Text) /\ 1 .. Len(e) = {} /\ Said(e) \o Said(e) = Said(e)
          /\ join(e, "para") = e /\ len(e) = 0 /\ ~ (e # <<>>)
      <3>1. Said(<<>>) = <<>> /\ <<>> \o <<>> = <<>>
        BY SaidIs
      <3>2. join(<<>>, "para") = <<>> /\ len(<<>>) = 0
        BY JoinIs, LenIs DEF Kind
      <3>3. e \in Seq(Text) /\ 1 .. Len(e) = {}
        BY EmptySeq
      <3>4. Said(e) \o Said(e) = Said(e)
        BY <3>1
      <3>5. join(e, "para") = e /\ len(e) = 0
        BY <3>2
      <3>6. ~ (e # <<>>)
        OBVIOUS
      <3> HIDE DEF e
      <3> QED BY <3>3, <3>4, <3>5, <3>6
    <2>2. base.result = e /\ base.parts = e /\ base.n = len(Title)
      OBVIOUS
    <2>3. base \in ForcedGroups
      BY <1>3, <2>1 DEF ForcedGroups
    <2> HIDE DEF e, base
    <2>4. Forced(e, base)
      BY <1>3, <2>1, <2>2 DEF Forced
    <2> QED BY <2>3, <2>4 DEF e
  <1> HIDE DEF step, base
  <1>6. <<>> \in P
    BY <1>5, FoldEmpty, EmptySeq
  <1>7. ASSUME NEW qs \in Seq(F), NEW p \in F, qs \in P PROVE Append(qs, p) \in P
    <2> DEFINE c == Fold(step, base, qs)
    <2>1. c \in ForcedGroups /\ Forced(qs, c)
      BY <1>7
    <2>2. qs \in Seq(Text) /\ p \in Text /\ len(p) <= MaxChars
      <3>1. F \subseteq Text
        OBVIOUS
      <3> QED BY <3>1, SeqMonotonic
    <2> HIDE DEF F
    <2>3. Fold(step, base, Append(qs, p)) = step[c][p]
      BY FoldAppend
    <2> HIDE DEF c
    <2>4. step[c][p] \in ForcedGroups /\ Forced(Append(qs, p), step[c][p])
      BY <1>4, <2>1, <2>2, ForcedStep
    <2>5. Append(qs, p) \in Seq(F)
      BY AppendProperties
    <2> QED BY <2>3, <2>4, <2>5
  <1> HIDE DEF P, F
  <1>8. ps \in P
    BY <1>2, <1>6, <1>7, ByAppending
  <1>9. Forced(ps, g)
    BY <1>8 DEF P
  <1> HIDE DEF g
  <1>10. /\ g.result \in Seq(Text) /\ g.parts \in Seq(Text) /\ g.n \in Nat
         /\ Said(g.result) \o Said(g.parts) = Said(ps)
         /\ \A i \in 1 .. Len(g.result) : /\ ~ blank(g.result[i])
                                          /\ len(g.result[i]) <= MaxChars + len(Title)
         /\ len(join(g.parts, "para")) <= MaxChars
         /\ ps # <<>> => g.parts # <<>>
         /\ g.result = <<>> => g.parts = ps
    BY <1>9 DEF Forced
  <1>11. g.parts # <<>>
    BY <1>10
  <1> DEFINE t == UnderTitle(g.parts)
  <1>12. all = Append(g.result, t)
    BY <1>11
  <1>13. t \in Text /\ Speech(t) = Said(g.parts) /\ ~ blank(t) /\ len(t) <= MaxChars + len(Title)
    <2>1. len(join(g.parts, "para")) \in Nat
      BY <1>10, JoinIs, LenIs DEF Kind
    <2> QED BY <1>3, <1>10, <2>1, UnderTitleIs
  <1> HIDE DEF t, all
  <1>14. /\ all \in Seq(Text) /\ Len(all) = Len(g.result) + 1 /\ Len(g.result) \in Nat
         /\ all[Len(g.result) + 1] = t
         /\ \A i \in 1 .. Len(g.result) : all[i] = g.result[i]
    BY <1>10, <1>12, <1>13, AppendProperties, LenProperties
  <1>15. ChunksOf(all, Said(ps))
    <2>1. Said(all) = Said(ps)
      BY <1>10, <1>12, <1>13, SaidIs
    <2>2. ASSUME NEW i \in 1 .. Len(all) PROVE ~ blank(all[i]) /\ len(all[i]) <= MaxChars + len(Title)
      <3>1. CASE i \in 1 .. Len(g.result)
        BY <1>10, <1>14, <3>1
      <3>2. CASE i \notin 1 .. Len(g.result)
        <4>1. i = Len(g.result) + 1
          BY <1>14, <3>2
        <4> QED BY <1>13, <1>14, <4>1
      <3> QED BY <3>1, <3>2
    <2> QED BY <1>14, <2>1, <2>2 DEF ChunksOf
  <1>16. CASE Len(all) < 2
    <2>1. g.result = <<>> /\ g.parts = ps
      <3>1. Len(g.result) = 0
        BY <1>14, <1>16
      <3> QED BY <1>10, <3>1, EmptySeq
    <2>2. mid \in Nat /\ 1 <= mid /\ mid < Len(ps)
      <3> DEFINE n == Len(ps)
      <3>1. n \in Nat /\ n >= 3
        BY <1>2
      <3> HIDE DEF n
      <3>2. n \div 2 \in Nat /\ n \div 2 < n
        BY <3>1
      <3> QED BY <3>1, <3>2 DEF n
    <2> HIDE DEF mid
    <2>3. xs \o ys = ps /\ xs \in Seq(Text) /\ ys \in Seq(Text)
      <3>1. 1 \in 1 .. Len(ps) + 1 /\ mid \in 1 - 1 .. Len(ps) /\ Len(ps) \in mid .. Len(ps)
        BY <1>2, <2>2
      <3>2. xs \o ys = SubSeq(ps, 1, Len(ps))
        BY <1>2, <3>1, ConcatAdjacentSubSeq
      <3>3. SubSeq(ps, 1, Len(ps)) = ps
        BY <1>2, SubSeqFull
      <3>4. \A i \in 1 .. Len(ps) : ps[i] \in Text
        BY <1>2, ElementOfSeq
      <3>5. xs \in Seq(Text)
        <4>1. \A i \in 1 .. mid : ps[i] \in Text
          BY <1>2, <2>2, <3>4
        <4> QED BY <2>2, <4>1, SubSeqProperties
      <3>6. ys \in Seq(Text)
        <4>1. \A i \in mid + 1 .. Len(ps) : ps[i] \in Text
          BY <1>2, <2>2, <3>4
        <4>2. mid + 1 \in Int /\ Len(ps) \in Int
          BY <1>2, <2>2
        <4> QED BY <4>1, <4>2, SubSeqProperties
      <3> QED BY <3>2, <3>3, <3>5, <3>6
    <2> HIDE DEF xs, ys
    <2>4. len(join(xs, "para")) <= len(join(ps, "para")) /\ len(join(ys, "para")) <= len(join(ps, "para"))
      BY <2>3, JoinedPart DEF Kind
    <2>5. /\ len(join(xs, "para")) \in Nat /\ len(join(ys, "para")) \in Nat
          /\ len(join(ps, "para")) \in Nat /\ len(join(ps, "para")) <= MaxChars
      BY <1>2, <1>10, <2>1, <2>3, JoinIs, LenIs DEF Kind
    <2> DEFINE v == UnderTitle(xs)
               w == UnderTitle(ys)
    <2>6. /\ v \in Text /\ Speech(v) = Said(xs) /\ ~ blank(v) /\ len(v) <= MaxChars + len(Title)
          /\ w \in Text /\ Speech(w) = Said(ys) /\ ~ blank(w) /\ len(w) <= MaxChars + len(Title)
      BY <1>3, <2>3, <2>4, <2>5, UnderTitleIs
    <2>7. halves = <<v, w>>
      OBVIOUS
    <2> HIDE DEF v, w, halves
    <2>8. halves \in Seq(Text) /\ Len(halves) = 2 /\ halves[1] = v /\ halves[2] = w
      BY <2>6, <2>7
    <2>9. halves = <<v>> \o <<w>> /\ <<v>> \in Seq(Text) /\ <<w>> \in Seq(Text)
      <3>1. <<v>> \in Seq(Text) /\ <<w>> \in Seq(Text) /\ Len(<<v>>) = 1 /\ Len(<<w>>) = 1
            /\ <<v>>[1] = v /\ <<w>>[1] = w
        BY <2>6
      <3> DEFINE vv == <<v>>
                 ww == <<w>>
      <3> HIDE DEF vv, ww
      <3>2. /\ vv \o ww \in Seq(Text) /\ Len(vv \o ww) = Len(vv) + Len(ww)
            /\ \A i \in 1 .. Len(vv) + Len(ww) :
                  (vv \o ww)[i] = IF i <= Len(vv) THEN vv[i] ELSE ww[i - Len(vv)]
        BY <3>1, ConcatProperties DEF vv, ww
      <3>3. Len(vv) = 1 /\ Len(ww) = 1 /\ vv[1] = v /\ ww[1] = w
        BY <3>1 DEF vv, ww
      <3>4. \A i \in 1 .. Len(halves) : halves[i] = (vv \o ww)[i]
        BY <2>8, <3>2, <3>3
      <3>5. halves = vv \o ww
        BY <2>8, <3>2, <3>3, <3>4, SeqEqual
      <3> QED BY <3>1, <3>5 DEF vv, ww
    <2>10. Said(halves) = Said(ps)
      <3>1. Said(halves) = Said(<<v>>) \o Said(<<w>>)
        BY <2>9, SaidConcat
      <3>2. Said(<<v>>) = Speech(v) /\ Said(<<w>>) = Speech(w)
        BY <2>6, SaidOne
      <3>3. Said(xs \o ys) = Said(xs) \o Said(ys)
        BY <2>3, SaidConcat
      <3> QED BY <2>3, <2>6, <3>1, <3>2, <3>3
    <2>11. ChunksOf(halves, Said(ps))
      BY <2>6, <2>8, <2>10 DEF ChunksOf
    <2>12. _force_paragraph_split(ps) = halves
      BY <1>1, <1>2, <1>16
    <2>13. Len(halves) >= 2
      BY <2>8
    <2>14. Len(_force_paragraph_split(ps)) >= 2
      BY <2>12, <2>13
    <2>15. ChunksOf(_force_paragraph_split(ps), Said(ps))
      BY <2>11, <2>12
    <2> QED BY <2>14, <2>15
  <1>17. CASE ~ (Len(all) < 2)
    BY <1>1, <1>14, <1>15, <1>17
  <1> QED BY <1>16, <1>17

-----------------------------------------------------------------------------
(* chunk_video                                                             *)

\* The chunks that may come to _enforce_max_chars.
Splittable(headed) == {c \in ForParas(headed) : Starts(c) /\ c # Heading}

\* When HybridChunker raises, the whole transcript is one chunk.
LEMMA RaisedIs ==
    ASSUME NEW t, Talk(t), ~ blank(t)
    PROVE  /\ strip(t) \in Splittable(FALSE) /\ Speech(strip(t)) = Speech(t)
           /\ \A i \in 1 .. Len(Paragraphs(t)) : len(Paragraphs(t)[i]) <= len(strip(t))
  <1> DEFINE s == strip(t)
             ps == Paragraphs(t)
  <1>1. t \in Text /\ Len(t) \in Nat /\ t \in Seq(Token) /\ ~ Has(t, "title")
    BY LenProperties DEF Talk, Text
  <1>2. PICK a, b \in Nat : /\ Runs(t, s, a, b)
                            /\ \A i \in 1 .. Len(t) : i < a \/ i > b => t[i][1] \in Break
    BY <1>1, StripIs
  <1>3. Speech(s) = Speech(t)
    BY <1>1, StripIs
  <1> HIDE DEF s
  <1>4. s = SubSeq(t, a, b) /\ 1 <= a /\ a <= b /\ b <= Len(t)
    BY <1>2 DEF Runs
  <1>5. (a = 1 \/ t[a - 1][1] \in Break) /\ (b = Len(t) \/ t[b + 1][1] \in Break)
    <2>1. a # 1 => a - 1 \in 1 .. Len(t) /\ a - 1 < a
      BY <1>1, <1>4
    <2>2. b # Len(t) => b + 1 \in 1 .. Len(t) /\ b + 1 > b
      BY <1>1, <1>4
    <2> QED BY <1>2, <2>1, <2>2
  <1>6. s \in Text /\ Plain(s, FALSE) /\ Starts(s)
    BY <1>2, <1>5, RunIsWhole
  <1>7. s # Heading
    <2> SUFFICES ASSUME s = Heading PROVE FALSE
      OBVIOUS
    <2>1. ~ Has(s, "title")
      BY <1>6 DEF Plain
    <2>2. Len(Heading) = 1 /\ Heading[1][1] = "title"
      BY DEF Heading
    <2> QED BY <2>1, <2>2 DEF Has
  <1>8. s \in Splittable(FALSE)
    BY <1>6, <1>7 DEF Splittable, ForParas
  <1>9. ASSUME NEW i \in 1 .. Len(ps) PROVE len(ps[i]) <= len(s)
    <2>1. IsParagraph(t, ps[i])
      BY ParagraphsWhole
    <2>2. PICK c, d \in Nat : Runs(t, ps[i], c, d)
      BY <2>1 DEF IsParagraph
    <2>3. /\ ps[i] = SubSeq(t, c, d) /\ 1 <= c /\ c <= d /\ d <= Len(t)
          /\ t[c][1] \notin Break /\ t[d][1] \notin Break
      BY <2>2 DEF Runs
    <2>4. a <= c /\ d <= b
      <3>1. c \in 1 .. Len(t) /\ d \in 1 .. Len(t)
        BY <1>1, <2>3
      <3>2. ~ (c < a) /\ ~ (d > b)
        BY <1>2, <2>3, <3>1
      <3> QED BY <3>2
    <2> DEFINE m == c - a + 1
               n == d - a + 1
    <2>5. /\ a \in 1 .. Len(t) /\ b \in 1 .. Len(t) /\ m \in 1 .. (b - a + 1) /\ n \in 1 .. (b - a + 1)
          /\ a + m - 1 = c /\ a + n - 1 = d
          /\ m \in Nat /\ n \in Nat /\ 1 <= m /\ m <= n + 1
      <3>1. /\ a \in 1 .. Len(t) /\ b \in 1 .. Len(t) /\ c \in Nat /\ d \in Nat
            /\ a <= c /\ c <= d /\ d <= b
        BY <1>1, <1>4, <2>3, <2>4
      <3>2. a \in Nat /\ b \in Nat
        BY <1>1, <3>1
      <3>3. m \in Nat /\ n \in Nat /\ 1 <= m /\ m <= n /\ n <= b - a + 1
        BY <3>1, <3>2
      <3>4. a + m - 1 = c /\ a + n - 1 = d
        BY <3>1, <3>2
      <3>5. m \in 1 .. (b - a + 1) /\ n \in 1 .. (b - a + 1) /\ m <= n + 1
        <4> HIDE DEF m, n
        <4> QED BY <3>2, <3>3
      <3> QED BY <3>1, <3>3, <3>4, <3>5
    <2> HIDE DEF m, n
    <2>6. SubSeq(SubSeq(t, a, b), m, n) = SubSeq(t, a + m - 1, a + n - 1)
      BY <1>1, <2>5, SubSeqOfSubSeq
    <2>7. ps[i] = SubSeq(s, m, n)
      BY <1>4, <2>3, <2>5, <2>6
    <2>8. n <= Len(s)
      <3>1. Len(s) = b - a + 1
        BY <1>1, <1>4, PartOf
      <3> QED BY <2>5, <3>1
    <2>9. len(SubSeq(s, m, n)) <= len(s)
      BY <1>6, <2>5, <2>8, LenOfPart
    <2> QED BY <2>7, <2>9
  <1> QED BY <1>3, <1>8, <1>9 DEF s

\* What chunk_video has before it enforces the limit.
RawChunks(t, raised, cuts, headed) ==
    IF ~ raised THEN HybridChunks(Paragraphs(t), cuts, headed)
    ELSE IF blank(t) THEN <<>> ELSE <<strip(t)>>

\* Either way they may come there, say what was said, and one is as long as each
\* paragraph.
LEMMA RawIs ==
    ASSUME NEW t, Talk(t), NEW raised \in BOOLEAN, NEW cuts, NEW headed \in BOOLEAN
    PROVE  \E h \in BOOLEAN :
             /\ RawChunks(t, raised, cuts, headed) \in Seq(Splittable(h))
             /\ Said(RawChunks(t, raised, cuts, headed)) = Speech(t)
             /\ \A i \in 1 .. Len(Paragraphs(t)) :
                   \E j \in 1 .. Len(RawChunks(t, raised, cuts, headed)) :
                      len(Paragraphs(t)[i]) <= len(RawChunks(t, raised, cuts, headed)[j])
  <1> DEFINE ps == Paragraphs(t)
             raw == RawChunks(t, raised, cuts, headed)
  <1>1. ps \in Seq(Paras) /\ Said(ps) = Speech(t) /\ \A i \in 1 .. Len(ps) : IsParagraph(t, ps[i])
    BY ParagraphsWhole
  <1>2. t \in Text
    BY DEF Talk
  <1>3. CASE ~ raised
    <2>1. raw = HybridChunks(ps, cuts, headed)
      BY <1>3 DEF RawChunks
    <2> HIDE DEF ps, raw
    <2>2. /\ raw \in Seq({c \in Text : Whole(c, headed) /\ c # Heading})
          /\ Said(raw) = Said(ps)
          /\ \A i \in 1 .. Len(ps) : \E j \in 1 .. Len(raw) : len(ps[i]) <= len(raw[j])
      BY <1>1, <2>1, HybridIs
    <2>3. {c \in Text : Whole(c, headed) /\ c # Heading} \subseteq Splittable(headed)
      BY DEF Whole, Splittable, ForParas
    <2>4. raw \in Seq(Splittable(headed))
      BY <2>2, <2>3, SeqMonotonic
    <2>5. \E h \in BOOLEAN : /\ raw \in Seq(Splittable(h)) /\ Said(raw) = Speech(t)
            /\ \A i \in 1 .. Len(ps) : \E j \in 1 .. Len(raw) : len(ps[i]) <= len(raw[j])
      BY <1>1, <2>2, <2>4
    <2> QED BY <2>5 DEF ps, raw
  <1>4. CASE raised /\ blank(t)
    <2>1. raw = <<>>
      BY <1>4 DEF RawChunks
    <2>2. Len(ps) = 0
      <3>1. Len(ps) \in Nat
        BY <1>1, LenProperties
      <3> SUFFICES ASSUME Len(ps) # 0 PROVE FALSE
        OBVIOUS
      <3>2. 1 \in 1 .. Len(ps)
        BY <3>1
      <3>3. PICK a, b \in Nat : Runs(t, ps[1], a, b)
        BY <1>1, <3>2 DEF IsParagraph
      <3>4. t[a][1] \notin Break /\ a \in 1 .. Len(t)
        <4>1. Len(t) \in Nat
          BY <1>2, LenProperties DEF Text
        <4> QED BY <3>3, <4>1 DEF Runs
      <3>5. a \in DOMAIN t
        BY <1>2, <3>4, LenProperties DEF Text
      <3> QED BY <1>4, <3>4, <3>5 DEF blank
    <2>3. Speech(t) = <<>> /\ Said(<<>>) = <<>>
      BY <1>2, <1>4, SpeechOfBlank, SaidIs
    <2>4. <<>> \in Seq(Splittable(FALSE))
      BY EmptySeq
    <2>5. 1 .. Len(ps) = {}
      BY <2>2
    <2> HIDE DEF ps, raw
    <2>6. \E h \in BOOLEAN : /\ raw \in Seq(Splittable(h)) /\ Said(raw) = Speech(t)
            /\ \A i \in 1 .. Len(ps) : \E j \in 1 .. Len(raw) : len(ps[i]) <= len(raw[j])
      BY <2>1, <2>3, <2>4, <2>5
    <2> QED BY <2>6 DEF ps, raw
  <1>5. CASE raised /\ ~ blank(t)
    <2> DEFINE s == strip(t)
    <2>1. raw = <<s>>
      BY <1>5 DEF RawChunks
    <2>2. s \in Splittable(FALSE) /\ Speech(s) = Speech(t) /\ \A i \in 1 .. Len(ps) : len(ps[i]) <= len(s)
      BY <1>5, RaisedIs
    <2> HIDE DEF ps, raw, s
    <2>3. raw \in Seq(Splittable(FALSE)) /\ Len(raw) = 1 /\ raw[1] = s
      <3> DEFINE S == Splittable(FALSE)
      <3>1. s \in S
        BY <2>2
      <3> HIDE DEF S
      <3>2. <<s>> \in Seq(S) /\ Len(<<s>>) = 1 /\ <<s>>[1] = s
        BY <3>1
      <3> QED BY <2>1, <3>2 DEF S
    <2>4. Said(raw) = Speech(t)
      <3>1. s \in Text
        BY <2>2 DEF Splittable, ForParas
      <3> QED BY <2>1, <2>2, <3>1, SaidOne
    <2>5. \A i \in 1 .. Len(ps) : \E j \in 1 .. Len(raw) : len(ps[i]) <= len(raw[j])
      BY <2>2, <2>3
    <2>6. \E h \in BOOLEAN : /\ raw \in Seq(Splittable(h)) /\ Said(raw) = Speech(t)
            /\ \A i \in 1 .. Len(ps) : \E j \in 1 .. Len(raw) : len(ps[i]) <= len(raw[j])
      BY <2>3, <2>4, <2>5
    <2> QED BY <2>6 DEF ps, raw
  <1> QED BY <1>3, <1>4, <1>5

\* chunk_video keeps what was said in chunks of which none is blank or too long, and
\* makes two of three paragraphs.
THEOREM ChunkVideoTells ==
    ASSUME NEW t, Talk(t), NEW raised \in BOOLEAN, NEW cuts, NEW headed \in BOOLEAN
    PROVE  /\ ChunksOf(chunk_video(t, raised, cuts, headed), Speech(t))
           /\ Len(Paragraphs(t)) >= 3 => Len(chunk_video(t, raised, cuts, headed)) >= 2
  <1> DEFINE ps == Paragraphs(t)
             raw == RawChunks(t, raised, cuts, headed)
             results == _enforce_max_chars(raw)
             all == chunk_video(t, raised, cuts, headed)
  <1>1. all = IF Len(ps) >= 3 /\ Len(results) < 2 THEN _force_paragraph_split(ps) ELSE results
    BY DEF chunk_video, RawChunks
  <1>2. ps \in Seq(Paras) /\ Said(ps) = Speech(t)
    BY ParagraphsWhole
  <1>3. PICK h \in BOOLEAN :
             /\ raw \in Seq(Splittable(h)) /\ Said(raw) = Speech(t)
             /\ \A i \in 1 .. Len(ps) : \E j \in 1 .. Len(raw) : len(ps[i]) <= len(raw[j])
    BY RawIs
  <1> HIDE DEF raw
  <1>4. /\ ChunksOf(results, Said(raw))
        /\ Len(results) < 2 => \A i \in 1 .. Len(raw) : len(raw[i]) <= MaxChars
    BY <1>3, EnforceIs DEF Splittable
  <1> HIDE DEF results, ps, all
  <1>5. Len(results) \in Nat
    BY <1>4, LenProperties DEF ChunksOf
  <1>6. CASE Len(ps) >= 3 /\ Len(results) < 2
    <2>1. \A i \in 1 .. Len(ps) : len(ps[i]) <= MaxChars
      <3> SUFFICES ASSUME NEW i \in 1 .. Len(ps) PROVE len(ps[i]) <= MaxChars
        OBVIOUS
      <3>1. PICK j \in 1 .. Len(raw) : len(ps[i]) <= len(raw[j])
        BY <1>3
      <3>2. len(raw[j]) <= MaxChars
        BY <1>4, <1>6
      <3>3. ps[i] \in Text /\ raw[j] \in Text
        BY <1>2, <1>3, ElementOfSeq DEF Paras, Splittable, ForParas
      <3>4. len(ps[i]) \in Nat /\ len(raw[j]) \in Nat /\ MaxChars \in Nat
        BY <3>3, LenIs, ChunkerAssumption
      <3> QED BY <3>1, <3>2, <3>4
    <2>2. ChunksOf(_force_paragraph_split(ps), Said(ps)) /\ Len(_force_paragraph_split(ps)) >= 2
      BY <1>2, <1>6, <2>1, ForceSplitIs
    <2>3. all = _force_paragraph_split(ps)
      BY <1>1, <1>6
    <2> QED BY <1>2, <2>2, <2>3 DEF all, ps
  <1>7. CASE ~ (Len(ps) >= 3 /\ Len(results) < 2)
    <2>1. all = results
      BY <1>1, <1>7
    <2>2. ChunksOf(all, Speech(t))
      BY <1>3, <1>4, <2>1
    <2>3. Len(ps) >= 3 => Len(all) >= 2
      BY <1>5, <1>7, <2>1
    <2> QED BY <2>2, <2>3 DEF all, ps
  <1> QED BY <1>6, <1>7

-----------------------------------------------------------------------------
(* Times                                                                   *)

\* Whole division.
LEMMA Division ==
    ASSUME NEW a \in Nat, NEW b \in Nat, NEW m \in Nat, m >= 1
    PROVE  /\ a \div m \in Nat /\ (a \div m) * m <= a
           /\ a <= b => a \div m <= b \div m
           /\ \A q \in Nat : q * m <= a => q <= a \div m
           /\ a < m => a \div m = 0
  OBVIOUS

\* Rounding keeps the order and nothing rounds to less than one hundred hundredths from
\* one on (chunker.py:219-220).
LEMMA HundredthsIs ==
    ASSUME NEW b \in Nat, b >= 1, NEW a \in Nat
    PROVE  /\ Hundredths(a, b) \in Nat
           /\ \A c \in Nat : a <= c => Hundredths(a, b) <= Hundredths(c, b)
           /\ a = 0 => Hundredths(a, b) = 0
           /\ a >= b => Hundredths(a, b) >= 100
  <1> DEFINE m == 2 * b
             x == 200 * a + b
  <1>1. m \in Nat /\ m >= 1 /\ x \in Nat
    OBVIOUS
  <1>2. Hundredths(a, b) = x \div m
    BY DEF Hundredths
  <1>3. a = 0 => x < m
    OBVIOUS
  <1>4. a >= b => 100 * m <= x
    OBVIOUS
  <1>5. ASSUME NEW c \in Nat, a <= c PROVE Hundredths(a, b) <= Hundredths(c, b)
    <2> DEFINE y == 200 * c + b
    <2>1. y \in Nat /\ x <= y
      BY <1>5
    <2>2. Hundredths(c, b) = y \div m
      BY DEF Hundredths
    <2> HIDE DEF x, y, m
    <2> QED BY <1>1, <1>2, <2>1, <2>2, Division
  <1> HIDE DEF x, m
  <1>6. Hundredths(a, b) \in Nat
    BY <1>1, <1>2, Division
  <1>7. a = 0 => Hundredths(a, b) = 0
    BY <1>1, <1>2, <1>3, Division
  <1>8. a >= b => Hundredths(a, b) >= 100
    <2>1. \A q \in Nat : q * m <= x => q <= x \div m
      BY <1>1, Division
    <2>2. 100 \in Nat
      OBVIOUS
    <2>3. 100 * m <= x => 100 <= x \div m
      BY <2>1, <2>2
    <2> QED BY <1>2, <1>4, <1>6, <2>3
  <1> QED BY <1>5, <1>6, <1>7, <1>8

\* The times of the chunks of a transcript without timestamps.
LEMMA FallbackIs ==
    ASSUME NEW t \in Text, NEW cs \in Seq(Text)
    PROVE  LET c == chunk_video_fallback(t, cs)
           IN  /\ Len(c) = Len(cs) /\ DOMAIN c = 1 .. Len(cs)
               /\ \A i \in 1 .. Len(cs) : /\ c[i].content = cs[i] /\ c[i].start <= c[i].end
                                          /\ i < Len(cs) => c[i].end = c[i + 1].start
               /\ cs # <<>> => c[1].start = 0 /\ c[Len(cs)].end >= 100
               /\ AllSpeech(c) = Said(cs)
  <1> DEFINE words == Cardinality(Words(t))
             duration == IF words > WPM THEN words ELSE WPM
             n == Len(cs)
             w == WPM * n
             At(i) == Hundredths(i * duration, w)
             c == chunk_video_fallback(t, cs)
  <1>1. n \in Nat /\ DOMAIN cs = 1 .. n /\ WPM \in Nat /\ WPM >= 1
    BY LenProperties, ChunkerAssumption
  <1>2. words \in Nat
    <2>1. DOMAIN t = 1 .. Len(t) /\ Len(t) \in Nat
      BY LenProperties DEF Text
    <2>2. IsFiniteSet(1 .. Len(t)) /\ Words(t) \subseteq 1 .. Len(t)
      BY <2>1, FS_Interval DEF Words
    <2> QED BY <2>2, FS_Subset, FS_CardinalityType
  <1>3. duration \in Nat /\ duration >= WPM
    <2> HIDE DEF words
    <2> QED BY <1>1, <1>2
  <1>4. c = [i \in DOMAIN cs |-> Passage(cs[i], At(i - 1), At(i))]
    BY DEF chunk_video_fallback
  <1> HIDE DEF duration, words
  <1>5. n >= 1 => w \in Nat /\ w >= 1
    BY <1>1
  <1>6. \A i \in Nat : i * duration \in Nat /\ i * duration <= (i + 1) * duration
    BY <1>3
  <1>7. n * duration \in Nat /\ w <= n * duration
    BY <1>1, <1>3
  <1> HIDE DEF w
  <1>8. ASSUME n >= 1 PROVE /\ \A i \in Nat : At(i) \in Nat /\ At(i) <= At(i + 1)
                            /\ At(0) = 0 /\ At(n) >= 100
    <2>1. ASSUME NEW i \in Nat PROVE At(i) \in Nat /\ At(i) <= At(i + 1)
      <3> DEFINE x == i * duration
                 y == (i + 1) * duration
      <3>1. x \in Nat /\ y \in Nat /\ x <= y
        <4>1. i + 1 \in Nat
          OBVIOUS
        <4> QED BY <1>6, <4>1
      <3> HIDE DEF x, y
      <3>2. Hundredths(x, w) \in Nat /\ Hundredths(x, w) <= Hundredths(y, w)
        BY <1>5, <1>8, <3>1, HundredthsIs
      <3> QED BY <3>2 DEF x, y
    <2>2. At(0) = 0
      <3>1. 0 * duration = 0
        BY <1>3
      <3>2. Hundredths(0, w) = 0
        BY <1>5, <1>8, HundredthsIs
      <3> QED BY <3>1, <3>2
    <2>3. At(n) >= 100
      <3> DEFINE x == n * duration
      <3>1. x \in Nat /\ x >= w /\ w \in Nat /\ w >= 1
        BY <1>5, <1>7, <1>8
      <3> HIDE DEF x
      <3>2. Hundredths(x, w) >= 100
        BY <3>1, HundredthsIs
      <3> QED BY <3>2 DEF x
    <2> QED BY <2>1, <2>2, <2>3
  <1> HIDE DEF At
  <1>9. /\ DOMAIN c = 1 .. n
        /\ \A i \in 1 .. n : c[i] = Passage(cs[i], At(i - 1), At(i))
    BY <1>1, <1>4
  <1>10. Len(c) = n
    <2>1. c \in Seq({Passage(cs[i], At(i - 1), At(i)) : i \in 1 .. n})
      BY <1>1, <1>4
    <2> HIDE DEF c
    <2> QED BY <1>1, <1>9, <2>1, LenProperties
  <1> HIDE DEF c
  <1>11. ASSUME NEW i \in 1 .. n
         PROVE  /\ c[i].content = cs[i] /\ c[i].start = At(i - 1) /\ c[i].end = At(i)
                /\ c[i].start <= c[i].end
                /\ i < n => c[i].end = c[i + 1].start
    <2>1. c[i].content = cs[i] /\ c[i].start = At(i - 1) /\ c[i].end = At(i)
      BY <1>9 DEF Passage
    <2>2. n >= 1 /\ i - 1 \in Nat /\ (i - 1) + 1 = i
      BY <1>1
    <2>3. At(i - 1) <= At(i)
      BY <1>8, <2>2
    <2>4. ASSUME i < n PROVE c[i + 1].start = At(i)
      <3>1. i + 1 \in 1 .. n /\ (i + 1) - 1 = i
        BY <1>1, <2>4
      <3> QED BY <1>9, <3>1 DEF Passage
    <2> QED BY <2>1, <2>3, <2>4
  <1>12. cs # <<>> => c[1].start = 0 /\ c[n].end >= 100
    <2> SUFFICES ASSUME cs # <<>> PROVE c[1].start = 0 /\ c[n].end >= 100
      OBVIOUS
    <2>1. n >= 1 /\ 1 \in 1 .. n /\ n \in 1 .. n /\ 1 - 1 = 0
      BY <1>1, EmptySeq
    <2> QED BY <1>8, <1>11, <2>1
  <1>13. AllSpeech(c) = Said(cs)
    <2>1. [i \in DOMAIN c |-> Speech(c[i].content)] = [i \in DOMAIN cs |-> Speech(cs[i])]
      BY <1>1, <1>9, <1>11
    <2> QED BY <2>1 DEF AllSpeech, Said
  <1> QED BY <1>9, <1>10, <1>11, <1>12, <1>13 DEF c

-----------------------------------------------------------------------------
(* The transcripts that are chunked                                        *)

\* Every transcript that is chunked is a talk.
LEMMA NumberedIs ==
    ASSUME NEW p \in Texts
    PROVE  Talk(Numbered(p))
  <1> DEFINE t == Numbered(p)
  <1>1. PICK n \in 1 .. MaxText : p \in [1 .. n -> Kind \ {"title"}]
    BY DEF Texts
  <1>2. Transcribed(p)
    BY DEF Texts
  <1>3. n \in Nat /\ DOMAIN p = 1 .. n /\ \A i \in 1 .. n : p[i] \in Kind /\ p[i] # "title"
    BY <1>1, TransformsAssumption
  <1>4. t = [i \in 1 .. n |-> <<p[i], i>>]
    BY <1>3 DEF Numbered
  <1>5. t \in [1 .. n -> Token]
    BY <1>3, <1>4 DEF Token
  <1>6. t \in Seq(Token) /\ Len(t) = n /\ \A i \in 1 .. n : t[i][1] = p[i]
    <2>1. \A i \in 1 .. n : t[i][1] = p[i]
      BY <1>4
    <2> HIDE DEF t
    <2> QED BY <1>3, <1>5, <2>1
  <1> HIDE DEF t
  <1>7. Len(p) = n
    <2>1. p \in Seq(Kind)
      BY <1>3, <1>1
    <2> QED BY <1>3, <2>1, LenProperties
  <1>8. \A i \in 1 .. n : /\ p[i] = "stop" => i > 1 /\ p[i - 1] = "char" /\ i < n /\ p[i + 1] = "char"
                          /\ p[i] = "line" => i = n \/ p[i + 1] \notin Break
    BY <1>2, <1>3, <1>7 DEF Transcribed
  <1>9. Sound(t)
    <2>1. ASSUME NEW i \in 1 .. Len(t), t[i][1] = "stop"
          PROVE  i > 1 /\ t[i - 1][1] = "char" /\ i < Len(t) /\ t[i + 1][1] = "char"
      <3>1. i > 1 /\ p[i - 1] = "char" /\ i < n /\ p[i + 1] = "char"
        BY <1>6, <1>8, <2>1
      <3>2. i - 1 \in 1 .. n /\ i + 1 \in 1 .. n
        BY <1>3, <1>6, <3>1
      <3> QED BY <1>6, <3>1, <3>2
    <2>2. ASSUME NEW i \in 1 .. Len(t), t[i][1] = "line", i < Len(t) PROVE t[i + 1][1] \notin Break
      <3>1. i # n /\ i + 1 \in 1 .. n
        BY <1>3, <1>6, <2>2
      <3>2. p[i + 1] \notin Break
        BY <1>6, <1>8, <2>2, <3>1
      <3> QED BY <1>6, <3>1, <3>2
    <2>3. \A i \in 1 .. Len(t) : t[i][1] # "title"
      BY <1>3, <1>6
    <2> QED BY <2>1, <2>2, <2>3 DEF Sound
  <1>10. ~ Has(t, "title")
    BY <1>3, <1>6 DEF Has
  <1> QED BY <1>6, <1>9, <1>10 DEF Talk, Text, t

\* A transcript without timestamps that is chunked is told.
LEMMA PlainChunks ==
    ASSUME ChunksPlain
    PROVE  job'.kind = "plain" /\ PlainIsTold'
  <1>1. PICK p \in Texts, raised \in BOOLEAN, headed \in BOOLEAN :
        \E cuts \in SUBSET (1..(Len(Paragraphs(Numbered(p))) - 1)) :
          job' = [kind |-> "plain", text |-> Numbered(p),
                  chunks |-> chunk_video_fallback(Numbered(p),
                    chunk_video(Numbered(p), raised, cuts, headed))]
    BY DEF ChunksPlain
  <1>2. PICK cuts : job' = [kind |-> "plain", text |-> Numbered(p),
                  chunks |-> chunk_video_fallback(Numbered(p),
                    chunk_video(Numbered(p), raised, cuts, headed))]
    BY <1>1
  <1> DEFINE t == Numbered(p)
             cs == chunk_video(t, raised, cuts, headed)
             c == chunk_video_fallback(t, cs)
  <1>3. job'.kind = "plain" /\ job'.text = t /\ job'.chunks = c
    BY <1>2
  <1>4. Talk(t) /\ t \in Text
    BY NumberedIs DEF Talk
  <1> HIDE DEF t
  <1>5. ChunksOf(cs, Speech(t)) /\ (Len(Paragraphs(t)) >= 3 => Len(cs) >= 2)
    BY <1>4, ChunkVideoTells
  <1> HIDE DEF cs
  <1>6. /\ cs \in Seq(Text) /\ Said(cs) = Speech(t)
        /\ \A i \in 1 .. Len(cs) : ~ blank(cs[i]) /\ len(cs[i]) <= MaxChars + len(Title)
    BY <1>5 DEF ChunksOf
  <1>7. /\ Len(c) = Len(cs) /\ DOMAIN c = 1 .. Len(cs)
        /\ \A i \in 1 .. Len(cs) : /\ c[i].content = cs[i] /\ c[i].start <= c[i].end
                                   /\ i < Len(cs) => c[i].end = c[i + 1].start
        /\ cs # <<>> => c[1].start = 0 /\ c[Len(cs)].end >= 100
        /\ AllSpeech(c) = Said(cs)
    BY <1>4, <1>6, FallbackIs
  <1>8. c # <<>> => cs # <<>>
    <2> SUFFICES ASSUME cs = <<>> PROVE c = <<>>
      OBVIOUS
    <2>1. DOMAIN cs = {}
      OBVIOUS
    <2> QED BY <2>1 DEF chunk_video_fallback
  <1> HIDE DEF c
  <1>9. PlainIsTold'
    <2>1. /\ AllSpeech(c) = Speech(t)
          /\ \A i \in DOMAIN c : len(c[i].content) <= MaxChars + len(Title) /\ ~ blank(c[i].content)
          /\ Len(Paragraphs(t)) >= 3 => Len(c) >= 2
          /\ \A i \in DOMAIN c : /\ c[i].start <= c[i].end
                                 /\ i < Len(c) => c[i].end = c[i + 1].start
          /\ c # <<>> => c[1].start = 0 /\ c[Len(c)].end >= 100
      BY <1>5, <1>6, <1>7, <1>8
    <2> QED BY <1>3, <2>1 DEF PlainIsTold
  <1> QED BY <1>3, <1>9

-----------------------------------------------------------------------------
(* Transcripts with timestamps                                             *)

\* A filter does not make a sequence longer.
LEMMA OnlyShort ==
    ASSUME NEW Y, NEW X, NEW s \in Seq(Y)
    PROVE  Len(Only(s, X)) <= Len(s)
  <1> DEFINE P == {u \in Seq(Y) : Len(Only(u, X)) <= Len(u)}
  <1>1. <<>> \in P
    <2>1. Only(<<>>, X) = <<>> /\ <<>> \in Seq(Y) /\ Len(<<>>) <= Len(<<>>)
      BY OnlyEmpty, EmptySeq
    <2> QED BY <2>1
  <1>2. ASSUME NEW u \in Seq(Y), NEW y \in Y, u \in P PROVE Append(u, y) \in P
    <2> DEFINE v == Append(u, y)
               o == Only(u, X)
    <2>1. v \in Seq(Y) /\ Len(v) = Len(u) + 1 /\ Len(u) \in Nat
      BY AppendProperties, LenProperties
    <2>2. o \in Seq(Y) /\ Len(o) \in Nat
      BY OnlyAppend, LenProperties
    <2>3. Len(Append(o, y)) = Len(o) + 1
      BY <2>2, AppendProperties
    <2>4. Only(v, X) = Append(o, y) \/ Only(v, X) = o
      BY OnlyAppend
    <2>5. Len(o) <= Len(u)
      BY <1>2
    <2> HIDE DEF v, o
    <2>6. Len(Only(v, X)) <= Len(v)
      BY <2>1, <2>2, <2>3, <2>4, <2>5
    <2> QED BY <2>1, <2>6 DEF v
  <1> HIDE DEF P
  <1>3. s \in P
    BY <1>1, <1>2, ByAppending
  <1> QED BY <1>3 DEF P

\* What is flattened is what there was.
LEMMA FlattenHas ==
    ASSUME NEW X, NEW ss \in Seq(Seq(X))
    PROVE  /\ \A i \in 1 .. Len(ss) : \A k \in 1 .. Len(ss[i]) :
                 \E j \in 1 .. Len(FlattenSeq(ss)) : FlattenSeq(ss)[j] = ss[i][k]
           /\ \A j \in 1 .. Len(FlattenSeq(ss)) :
                 \E i \in 1 .. Len(ss) : \E k \in 1 .. Len(ss[i]) : FlattenSeq(ss)[j] = ss[i][k]
  <1> DEFINE has(tt, f) ==
               /\ \A i \in 1 .. Len(tt) : \A k \in 1 .. Len(tt[i]) :
                     \E j \in 1 .. Len(f) : f[j] = tt[i][k]
               /\ \A j \in 1 .. Len(f) :
                     \E i \in 1 .. Len(tt) : \E k \in 1 .. Len(tt[i]) : f[j] = tt[i][k]
             P == {tt \in Seq(Seq(X)) : has(tt, FlattenSeq(tt))}
  <1>1. <<>> \in P
    BY FlattenEmpty, EmptySeq
  <1>2. ASSUME NEW tt \in Seq(Seq(X)), NEW t \in Seq(X), tt \in P PROVE Append(tt, t) \in P
    <2> DEFINE uu == Append(tt, t)
               f == FlattenSeq(tt)
               g == FlattenSeq(uu)
               n == Len(tt)
    <2>1. /\ uu \in Seq(Seq(X)) /\ Len(uu) = n + 1 /\ uu[n + 1] = t /\ n \in Nat
          /\ \A i \in 1 .. n : uu[i] = tt[i]
      BY AppendProperties, LenProperties
    <2>2. g = f \o t /\ f \in Seq(X)
      BY FlattenAppend, FlattenType
    <2>3. /\ Len(g) = Len(f) + Len(t) /\ Len(f) \in Nat /\ Len(t) \in Nat
          /\ \A j \in 1 .. Len(f) : g[j] = f[j]
          /\ \A j \in 1 .. Len(g) : j > Len(f) => g[j] = t[j - Len(f)]
      BY <2>2, ConcatProperties, LenProperties
    <2>4. has(tt, f)
      BY <1>2
    <2> HIDE DEF uu, f, g, n
    <2>5. ASSUME NEW i \in 1 .. Len(uu), NEW k \in 1 .. Len(uu[i])
          PROVE  \E j \in 1 .. Len(g) : g[j] = uu[i][k]
      <3>1. CASE i = n + 1
        <4>1. k \in 1 .. Len(t) /\ uu[i][k] = t[k]
          BY <2>1, <2>5, <3>1
        <4>2. Len(f) + k \in 1 .. Len(g) /\ (Len(f) + k) - Len(f) = k /\ Len(f) + k > Len(f)
          BY <2>3, <4>1
        <4>3. g[Len(f) + k] = t[k]
          BY <2>3, <4>2
        <4> QED BY <4>1, <4>2, <4>3
      <3>2. CASE i # n + 1
        <4>1. i \in 1 .. n /\ uu[i] = tt[i]
          BY <2>1, <2>5, <3>2
        <4>2. i \in 1 .. Len(tt) /\ k \in 1 .. Len(tt[i])
          BY <2>5, <4>1 DEF n
        <4>3. PICK j \in 1 .. Len(f) : f[j] = tt[i][k]
          BY <2>4, <4>2
        <4>4. j \in 1 .. Len(g) /\ g[j] = uu[i][k]
          BY <2>3, <4>1, <4>3
        <4> QED BY <4>4
      <3> QED BY <3>1, <3>2
    <2>6. ASSUME NEW j \in 1 .. Len(g)
          PROVE  \E i \in 1 .. Len(uu) : \E k \in 1 .. Len(uu[i]) : g[j] = uu[i][k]
      <3>1. CASE j > Len(f)
        <4>1. j - Len(f) \in 1 .. Len(t) /\ g[j] = t[j - Len(f)]
          BY <2>3, <2>6, <3>1
        <4>2. n + 1 \in 1 .. Len(uu) /\ uu[n + 1] = t
          BY <2>1
        <4> QED BY <4>1, <4>2
      <3>2. CASE ~ (j > Len(f))
        <4>1. j \in 1 .. Len(f) /\ g[j] = f[j]
          BY <2>3, <2>6, <3>2
        <4>2. PICK i \in 1 .. Len(tt) : \E k \in 1 .. Len(tt[i]) : f[j] = tt[i][k]
          BY <2>4, <4>1
        <4>3. PICK k \in 1 .. Len(tt[i]) : f[j] = tt[i][k]
          BY <4>2
        <4>4. i \in 1 .. Len(uu) /\ uu[i] = tt[i]
          BY <2>1, <4>2 DEF n
        <4> QED BY <4>1, <4>3, <4>4
      <3> QED BY <3>1, <3>2
    <2>7. has(uu, g)
      BY <2>5, <2>6
    <2> QED BY <2>1, <2>7 DEF uu, g
  <1> HIDE DEF P
  <1>3. ss \in P
    BY <1>1, <1>2, ByAppending
  <1> QED BY <1>3 DEF P

\* A chunk of a transcript with timestamps.
TimedPassage == [content : {"words", "none"}, start : Nat, end : Nat]

\* The passages of a list of lists run forward: in every list, and from each to those after.
InTime(cs) == \A k \in 1 .. Len(cs) : k < Len(cs) => cs[k].start <= cs[k + 1].start
\* ... whatever list it is of.
InTurn(css) ==
    /\ \A i \in 1 .. Len(css) : InTime(css[i])
    /\ \A i, h \in 1 .. Len(css) : i < h =>
          \A k \in 1 .. Len(css[i]) : \A l \in 1 .. Len(css[h]) :
             css[i][k].start <= css[h][l].start

\* Lists that run forward, one after the other, run forward as one.
LEMMA FlattenInTime ==
    ASSUME NEW css \in Seq(Seq(TimedPassage)), InTurn(css)
    PROVE  InTime(FlattenSeq(css))
  <1> DEFINE X == TimedPassage
             P == {tt \in Seq(Seq(X)) : InTurn(tt) => InTime(FlattenSeq(tt))}
  <1>1. <<>> \in P
    <2>1. InTime(<<>>)
      BY DEF InTime
    <2> QED BY <2>1, FlattenEmpty, EmptySeq
  <1>2. ASSUME NEW tt \in Seq(Seq(X)), NEW t \in Seq(X), tt \in P PROVE Append(tt, t) \in P
    <2> DEFINE uu == Append(tt, t)
               f == FlattenSeq(tt)
               g == FlattenSeq(uu)
               n == Len(tt)
    <2>1. /\ uu \in Seq(Seq(X)) /\ Len(uu) = n + 1 /\ uu[n + 1] = t /\ n \in Nat
          /\ \A i \in 1 .. n : uu[i] = tt[i]
      BY AppendProperties, LenProperties
    <2>2. g = f \o t /\ f \in Seq(X)
      BY FlattenAppend, FlattenType
    <2>3. /\ Len(g) = Len(f) + Len(t) /\ Len(f) \in Nat /\ Len(t) \in Nat
          /\ \A j \in 1 .. Len(f) : g[j] = f[j]
          /\ \A j \in 1 .. Len(g) : j > Len(f) => g[j] = t[j - Len(f)]
      BY <2>2, ConcatProperties, LenProperties
    <2>4. \A j \in 1 .. Len(f) : \E i \in 1 .. n : \E k \in 1 .. Len(tt[i]) : f[j] = tt[i][k]
      BY FlattenHas
    <2>5. InTurn(tt) => InTime(f)
      BY <1>2
    <2> HIDE DEF uu, f, g, X
    <2>6. ASSUME InTurn(uu) PROVE InTime(g)
      <3>1. /\ \A i \in 1 .. n + 1 : InTime(uu[i])
            /\ \A i, h \in 1 .. n + 1 : i < h =>
                  \A k \in 1 .. Len(uu[i]) : \A l \in 1 .. Len(uu[h]) :
                     uu[i][k].start <= uu[h][l].start
        BY <2>1, <2>6 DEF InTurn
      <3>2. InTurn(tt)
        <4>1. \A i \in 1 .. n : i \in 1 .. n + 1 /\ uu[i] = tt[i]
          BY <2>1
        <4>2. \A i \in 1 .. n : InTime(tt[i])
          BY <3>1, <4>1
        <4>3. ASSUME NEW i \in 1 .. n, NEW h \in 1 .. n, i < h,
                     NEW k \in 1 .. Len(tt[i]), NEW l \in 1 .. Len(tt[h])
              PROVE  tt[i][k].start <= tt[h][l].start
          <5>1. i \in 1 .. n + 1 /\ h \in 1 .. n + 1 /\ uu[i] = tt[i] /\ uu[h] = tt[h]
            BY <4>1
          <5>2. \A kk \in 1 .. Len(uu[i]) : \A ll \in 1 .. Len(uu[h]) :
                   uu[i][kk].start <= uu[h][ll].start
            BY <3>1, <4>3, <5>1
          <5> QED BY <5>1, <5>2
        <4> QED BY <4>2, <4>3 DEF InTurn, n
      <3>3. InTime(f)
        BY <2>5, <3>2
      <3>4. InTime(t)
        <4>1. n + 1 \in 1 .. n + 1
          BY <2>1
        <4> QED BY <2>1, <3>1, <4>1
      <3>5. ASSUME NEW i \in 1 .. n, NEW k \in 1 .. Len(tt[i]), NEW l \in 1 .. Len(t)
            PROVE  tt[i][k].start <= t[l].start
        <4>1. i \in 1 .. n + 1 /\ n + 1 \in 1 .. n + 1 /\ i < n + 1
          BY <2>1
        <4> QED BY <2>1, <3>1, <4>1
      <3>6. ASSUME NEW j \in 1 .. Len(g), j < Len(g) PROVE g[j].start <= g[j + 1].start
        <4>1. CASE j > Len(f)
          <5> DEFINE k == j - Len(f)
          <5>1. k \in 1 .. Len(t) /\ k < Len(t) /\ j + 1 \in 1 .. Len(g) /\ j + 1 > Len(f)
                /\ (j + 1) - Len(f) = k + 1
            BY <2>3, <3>6, <4>1
          <5>2. g[j] = t[k] /\ g[j + 1] = t[k + 1]
            BY <2>3, <4>1, <5>1
          <5> HIDE DEF k
          <5> QED BY <3>4, <5>1, <5>2 DEF InTime
        <4>2. CASE j = Len(f)
          <5>1. /\ j \in 1 .. Len(f) /\ 1 \in 1 .. Len(t) /\ j + 1 \in 1 .. Len(g)
                /\ (j + 1) - Len(f) = 1 /\ j + 1 > Len(f)
            BY <2>3, <3>6, <4>2
          <5>2. g[j] = f[j] /\ g[j + 1] = t[1]
            BY <2>3, <5>1
          <5>3. PICK i \in 1 .. n : \E k \in 1 .. Len(tt[i]) : f[j] = tt[i][k]
            BY <2>4, <5>1
          <5>4. PICK k \in 1 .. Len(tt[i]) : f[j] = tt[i][k]
            BY <5>3
          <5>5. tt[i][k].start <= t[1].start
            BY <3>5, <5>1
          <5> QED BY <5>2, <5>4, <5>5
        <4>3. CASE j < Len(f)
          <5>1. j \in 1 .. Len(f) /\ j + 1 \in 1 .. Len(f)
            BY <2>3, <3>6, <4>3
          <5>2. g[j] = f[j] /\ g[j + 1] = f[j + 1]
            BY <2>3, <5>1
          <5> QED BY <3>3, <4>3, <5>1, <5>2 DEF InTime
        <4> QED BY <2>3, <3>6, <4>1, <4>2, <4>3
      <3> QED BY <3>6 DEF InTime
    <2> QED BY <2>1, <2>6 DEF uu, g, X
  <1> HIDE DEF P
  <1>3. css \in P
    BY <1>1, <1>2, ByAppending
  <1> QED BY <1>3 DEF P

\* The segments a transcript can have: none ends before it begins.
Forward == {s \in Segment : s.start <= s.end}

\* What becomes of one segment lies in it and runs forward from where it begins.
LEMMA TimedOne ==
    ASSUME NEW s \in Forward, NEW n \in Nat
    PROVE  LET cs == Timed(s, n)
           IN  /\ cs \in Seq(TimedPassage) /\ InTime(cs)
               /\ \A k \in 1 .. Len(cs) : s.start <= cs[k].start /\ cs[k].end <= s.end
               /\ \A k \in 1 .. Len(cs) : cs[k].start <= s.end
               /\ s.text # "none" => 1 \in 1 .. Len(cs) /\ cs[1].start = s.start
  <1> DEFINE cs == Timed(s, n)
             a == s.start
             b == s.end
             step == (b - a) \div n
  <1>1. a \in Nat /\ b \in Nat /\ a <= b /\ s.text \in {"words", "none"}
    BY DEF Forward, Segment
  <1>2. CASE s.text = "none"
    <2>1. cs = <<>>
      BY <1>2 DEF Timed
    <2> HIDE DEF cs
    <2>2. cs \in Seq(TimedPassage) /\ Len(cs) = 0 /\ InTime(cs)
      BY <2>1, EmptySeq DEF InTime
    <2> QED BY <1>2, <2>2 DEF cs
  <1>3. CASE s.text # "none" /\ n <= 1
    <2> DEFINE p == Passage(s.text, a, b)
    <2>1. cs = <<p>>
      BY <1>3 DEF Timed
    <2>2. p \in TimedPassage /\ p.start = a /\ p.end = b
      BY <1>1 DEF Passage, TimedPassage
    <2> HIDE DEF cs, p
    <2>3. cs \in Seq(TimedPassage) /\ Len(cs) = 1 /\ cs[1] = p
      BY <2>1, <2>2
    <2>4. InTime(cs)
      BY <2>3 DEF InTime
    <2> QED BY <1>1, <2>2, <2>3, <2>4 DEF cs
  <1>4. CASE s.text # "none" /\ n >= 2
    <2> DEFINE p(k) == Passage(s.text, a + (k - 1) * step, a + k * step)
    <2>1. cs = [k \in 1 .. n |-> p(k)]
      <3>1. ~ (n <= 1)
        BY <1>4
      <3> QED BY <1>4, <3>1 DEF Timed
    <2>2. step \in Nat /\ step * n <= b - a
      <3>1. b - a \in Nat /\ n >= 1
        BY <1>1, <1>4
      <3> DEFINE d == b - a
      <3> HIDE DEF d
      <3>2. d \div n \in Nat /\ (d \div n) * n <= d
        BY <3>1, <1>4, Division DEF d
      <3> QED BY <3>2 DEF d
    <2> HIDE DEF step
    <2>3. ASSUME NEW k \in 1 .. n
          PROVE  /\ (k - 1) * step \in Nat /\ k * step \in Nat
                 /\ (k - 1) * step + step = k * step /\ k * step <= b - a
      <3>1. /\ (k - 1) * step \in Nat /\ k * step \in Nat
            /\ (k - 1) * step + step = k * step
        BY <2>2
      <3>2. k * step <= n * step
        BY <2>2
      <3>3. n * step = step * n
        BY <2>2
      <3>4. step * n \in Nat /\ b - a \in Nat
        BY <1>1, <2>2
      <3> HIDE DEF a, b
      <3> QED BY <2>2, <3>1, <3>2, <3>3, <3>4
    <2>4. ASSUME NEW k \in 1 .. n
          PROVE  /\ p(k) \in TimedPassage
                 /\ p(k).start = a + (k - 1) * step /\ p(k).end = a + k * step
                 /\ a <= p(k).start /\ p(k).start <= b /\ p(k).end <= b
      <3> DEFINE x == (k - 1) * step
                 y == k * step
      <3>1. x \in Nat /\ y \in Nat /\ x <= y /\ y <= b - a
        BY <2>2, <2>3
      <3>2. p(k) = Passage(s.text, a + x, a + y)
        OBVIOUS
      <3> HIDE DEF x, y, a, b
      <3>3. a + x \in Nat /\ a + y \in Nat /\ a <= a + x /\ a + x <= b /\ a + y <= b
        BY <1>1, <3>1
      <3> HIDE DEF p
      <3>4. p(k) \in TimedPassage /\ p(k).start = a + x /\ p(k).end = a + y
        BY <1>1, <3>2, <3>3 DEF Passage, TimedPassage
      <3> QED BY <3>3, <3>4 DEF x, y
    <2> HIDE DEF p, cs, a, b
    <2>5. /\ cs \in Seq(TimedPassage) /\ Len(cs) = n
          /\ \A k \in 1 .. n : cs[k] = p(k)
      <3>1. cs \in [1 .. n -> TimedPassage] /\ \A k \in 1 .. n : cs[k] = p(k)
        BY <2>1, <2>4
      <3> QED BY <3>1
    <2>6. InTime(cs)
      <3> SUFFICES ASSUME NEW k \in 1 .. n, k < n PROVE cs[k].start <= cs[k + 1].start
        BY <2>5 DEF InTime
      <3>1. k + 1 \in 1 .. n /\ (k + 1) - 1 = k
        OBVIOUS
      <3>2. cs[k].start = a + (k - 1) * step /\ cs[k + 1].start = a + k * step
        BY <2>4, <2>5, <3>1
      <3>3. (k - 1) * step \in Nat /\ k * step \in Nat /\ (k - 1) * step + step = k * step
        BY <2>3
      <3> DEFINE x == (k - 1) * step
                 y == k * step
      <3> HIDE DEF x, y
      <3>4. x \in Nat /\ y \in Nat /\ x + step = y
        BY <3>3 DEF x, y
      <3>5. a + x <= a + y
        BY <1>1, <2>2, <3>4
      <3> QED BY <3>2, <3>5 DEF x, y
    <2>7. cs[1].start = a
      <3>1. 1 \in 1 .. n /\ (1 - 1) * step = 0
        BY <1>4, <2>2
      <3>2. cs[1].start = a + (1 - 1) * step
        BY <2>4, <2>5, <3>1
      <3> QED BY <1>1, <3>1, <3>2
    <2>8. 1 \in 1 .. n
      BY <1>4
    <2> QED BY <2>4, <2>5, <2>6, <2>7, <2>8 DEF cs, a, b
  <1> QED BY <1>2, <1>3, <1>4

\* What comes of a transcript's segments, in as many parts each as HybridChunker makes.
THEOREM TimedChunksTell ==
    ASSUME NEW s \in Seq(Forward), NEW subs, \A i \in 1 .. Len(s) : subs[i] \in Nat
    PROVE  LET c == chunk_video_timestamped(s, subs)
           IN  /\ DOMAIN c = 1 .. Len(c)
               /\ \A i \in 1 .. Len(s) : s[i].text # "none" =>
                     \E j \in 1 .. Len(c) : c[j].start = s[i].start
               /\ \A j \in 1 .. Len(c) : \E i \in 1 .. Len(s) :
                     s[i].start <= c[j].start /\ c[j].end <= s[i].end
               /\ Orderly(s) => InTime(c)
  <1> DEFINE n == Len(s)
             T == [i \in DOMAIN s |-> Timed(s[i], subs[i])]
             c == chunk_video_timestamped(s, subs)
  <1>1. n \in Nat /\ DOMAIN s = 1 .. n /\ \A i \in 1 .. n : s[i] \in Forward
    BY LenProperties, ElementOfSeq
  <1>2. \A i \in 1 .. n : s[i].start \in Nat /\ s[i].end \in Nat /\ s[i].start <= s[i].end
    BY <1>1 DEF Forward, Segment
  <1>3. c = FlattenSeq(T)
    BY DEF chunk_video_timestamped
  <1>4. \A i \in 1 .. n : T[i] = Timed(s[i], subs[i])
    BY <1>1
  <1>5. ASSUME NEW i \in 1 .. n
        PROVE  /\ T[i] \in Seq(TimedPassage) /\ InTime(T[i])
               /\ \A k \in 1 .. Len(T[i]) : s[i].start <= T[i][k].start /\ T[i][k].end <= s[i].end
               /\ \A k \in 1 .. Len(T[i]) : T[i][k].start <= s[i].end
               /\ s[i].text # "none" => 1 \in 1 .. Len(T[i]) /\ T[i][1].start = s[i].start
    <2> DEFINE x == s[i]
               y == subs[i]
    <2>1. x \in Forward /\ y \in Nat /\ T[i] = Timed(x, y)
      BY <1>1, <1>4
    <2> HIDE DEF x, y, T
    <2>2. /\ Timed(x, y) \in Seq(TimedPassage) /\ InTime(Timed(x, y))
          /\ \A k \in 1 .. Len(Timed(x, y)) : x.start <= Timed(x, y)[k].start /\ Timed(x, y)[k].end <= x.end
          /\ \A k \in 1 .. Len(Timed(x, y)) : Timed(x, y)[k].start <= x.end
          /\ x.text # "none" => 1 \in 1 .. Len(Timed(x, y)) /\ Timed(x, y)[1].start = x.start
      BY <2>1, TimedOne
    <2> QED BY <2>1, <2>2 DEF x
  <1>6. T \in Seq(Seq(TimedPassage)) /\ Len(T) = n
    <2>1. T = [i \in 1 .. n |-> Timed(s[i], subs[i])]
      BY <1>1
    <2>2. \A i \in 1 .. n : Timed(s[i], subs[i]) \in Seq(TimedPassage)
      BY <1>4, <1>5
    <2> HIDE DEF T
    <2>3. T \in [1 .. n -> Seq(TimedPassage)]
      BY <2>1, <2>2
    <2> QED BY <1>1, <2>3
  <1> HIDE DEF T, c
  <1>7. c \in Seq(TimedPassage) /\ DOMAIN c = 1 .. Len(c)
    BY <1>3, <1>6, FlattenType, LenProperties
  <1>8. /\ \A i \in 1 .. n : \A k \in 1 .. Len(T[i]) : \E j \in 1 .. Len(c) : c[j] = T[i][k]
        /\ \A j \in 1 .. Len(c) : \E i \in 1 .. n : \E k \in 1 .. Len(T[i]) : c[j] = T[i][k]
    <2>1. /\ \A i \in 1 .. Len(T) : \A k \in 1 .. Len(T[i]) :
                \E j \in 1 .. Len(FlattenSeq(T)) : FlattenSeq(T)[j] = T[i][k]
          /\ \A j \in 1 .. Len(FlattenSeq(T)) :
                \E i \in 1 .. Len(T) : \E k \in 1 .. Len(T[i]) : FlattenSeq(T)[j] = T[i][k]
      BY <1>6, FlattenHas
    <2> QED BY <1>3, <1>6, <2>1
  <1>9. ASSUME NEW i \in 1 .. n, s[i].text # "none"
        PROVE  \E j \in 1 .. Len(c) : c[j].start = s[i].start
    <2>1. 1 \in 1 .. Len(T[i]) /\ T[i][1].start = s[i].start
      BY <1>5, <1>9
    <2>2. PICK j \in 1 .. Len(c) : c[j] = T[i][1]
      BY <1>8, <2>1
    <2> QED BY <2>1, <2>2
  <1>10. ASSUME NEW j \in 1 .. Len(c)
         PROVE  \E i \in 1 .. n : s[i].start <= c[j].start /\ c[j].end <= s[i].end
    <2>1. PICK i \in 1 .. n : \E k \in 1 .. Len(T[i]) : c[j] = T[i][k]
      BY <1>8
    <2>2. PICK k \in 1 .. Len(T[i]) : c[j] = T[i][k]
      BY <2>1
    <2> QED BY <1>5, <2>2
  <1>11. ASSUME Orderly(s) PROVE InTime(c)
    <2>1. \A i \in 1 .. n : i < n => s[i].end <= s[i + 1].start
      BY <1>1, <1>11 DEF Orderly
    <2>2. ASSUME NEW i \in 1 .. n
          PROVE  \A d \in Nat : i + d + 1 <= n => s[i].end <= s[i + d + 1].start
      <3> DEFINE Q == {d \in Nat : i + d + 1 <= n => s[i].end <= s[i + d + 1].start}
      <3>1. 0 \in Q
        BY <1>1, <2>1
      <3>2. ASSUME NEW d \in Nat, d \in Q PROVE d + 1 \in Q
        <4> SUFFICES ASSUME i + (d + 1) + 1 <= n PROVE s[i].end <= s[i + (d + 1) + 1].start
          OBVIOUS
        <4> DEFINE h == i + d + 1
        <4>1. h \in 1 .. n /\ h < n /\ h + 1 \in 1 .. n /\ i + (d + 1) + 1 = h + 1 /\ h <= n
          BY <1>1
        <4>2. s[i].end <= s[h].start
          BY <3>2, <4>1
        <4> HIDE DEF h
        <4>3. s[h].start <= s[h].end /\ s[h].end <= s[h + 1].start
          BY <1>2, <2>1, <4>1
        <4>4. s[i].end \in Nat /\ s[h].start \in Nat /\ s[h].end \in Nat /\ s[h + 1].start \in Nat
          BY <1>2, <4>1
        <4> QED BY <4>1, <4>2, <4>3, <4>4
      <3> HIDE DEF Q
      <3>3. \A d \in Nat : d \in Q
        BY <3>1, <3>2, ByCounting
      <3> QED BY <3>3 DEF Q
    <2>3. ASSUME NEW i \in 1 .. n, NEW h \in 1 .. n, i < h,
                 NEW k \in 1 .. Len(T[i]), NEW l \in 1 .. Len(T[h])
          PROVE  T[i][k].start <= T[h][l].start
      <3> DEFINE d == h - i - 1
      <3>1. d \in Nat /\ i + d + 1 = h /\ h <= n
        BY <1>1, <2>3
      <3> HIDE DEF d
      <3>2. s[i].end <= s[h].start
        BY <2>2, <3>1
      <3>3. T[i][k].start <= s[i].end /\ s[h].start <= T[h][l].start
        BY <1>5, <2>3
      <3>4. T[i][k] \in TimedPassage /\ T[h][l] \in TimedPassage
        BY <1>5, <2>3, ElementOfSeq
      <3>5. T[i][k].start \in Nat /\ T[h][l].start \in Nat
        BY <3>4 DEF TimedPassage
      <3> QED BY <1>2, <3>2, <3>3, <3>5
    <2>4. \A i, h \in 1 .. n : i < h =>
             \A k \in 1 .. Len(T[i]) : \A l \in 1 .. Len(T[h]) : T[i][k].start <= T[h][l].start
      BY <2>3
    <2>5. InTurn(T)
      BY <1>5, <1>6, <2>4 DEF InTurn
    <2> QED BY <1>3, <1>6, <2>5, FlattenInTime
  <1> QED BY <1>7, <1>9, <1>10, <1>11 DEF c

\* The segments of a transcript, whichever way it comes with its times.
LEMMA SegmentsAre ==
    ASSUME NEW n \in 1 .. MaxSegments, NEW ps \in Transcripts(n)
    PROVE  /\ fetch_video_for_ingest(ps) \in Seq(Forward)
           /\ Len(fetch_video_for_ingest(ps)) <= n
           /\ _parse_segments(ps) \in Seq(Forward)
           /\ Len(_parse_segments(ps)) <= n
  <1>1. /\ n \in Nat /\ DOMAIN ps = 1 .. n /\ ps \in [1 .. n -> Piece]
        /\ \A i \in 1 .. n : i < n => ps[i].at <= ps[i + 1].at
    <2>1. n \in Nat /\ n >= 1
      BY TransformsAssumption
    <2>2. ps \in [1 .. n -> Piece] /\ \A i \in 1 .. (n - 1) : ps[i].at <= ps[i + 1].at
      BY DEF Transcripts
    <2> QED BY <2>1, <2>2
  <1>2. ASSUME NEW i \in 1 .. n
        PROVE  ps[i].at \in Nat /\ ps[i].lasts \in Nat /\ ps[i].text \in {"words", "none"}
    <2>1. \A t \in Times : t * Grain \in Nat
      BY TransformsAssumption
    <2>2. ps[i] \in Piece
      BY <1>1
    <2> QED BY <2>1, <2>2 DEF Piece
  <1>3. Len(ps) = n
    BY <1>1
  <1>4. fetch_video_for_ingest(ps) \in Seq(Forward) /\ Len(fetch_video_for_ingest(ps)) <= n
    <2> DEFINE f == fetch_video_for_ingest(ps)
               e(i) == [start |-> ps[i].at, end |-> ps[i].at + ps[i].lasts, text |-> ps[i].text]
    <2>1. f = [i \in 1 .. n |-> e(i)]
      BY <1>1 DEF fetch_video_for_ingest
    <2>2. ASSUME NEW i \in 1 .. n PROVE e(i) \in Forward
      BY <1>2 DEF Forward, Segment
    <2> HIDE DEF f, e
    <2>3. f \in [1 .. n -> Forward]
      BY <2>1, <2>2
    <2>4. f \in Seq(Forward) /\ Len(f) <= n
      BY <1>1, <2>3
    <2> QED BY <2>4 DEF f
  <1>5. _parse_segments(ps) \in Seq(Forward) /\ Len(_parse_segments(ps)) <= n
    <2> DEFINE next(i) == IF i < Len(ps) THEN i + 1 ELSE i
               e(i) == [start |-> ps[i].at, end |-> ps[next(i)].at, text |-> ps[i].text]
               All == [i \in 1 .. n |-> e(i)]
               Told == {s \in Segment : s.text # "none"}
    <2>1. _parse_segments(ps) = Only(All, Told)
      BY <1>1 DEF _parse_segments
    <2>2. ASSUME NEW i \in 1 .. n PROVE e(i) \in Forward
      <3>1. next(i) \in 1 .. n /\ ps[i].at <= ps[next(i)].at
        BY <1>1, <1>2, <1>3
      <3> HIDE DEF next
      <3>2. ps[i].at \in Nat /\ ps[next(i)].at \in Nat /\ ps[i].text \in {"words", "none"}
        BY <1>2, <3>1
      <3> QED BY <3>1, <3>2 DEF Forward, Segment
    <2> HIDE DEF e, Told
    <2>3. All \in [1 .. n -> Forward]
      BY <2>2
    <2> HIDE DEF All
    <2>4. All \in Seq(Forward) /\ Len(All) = n
      BY <1>1, <2>3
    <2>5. Only(All, Told) \in Seq(Forward) /\ Len(Only(All, Told)) <= n
      <3>1. Only(All, Told) \in Seq(Forward \cap Told)
        BY <2>4, OnlyKeeps
      <3>2. \A u \in Seq(Forward \cap Told) : u \in Seq(Forward)
        OBVIOUS
      <3>3. Len(Only(All, Told)) <= n
        BY <2>4, OnlyShort
      <3> QED BY <3>1, <3>2, <3>3
    <2> QED BY <2>1, <2>5
  <1> QED BY <1>4, <1>5

\* A transcript with timestamps that is chunked is told.
LEMMA TimedChunks ==
    ASSUME ChunksTimed
    PROVE  job'.kind = "timed" /\ TimedIsTold'
  <1>1. PICK n \in 1 .. MaxSegments :
       \E pieces \in Transcripts(n), subs \in [1..n -> 0..MaxSub] :
       \E source \in {"supadata", "headings"} :
          job' = [kind |-> "timed",
                  segments |-> IF source = "supadata" THEN fetch_video_for_ingest(pieces)
                               ELSE _parse_segments(pieces),
                  chunks |-> chunk_video_timestamped(
                     IF source = "supadata" THEN fetch_video_for_ingest(pieces)
                     ELSE _parse_segments(pieces), subs)]
    BY DEF ChunksTimed
  <1>2. PICK ps \in Transcripts(n), subs \in [1..n -> 0..MaxSub], source \in {"supadata", "headings"} :
          job' = [kind |-> "timed",
                  segments |-> IF source = "supadata" THEN fetch_video_for_ingest(ps)
                               ELSE _parse_segments(ps),
                  chunks |-> chunk_video_timestamped(
                     IF source = "supadata" THEN fetch_video_for_ingest(ps)
                     ELSE _parse_segments(ps), subs)]
    BY <1>1
  <1> DEFINE s == IF source = "supadata" THEN fetch_video_for_ingest(ps) ELSE _parse_segments(ps)
             c == chunk_video_timestamped(s, subs)
  <1>3. job'.kind = "timed" /\ job'.segments = s /\ job'.chunks = c
    BY <1>2
  <1>4. s \in Seq(Forward) /\ Len(s) <= n
    BY SegmentsAre
  <1> HIDE DEF s
  <1>5. Len(s) \in Nat /\ DOMAIN s = 1 .. Len(s)
    BY <1>4, LenProperties
  <1>6. \A i \in 1 .. Len(s) : subs[i] \in Nat
    <2>1. n \in Nat /\ 0 .. MaxSub \subseteq Nat
      BY TransformsAssumption
    <2>2. \A i \in 1 .. Len(s) : i \in 1 .. n
      BY <1>4, <1>5, <2>1
    <2> QED BY <2>1, <2>2
  <1>7. /\ DOMAIN c = 1 .. Len(c)
        /\ \A i \in 1 .. Len(s) : s[i].text # "none" =>
              \E j \in 1 .. Len(c) : c[j].start = s[i].start
        /\ \A j \in 1 .. Len(c) : \E i \in 1 .. Len(s) :
              s[i].start <= c[j].start /\ c[j].end <= s[i].end
        /\ Orderly(s) => InTime(c)
    BY <1>4, <1>6, TimedChunksTell
  <1> HIDE DEF c
  <1>8. Orderly(s) => \A j \in DOMAIN c : j < Len(c) => c[j].start <= c[j + 1].start
    BY <1>7 DEF InTime
  <1>9. /\ \A i \in DOMAIN s : s[i].text # "none" =>
              \E j \in DOMAIN c : c[j].start = s[i].start
        /\ \A j \in DOMAIN c : \E i \in DOMAIN s :
              s[i].start <= c[j].start /\ c[j].end <= s[i].end
    BY <1>5, <1>7
  <1>10. Orderly(job'.segments) <=> Orderly(s)
    BY <1>3
  <1>11. TimedIsTold'
    BY <1>3, <1>8, <1>9, <1>10 DEF TimedIsTold, Orderly
  <1> QED BY <1>3, <1>11

-----------------------------------------------------------------------------
(***************************************************************************)
(* Chunking tells the talk (chunker.py): what ChunksTellTheTalk says of one *)
(* state holds in every state that Transforms can reach, for transcripts of *)
(* any length, with and without timestamps, and every limit and title.      *)
(***************************************************************************)
THEOREM ChunksTold == TransformsSpec => []ChunksTellTheTalk
  <1>1. TransformsInit => ChunksTellTheTalk
    BY DEF TransformsInit, NoJob, ChunksTellTheTalk
  <1>2. ChunksTellTheTalk /\ [TransformsNext]_job => ChunksTellTheTalk'
    <2> SUFFICES ASSUME ChunksTellTheTalk, [TransformsNext]_job PROVE ChunksTellTheTalk'
      OBVIOUS
    <2>1. CASE ChunksPlain
      <3>1. job'.kind = "plain" /\ PlainIsTold'
        BY <2>1, PlainChunks
      <3> QED BY <3>1 DEF ChunksTellTheTalk
    <2>2. CASE ChunksTimed
      <3>1. job'.kind = "timed" /\ TimedIsTold'
        BY <2>2, TimedChunks
      <3> QED BY <3>1 DEF ChunksTellTheTalk
    <2>3. CASE FusesRankings
      <3>1. job'.kind = "fused"
        BY <2>3 DEF FusesRankings
      <3> QED BY <3>1 DEF ChunksTellTheTalk
    <2>4. CASE HandsOver
      <3>1. job'.kind = "none"
        BY <2>4 DEF HandsOver, NoJob
      <3> QED BY <3>1 DEF ChunksTellTheTalk
    <2>5. CASE UNCHANGED job
      BY <2>5 DEF ChunksTellTheTalk, PlainIsTold, TimedIsTold
    <2> QED BY <2>1, <2>2, <2>3, <2>4, <2>5 DEF TransformsNext
  <1> QED BY <1>1, <1>2, PTL DEF TransformsSpec
=============================================================================
