------------------------------- MODULE Fusion -------------------------------
(***************************************************************************)
(* Reciprocal rank fusion, rag/retriever_hybrid.py: two rankings of chunks  *)
(* are merged by the sum of 1 / (k + rank).  Scores are compared as         *)
(* fractions, so the order is the one the reals give.                       *)
(***************************************************************************)
EXTENDS Naturals, FiniteSets, SequencesExt

CONSTANTS
    K,          \* HYBRID_K_CONSTANT
    MaxTopK,    \* what _clamp_top_k allows at most
    Overfetch   \* HYBRID_OVERFETCH_FACTOR

\* config.py has 60, 30 and 2: the constant is just large enough.
ASSUME FusionAssumption ==
    /\ K \in Nat \ {0} /\ MaxTopK \in Nat \ {0} /\ Overfetch \in Nat \ {0}
    /\ K >= MaxTopK * Overfetch

-----------------------------------------------------------------------------
(* Orders                                                                  *)

\* The elements of a finite set by the number of elements ahead of each.
InOrder(ahead) ==
    [m \in 1..Cardinality(DOMAIN ahead) |->
       CHOOSE x \in DOMAIN ahead : Cardinality(ahead[x]) = m - 1]

Ascending(S) == InOrder([i \in S |-> {j \in S : j < i}])

-----------------------------------------------------------------------------

\* The 0-based position that enumerate gives.
Rank(list, c) == (CHOOSE i \in DOMAIN list : list[i] = c) - 1

\* A score as numerator and denominator.
One(r) == [num |-> 1, den |-> K + r]
Both(r, s) == [num |-> (K + r) + (K + s), den |-> (K + r) * (K + s)]

Exceeds(p, q) == p.num * q.den > q.num * p.den

InBoth(kw, vec, c) == c \in ToSet(kw) \cap ToSet(vec)

\* Mutant: the scores of the two lists are not added.
ScoreOfOne(kw, vec, c) ==
    IF c \in ToSet(kw) THEN One(Rank(kw, c)) ELSE One(Rank(vec, c))

Score(kw, vec, c) ==
    IF InBoth(kw, vec, c) THEN Both(Rank(kw, c), Rank(vec, c))
    ELSE IF c \in ToSet(kw) THEN One(Rank(kw, c)) ELSE One(Rank(vec, c))

\* When a chunk enters the dict of scores.
Entry(kw, vec, c) ==
    IF c \in ToSet(kw) THEN Rank(kw, c) ELSE Len(kw) + Rank(vec, c)

\* sorted(reverse=True) is stable: equal scores stay in the order of entry.
Before(kw, vec, c, d) ==
    LET p == Score(kw, vec, c)
        q == Score(kw, vec, d)
    IN  \/ Exceeds(p, q)
        \/ ~ Exceeds(q, p) /\ Entry(kw, vec, c) < Entry(kw, vec, d)

\* The chunks ahead of each chunk.
Better(kw, vec) ==
    LET all == ToSet(kw) \cup ToSet(vec)
    IN  [c \in all |-> {d \in all : Before(kw, vec, d, c)}]

_rrf_merge(kw, vec, top_k) ==
    LET order == InOrder(Better(kw, vec))
    IN  [m \in 1..(IF Len(order) < top_k THEN Len(order) ELSE top_k) |-> order[m]]

-----------------------------------------------------------------------------
(* What a ranking owes to the two it was made from, without scores.        *)

\* c is no lower than d wherever d is found, and not its equal everywhere.
Dominates(kw, vec, c, d) ==
    /\ \A list \in {kw, vec} :
          d \in ToSet(list) => c \in ToSet(list) /\ Rank(list, c) <= Rank(list, d)
    /\ c # d

FairMerge(kw, vec, top_k, merged) ==
    LET all == ToSet(kw) \cup ToSet(vec)
        Precedes(c, d) == \E i, j \in DOMAIN merged :
                             i < j /\ merged[i] = c /\ merged[j] = d
    IN  /\ Len(merged) = IF Cardinality(all) < top_k THEN Cardinality(all) ELSE top_k
        /\ ToSet(merged) \subseteq all
        /\ \A i, j \in DOMAIN merged : merged[i] = merged[j] => i = j
        /\ \A c, d \in all :
              \/ InBoth(kw, vec, c) /\ ~InBoth(kw, vec, d)
              \/ Dominates(kw, vec, c, d)
              => (d \in ToSet(merged) => Precedes(c, d))
=============================================================================
