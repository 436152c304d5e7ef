------------------------------ MODULE Citations ------------------------------
(***************************************************************************)
(* The markers [c:<chunk id>] by which the model cites what it read, and    *)
(* their removal from a text that arrives piece by piece.  A text is a      *)
(* sequence of characters; the characters of an id are IdChar.             *)
(***************************************************************************)
EXTENDS Integers, Sequences, FiniteSets, SequencesExt

CONSTANTS
    IdChar,         \* stands for A-Z, a-z, 0-9, _ and -
    MaxHoldback     \* _MAX_HOLDBACK, 128 in the code

ASSUME CitationsAssumption ==
    /\ "c" \in IdChar /\ IdChar \cap {"[", ":", "]"} = {}
    /\ MaxHoldback \in Nat \ {0}

-----------------------------------------------------------------------------
\* The elements of s at the places of K, in their order.
Picks(s, K) ==
    [k \in 1 .. Cardinality(K) |-> s[CHOOSE i \in K : Cardinality({j \in K : j <= i}) = k]]

\* _MARKER_RE: the places <<first, last>> of s that hold a whole marker.  No marker
\* holds another "[", so no two of them overlap.
Markers(s) ==
    {m \in {i \in DOMAIN s : s[i] = "["} \X {j \in DOMAIN s : s[j] = "]"} :
        /\ m[2] >= m[1] + 4
        /\ s[m[1] + 1] = "c" /\ s[m[1] + 2] = ":"
        /\ \A k \in m[1] + 3 .. m[2] - 1 : s[k] \in IdChar}

extract_cited_chunk_ids(s) == {SubSeq(s, m[1] + 3, m[2] - 1) : m \in Markers(s)}

strip_citation_markers(s) ==
    Picks(s, DOMAIN s \ UNION {m[1] .. m[2] : m \in Markers(s)})

\* _PARTIAL_AT_END_RE: where s ends in what may be the beginning of a marker.
PartialAtEnd(s) ==
    {i \in DOMAIN s :
        /\ s[i] = "["
        /\ i + 1 <= Len(s) => s[i + 1] = "c"
        /\ i + 2 <= Len(s) => s[i + 2] = ":"
        /\ \A k \in i + 3 .. Len(s) : s[k] \in IdChar}

-----------------------------------------------------------------------------
\* Mutant of feed: nothing is held back.
FeedHoldsNothing(held, text) == [out |-> strip_citation_markers(held \o text), held |-> <<>>]

\* CitationMarkerStripper: what feed gives out and what it holds back.
feed(held, text) ==
    LET cleaned == strip_citation_markers(held \o text)
        at      == PartialAtEnd(cleaned)
        from    == CHOOSE i \in at : TRUE
    IN  IF at = {} \/ Len(cleaned) - from + 1 >= MaxHoldback
        THEN [out |-> cleaned, held |-> <<>>]
        ELSE [out |-> SubSeq(cleaned, 1, from - 1), held |-> SubSeq(cleaned, from, Len(cleaned))]

flush(held) == strip_citation_markers(held)
=============================================================================
