----------------------------- MODULE MCLibrary -----------------------------
(* Instances of the library for TLC. *)
EXTENDS Library, TLC

CONSTANTS c1, c2, d1   \* model values for videos and lessons

TwoVideos == <<c1, c2>>
OneLesson == <<d1>>

\* Its third edition has nothing to chunk.
BlankThird == [l \in Lesson |-> {3}]

\* Requests are alike, and the ids of rows are random UUIDs.
Symmetry == Permutations(RowId) \cup Permutations(Op)
=============================================================================
