--------------------------- MODULE MCScoutHistory ---------------------------
(* Instances of the scout with its history variables. *)
EXTENDS ScoutHistory, TLC

CONSTANTS a, b   \* model values for tasks

\* a precedes b in the sort key.
RankAB == a :> 1 @@ b :> 2

\* The ids of run rows are random UUIDs: interchangeable.
RunSymmetry == Permutations(RunId)
=============================================================================
