------------------------------- MODULE MCScout -------------------------------
(* Instances of the scout without history variables: the faults of one scout *)
(* and its liveness.                                                         *)
EXTENDS FactoryScout, TLC

CONSTANTS a, b, c   \* model values for tasks

\* a precedes b precedes c in the sort key.
RankABC == a :> 1 @@ b :> 2 @@ c :> 3
RankAB == a :> 1 @@ b :> 2

\* The ids of run rows are random UUIDs: interchangeable.
RunSymmetry == Permutations(RunId)
=============================================================================
