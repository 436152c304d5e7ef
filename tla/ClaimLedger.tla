---------------------------- MODULE ClaimLedger ----------------------------
(***************************************************************************)
(* What the portal promises an operator about the run rows of the scout,    *)
(* whatever crashes and however many scouts there are.  A run row is a     *)
(* ledger entry for at most one PAVE start call:                           *)
(*   - the call is announced in the row before it is made;                  *)
(*   - it is made at most once;                                            *)
(*   - a row that says that nothing was asked of PAVE is final;             *)
(*   - only a call that was made can have played the task.                  *)
(* FactoryScout is shown to implement this (ScoutHistory!ImplementsLedger). *)
(***************************************************************************)
CONSTANT Entry

VARIABLES
    stage,   \* what the row of each entry says
    played   \* entries whose start call played the task

Init ==
    /\ stage \in [Entry -> {"free", "closed"}]
    /\ played = {}

Step(e, from, to) ==
    /\ stage[e] \in from
    /\ stage' = [stage EXCEPT ![e] = to]

\* The row is written: for a start to come, or closed from its first moment.
Open(e) == Step(e, {"free"}, "open") /\ UNCHANGED played
Close(e) == Step(e, {"free", "open"}, "closed") /\ UNCHANGED played

Announce(e) == Step(e, {"open"}, "announced") /\ UNCHANGED played

Issue(e) ==
    /\ Step(e, {"announced"}, "issued")
    /\ played' \in {played, played \cup {e}}

Next == \E e \in Entry : Open(e) \/ Close(e) \/ Announce(e) \/ Issue(e)

Spec == Init /\ [][Next]_<<stage, played>>
=============================================================================
