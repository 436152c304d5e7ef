---------------------------- MODULE MCWorkerLoop ----------------------------
(***************************************************************************)
(* Instances of the worker loop for TLC.                                    *)
(*                                                                         *)
(* Evidence and update jobs share the registration of an instance and       *)
(* nothing else, so evidence is uploaded while nothing else has happened.   *)
(***************************************************************************)
EXTENDS WorkerLoop

a == "a"
b == "b"
h1 == "h1"
OneHost == [p \in {a, b} |-> h1]
Mcps == <<"ediprod">>

TwoRequests == {<<h1, "git", "portal">>, <<"portal", "other", h1>>}
FourConditions == {Healthy, [Healthy EXCEPT !.listed = {}],
                   [Healthy EXCEPT !.profile = "other"], [Healthy EXCEPT !.checkout = 0]}

CONSTANTS
    MaxUploads, \* bound on the uploads of evidence
    MaxEvents   \* bound on jobs, changes and faults together

Evidence == \E p \in Process : worker[p].mode = "evidence"
Quiet == jobs = <<>> /\ changes = 0 /\ remote = 1

\* One worker that loops, and others that are started by hand beside it.
StartsLoop(p) == p = a /\ ~Evidence /\ run.events = 1 /\ main(p, "loop")
StartsShort(p) ==
    \/ p # a /\ ~Evidence /\ run.events = 1 /\ \E mode \in {"check", "escalate"} : main(p, mode)
    \/ /\ Quiet /\ \A q \in Process : worker[q].pc = "off" \/ worker[q].mode = "evidence"
       /\ run.events <= MaxUploads
       /\ main(p, "evidence")

\* Of Next, what these instances take.
NextBounded ==
    /\ \/ \E p \in Process : StartsLoop(p) \/ StartsShort(p) \/ WorkerStep(p)
       \/ ~Evidence /\ Operator
       \/ ~Evidence /\ World
    /\ Len(jobs') + changes' + faults' <= MaxEvents

SpecBounded == Init /\ [][NextBounded]_vars /\ WorkerFairness
=============================================================================
