---------------------------- MODULE MCRetrieval ----------------------------
(***************************************************************************)
(* Instances of retrieval, membership and chunking for TLC.                 *)
(*                                                                         *)
(* The three share little, and the composition says so to keep it small: a  *)
(* turn begins when Circle has said all it will say and no check is in      *)
(* progress (a turn reads the flag once, when it begins, and every flag and *)
(* history of payments can be found then); the library changes while the    *)
(* turn goes on; transcripts are chunked and rankings merged while nothing  *)
(* else has happened, as neither reads or writes what the others use.       *)
(***************************************************************************)
EXTENDS Retrieval, Transforms

v1 == "v1"
v2 == "v2"
OneLesson == [v \in {v1, v2} |-> IF v = v2 THEN "dynamous" ELSE "youtube"]
FiveThenTwo == [v \in {v1, v2} |-> IF v = v2 THEN <<1>> ELSE <<5, 2>>]

allVars == <<vars, job>>

InitBounded == Init /\ TransformsInit

Untouched == Init \/ job # NoJob

Settled ==
    /\ \A r \in Request : request[r].pc = "idle"
    /\ changes = MaxChanges /\ outages = MaxOutages
    /\ \A u \in User : circle[u] = "none" /\ row[u].verified # "stale"

NextBounded ==
    \/ /\ turns = 0 /\ MembershipNext
       /\ job = NoJob /\ UNCHANGED <<retrievalVars, job>>
    \/ /\ Settled /\ \E u \in User : TurnBegins(u)
       /\ UNCHANGED <<memberVars, job>>
    \/ /\ turn.pc # "idle"
       /\ TurnStep \/ LibraryStep
       /\ UNCHANGED <<memberVars, job>>
    \/ /\ Untouched /\ TransformsNext
       /\ UNCHANGED <<memberVars, retrievalVars>>

SpecBounded == InitBounded /\ [][NextBounded]_allVars /\ MembershipFairness
=============================================================================
