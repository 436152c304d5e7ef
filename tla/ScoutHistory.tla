---------------------------- MODULE ScoutHistory ----------------------------
(***************************************************************************)
(* The scout with history variables, and the safety properties of a cycle. *)
(*                                                                         *)
(* The promises of README.md, MISSION.md and FACTORY_RULES.md relate a      *)
(* claim to what PAVE looked like when the cycle looked: "a task must not   *)
(* start if starting it would suspend another playing task".  No reader of  *)
(* a remote board can promise that of a task played after its last look;    *)
(* what it can promise is said here with two sets per worker: the tasks     *)
(* that have been playing without a break since the cycle was opened, and   *)
(* since its run row was created.                                          *)
(***************************************************************************)
EXTENDS FactoryScout

VARIABLES
    sinceCycle,  \* tasks playing ever since the worker opened its cycle
    sinceRun,    \* tasks playing ever since the worker created its run row
    issued,      \* runs for which a PAVE start call was made
    started      \* runs whose start call played the task

hvars == <<sinceCycle, sinceRun, issued, started>>
allvars == <<vars, hvars>>

HInit ==
    /\ Init
    /\ sinceCycle = [w \in Worker |-> {}]
    /\ sinceRun = [w \in Worker |-> {}]
    /\ issued = {}
    /\ started = {}

StartPlays(w) ==
    /\ Calls(w)
    /\ status'[loc[w].task] = "WRK"
    /\ pc'[w] = "claimed" \/ status' # status

Observe ==
    /\ sinceCycle' = [w \in Worker |->
                        IF pc[w] = "idle" /\ pc'[w] = "cycle" THEN Playing'
                        ELSE sinceCycle[w] \cap Playing']
    /\ sinceRun' = [w \in Worker |->
                        IF pc[w] = "create" /\ pc'[w] = "gates" THEN Playing'
                        ELSE sinceRun[w] \cap Playing']
    /\ issued' = issued \cup {loc[w].rid : w \in {v \in Worker : Calls(v)}}
    /\ started' = started \cup {loc[w].rid : w \in {v \in Worker : StartPlays(v)}}

HNext == Next /\ Observe

HSpec == HInit /\ [][HNext]_allvars

-----------------------------------------------------------------------------
(* Safety                                                                  *)

AboutToStart(w) == pc[w] \in {"claim", "start"}

\* When a scout whose Glow queries were answered is about to start a task, no
\* task has been playing ever since its cycle began: the first guard saw every
\* listing, Glow's included.  (When Glow fails, the cycle goes on with the staff
\* listing alone, fallback_error set.)
\* Code: scout_once merges three listings and stops on any WRK row.
FirstGuardHolds ==
    \A w \in Worker : AboutToStart(w) /\ ~ loc[w].error => sinceCycle[w] = {}

\* ... and none that `edi staff tasks` shows has been playing since the run row
\* was created: the second guard re-read that listing before the claim.
SecondGuardHolds ==
    \A w \in Worker : AboutToStart(w) => sinceRun[w] \cap StaffListed = {}

\* A claim is made over no task that either look could have seen playing
\* (scout_once, worker.py:1072-1079 and 1398-1422).
GuardsHold == FirstGuardHolds /\ SecondGuardHolds

\* A run row that says no_pave_mutation, or dry_run, tells the truth: no start
\* call was ever made for it, whatever crashed or raced in between.
NoMutationIsTrue ==
    \A r \in RunId : run[r].noMutation \/ run[r].dry => r \notin issued

\* Write-ahead: a start call is made only for a run whose row already says
\* claim_attempted_at, so a crash never leaves an unrecorded PAVE mutation.
StartIsRecordedFirst ==
    \A r \in issued : r \in RunId /\ run[r].attempted

\* A row that reads "claimed", or has a live workflow, is one whose own start
\* call played the task: the portal never claims another run's play.
ClaimedWasStarted ==
    \A r \in RunId : run[r].status = "claimed" \/ r \in executing => r \in started

-----------------------------------------------------------------------------
(* Refinement                                                              *)

StageOf(r) ==
    IF run[r] = NoRun THEN "free"
    ELSE IF r \in issued THEN "issued"
    ELSE IF run[r].attempted THEN "announced"
    ELSE IF run[r].noMutation \/ run[r].dry THEN "closed"
    ELSE "open"

Ledger == INSTANCE ClaimLedger WITH
    Entry <- RunId, stage <- [r \in RunId |-> StageOf(r)], played <- started

\* The run rows are a ledger of PAVE start calls: announced before they are
\* made, made at most once, and never made for a row that denies them.
ImplementsLedger == Ledger!Spec
=============================================================================
