----------------------------- MODULE ScoutProofs -----------------------------
(***************************************************************************)
(* Proofs about the scout, for every number of workers, tasks and rows and  *)
(* every set of faults: the types of FactoryScout, what ScoutHistory states *)
(* about the guards and the run rows, that the scout implements ClaimLedger, *)
(* and what a scout that is the only one can promise: it never plays over    *)
(* its own work and keeps one active row per task.                          *)
(***************************************************************************)
EXTENDS ScoutHistory, FiniteSetTheorems, WellFoundedInduction, TLAPS

-----------------------------------------------------------------------------
(* The portal's rows                                                       *)

\* Overwriting a row keeps the table well typed, whichever key is used.
LEMMA PatchType ==
    ASSUME run \in [RunId -> Run \cup {NoRun}], age \in [RunId -> Nat],
           NEW r, NEW row, r \in RunId => row \in Run, Patch(r, row)
    PROVE  /\ run' \in [RunId -> Run \cup {NoRun}]
           /\ age' \in [RunId -> Nat]
  <1>1. run' \in [RunId -> Run \cup {NoRun}]
    BY DEF Patch
  <1>2. age' \in [RunId -> Nat]
    <2>1. \A q \in RunId : age[q] \in Nat /\ age[q] + 1 \in Nat
      OBVIOUS
    <2>2. age' = [q \in RunId |-> age'[q]]
      BY DEF Patch, Touch
    <2>3. ASSUME NEW q \in RunId
          PROVE  age'[q] \in {0, age[q] + 1, age[q]}
      BY Zenon DEF Patch, Touch
    <2> QED BY <2>1, <2>2, <2>3
  <1> QED BY <1>1, <1>2

\* What a row may become when one of its fields is overwritten.
LEMMA RowUpdate ==
    ASSUME NEW row \in Run \cup {NoRun}, NEW s \in RunStatus
    PROVE  /\ [row EXCEPT !.status = s] \in Run
           /\ [row EXCEPT !.status = s, !.noMutation = TRUE] \in Run
           /\ [row EXCEPT !.status = s, !.attempted = TRUE] \in Run
  <1>1. CASE row \in Run
    BY <1>1 DEF Run
  <1>2. CASE row = NoRun
    <2>1. /\ [NoRun EXCEPT !.status = s] \in Run
          /\ [NoRun EXCEPT !.status = s, !.noMutation = TRUE] \in Run
          /\ [NoRun EXCEPT !.status = s, !.attempted = TRUE] \in Run
      BY DEF Run, NoRun
    <2> QED BY <1>2, <2>1
  <1> QED BY <1>1, <1>2

-----------------------------------------------------------------------------
(* What the listings return                                                *)

LEMMA RowOfType ==
    ASSUME status \in [Task -> PaveStatus], NEW t \in Task,
           NEW source \in {"staff", "global", "board"}
    PROVE  RowOf(t, source) \in Row
  BY DEF RowOf, Row

LEMMA ListingsAreRows ==
    ASSUME ScoutAssumption, status \in [Task -> PaveStatus], mine \subseteq Task
    PROVE  /\ StaffRows \subseteq Row
           /\ GlobalRows \subseteq Row
           /\ BoardRows \subseteq Row
  <1>1. StaffRows \subseteq Row
    BY RowOfType DEF StaffRows, Listed, ScoutAssumption
  <1>2. GlobalRows \subseteq Row
    BY RowOfType DEF GlobalRows, Playing
  <1>3. BoardRows \subseteq Row
    BY RowOfType DEF BoardRows, Listed, ScoutAssumption
  <1> QED BY <1>1, <1>2, <1>3

-----------------------------------------------------------------------------
(* The local variables                                                     *)

LEMMA AtRestType == AtRest \in Local
  BY DEF AtRest, Local

\* Each field of a worker's local variables may be overwritten.
LEMMA FieldUpdate ==
    ASSUME NEW l \in Local
    PROVE  /\ \A rows \in SUBSET Row : [l EXCEPT !.tasks = rows] \in Local
           /\ \A rows \in SUBSET Row : [l EXCEPT !.glow = rows] \in Local
           /\ \A rows \in SUBSET Row :
                 [l EXCEPT !.tasks = rows, !.glow = {}] \in Local
           /\ [l EXCEPT !.glow = {}, !.error = TRUE] \in Local
           /\ \A x \in Row : [l EXCEPT !.sel = x, !.tasks = {}] \in Local
           /\ \A t \in Task : [l EXCEPT !.task = t, !.sel = None] \in Local
           /\ \A r \in RunId : [l EXCEPT !.rid = r] \in Local
           /\ \A d \in SUBSET {"suspend", "assign"} :
                 [l EXCEPT !.done = d] \in Local
  BY DEF Local

LEMMA DryUpdate ==
    ASSUME NEW d \in BOOLEAN PROVE [AtRest EXCEPT !.dry = d] \in Local
  BY DEF AtRest, Local

\* Which locals are set at each label; a cycle at rest has none.
SetAt(l, v) ==
    /\ l = "resolve" => v.sel # None
    /\ l \in Resolved => v.task # None
    /\ l \in WithRun => v.rid # None

LEMMA ReturnType ==
    ASSUME pc \in [Worker -> Label], loc \in [Worker -> Local],
           \A v \in Worker : SetAt(pc[v], loc[v]),
           NEW w \in Worker, Return(w)
    PROVE  /\ pc' \in [Worker -> Label]
           /\ loc' \in [Worker -> Local]
           /\ \A v \in Worker : SetAt(pc'[v], loc'[v])
  BY AtRestType DEF Return, Label, SetAt, Resolved, WithRun

\* A step of one worker from one label to the next.
LEMMA GotoType ==
    ASSUME pc \in [Worker -> Label], loc \in [Worker -> Local],
           \A v \in Worker : SetAt(pc[v], loc[v]),
           NEW w \in Worker, NEW l \in Label, Goto(w, l),
           NEW x \in Local, loc' = [loc EXCEPT ![w] = x] \/ (loc' = loc /\ x = loc[w]),
           SetAt(l, x)
    PROVE  /\ pc' \in [Worker -> Label]
           /\ loc' \in [Worker -> Local]
           /\ \A v \in Worker : SetAt(pc'[v], loc'[v])
  BY DEF Goto

LEMMA FinishType ==
    ASSUME cycle \in [Worker -> CycleStatus], NEW w \in Worker,
           NEW s \in CycleStatus, FinishCycle(w, s)
    PROVE  cycle' \in [Worker -> CycleStatus]
  BY DEF FinishCycle

-----------------------------------------------------------------------------
(* Type correctness                                                        *)

LEMMA InitType == ASSUME ScoutAssumption, Init PROVE TypeOK
  <1>1. run \in [RunId -> Run \cup {NoRun}]
    <2>1. ASSUME LegacyRow # None
          PROVE  [NoRun EXCEPT !.task = LegacyRow, !.status = "queued",
                               !.dry = TRUE] \in Run
      BY <2>1 DEF ScoutAssumption, NoRun, Run, RunStatus
    <2> QED BY <2>1 DEF Init
  <1>2. status \in [Task -> PaveStatus] BY DEF Init, PaveStatus
  <1>3. cycle \in [Worker -> CycleStatus] BY DEF Init, CycleStatus
  <1>4. pc \in [Worker -> Label] BY DEF Init, Label
  <1>5. loc \in [Worker -> Local] BY AtRestType DEF Init
  <1>6. \A w \in Worker : pc[w] = "idle"
    BY DEF Init
  <1> QED BY <1>1, <1>2, <1>3, <1>4, <1>5, <1>6
          DEF Init, TypeOK, Resolved, WithRun

\* Starting a task keeps the PAVE statuses well typed.
LEMMA StartType ==
    ASSUME status \in [Task -> PaveStatus], hand \subseteq Task, NEW t,
           ScoutStarts(t) \/ UNCHANGED <<status, hand>>
    PROVE  status' \in [Task -> PaveStatus] /\ hand' \subseteq Task
  BY DEF ScoutStarts, StatusAfterStart, PaveStatus

-----------------------------------------------------------------------------
(* Type correctness                                                        *)

\* One cycle of a worker, the operator's escalation and a crash included.
LEMMA WorkerStepType ==
    ASSUME ScoutAssumption, TypeOK, NEW w \in Worker,
           Scout(w) \/ OperatorEscalates(w) \/ AbandonCycle(w)
    PROVE  TypeOK'
  <1> USE DEF TypeOK
  <1>a. /\ {"running", "stalled", "blocked", "ready"} \subseteq CycleStatus
        /\ {"queued", "dry_run", "running", "claimed", "stalled", "suspended",
             "failed"} \subseteq RunStatus
        /\ {"cycle", "stall", "global", "board", "polled", "resolve", "lookup",
             "create", "gates", "park", "fresh", "claim", "start", "claimed",
             "dispatch", "dispatched", "suspend", "assign", "record"}
             \subseteq Label
    BY DEF CycleStatus, RunStatus, Label
  <1>b. loc[w] \in Local /\ \A v \in Worker : SetAt(pc[v], loc[v])
    BY DEF SetAt
  <1>c. (/\ pc' \in [Worker -> Label]
         /\ loc' \in [Worker -> Local]
         /\ \A v \in Worker : SetAt(pc'[v], loc'[v]))
        => (/\ pc' \in [Worker -> Label]
            /\ loc' \in [Worker -> Local]
            /\ \A v \in Worker :
                  /\ pc'[v] = "resolve" => loc'[v].sel # None
                  /\ pc'[v] \in Resolved => loc'[v].task # None
                  /\ pc'[v] \in WithRun => loc'[v].rid # None)
    BY DEF SetAt
  <1>1. CASE BeginCycle(w)
    <2>1. PICK dry \in DryModes : loc' = [loc EXCEPT ![w] = [AtRest EXCEPT !.dry = dry]]
      BY <1>1 DEF BeginCycle
    <2> DEFINE x == [AtRest EXCEPT !.dry = dry]
    <2>2. x \in Local
      BY DryUpdate DEF ScoutAssumption
    <2>3. SetAt("cycle", x)
      BY DEF SetAt, Resolved, WithRun
    <2> HIDE DEF x
    <2> QED BY <1>1, <1>a, <1>b, <1>c, <2>1, <2>2, <2>3, GotoType, FinishType
            DEF BeginCycle, pave, bounds, x
  <1>2. CASE McpNotReady(w)
    <2>1. SetAt("stall", loc[w])
      BY <1>2, <1>b DEF McpNotReady, SetAt, Resolved, WithRun
    <2> QED BY <1>2, <1>a, <1>b, <1>c, <2>1, GotoType, FinishType
            DEF McpNotReady, pave, bounds
  <1>3. CASE CreateStallRun(w)
    <2>1. [NoRun EXCEPT !.status = "stalled", !.noMutation = TRUE] \in Run
      BY <1>a, RowUpdate
    <2> QED BY <1>3, <1>b, <1>c, <2>1, PatchType, ReturnType
            DEF CreateStallRun, pave, bounds
  <1>4. CASE EdiMissing(w)
    BY <1>4, <1>a, <1>b, <1>c, ReturnType, FinishType DEF EdiMissing, pave, bounds
  <1>5. CASE ListStaffTasks(w)
    <2> DEFINE x == [loc[w] EXCEPT !.tasks = StaffRows]
    <2>1. loc' = [loc EXCEPT ![w] = x]
      BY <1>5 DEF ListStaffTasks
    <2>2. x \in Local
      BY <1>b, ListingsAreRows, FieldUpdate
    <2>3. SetAt("polled", x) /\ SetAt("global", x)
      BY <1>5, <1>b DEF ListStaffTasks, SetAt, Resolved, WithRun, Local
    <2> HIDE DEF x
    <2> QED BY <1>5, <1>a, <1>b, <1>c, <2>1, <2>2, <2>3, GotoType
            DEF ListStaffTasks, pave, portal, bounds
  <1>6. CASE ListGlobalPlaying(w)
    <2> DEFINE x == [loc[w] EXCEPT !.glow = GlobalRows]
    <2>1. loc' = [loc EXCEPT ![w] = x]
      BY <1>6 DEF ListGlobalPlaying
    <2>2. x \in Local
      BY <1>b, ListingsAreRows, FieldUpdate
    <2>3. SetAt("board", x)
      BY <1>6, <1>b DEF ListGlobalPlaying, SetAt, Resolved, WithRun, Local
    <2> HIDE DEF x
    <2> QED BY <1>6, <1>a, <1>b, <1>c, <2>1, <2>2, <2>3, GotoType
            DEF ListGlobalPlaying, pave, portal, bounds
  <1>7. CASE ListBoardChannel(w)
    <2> DEFINE extra == {x \in BoardRows : x.task \notin {y.task : y \in loc[w].glow}}
               rows == loc[w].tasks \cup loc[w].glow \cup extra
               x == [loc[w] EXCEPT !.tasks = rows, !.glow = {}]
    <2>1. loc' = [loc EXCEPT ![w] = x]
      BY <1>7 DEF ListBoardChannel
    <2>2. x \in Local
      <3>1. rows \in SUBSET Row
        BY <1>b, ListingsAreRows DEF Local
      <3> HIDE DEF rows
      <3> QED BY <1>b, <3>1, FieldUpdate
    <2>3. SetAt("polled", x)
      BY DEF SetAt, Resolved, WithRun
    <2> HIDE DEF x
    <2> QED BY <1>7, <1>a, <1>b, <1>c, <2>1, <2>2, <2>3, GotoType
            DEF ListBoardChannel, pave, portal, bounds
  <1>8. CASE GlowFails(w)
    <2> DEFINE x == [loc[w] EXCEPT !.glow = {}, !.error = TRUE]
    <2>1. loc' = [loc EXCEPT ![w] = x]
      BY <1>8 DEF GlowFails
    <2>2. x \in Local
      BY <1>b, FieldUpdate
    <2>3. SetAt("polled", x)
      BY <1>8, <1>b DEF GlowFails, SetAt, Resolved, WithRun, Local
    <2> HIDE DEF x
    <2> QED BY <1>8, <1>a, <1>b, <1>c, <2>1, <2>2, <2>3, GotoType
            DEF GlowFails, pave, portal, bounds
  <1>9. CASE PollFailed(w)
    BY <1>9, <1>a, <1>b, <1>c, ReturnType, FinishType DEF PollFailed, pave, bounds
  <1>10. CASE PlayingTaskPresent(w)
    BY <1>10, <1>a, <1>b, <1>c, ReturnType, FinishType DEF PlayingTaskPresent, pave, bounds
  <1>11. CASE NoStartableWork(w)
    BY <1>11, <1>a, <1>b, <1>c, ReturnType, FinishType DEF NoStartableWork, pave, bounds
  <1>12. CASE SelectCandidate(w)
    <2>1. PICK c \in candidates(loc[w].tasks) :
             loc' = [loc EXCEPT ![w].sel = c, ![w].tasks = {}]
      BY <1>12 DEF SelectCandidate
    <2>2. c \in Row /\ c # None
      <3>1. c \in Row
        BY <1>b DEF candidates, Local
      <3> QED BY <3>1, NoneIsNoRow
    <2> DEFINE x == [loc[w] EXCEPT !.sel = c, !.tasks = {}]
    <2>3. loc' = [loc EXCEPT ![w] = x]
      BY <2>1
    <2>4. x \in Local
      BY <1>b, <2>2, FieldUpdate
    <2>5. SetAt("resolve", x)
      BY <1>b, <2>2 DEF SetAt, Resolved, WithRun, Local
    <2> HIDE DEF x
    <2> QED BY <1>12, <1>a, <1>b, <1>c, <2>3, <2>4, <2>5, GotoType
            DEF SelectCandidate, pave, portal, bounds
  <1>13. CASE ResolveTask(w)
    <2> DEFINE x == [loc[w] EXCEPT !.task = loc[w].sel.task, !.sel = None]
    <2>1. loc' = [loc EXCEPT ![w] = x]
      BY <1>13 DEF ResolveTask
    <2>2. loc[w].sel.task \in Task
      BY <1>13, <1>b DEF ResolveTask, SetAt, Local, Row
    <2>3. x \in Local
      BY <1>b, <2>2, FieldUpdate
    <2>4. SetAt("lookup", x)
      BY <1>b, <2>2 DEF SetAt, Resolved, WithRun, Local, ScoutAssumption
    <2> HIDE DEF x
    <2> QED BY <1>13, <1>a, <1>b, <1>c, <2>1, <2>3, <2>4, GotoType, FinishType
            DEF ResolveTask, pave, bounds
  <1>14. CASE ResolutionFails(w)
    BY <1>14, <1>a, <1>b, <1>c, ReturnType, FinishType DEF ResolutionFails, pave, bounds
  <1>15. CASE NoActiveRun(w)
    <2>1. SetAt("create", loc[w])
      BY <1>15, <1>b DEF NoActiveRun, SetAt, Resolved, WithRun
    <2> QED BY <1>15, <1>a, <1>b, <1>c, <2>1, GotoType
            DEF NoActiveRun, pave, portal, bounds
  <1>16. CASE AlreadyQueued(w)
    <2> DEFINE r == ActiveRun(loc[w].task, loc[w].dry)
    <2>1. r \in RunId => [run[r] EXCEPT !.status = "dry_run"] \in Run
      BY <1>a, RowUpdate
    <2>2. /\ run' \in [RunId -> Run \cup {NoRun}]
          /\ age' \in [RunId -> Nat]
      <3>1. CASE Patch(r, [run[r] EXCEPT !.status = "dry_run"])
        BY <2>1, <3>1, PatchType
      <3>2. CASE UNCHANGED <<run, age>>
        BY <3>2
      <3> QED BY <1>16, <3>1, <3>2 DEF AlreadyQueued
    <2> QED BY <1>16, <1>a, <1>b, <1>c, <2>2, ReturnType, FinishType
            DEF AlreadyQueued, pave, bounds
  <1>17. CASE CreateRun(w)
    <2>1. PICK r \in Free :
             /\ Patch(r, [NoRun EXCEPT !.task = loc[w].task, !.dry = loc[w].dry,
                             !.status = IF loc[w].dry THEN "dry_run" ELSE "queued"])
             /\ IF loc[w].dry THEN Return(w)
                ELSE /\ loc' = [loc EXCEPT ![w].rid = r]
                     /\ Goto(w, "gates")
      BY <1>17 DEF CreateRun
    <2>2. r \in RunId
      BY DEF Free
    <2>3. [NoRun EXCEPT !.task = loc[w].task, !.dry = loc[w].dry,
              !.status = IF loc[w].dry THEN "dry_run" ELSE "queued"] \in Run
      BY <1>a, <1>b DEF NoRun, Run, Local
    <2>4. /\ run' \in [RunId -> Run \cup {NoRun}]
          /\ age' \in [RunId -> Nat]
      BY <2>1, <2>3, PatchType
    <2>5. /\ pc' \in [Worker -> Label]
          /\ loc' \in [Worker -> Local]
          /\ \A v \in Worker : SetAt(pc'[v], loc'[v])
      <3>1. CASE Return(w)
        BY <1>b, <3>1, ReturnType
      <3>2. CASE loc' = [loc EXCEPT ![w].rid = r] /\ Goto(w, "gates")
        <4> DEFINE x == [loc[w] EXCEPT !.rid = r]
        <4>1. loc' = [loc EXCEPT ![w] = x]
          BY <3>2
        <4>2. x \in Local
          BY <1>b, <2>2, FieldUpdate
        <4>3. SetAt("gates", x)
          BY <1>17, <1>b, <2>2
             DEF CreateRun, SetAt, Resolved, WithRun, Local, ScoutAssumption
        <4> HIDE DEF x
        <4> QED BY <1>a, <1>b, <3>2, <4>1, <4>2, <4>3, GotoType
      <3> QED BY <2>1, <3>1, <3>2
    <2> QED BY <1>17, <1>c, <2>4, <2>5 DEF CreateRun, pave, bounds
  <1>18. CASE GatesRefuse(w)
    <2>1. SetAt("park", loc[w])
      BY <1>18, <1>b DEF GatesRefuse, SetAt, Resolved, WithRun
    <2> QED BY <1>18, <1>a, <1>b, <1>c, <2>1, GotoType, FinishType
            DEF GatesRefuse, pave, bounds
  <1>19. CASE GatesPass(w)
    <2>1. SetAt("fresh", loc[w])
      BY <1>19, <1>b DEF GatesPass, SetAt, Resolved, WithRun
    <2> QED BY <1>19, <1>a, <1>b, <1>c, <2>1, GotoType
            DEF GatesPass, pave, portal, bounds
  <1>20. CASE FreshCheckPasses(w)
    <2>1. SetAt("claim", loc[w])
      BY <1>20, <1>b DEF FreshCheckPasses, SetAt, Resolved, WithRun
    <2> QED BY <1>20, <1>a, <1>b, <1>c, <2>1, GotoType
            DEF FreshCheckPasses, pave, portal, bounds
  <1>21. CASE FreshCheckBlocks(w)
    <2>1. SetAt("park", loc[w])
      BY <1>21, <1>b DEF FreshCheckBlocks, SetAt, Resolved, WithRun
    <2> QED BY <1>21, <1>a, <1>b, <1>c, <2>1, GotoType, FinishType
            DEF FreshCheckBlocks, pave, bounds
  <1>22. CASE ParkRun(w)
    <2>1. loc[w].rid \in RunId => [run[loc[w].rid] EXCEPT !.status = "stalled", !.noMutation = TRUE] \in Run
      BY <1>a, RowUpdate
    <2> QED BY <1>22, <1>b, <1>c, <2>1, PatchType, ReturnType
            DEF ParkRun, pave, bounds
  <1>23. CASE RecordClaimAttempt(w)
    <2>1. loc[w].rid \in RunId => [run[loc[w].rid] EXCEPT !.status = "running", !.attempted = TRUE] \in Run
      BY <1>a, RowUpdate
    <2>2. SetAt("start", loc[w])
      BY <1>23, <1>b DEF RecordClaimAttempt, SetAt, Resolved, WithRun
    <2> QED BY <1>23, <1>a, <1>b, <1>c, <2>1, <2>2, PatchType, GotoType
            DEF RecordClaimAttempt, pave, bounds
  <1>24. CASE StartSucceeds(w)
    <2>1. SetAt("claimed", loc[w])
      BY <1>24, <1>b DEF StartSucceeds, SetAt, Resolved, WithRun
    <2> QED BY <1>24, <1>a, <1>b, <1>c, <2>1, GotoType, StartType
            DEF StartSucceeds, portal, bounds
  <1>25. CASE StartFails(w)
    <2>1. SetAt("suspend", loc[w])
      BY <1>25, <1>b DEF StartFails, SetAt, Resolved, WithRun
    <2>2. status' \in [Task -> PaveStatus] /\ hand' \subseteq Task
      BY <1>25, StartType DEF StartFails
    <2> QED BY <1>25, <1>a, <1>b, <1>c, <2>1, <2>2, GotoType
            DEF StartFails, portal, bounds
  <1>26. CASE RecordClaimed(w)
    <2>1. loc[w].rid \in RunId => [run[loc[w].rid] EXCEPT !.status = "claimed"] \in Run
      BY <1>a, RowUpdate
    <2>2. SetAt("dispatch", loc[w])
      BY <1>26, <1>b DEF RecordClaimed, SetAt, Resolved, WithRun
    <2> QED BY <1>26, <1>a, <1>b, <1>c, <2>1, <2>2, PatchType, GotoType
            DEF RecordClaimed, pave, bounds
  <1>27. CASE DispatchSucceeds(w)
    <2>1. SetAt("dispatched", loc[w])
      BY <1>27, <1>b DEF DispatchSucceeds, SetAt, Resolved, WithRun
    <2>2. executing' \subseteq RunId
      BY <1>27, <1>b DEF DispatchSucceeds, SetAt, WithRun, Local
    <2> QED BY <1>27, <1>a, <1>b, <1>c, <2>1, <2>2, GotoType
            DEF DispatchSucceeds, pave, portal, bounds
  <1>28. CASE DispatchFails(w)
    <2>1. SetAt("suspend", loc[w])
      BY <1>28, <1>b DEF DispatchFails, SetAt, Resolved, WithRun
    <2>2. executing' \subseteq RunId
      BY <1>28, <1>b DEF DispatchFails, SetAt, WithRun, Local
    <2> QED BY <1>28, <1>a, <1>b, <1>c, <2>1, <2>2, GotoType
            DEF DispatchFails, pave, portal, bounds
  <1>29. CASE RecordDispatched(w)
    <2>1. loc[w].rid \in RunId => [run[loc[w].rid] EXCEPT !.status = "running"] \in Run
      BY <1>a, RowUpdate
    <2> QED BY <1>29, <1>a, <1>b, <1>c, <2>1, PatchType, ReturnType
            DEF RecordDispatched, pave, bounds
  <1>30. CASE EscalateSuspend(w)
    <2> DEFINE x == [loc[w] EXCEPT !.done = loc[w].done \cup {"suspend"}]
    <2>1. loc' = [loc EXCEPT ![w] = x] \/ loc' = loc
      BY <1>30 DEF EscalateSuspend
    <2>2. x \in Local
      <3>1. loc[w].done \cup {"suspend"} \in SUBSET {"suspend", "assign"}
        BY <1>b DEF Local
      <3> QED BY <1>b, <3>1, FieldUpdate
    <2>3. SetAt("assign", x) /\ SetAt("assign", loc[w])
      BY <1>30, <1>b DEF EscalateSuspend, SetAt, Resolved, WithRun, Local
    <2>4. Goto(w, "assign")
      BY <1>30 DEF EscalateSuspend
    <2>5. /\ pc' \in [Worker -> Label]
          /\ loc' \in [Worker -> Local]
          /\ \A v \in Worker : SetAt(pc'[v], loc'[v])
      <3> HIDE DEF x
      <3> QED BY <1>a, <1>b, <2>1, <2>2, <2>3, <2>4, GotoType
    <2>6. status' \in [Task -> PaveStatus] /\ hand' \subseteq Task /\ mine' \subseteq Task
      BY <1>30 DEF EscalateSuspend, PaveStatus
    <2> QED BY <1>30, <1>c, <2>5, <2>6 DEF EscalateSuspend, portal, bounds
  <1>31. CASE EscalateAssign(w)
    <2> DEFINE x == [loc[w] EXCEPT !.done = loc[w].done \cup {"assign"}]
    <2>1. loc' = [loc EXCEPT ![w] = x] \/ loc' = loc
      BY <1>31 DEF EscalateAssign
    <2>2. x \in Local
      <3>1. loc[w].done \cup {"assign"} \in SUBSET {"suspend", "assign"}
        BY <1>b DEF Local
      <3> QED BY <1>b, <3>1, FieldUpdate
    <2>3. SetAt("record", x) /\ SetAt("record", loc[w])
      BY <1>31, <1>b DEF EscalateAssign, SetAt, Resolved, WithRun, Local
    <2>4. Goto(w, "record")
      BY <1>31 DEF EscalateAssign
    <2>5. /\ pc' \in [Worker -> Label]
          /\ loc' \in [Worker -> Local]
          /\ \A v \in Worker : SetAt(pc'[v], loc'[v])
      <3> HIDE DEF x
      <3> QED BY <1>a, <1>b, <2>1, <2>2, <2>3, <2>4, GotoType
    <2>6. status' \in [Task -> PaveStatus] /\ hand' \subseteq Task /\ mine' \subseteq Task
      BY <1>31 DEF EscalateAssign, PaveStatus
    <2> QED BY <1>31, <1>c, <2>5, <2>6 DEF EscalateAssign, portal, bounds
  <1>32. CASE RecordEscalation(w)
    <2> DEFINE outcome == EscalationStatus(loc[w].done)
    <2>1. outcome \in RunStatus
      BY <1>a DEF EscalationStatus
    <2>2. /\ run' \in [RunId -> Run \cup {NoRun}]
          /\ age' \in [RunId -> Nat]
      <3>1. CASE Patch(loc[w].rid, [run[loc[w].rid] EXCEPT !.status = outcome])
        <4>1. loc[w].rid \in RunId => [run[loc[w].rid] EXCEPT !.status = outcome] \in Run
          BY <2>1, RowUpdate
        <4> QED BY <3>1, <4>1, PatchType
      <3>2. CASE \E r \in Free :
                   Patch(r, [NoRun EXCEPT !.task = loc[w].task, !.status = outcome])
        <4>1. PICK r \in Free :
                Patch(r, [NoRun EXCEPT !.task = loc[w].task, !.status = outcome])
          BY <3>2
        <4>2. [NoRun EXCEPT !.task = loc[w].task, !.status = outcome] \in Run
          BY <1>b, <2>1 DEF NoRun, Run, Local
        <4> QED BY <4>1, <4>2, PatchType
      <3> QED BY <1>32, <3>1, <3>2 DEF RecordEscalation
    <2> QED BY <1>32, <1>b, <1>c, <2>2, ReturnType DEF RecordEscalation, pave, bounds
  <1>33. CASE OperatorEscalates(w)
    <2>1. PICK t \in OperatorTask : loc' = [loc EXCEPT ![w] = [AtRest EXCEPT !.task = t]]
      BY <1>33 DEF OperatorEscalates
    <2> DEFINE x == [AtRest EXCEPT !.task = t]
    <2>2. x \in Local
      BY <2>1 DEF ScoutAssumption, AtRest, Local
    <2>3. SetAt("suspend", x)
      BY <2>1 DEF ScoutAssumption, AtRest, SetAt, Resolved, WithRun
    <2> HIDE DEF x
    <2> QED BY <1>33, <1>a, <1>b, <1>c, <2>1, <2>2, <2>3, GotoType
            DEF OperatorEscalates, pave, portal, bounds, x
  <1>34. CASE AbandonCycle(w)
    BY <1>34, <1>b, <1>c, ReturnType DEF AbandonCycle, pave, portal
  <1> QED
    BY <1>1, <1>2, <1>3, <1>4, <1>5, <1>6, <1>7, <1>8, <1>9, <1>10, <1>11, <1>12,
       <1>13, <1>14, <1>15, <1>16, <1>17, <1>18, <1>19, <1>20, <1>21, <1>22, <1>23, <1>24,
       <1>25, <1>26, <1>27, <1>28, <1>29, <1>30, <1>31, <1>32, <1>33, <1>34
    DEF Scout

\* People, prerequisites and the detached workflows.
LEMMA EnvironmentStepType ==
    ASSUME ScoutAssumption, TypeOK,
           \/ \E t \in Task : \/ HumanPlays(t) \/ HumanStops(t) \/ HumanTakesOver(t)
                              \/ PrerequisitesMet(t)
           \/ \E r \in RunId : ArchonEnds(r)
    PROVE  TypeOK'
  <1> USE DEF TypeOK
  <1>1. ASSUME NEW t \in Task, HumanPlays(t) PROVE TypeOK'
    BY <1>1 DEF HumanPlays, StatusAfterStart, PaveStatus, portal
  <1>2. ASSUME NEW t \in Task, HumanStops(t) PROVE TypeOK'
    BY <1>2 DEF HumanStops, PaveStatus, portal, bounds
  <1>3. ASSUME NEW t \in Task, HumanTakesOver(t) PROVE TypeOK'
    BY <1>3 DEF HumanTakesOver, PaveStatus, portal
  <1>4. ASSUME NEW t \in Task, PrerequisitesMet(t) PROVE TypeOK'
    BY <1>4 DEF PrerequisitesMet, portal, bounds
  <1>5. ASSUME NEW r \in RunId, ArchonEnds(r) PROVE TypeOK'
    <2>1. \A s \in {"completed", "suspended", "failed"} :
             [run[r] EXCEPT !.status = s] \in Run
      BY <1>5, RowUpdate DEF RunStatus
    <2>2. /\ run' \in [RunId -> Run \cup {NoRun}]
          /\ age' \in [RunId -> Nat]
      <3>1. PICK s \in {"completed", "suspended", "failed"} :
               Patch(r, [run[r] EXCEPT !.status = s])
        BY <1>5 DEF ArchonEnds
      <3> QED BY <2>1, <3>1, PatchType
    <2>3. status' \in [Task -> PaveStatus] /\ mine' \subseteq Task
      BY <1>5 DEF ArchonEnds, PaveStatus
    <2>4. executing' \subseteq RunId
      BY <1>5 DEF ArchonEnds
    <2> QED BY <1>5, <2>2, <2>3, <2>4 DEF ArchonEnds, bounds
  <1> QED BY <1>1, <1>2, <1>3, <1>4, <1>5

LEMMA StepType == ASSUME ScoutAssumption, TypeOK, [Next]_vars PROVE TypeOK'
  <1>1. CASE UNCHANGED vars
    BY <1>1 DEF vars, TypeOK
  <1>2. CASE Next
    BY <1>2, WorkerStepType, EnvironmentStepType DEF Next, Environment
  <1> QED BY <1>1, <1>2

\* Every state the scout, its workflows and people can reach is well typed; in
\* particular no row ever gets a status that worker_find_active_run and the
\* dashboard do not know, and no cycle reaches a call whose task or run it
\* does not have.
THEOREM TypeCorrect == Spec => []TypeOK
  <1>1. Init => TypeOK
    BY ScoutAssumption, InitType
  <1>2. TypeOK /\ [Next]_vars => TypeOK'
    BY ScoutAssumption, StepType
  <1> QED BY <1>1, <1>2, PTL DEF Spec

-----------------------------------------------------------------------------
(* The history variables do not constrain the scout                        *)

LEMMA TypesHold == HSpec => []TypeOK
  <1>1. HInit => Init
    BY DEF HInit
  <1>2. [HNext]_allvars => [Next]_vars
    BY DEF HNext, allvars
  <1> QED BY <1>1, <1>2, TypeCorrect, PTL DEF HSpec, Spec

-----------------------------------------------------------------------------
(* The flow of a cycle                                                     *)

WorkerStep(w) == Scout(w) \/ OperatorEscalates(w) \/ AbandonCycle(w)

OutsideStep ==
    \/ \E t \in Task : \/ HumanPlays(t) \/ HumanStops(t) \/ HumanTakesOver(t)
                       \/ PrerequisitesMet(t)
    \/ \E r \in RunId : ArchonEnds(r)

LEMMA StepsOfNext == Next <=> OutsideStep \/ \E w \in Worker : WorkerStep(w)
  BY DEF Next, Environment, OutsideStep, WorkerStep

\* The labels that follow one another; every label may also return to "idle".
Flow ==
    {<<"idle", "cycle">>, <<"cycle", "stall">>, <<"cycle", "global">>,
     <<"cycle", "polled">>, <<"global", "board">>, <<"global", "polled">>,
     <<"board", "polled">>, <<"polled", "resolve">>, <<"resolve", "lookup">>,
     <<"lookup", "create">>, <<"create", "gates">>, <<"gates", "park">>,
     <<"gates", "fresh">>, <<"fresh", "park">>, <<"fresh", "claim">>,
     <<"claim", "start">>, <<"start", "claimed">>, <<"start", "suspend">>,
     <<"claimed", "dispatch">>, <<"dispatch", "dispatched">>,
     <<"dispatch", "suspend">>, <<"idle", "suspend">>, <<"suspend", "assign">>,
     <<"assign", "record">>}

LEMMA Frame ==
    ASSUME pc \in [Worker -> Label], loc \in [Worker -> Local],
           NEW w \in Worker, WorkerStep(w)
    PROVE  /\ \A v \in Worker \ {w} : pc'[v] = pc[v] /\ loc'[v] = loc[v]
           /\ pc'[w] # pc[w]
           /\ pc'[w] = "idle" \/ <<pc[w], pc'[w]>> \in Flow
  BY DEF WorkerStep, Scout, Goto, Return, Flow,
         BeginCycle, McpNotReady, CreateStallRun, EdiMissing, ListStaffTasks,
         ListGlobalPlaying, ListBoardChannel, GlowFails, PollFailed,
         PlayingTaskPresent, NoStartableWork, SelectCandidate, ResolveTask,
         ResolutionFails, NoActiveRun, AlreadyQueued, CreateRun, GatesRefuse,
         GatesPass, FreshCheckPasses, FreshCheckBlocks, ParkRun,
         RecordClaimAttempt, StartSucceeds, StartFails, RecordClaimed,
         DispatchSucceeds, DispatchFails, RecordDispatched, OperatorEscalates,
         EscalateSuspend, EscalateAssign, RecordEscalation, AbandonCycle

\* The action behind those steps of the flow that a guard depends on.
LEMMA Origin ==
    ASSUME pc \in [Worker -> Label], loc \in [Worker -> Local],
           NEW w \in Worker, WorkerStep(w)
    PROVE  /\ pc[w] = "cycle" /\ pc'[w] = "polled" => ~ Fallback
           /\ pc[w] = "global" /\ pc'[w] = "board" => ListGlobalPlaying(w)
           /\ pc[w] = "global" /\ pc'[w] = "polled" => GlowFails(w)
           /\ pc[w] = "board" /\ pc'[w] = "polled" =>
                 ListBoardChannel(w) \/ GlowFails(w)
           /\ pc[w] = "polled" /\ pc'[w] = "resolve" => SelectCandidate(w)
           /\ pc[w] = "fresh" /\ pc'[w] = "claim" => FreshCheckPasses(w)
  BY DEF WorkerStep, Scout, Goto, Return,
         BeginCycle, McpNotReady, CreateStallRun, EdiMissing, ListStaffTasks,
         ListGlobalPlaying, ListBoardChannel, GlowFails, PollFailed,
         PlayingTaskPresent, NoStartableWork, SelectCandidate, ResolveTask,
         ResolutionFails, NoActiveRun, AlreadyQueued, CreateRun, GatesRefuse,
         GatesPass, FreshCheckPasses, FreshCheckBlocks, ParkRun,
         RecordClaimAttempt, StartSucceeds, StartFails, RecordClaimed,
         DispatchSucceeds, DispatchFails, RecordDispatched, OperatorEscalates,
         EscalateSuspend, EscalateAssign, RecordEscalation, AbandonCycle

\* A cycle remembers that Glow failed until it ends.
LEMMA ErrorSticks ==
    ASSUME loc \in [Worker -> Local], pc \in [Worker -> Label],
           NEW w \in Worker, WorkerStep(w), pc[w] # "idle", pc'[w] # "idle",
           loc[w].error
    PROVE  loc'[w].error
  <1>1. CASE ListBoardChannel(w)
    <2>1. PICK rows : loc' = [loc EXCEPT ![w].tasks = rows, ![w].glow = {}]
      BY <1>1 DEF ListBoardChannel
    <2> QED BY <2>1 DEF Local
  <1>2. CASE SelectCandidate(w)
    <2>1. PICK x : loc' = [loc EXCEPT ![w].sel = x, ![w].tasks = {}]
      BY <1>2 DEF SelectCandidate
    <2> QED BY <2>1 DEF Local
  <1>3. CASE ~ ListBoardChannel(w) /\ ~ SelectCandidate(w)
    BY <1>3 DEF WorkerStep, Scout, Goto, Return, Local,
         BeginCycle, McpNotReady, CreateStallRun, EdiMissing, ListStaffTasks,
         ListGlobalPlaying, GlowFails, PollFailed,
         PlayingTaskPresent, NoStartableWork, ResolveTask,
         ResolutionFails, NoActiveRun, AlreadyQueued, CreateRun, GatesRefuse,
         GatesPass, FreshCheckPasses, FreshCheckBlocks, ParkRun,
         RecordClaimAttempt, StartSucceeds, StartFails, RecordClaimed,
         DispatchSucceeds, DispatchFails, RecordDispatched, OperatorEscalates,
         EscalateSuspend, EscalateAssign, RecordEscalation, AbandonCycle
  <1> QED BY <1>1, <1>2, <1>3

LEMMA OutsideFrame ==
    ASSUME OutsideStep PROVE UNCHANGED <<pc, loc>>
  BY DEF OutsideStep, HumanPlays, HumanStops, HumanTakesOver, PrerequisitesMet,
         ArchonEnds

\* Whoever moves: a worker stays where it is, goes to rest, or takes a step of
\* its own along Flow.
LEMMA FlowHolds ==
    ASSUME TypeOK, HNext, NEW v \in Worker
    PROVE  \/ pc'[v] = pc[v] /\ loc'[v] = loc[v]
           \/ pc'[v] = "idle"
           \/ WorkerStep(v) /\ <<pc[v], pc'[v]>> \in Flow
  <1>1. CASE OutsideStep
    BY <1>1, OutsideFrame
  <1>2. ASSUME NEW w \in Worker, WorkerStep(w)
        PROVE  \/ pc'[v] = pc[v] /\ loc'[v] = loc[v]
               \/ pc'[v] = "idle"
               \/ WorkerStep(v) /\ <<pc[v], pc'[v]>> \in Flow
    BY <1>2, Frame DEF TypeOK
  <1> QED BY <1>1, <1>2, StepsOfNext DEF HNext

-----------------------------------------------------------------------------
(* The second guard                                                        *)

\* A staff listing without a WRK row shows that none of its tasks is playing.
LEMMA ListingShowsPlaying ==
    ASSUME find_playing(StaffRows) = {} PROVE Playing \cap StaffListed = {}
  <1> SUFFICES ASSUME NEW t \in Playing \cap StaffListed PROVE FALSE
    OBVIOUS
  <1>1. RowOf(t, "staff") \in StaffRows
    BY DEF StaffRows, Listed, Playing
  <1>2. RowOf(t, "staff").status = "WRK"
    BY DEF RowOf, Playing
  <1> QED BY <1>1, <1>2 DEF find_playing

LEMMA SecondStep ==
    ASSUME TypeOK, SecondGuardHolds, [HNext]_allvars PROVE SecondGuardHolds'
  <1>1. CASE UNCHANGED allvars
    BY <1>1 DEF SecondGuardHolds, AboutToStart, allvars, vars, hvars
  <1>2. CASE HNext
    <2> SUFFICES ASSUME NEW v \in Worker, pc'[v] \in {"claim", "start"}
                 PROVE  sinceRun'[v] \cap StaffListed = {}
      BY DEF SecondGuardHolds, AboutToStart
    <2>1. sinceRun'[v] \subseteq sinceRun[v] /\ sinceRun'[v] \subseteq Playing'
      BY <1>2 DEF HNext, Observe
    <2>2. CASE pc[v] \in {"claim", "start"}
      BY <2>1, <2>2 DEF SecondGuardHolds, AboutToStart
    <2>3. CASE WorkerStep(v) /\ pc[v] = "fresh" /\ pc'[v] = "claim"
      <3>1. FreshCheckPasses(v)
        BY <2>3, Origin DEF TypeOK
      <3> QED BY <2>1, <3>1, ListingShowsPlaying
              DEF FreshCheckPasses, Playing, pave
    <2> QED BY <1>2, <2>2, <2>3, FlowHolds DEF Flow
  <1> QED BY <1>1, <1>2

\* The second playing guard holds for any number of scouts, people and crashes
\* (worker.py:1398-1422): a claim is never made over a task that the staff
\* listing has shown as playing ever since the run row was created.
THEOREM SecondGuard == HSpec => []SecondGuardHolds
  <1>1. HInit => SecondGuardHolds
    BY DEF HInit, Init, SecondGuardHolds, AboutToStart
  <1>2. TypeOK /\ SecondGuardHolds /\ [HNext]_allvars => SecondGuardHolds'
    BY SecondStep
  <1> QED BY <1>1, <1>2, TypesHold, PTL DEF HSpec

-----------------------------------------------------------------------------
(* The first guard                                                         *)

Seen(rows) == {x.task : x \in find_playing(rows)}

\* What a cycle whose Glow queries were answered still knows of the tasks that
\* have been playing since it began: after the global query they are in its
\* answer, after the merge in the listing, and once a candidate is selected
\* there is none.
FirstInv ==
    \A w \in Worker : ~ loc[w].error =>
        /\ pc[w] = "board" => sinceCycle[w] \subseteq Seen(loc[w].glow)
        /\ pc[w] = "polled" => sinceCycle[w] \subseteq Seen(loc[w].tasks)
        /\ pc[w] \in {"resolve", "lookup", "create", "gates", "fresh", "claim",
                      "start"} => sinceCycle[w] = {}

LEMMA GlobalAnswerShowsPlaying == Playing \subseteq Seen(GlobalRows)
  <1> SUFFICES ASSUME NEW t \in Playing PROVE t \in Seen(GlobalRows)
    OBVIOUS
  <1>1. RowOf(t, "global") \in GlobalRows
    BY DEF GlobalRows
  <1>2. RowOf(t, "global").status = "WRK" /\ RowOf(t, "global").task = t
    BY DEF RowOf, Playing
  <1> QED BY <1>1, <1>2 DEF Seen, find_playing

LEMMA SeenIsMonotone ==
    ASSUME NEW rows, NEW more, rows \subseteq more
    PROVE  Seen(rows) \subseteq Seen(more)
  BY DEF Seen, find_playing

LEMMA FirstStep ==
    ASSUME Fallback, TypeOK, FirstInv, [HNext]_allvars
    PROVE  FirstInv'
  <1>1. CASE UNCHANGED allvars
    BY <1>1 DEF FirstInv, Seen, find_playing, allvars, vars, hvars
  <1>2. CASE HNext
    <2> SUFFICES ASSUME NEW v \in Worker
                 PROVE  (~ loc[v].error =>
                         /\ pc[v] = "board" =>
                               sinceCycle[v] \subseteq Seen(loc[v].glow)
                         /\ pc[v] = "polled" =>
                               sinceCycle[v] \subseteq Seen(loc[v].tasks)
                         /\ pc[v] \in {"resolve", "lookup", "create", "gates",
                                "fresh", "claim", "start"} => sinceCycle[v] = {})'
      BY DEF FirstInv
    <2>1. pc'[v] # "cycle" => /\ sinceCycle'[v] \subseteq sinceCycle[v]
                              /\ sinceCycle'[v] \subseteq Playing'
      BY <1>2 DEF HNext, Observe
    <2>2. CASE pc'[v] = pc[v] /\ loc'[v] = loc[v]
      BY <2>1, <2>2 DEF FirstInv, Seen, find_playing
    <2>3. CASE pc'[v] = "idle"
      BY <2>3
    <2>4. CASE WorkerStep(v) /\ <<pc[v], pc'[v]>> \in Flow /\ loc'[v].error
      BY <2>4
    <2>5. CASE WorkerStep(v) /\ <<pc[v], pc'[v]>> \in Flow /\ ~ loc'[v].error
      <3>0. pc[v] # "idle" /\ pc'[v] # "idle" => ~ loc[v].error
        BY <2>5, ErrorSticks DEF TypeOK
      <3>1. CASE pc'[v] = "board"
        <4>1. ListGlobalPlaying(v)
          BY <2>5, <3>1, Origin DEF Flow, TypeOK
        <4>2. loc'[v].glow = GlobalRows /\ Playing' = Playing
          BY <4>1 DEF ListGlobalPlaying, pave, Playing, TypeOK, Local
        <4>3. sinceCycle'[v] \subseteq Seen(GlobalRows)
          BY <2>1, <3>1, <4>2, GlobalAnswerShowsPlaying
        <4> QED BY <3>1, <4>2, <4>3 DEF Seen, find_playing
      <3>2. CASE pc'[v] = "polled"
        <4>0. ~ GlowFails(v)
          BY <2>5 DEF GlowFails, TypeOK, Local
        <4>1. ListBoardChannel(v)
          BY <2>5, <3>2, <4>0, Origin DEF Flow, TypeOK
        <4>2. loc[v].glow \subseteq loc'[v].tasks
          BY <4>1 DEF ListBoardChannel, TypeOK, Local
        <4>3. sinceCycle[v] \subseteq Seen(loc[v].glow)
          BY <3>0, <3>2, <4>1 DEF ListBoardChannel, FirstInv
        <4> QED BY <2>1, <3>2, <4>2, <4>3, SeenIsMonotone
                DEF Seen, find_playing
      <3>3. CASE pc'[v] = "resolve"
        <4>1. SelectCandidate(v)
          BY <2>5, <3>3, Origin DEF Flow, TypeOK
        <4>2. sinceCycle[v] = {}
          BY <3>0, <3>3, <4>1 DEF SelectCandidate, FirstInv, Seen
        <4> QED BY <2>1, <3>3, <4>2
      <3>4. CASE pc'[v] \in {"lookup", "create", "gates", "fresh", "claim", "start"}
        <4>1. sinceCycle[v] = {}
          BY <2>5, <3>0, <3>4 DEF Flow, FirstInv
        <4> QED BY <2>1, <3>4, <4>1
      <3> QED BY <3>1, <3>2, <3>3, <3>4
    <2> QED BY <1>2, <2>2, <2>3, <2>4, <2>5, FlowHolds
  <1> QED BY <1>1, <1>2

\* With the Glow fallback on, the first playing guard holds for any number of
\* scouts, people, failures and crashes (worker.py:1008-1074): unless a Glow
\* query failed in this cycle, no claim is made while a task is playing that
\* was playing when the cycle was opened.
THEOREM FirstGuard ==
    ASSUME Fallback
    PROVE  HSpec => []FirstGuardHolds
  <1>1. HInit => FirstInv
    BY DEF HInit, Init, FirstInv
  <1>2. TypeOK /\ FirstInv /\ [HNext]_allvars => FirstInv'
    BY FirstStep
  <1>3. FirstInv => FirstGuardHolds
    BY DEF FirstInv, FirstGuardHolds, AboutToStart
  <1> QED BY <1>1, <1>2, <1>3, TypesHold, PTL DEF HSpec

\* Both playing guards hold with the Glow fallback on.
THEOREM Guards ==
    ASSUME Fallback
    PROVE  HSpec => []GuardsHold
  <1>1. FirstGuardHolds /\ SecondGuardHolds => GuardsHold
    BY DEF GuardsHold
  <1> QED BY <1>1, FirstGuard, SecondGuard, PTL

-----------------------------------------------------------------------------
(* The run rows as a ledger                                                *)

\* What a cycle knows of its own row, from creation to escalation.
Own(w) ==
    loc[w].rid # None =>
        /\ run[loc[w].rid] # NoRun
        /\ ~ run[loc[w].rid].noMutation /\ ~ run[loc[w].rid].dry
        /\ pc[w] \in {"gates", "park", "fresh", "claim"} =>
              ~ run[loc[w].rid].attempted
        /\ pc[w] \in {"gates", "park", "fresh", "claim", "start"} =>
              loc[w].rid \notin issued
        /\ pc[w] = "start" => run[loc[w].rid].attempted
        /\ pc[w] \in {"claimed", "dispatch", "dispatched"} =>
              loc[w].rid \in started

\* No two cycles work on one row.
Apart ==
    \A w, v \in Worker : w # v /\ loc[w].rid # None => loc[w].rid # loc[v].rid

RowTruth(r) ==
    /\ r \in issued => run[r].attempted /\ ~ run[r].noMutation /\ ~ run[r].dry
    /\ run[r].status = "claimed" \/ r \in executing => r \in started

LedgerInv ==
    /\ issued \subseteq RunId
    /\ started \subseteq issued
    /\ \A w \in Worker : Own(w)
    /\ Apart
    /\ \A r \in RunId : RowTruth(r)

\* The actions that write a row, call PAVE's start or launch a workflow ...
Writes(w) ==
    \/ CreateStallRun(w) \/ AlreadyQueued(w) \/ CreateRun(w) \/ ParkRun(w)
    \/ RecordClaimAttempt(w) \/ StartSucceeds(w) \/ StartFails(w)
    \/ RecordClaimed(w) \/ DispatchSucceeds(w) \/ DispatchFails(w)
    \/ RecordDispatched(w) \/ RecordEscalation(w)

\* ... and all the others.
Quiet(w) ==
    /\ UNCHANGED <<run, executing>>
    /\ loc'[w].rid \in {None, loc[w].rid}
    /\ pc[w] \in {"start", "dispatch", "claimed", "dispatched"} => pc'[w] = "idle"
    /\ pc'[w] \in {"park", "fresh", "claim"} => pc[w] \in {"gates", "fresh"}
    /\ pc'[w] \notin {"gates", "start", "claimed", "dispatch", "dispatched"}

LEMMA WritesOrQuiet ==
    ASSUME TypeOK, NEW w \in Worker, WorkerStep(w)
    PROVE  Writes(w) \/ Quiet(w)
  <1>1. CASE BeginCycle(w) \/ OperatorEscalates(w)
    BY <1>1 DEF BeginCycle, OperatorEscalates, Goto, Quiet, TypeOK, AtRest, portal
  <1>2. CASE \/ ListStaffTasks(w) \/ ListGlobalPlaying(w) \/ GlowFails(w)
    BY <1>2 DEF ListStaffTasks, ListGlobalPlaying, GlowFails,
                Goto, Quiet, TypeOK, Local, portal
  <1>3. CASE ListBoardChannel(w)
    <2>1. PICK rows : loc' = [loc EXCEPT ![w].tasks = rows, ![w].glow = {}]
      BY <1>3 DEF ListBoardChannel
    <2>2. loc'[w].rid = loc[w].rid
      BY <2>1 DEF TypeOK, Local
    <2>3. pc[w] = "board" /\ Goto(w, "polled") /\ UNCHANGED <<portal, executing>>
      BY <1>3 DEF ListBoardChannel
    <2> QED BY <2>2, <2>3 DEF Goto, Quiet, TypeOK, portal
  <1>4. CASE SelectCandidate(w)
    <2>1. PICK x : loc' = [loc EXCEPT ![w].sel = x, ![w].tasks = {}]
      BY <1>4 DEF SelectCandidate
    <2>2. loc'[w].rid = loc[w].rid
      BY <2>1 DEF TypeOK, Local
    <2> QED BY <1>4, <2>2 DEF SelectCandidate, Goto, Quiet, TypeOK, portal
  <1>5. CASE ResolveTask(w)
    BY <1>5 DEF ResolveTask, Goto, Quiet, TypeOK, Local, portal
  <1>6. CASE EscalateSuspend(w) \/ EscalateAssign(w)
    BY <1>6 DEF EscalateSuspend, EscalateAssign, Goto, Quiet, TypeOK, Local, portal
  <1>7. CASE \/ McpNotReady(w) \/ NoActiveRun(w) \/ GatesRefuse(w)
             \/ GatesPass(w) \/ FreshCheckPasses(w) \/ FreshCheckBlocks(w)
    BY <1>7 DEF McpNotReady, NoActiveRun, GatesRefuse, GatesPass,
                FreshCheckPasses, FreshCheckBlocks, Goto, Quiet, TypeOK, portal
  <1>8. CASE \/ EdiMissing(w) \/ PollFailed(w) \/ PlayingTaskPresent(w)
             \/ NoStartableWork(w) \/ ResolutionFails(w) \/ AbandonCycle(w)
    BY <1>8 DEF EdiMissing, PollFailed, PlayingTaskPresent, NoStartableWork,
                ResolutionFails, AbandonCycle, Return, Quiet, TypeOK, AtRest, portal
  <1> QED BY <1>1, <1>2, <1>3, <1>4, <1>5, <1>6, <1>7, <1>8
          DEF WorkerStep, Scout, Writes

\* Only the start call changes what has been issued.
LEMMA NoCall ==
    ASSUME TypeOK, Observe,
           \A v \in Worker : pc[v] = "start" => pc'[v] \in {"start", "idle"}
    PROVE  UNCHANGED <<issued, started>>
  BY DEF Observe, Calls, StartPlays

LEMMA OneCall ==
    ASSUME TypeOK, Observe, NEW w \in Worker, pc[w] = "start",
           pc'[w] \in {"claimed", "suspend"},
           \A v \in Worker \ {w} : pc'[v] = pc[v]
    PROVE  /\ issued' = issued \cup {loc[w].rid}
           /\ started \subseteq started' /\ started' \subseteq started \cup {loc[w].rid}
           /\ StartPlays(w) => loc[w].rid \in started'
  BY DEF Observe, Calls, StartPlays

SameFlags(r) ==
    /\ run'[r] # NoRun
    /\ run'[r].dry = run[r].dry
    /\ run'[r].noMutation = run[r].noMutation
    /\ run'[r].attempted = run[r].attempted

\* A step of w takes nothing from the other cycles.
LEMMA OthersKept ==
    ASSUME TypeOK, LedgerInv, NEW w \in Worker, NEW v \in Worker \ {w},
           pc'[v] = pc[v], loc'[v] = loc[v],
           loc[v].rid # None => SameFlags(loc[v].rid),
           issued' \subseteq issued \cup {loc[w].rid}, started \subseteq started'
    PROVE  Own(v)'
  BY DEF LedgerInv, Own, Apart, SameFlags

\* A row whose status alone is overwritten keeps its flags.
LEMMA StatusOnly ==
    ASSUME TypeOK, NEW r \in RunId, run[r] # NoRun, NEW s \in RunStatus,
           Patch(r, [run[r] EXCEPT !.status = s])
    PROVE  /\ \A q \in RunId \ {r} : run'[q] = run[q]
           /\ SameFlags(r)
           /\ run'[r].status = s
  BY DEF TypeOK, Patch, SameFlags, Run, NoRun, RunStatus

LEMMA QuietStep ==
    ASSUME TypeOK, LedgerInv, Observe, NEW w \in Worker, WorkerStep(w), Quiet(w)
    PROVE  LedgerInv'
  <1>1. /\ \A v \in Worker \ {w} : pc'[v] = pc[v] /\ loc'[v] = loc[v]
        /\ pc'[w] # pc[w]
        /\ pc'[w] = "idle" \/ <<pc[w], pc'[w]>> \in Flow
    BY Frame DEF TypeOK
  <1>2. UNCHANGED <<issued, started>>
    BY <1>1, NoCall DEF Quiet
  <1>3. ASSUME NEW v \in Worker \ {w} PROVE Own(v)'
    BY <1>1, <1>2 DEF LedgerInv, Own, Quiet
  <1>4. Own(w)'
    BY <1>1, <1>2 DEF LedgerInv, Own, Quiet
  <1>5. Apart'
    BY <1>1 DEF LedgerInv, Apart, Quiet
  <1>6. \A r \in RunId : RowTruth(r)'
    BY <1>2 DEF LedgerInv, RowTruth, Quiet
  <1> QED BY <1>2, <1>3, <1>4, <1>5, <1>6 DEF LedgerInv

\* A step of w that writes rows but calls nothing: what is left to show is that
\* the rows of the others keep their flags, and what w and each row say now.
LEMMA WriteStep ==
    ASSUME TypeOK, LedgerInv, Observe, NEW w \in Worker, WorkerStep(w),
           pc[w] # "start",
           \A v \in Worker \ {w} : loc[v].rid # None => SameFlags(loc[v].rid),
           \A v \in Worker \ {w} : loc'[w].rid # None => loc'[w].rid # loc[v].rid,
           Own(w)', \A r \in RunId : RowTruth(r)'
    PROVE  LedgerInv'
  <1>1. \A v \in Worker \ {w} : pc'[v] = pc[v] /\ loc'[v] = loc[v]
    BY Frame DEF TypeOK
  <1>2. UNCHANGED <<issued, started>>
    BY <1>1, NoCall
  <1>3. ASSUME NEW v \in Worker \ {w} PROVE Own(v)'
    BY <1>1, <1>2, <1>3, OthersKept
  <1>4. Apart'
    BY <1>1 DEF LedgerInv, Apart
  <1> QED BY <1>2, <1>3, <1>4 DEF LedgerInv

\* A row that nobody has: no cycle holds it, no call was made for it.
LEMMA FreeRow ==
    ASSUME TypeOK, LedgerInv, NEW r \in Free
    PROVE  /\ r \in RunId /\ run[r] = NoRun
           /\ \A v \in Worker : loc[v].rid # r
           /\ r \notin issued
  <1>1. r \in RunId /\ run[r] = NoRun
    BY DEF Free
  <1>2. r # None
    BY <1>1, ScoutAssumption DEF ScoutAssumption
  <1>3. ~ NoRun.attempted
    BY DEF NoRun
  <1> QED BY <1>1, <1>2, <1>3 DEF LedgerInv, Own, RowTruth

\* A new row, kept by its cycle only when the cycle goes on to the gates.
LEMMA NewRowStep ==
    ASSUME TypeOK, LedgerInv, Observe, NEW w \in Worker, WorkerStep(w),
           pc[w] # "start", executing' = executing,
           NEW r \in Free, NEW row \in Run, row.status # "claimed", Patch(r, row),
           \/ loc'[w].rid = None
           \/ /\ loc'[w].rid = r /\ pc'[w] = "gates"
              /\ ~ row.noMutation /\ ~ row.dry /\ ~ row.attempted
    PROVE  LedgerInv'
  <1>1. /\ r \in RunId /\ run[r] = NoRun
        /\ \A v \in Worker : loc[v].rid # r
        /\ r \notin issued
    BY FreeRow
  <1>2. run' = [run EXCEPT ![r] = row]
    BY DEF Patch
  <1>3. row # NoRun
    BY DEF Run, NoRun, RunStatus
  <1>4. UNCHANGED <<issued, started>>
    BY NoCall, Frame DEF TypeOK
  <1>5. ASSUME NEW v \in Worker \ {w}, loc[v].rid # None PROVE SameFlags(loc[v].rid)
    <2>1. loc[v].rid \in RunId
      BY <1>5 DEF TypeOK, Local
    <2> QED BY <1>1, <1>2, <1>5, <2>1 DEF LedgerInv, Own, SameFlags, TypeOK
  <1>6. Own(w)'
    BY <1>1, <1>2, <1>3, <1>4 DEF Own, TypeOK
  <1>7. ASSUME NEW q \in RunId PROVE RowTruth(q)'
    BY <1>1, <1>2, <1>4 DEF LedgerInv, RowTruth, TypeOK
  <1> QED BY <1>1, <1>5, <1>6, <1>7, WriteStep

\* A write to the cycle's own row.
LEMMA OwnRowStep ==
    ASSUME TypeOK, LedgerInv, Observe, NEW w \in Worker, WorkerStep(w),
           pc[w] # "start", executing' = executing,
           NEW r \in RunId, r = loc[w].rid, NEW row \in Run, Patch(r, row),
           loc'[w].rid \in {None, r}, Own(w)', RowTruth(r)'
    PROVE  LedgerInv'
  <1>1. run' = [run EXCEPT ![r] = row] /\ r # None
    BY ScoutAssumption DEF Patch, ScoutAssumption
  <1>2. UNCHANGED <<issued, started>>
    BY NoCall, Frame DEF TypeOK
  <1>3. ASSUME NEW v \in Worker \ {w}, loc[v].rid # None PROVE SameFlags(loc[v].rid)
    <2>1. loc[v].rid \in RunId /\ loc[v].rid # r
      BY <1>1, <1>3 DEF TypeOK, Local, LedgerInv, Apart
    <2> QED BY <1>1, <1>3, <2>1 DEF LedgerInv, Own, SameFlags, TypeOK
  <1>4. ASSUME NEW q \in RunId PROVE RowTruth(q)'
    <2>1. CASE q = r
      BY <2>1
    <2>2. CASE q # r
      BY <1>1, <1>2, <2>2 DEF LedgerInv, RowTruth, TypeOK
    <2> QED BY <2>1, <2>2
  <1>5. \A v \in Worker \ {w} : loc'[w].rid # None => loc'[w].rid # loc[v].rid
    BY DEF LedgerInv, Apart
  <1> QED BY <1>3, <1>4, <1>5, WriteStep

-----------------------------------------------------------------------------
(* Each action that writes                                                 *)

\* The three ways a row is patched, field by field.
LEMMA RowFields ==
    ASSUME NEW old \in Run, NEW s \in RunStatus
    PROVE  /\ [old EXCEPT !.status = s] \in Run
           /\ [old EXCEPT !.status = s].status = s
           /\ [old EXCEPT !.status = s].dry = old.dry
           /\ [old EXCEPT !.status = s].noMutation = old.noMutation
           /\ [old EXCEPT !.status = s].attempted = old.attempted
           /\ [old EXCEPT !.status = s, !.noMutation = TRUE] \in Run
           /\ [old EXCEPT !.status = s, !.noMutation = TRUE].status = s
           /\ [old EXCEPT !.status = s, !.attempted = TRUE] \in Run
           /\ [old EXCEPT !.status = s, !.attempted = TRUE].status = s
           /\ [old EXCEPT !.status = s, !.attempted = TRUE].dry = old.dry
           /\ [old EXCEPT !.status = s, !.attempted = TRUE].noMutation
                 = old.noMutation
           /\ [old EXCEPT !.status = s, !.attempted = TRUE].attempted
  BY DEF Run

\* The row of a cycle that has one.
LEMMA OwnRow ==
    ASSUME TypeOK, LedgerInv, NEW w \in Worker, loc[w].rid # None
    PROVE  loc[w].rid \in RunId /\ run[loc[w].rid] \in Run
  BY DEF TypeOK, Local, LedgerInv, Own

LEMMA StallRunStep ==
    ASSUME TypeOK, LedgerInv, Observe, NEW w \in Worker, CreateStallRun(w)
    PROVE  LedgerInv'
  <1> DEFINE row == [NoRun EXCEPT !.status = "stalled", !.noMutation = TRUE]
  <1>1. PICK r \in Free : Patch(r, row)
    BY DEF CreateStallRun
  <1>2. row \in Run /\ row.status # "claimed"
    BY DEF NoRun, Run, RunStatus
  <1>3. loc'[w].rid = None
    BY DEF CreateStallRun, Return, AtRest, TypeOK
  <1>4. pc[w] # "start" /\ executing' = executing /\ WorkerStep(w)
    BY DEF CreateStallRun, WorkerStep, Scout
  <1> HIDE DEF row
  <1> QED BY <1>1, <1>2, <1>3, <1>4, NewRowStep

LEMMA CreateStep ==
    ASSUME TypeOK, LedgerInv, Observe, NEW w \in Worker, CreateRun(w)
    PROVE  LedgerInv'
  <1> DEFINE row == [NoRun EXCEPT !.task = loc[w].task, !.dry = loc[w].dry,
                        !.status = IF loc[w].dry THEN "dry_run" ELSE "queued"]
  <1>1. PICK r \in Free :
           /\ Patch(r, row)
           /\ IF loc[w].dry THEN Return(w)
              ELSE loc' = [loc EXCEPT ![w].rid = r] /\ Goto(w, "gates")
    BY DEF CreateRun
  <1>2. /\ row \in Run /\ row.status # "claimed"
        /\ ~ row.noMutation /\ ~ row.attempted /\ (row.dry <=> loc[w].dry)
    <2>1. loc[w].task \in Task \cup {None} /\ loc[w].dry \in BOOLEAN
      BY DEF TypeOK, Local
    <2> QED BY <2>1 DEF NoRun, Run, RunStatus
  <1>3. \/ loc'[w].rid = None
        \/ loc'[w].rid = r /\ pc'[w] = "gates" /\ ~ loc[w].dry
    BY <1>1 DEF Return, Goto, AtRest, TypeOK, Local
  <1>4. pc[w] # "start" /\ executing' = executing /\ WorkerStep(w)
    BY DEF CreateRun, WorkerStep, Scout
  <1> HIDE DEF row
  <1> QED BY <1>1, <1>2, <1>3, <1>4, NewRowStep

LEMMA ParkStep ==
    ASSUME TypeOK, LedgerInv, Observe, NEW w \in Worker, ParkRun(w)
    PROVE  LedgerInv'
  <1>1. PICK r \in RunId : r = loc[w].rid /\ run[r] \in Run
    BY OwnRow DEF ParkRun, TypeOK, WithRun
  <1> DEFINE row == [run[r] EXCEPT !.status = "stalled", !.noMutation = TRUE]
  <1>2. Patch(r, row) /\ pc[w] = "park" /\ executing' = executing
    BY <1>1 DEF ParkRun
  <1>3. row \in Run /\ row.status = "stalled"
    BY <1>1, RowFields DEF RunStatus
  <1>4. loc'[w].rid = None /\ WorkerStep(w)
    BY DEF ParkRun, Return, AtRest, TypeOK, WorkerStep, Scout
  <1>5. UNCHANGED <<issued, started>>
    BY <1>2, <1>4, NoCall, Frame DEF TypeOK
  <1>6. r \notin issued /\ run'[r] = row
    BY <1>1, <1>2, ScoutAssumption
       DEF LedgerInv, Own, Patch, TypeOK, ScoutAssumption
  <1> HIDE DEF row
  <1>7. RowTruth(r)'
    BY <1>2, <1>3, <1>5, <1>6 DEF LedgerInv, RowTruth
  <1>8. Own(w)'
    BY <1>4 DEF Own
  <1> QED BY <1>1, <1>2, <1>3, <1>4, <1>7, <1>8, OwnRowStep

LEMMA AttemptStep ==
    ASSUME TypeOK, LedgerInv, Observe, NEW w \in Worker, RecordClaimAttempt(w)
    PROVE  LedgerInv'
  <1>1. PICK r \in RunId : r = loc[w].rid /\ run[r] \in Run
    BY OwnRow DEF RecordClaimAttempt, TypeOK, WithRun
  <1> DEFINE row == [run[r] EXCEPT !.status = "running", !.attempted = TRUE]
  <1>2. Patch(r, row) /\ pc[w] = "claim" /\ executing' = executing
    BY <1>1 DEF RecordClaimAttempt
  <1>3. /\ row \in Run /\ row.status = "running" /\ row.attempted
        /\ row.dry = run[r].dry /\ row.noMutation = run[r].noMutation
    BY <1>1, RowFields DEF RunStatus
  <1>4. loc' = loc /\ pc'[w] = "start" /\ WorkerStep(w)
    BY DEF RecordClaimAttempt, Goto, TypeOK, WorkerStep, Scout
  <1>5. UNCHANGED <<issued, started>>
    BY <1>2, <1>4, NoCall, Frame DEF TypeOK
  <1>6. /\ r # None /\ r \notin issued /\ ~ run[r].noMutation /\ ~ run[r].dry
        /\ run'[r] = row
    BY <1>1, <1>2, ScoutAssumption
       DEF LedgerInv, Own, Patch, TypeOK, ScoutAssumption
  <1> HIDE DEF row
  <1>7. RowTruth(r)'
    BY <1>2, <1>3, <1>5, <1>6 DEF LedgerInv, RowTruth
  <1>8. row # NoRun
    BY <1>3 DEF NoRun
  <1>9. Own(w)'
    BY <1>1, <1>3, <1>4, <1>5, <1>6, <1>8 DEF Own
  <1> QED BY <1>1, <1>2, <1>3, <1>4, <1>7, <1>9, OwnRowStep

\* RecordClaimed, RecordDispatched and an escalation's record: a new status.
LEMMA OwnStatusStep ==
    ASSUME TypeOK, LedgerInv, Observe, NEW w \in Worker, WorkerStep(w),
           pc[w] # "start", executing' = executing, loc[w].rid # None,
           NEW s \in RunStatus,
           Patch(loc[w].rid, [run[loc[w].rid] EXCEPT !.status = s]),
           s = "claimed" => pc[w] = "claimed",
           \/ loc'[w].rid = None
           \/ loc' = loc /\ pc[w] = "claimed" /\ pc'[w] = "dispatch"
    PROVE  LedgerInv'
  <1>1. PICK r \in RunId : r = loc[w].rid /\ run[r] \in Run
    BY OwnRow
  <1> DEFINE row == [run[r] EXCEPT !.status = s]
  <1>2. Patch(r, row)
    BY <1>1
  <1>3. /\ row \in Run /\ row.status = s /\ row.attempted = run[r].attempted
        /\ row.dry = run[r].dry /\ row.noMutation = run[r].noMutation
    BY <1>1, RowFields
  <1>4. UNCHANGED <<issued, started>>
    BY NoCall, Frame DEF TypeOK
  <1>5. run'[r] = row
    BY <1>1, <1>2 DEF Patch, TypeOK
  <1> HIDE DEF row
  <1>6. row # NoRun
    BY <1>3 DEF NoRun, RunStatus
  <1>7. RowTruth(r)'
    BY <1>1, <1>3, <1>4, <1>5 DEF LedgerInv, RowTruth, Own
  <1>8. Own(w)'
    BY <1>1, <1>3, <1>4, <1>5, <1>6 DEF LedgerInv, Own
  <1>9. loc'[w].rid \in {None, r}
    BY <1>1
  <1> QED BY <1>1, <1>2, <1>3, <1>7, <1>8, <1>9, OwnRowStep

LEMMA RecordStep ==
    ASSUME TypeOK, LedgerInv, Observe, NEW w \in Worker,
           RecordClaimed(w) \/ RecordDispatched(w)
    PROVE  LedgerInv'
  <1>1. loc[w].rid # None /\ WorkerStep(w) /\ executing' = executing
    BY DEF RecordClaimed, RecordDispatched, TypeOK, WithRun, WorkerStep, Scout
  <1>2. {"claimed", "running"} \subseteq RunStatus
    BY DEF RunStatus
  <1>3. CASE RecordClaimed(w)
    BY <1>1, <1>2, <1>3, OwnStatusStep DEF RecordClaimed, Goto, TypeOK
  <1>4. CASE RecordDispatched(w)
    BY <1>1, <1>2, <1>4, OwnStatusStep DEF RecordDispatched, Return, AtRest, TypeOK
  <1> QED BY <1>3, <1>4

LEMMA EscalationStep ==
    ASSUME TypeOK, LedgerInv, Observe, NEW w \in Worker, RecordEscalation(w)
    PROVE  LedgerInv'
  <1> DEFINE outcome == EscalationStatus(loc[w].done)
  <1>1. outcome \in RunStatus /\ outcome # "claimed"
    BY DEF EscalationStatus, RunStatus
  <1>2. /\ WorkerStep(w) /\ executing' = executing /\ pc[w] = "record"
        /\ loc'[w].rid = None
    BY DEF RecordEscalation, Return, AtRest, TypeOK, WorkerStep, Scout
  <1>3. CASE loc[w].rid # None
    <2>1. Patch(loc[w].rid, [run[loc[w].rid] EXCEPT !.status = outcome])
      BY <1>3 DEF RecordEscalation
    <2> HIDE DEF outcome
    <2> QED BY <1>1, <1>2, <1>3, <2>1, OwnStatusStep
  <1>4. CASE loc[w].rid = None
    <2> DEFINE row == [NoRun EXCEPT !.task = loc[w].task, !.status = outcome]
    <2>1. PICK r \in Free : Patch(r, row)
      BY <1>4 DEF RecordEscalation
    <2> HIDE DEF outcome
    <2>2. loc[w].task \in Task \cup {None}
      BY DEF TypeOK, Local
    <2>3. row \in Run /\ row.status # "claimed"
      BY <1>1, <2>2 DEF NoRun, Run
    <2> HIDE DEF row
    <2> QED BY <1>2, <2>1, <2>3, NewRowStep
  <1> QED BY <1>3, <1>4

LEMMA QueuedStep ==
    ASSUME TypeOK, LedgerInv, Observe, NEW w \in Worker, AlreadyQueued(w)
    PROVE  LedgerInv'
  <1> DEFINE r == ActiveRun(loc[w].task, loc[w].dry)
  <1>1. /\ WorkerStep(w) /\ executing' = executing /\ pc[w] = "lookup"
        /\ loc'[w].rid = None
    BY DEF AlreadyQueued, Return, AtRest, TypeOK, WorkerStep, Scout
  <1>2. UNCHANGED <<issued, started>>
    BY <1>1, NoCall, Frame DEF TypeOK
  <1>3. \/ run' = run
        \/ /\ r \in RunId /\ run[r] # NoRun
           /\ Patch(r, [run[r] EXCEPT !.status = "dry_run"])
    <2>1. CASE UNCHANGED <<run, age>>
      BY <2>1
    <2>2. CASE Patch(r, [run[r] EXCEPT !.status = "dry_run"]) /\ run[r].dry
      BY <2>2 DEF Patch, NoRun, TypeOK
    <2> QED BY <2>1, <2>2 DEF AlreadyQueued
  <1> HIDE DEF r
  <1>4. \A q \in RunId :
           \/ run'[q] = run[q]
           \/ run'[q].status = "dry_run" /\ SameFlags(q)
    <2>1. CASE run' = run
      BY <2>1
    <2>2. CASE /\ r \in RunId /\ run[r] # NoRun
               /\ Patch(r, [run[r] EXCEPT !.status = "dry_run"])
      BY <2>2, StatusOnly DEF RunStatus
    <2> QED BY <1>3, <2>1, <2>2
  <1>5. ASSUME NEW v \in Worker \ {w}, loc[v].rid # None PROVE SameFlags(loc[v].rid)
    BY <1>4, <1>5, OwnRow DEF SameFlags, LedgerInv, Own
  <1>6. ASSUME NEW q \in RunId PROVE RowTruth(q)'
    BY <1>1, <1>2, <1>4 DEF RowTruth, LedgerInv, SameFlags
  <1>7. Own(w)'
    BY <1>1 DEF Own
  <1> QED BY <1>1, <1>5, <1>6, <1>7, WriteStep

LEMMA StartStep ==
    ASSUME TypeOK, LedgerInv, Observe, NEW w \in Worker,
           StartSucceeds(w) \/ StartFails(w)
    PROVE  LedgerInv'
  <1>1. /\ WorkerStep(w) /\ UNCHANGED <<run, executing, loc>> /\ pc[w] = "start"
        /\ pc'[w] \in {"claimed", "suspend"}
    BY DEF StartSucceeds, StartFails, Goto, TypeOK, WorkerStep, Scout, portal
  <1>2. \A v \in Worker \ {w} : pc'[v] = pc[v]
    BY <1>1, Frame DEF TypeOK
  <1>3. PICK r \in RunId : r = loc[w].rid /\ run[r] \in Run
    BY <1>1, OwnRow DEF TypeOK, WithRun
  <1>4. /\ issued' = issued \cup {r}
        /\ started \subseteq started' /\ started' \subseteq started \cup {r}
        /\ StartPlays(w) => r \in started'
    BY <1>1, <1>2, <1>3, OneCall
  <1>5. pc'[w] = "claimed" => r \in started'
    <2>1. SUFFICES ASSUME StartSucceeds(w) PROVE StartPlays(w)
      BY <1>1, <1>4 DEF StartSucceeds, StartFails, Goto, TypeOK
    <2>2. loc[w].task \in Task
      BY <1>1 DEF TypeOK, Local, Resolved, WithRun
    <2>3. status'[loc[w].task] = "WRK"
      BY <2>1, <2>2 DEF StartSucceeds, ScoutStarts, StatusAfterStart
    <2>4. pc'[w] = "claimed"
      BY <2>1 DEF StartSucceeds, Goto, TypeOK
    <2> QED BY <1>1, <2>3, <2>4 DEF StartPlays, Calls
  <1>6. /\ r # None /\ run[r].attempted /\ ~ run[r].noMutation /\ ~ run[r].dry
        /\ run[r] # NoRun
    BY <1>1, <1>3, ScoutAssumption DEF LedgerInv, Own, ScoutAssumption
  <1>7. ASSUME NEW v \in Worker \ {w} PROVE Own(v)'
    <2>1. loc[v].rid # None => loc[v].rid # r
      BY <1>3 DEF LedgerInv, Apart
    <2> QED BY <1>1, <1>2, <1>4, <2>1 DEF LedgerInv, Own
  <1>8. Own(w)'
    BY <1>1, <1>3, <1>5, <1>6 DEF Own
  <1>9. ASSUME NEW q \in RunId PROVE RowTruth(q)'
    BY <1>1, <1>4, <1>6 DEF LedgerInv, RowTruth
  <1>10. Apart'
    BY <1>1 DEF LedgerInv, Apart
  <1> QED BY <1>4, <1>7, <1>8, <1>9, <1>10 DEF LedgerInv

LEMMA DispatchStep ==
    ASSUME TypeOK, LedgerInv, Observe, NEW w \in Worker,
           DispatchSucceeds(w) \/ DispatchFails(w)
    PROVE  LedgerInv'
  <1>1. /\ WorkerStep(w) /\ UNCHANGED <<run, loc>> /\ pc[w] = "dispatch"
        /\ pc'[w] \in {"dispatched", "suspend"}
        /\ executing' \subseteq executing \cup {loc[w].rid}
    BY DEF DispatchSucceeds, DispatchFails, Goto, TypeOK, WorkerStep, Scout, portal
  <1>2. PICK r \in RunId : r = loc[w].rid /\ r \in started
    BY <1>1, OwnRow, ScoutAssumption
       DEF TypeOK, WithRun, LedgerInv, Own, ScoutAssumption
  <1>3. UNCHANGED <<issued, started>> /\ \A v \in Worker \ {w} : pc'[v] = pc[v]
    BY <1>1, NoCall, Frame DEF TypeOK
  <1>4. ASSUME NEW v \in Worker PROVE Own(v)'
    BY <1>1, <1>2, <1>3 DEF LedgerInv, Own
  <1>5. ASSUME NEW q \in RunId PROVE RowTruth(q)'
    BY <1>1, <1>2, <1>3 DEF LedgerInv, RowTruth
  <1>6. Apart'
    BY <1>1 DEF LedgerInv, Apart
  <1> QED BY <1>3, <1>4, <1>5, <1>6 DEF LedgerInv

LEMMA OutsideLedgerStep ==
    ASSUME TypeOK, LedgerInv, Observe, OutsideStep
    PROVE  LedgerInv'
  <1>1. UNCHANGED <<pc, loc>>
    BY OutsideFrame
  <1>2. UNCHANGED <<issued, started>>
    BY <1>1, NoCall
  <1>3. CASE UNCHANGED <<run, executing>>
    BY <1>1, <1>2, <1>3 DEF LedgerInv, Own, Apart, RowTruth
  <1>4. ASSUME NEW r \in RunId, ArchonEnds(r) PROVE LedgerInv'
    <2>1. run[r] # NoRun
      BY <1>4 DEF ArchonEnds, LedgerInv, RowTruth, NoRun
    <2>2. PICK s \in {"completed", "suspended", "failed"} :
             Patch(r, [run[r] EXCEPT !.status = s])
      BY <1>4 DEF ArchonEnds
    <2>3. /\ \A q \in RunId \ {r} : run'[q] = run[q]
          /\ SameFlags(r) /\ run'[r].status = s
      BY <2>1, <2>2, StatusOnly DEF RunStatus
    <2>4. executing' \subseteq executing
      BY <1>4 DEF ArchonEnds
    <2>5. ASSUME NEW v \in Worker PROVE Own(v)'
      <3>1. loc[v].rid # None => SameFlags(loc[v].rid)
        BY <2>3, OwnRow DEF SameFlags, LedgerInv, Own
      <3> QED BY <1>1, <1>2, <3>1 DEF LedgerInv, Own, SameFlags
    <2>6. ASSUME NEW q \in RunId PROVE RowTruth(q)'
      BY <1>2, <2>3, <2>4 DEF LedgerInv, RowTruth, SameFlags
    <2>7. Apart'
      BY <1>1 DEF LedgerInv, Apart
    <2> QED BY <1>2, <2>5, <2>6, <2>7 DEF LedgerInv
  <1> QED
    BY <1>3, <1>4 DEF OutsideStep, HumanPlays, HumanStops, HumanTakesOver,
                      PrerequisitesMet, portal

-----------------------------------------------------------------------------
(* The ledger theorems                                                     *)

LEMMA LedgerInit == ASSUME HInit PROVE LedgerInv
  <1>1. \A w \in Worker : loc[w].rid = None
    BY DEF HInit, Init, AtRest
  <1>2. NoRun.status # "claimed"
    BY DEF NoRun
  <1>3. [NoRun EXCEPT !.task = LegacyRow, !.status = "queued",
                      !.dry = TRUE].status # "claimed"
    BY DEF NoRun
  <1>4. \A r \in RunId : run[r].status # "claimed"
    <2>1. CASE run = [r \in RunId |-> NoRun]
      BY <1>2, <2>1
    <2>2. ASSUME NEW q \in RunId,
                 run = [r \in RunId |->
                          IF r = q THEN [NoRun EXCEPT !.task = LegacyRow,
                                           !.status = "queued", !.dry = TRUE]
                          ELSE NoRun]
          PROVE \A r \in RunId : run[r].status # "claimed"
      BY <1>2, <1>3, <2>2
    <2> QED BY <2>1, <2>2 DEF HInit, Init
  <1> QED BY <1>1, <1>4
          DEF HInit, Init, LedgerInv, Own, Apart, RowTruth

LEMMA LedgerStep ==
    ASSUME TypeOK, LedgerInv, [HNext]_allvars PROVE LedgerInv'
  <1>1. CASE UNCHANGED allvars
    BY <1>1 DEF allvars, vars, hvars, LedgerInv, Own, Apart, RowTruth
  <1>2. CASE HNext
    <2>1. CASE OutsideStep
      BY <1>2, <2>1, OutsideLedgerStep DEF HNext
    <2>2. ASSUME NEW w \in Worker, WorkerStep(w) PROVE LedgerInv'
      BY <1>2, <2>2, WritesOrQuiet, QuietStep, StallRunStep, QueuedStep,
         CreateStep, ParkStep, AttemptStep, StartStep, RecordStep, DispatchStep,
         EscalationStep
         DEF HNext, Writes
    <2> QED BY <1>2, <2>1, <2>2, StepsOfNext DEF HNext
  <1> QED BY <1>1, <1>2

LEMMA LedgerHolds == HSpec => []LedgerInv
  <1>1. HInit => LedgerInv
    BY LedgerInit
  <1>2. TypeOK /\ LedgerInv /\ [HNext]_allvars => LedgerInv'
    BY LedgerStep
  <1> QED BY <1>1, <1>2, TypesHold, PTL DEF HSpec

\* A run row that says no_pave_mutation or dry_run never lies, for any number of
\* scouts, crashes, refused calls and workflows (worker.py:1188-1422).
THEOREM NoMutationTrue == HSpec => []NoMutationIsTrue
  <1>1. LedgerInv => NoMutationIsTrue
    BY DEF LedgerInv, RowTruth, NoMutationIsTrue
  <1> QED BY <1>1, LedgerHolds, PTL

\* Every PAVE start call was announced in its row first (worker.py:1424-1435).
THEOREM StartRecordedFirst == HSpec => []StartIsRecordedFirst
  <1>1. LedgerInv => StartIsRecordedFirst
    BY DEF LedgerInv, RowTruth, StartIsRecordedFirst
  <1> QED BY <1>1, LedgerHolds, PTL

\* No row reads "claimed", and no workflow runs for a row, unless that row's own
\* start call played the task (worker.py:1459-1538).
THEOREM ClaimedStarted == HSpec => []ClaimedWasStarted
  <1>1. LedgerInv => ClaimedWasStarted
    BY DEF LedgerInv, RowTruth, ClaimedWasStarted
  <1> QED BY <1>1, LedgerHolds, PTL

-----------------------------------------------------------------------------
(* The ledger                                                              *)
(*                                                                         *)
(* The scout implements ClaimLedger: each step is a step of the ledger on   *)
(* one row, or none.  LedgerInv says in which stage the row of a cycle is   *)
(* at each of its labels.                                                  *)

\* All rows but r stay in their stage.
Others(r) == \A q \in RunId \ {r} : StageOf(q)' = StageOf(q)

LEMMA OneMove ==
    ASSUME NEW r \in RunId, Others(r), NEW from, NEW to,
           StageOf(r) \in from, StageOf(r)' = to
    PROVE  Ledger!Step(r, from, to)
  <1>1. \A q \in RunId : [p \in RunId |-> StageOf(p)][q] = StageOf(q)
    OBVIOUS
  <1>2. [q \in RunId |-> StageOf(q)]'
           = [[q \in RunId |-> StageOf(q)] EXCEPT ![r] = to]
    BY DEF Others
  <1> QED BY <1>1, <1>2 DEF Ledger!Step

\* Nothing that a stage is made of has changed.
LEMMA NoMove ==
    ASSUME UNCHANGED <<issued, started>>,
           \A q \in RunId : run'[q] = run[q] \/ (run[q] # NoRun /\ SameFlags(q))
    PROVE  UNCHANGED <<[q \in RunId |-> StageOf(q)], started>>
  <1>1. \A q \in RunId : StageOf(q)' = StageOf(q)
    BY DEF StageOf, SameFlags
  <1> QED BY <1>1

\* One row is written, no call is made.
LEMMA Written ==
    ASSUME TypeOK, NEW r \in RunId, NEW row, Patch(r, row),
           UNCHANGED <<issued, started>>
    PROVE  Others(r) /\ run'[r] = row
  BY DEF TypeOK, Patch, Others, StageOf

\* The stage of the row of a cycle that is still to ask PAVE, or about to.
LEMMA StageOfOwn ==
    ASSUME TypeOK, LedgerInv, NEW w \in Worker,
           pc[w] \in {"gates", "park", "fresh", "claim", "start"}
    PROVE  /\ loc[w].rid \in RunId
           /\ pc[w] # "start" => StageOf(loc[w].rid) = "open"
           /\ pc[w] = "start" => StageOf(loc[w].rid) = "announced"
  <1>1. loc[w].rid \in RunId /\ loc[w].rid # None
    BY ScoutAssumption DEF TypeOK, WithRun, Local, ScoutAssumption
  <1> QED BY <1>1 DEF LedgerInv, Own, StageOf

LEMMA StageOfNew ==
    ASSUME TypeOK, LedgerInv, NEW r \in Free, NEW row \in Run, Patch(r, row),
           ~ row.attempted, UNCHANGED <<issued, started>>
    PROVE  [Ledger!Next]_<<[q \in RunId |-> StageOf(q)], started>>
  <1>1. r \in RunId /\ run[r] = NoRun /\ r \notin issued
    BY FreeRow
  <1>2. Others(r) /\ run'[r] = row
    BY <1>1, Written
  <1>3. row # NoRun
    BY DEF Run, NoRun, RunStatus
  <1>4. StageOf(r) = "free" /\ StageOf(r)' \in {"open", "closed"}
    BY <1>1, <1>2, <1>3 DEF StageOf
  <1>5. CASE StageOf(r)' = "open"
    BY <1>1, <1>2, <1>4, <1>5, OneMove DEF Ledger!Next, Ledger!Open
  <1>6. CASE StageOf(r)' = "closed"
    BY <1>1, <1>2, <1>4, <1>6, OneMove DEF Ledger!Next, Ledger!Close
  <1> QED BY <1>4, <1>5, <1>6

LedgerMoves == [Ledger!Next]_<<[q \in RunId |-> StageOf(q)], started>>

LEMMA StallRunMove ==
    ASSUME TypeOK, LedgerInv, Observe, NEW w \in Worker,
           UNCHANGED <<issued, started>>, CreateStallRun(w)
    PROVE  LedgerMoves
  <1> DEFINE row == [NoRun EXCEPT !.status = "stalled", !.noMutation = TRUE]
  <1>1. PICK r \in Free : Patch(r, row)
    BY DEF CreateStallRun
  <1>2. row \in Run /\ ~ row.attempted
    BY DEF NoRun, Run, RunStatus
  <1> HIDE DEF row
  <1> QED BY <1>1, <1>2, StageOfNew DEF LedgerMoves

LEMMA CreateMove ==
    ASSUME TypeOK, LedgerInv, Observe, NEW w \in Worker,
           UNCHANGED <<issued, started>>, CreateRun(w)
    PROVE  LedgerMoves
  <1> DEFINE row == [NoRun EXCEPT !.task = loc[w].task, !.dry = loc[w].dry,
                        !.status = IF loc[w].dry THEN "dry_run" ELSE "queued"]
  <1>1. PICK r \in Free : Patch(r, row)
    BY DEF CreateRun
  <1>2. row \in Run /\ ~ row.attempted
    <2>1. loc[w].task \in Task \cup {None} /\ loc[w].dry \in BOOLEAN
      BY DEF TypeOK, Local
    <2> QED BY <2>1 DEF NoRun, Run, RunStatus
  <1> HIDE DEF row
  <1> QED BY <1>1, <1>2, StageOfNew DEF LedgerMoves

LEMMA EscalationMove ==
    ASSUME TypeOK, LedgerInv, Observe, NEW w \in Worker,
           UNCHANGED <<issued, started>>, RecordEscalation(w)
    PROVE  LedgerMoves
  <1> DEFINE outcome == EscalationStatus(loc[w].done)
  <1>1. outcome \in RunStatus
    BY DEF EscalationStatus, RunStatus
  <1>2. CASE loc[w].rid # None
    <2>1. PICK r \in RunId : r = loc[w].rid /\ run[r] # NoRun
      BY <1>2, OwnRow DEF LedgerInv, Own
    <2>2. Patch(r, [run[r] EXCEPT !.status = outcome])
      BY <1>2, <2>1 DEF RecordEscalation
    <2> HIDE DEF outcome
    <2>3. SameFlags(r) /\ \A q \in RunId \ {r} : run'[q] = run[q]
      BY <1>1, <2>1, <2>2, StatusOnly
    <2> QED BY <2>1, <2>3, NoMove DEF LedgerMoves
  <1>3. CASE loc[w].rid = None
    <2> DEFINE row == [NoRun EXCEPT !.task = loc[w].task, !.status = outcome]
    <2>1. PICK r \in Free : Patch(r, row)
      BY <1>3 DEF RecordEscalation
    <2> HIDE DEF outcome
    <2>2. loc[w].task \in Task \cup {None}
      BY DEF TypeOK, Local
    <2>3. row \in Run /\ ~ row.attempted
      BY <1>1, <2>2 DEF NoRun, Run
    <2> HIDE DEF row
    <2> QED BY <2>1, <2>3, StageOfNew DEF LedgerMoves
  <1> QED BY <1>2, <1>3

LEMMA ParkMove ==
    ASSUME TypeOK, LedgerInv, Observe, NEW w \in Worker,
           UNCHANGED <<issued, started>>, ParkRun(w)
    PROVE  LedgerMoves
  <1>1. PICK r \in RunId : r = loc[w].rid /\ run[r] \in Run
    BY OwnRow DEF ParkRun, TypeOK, WithRun
  <1>2. StageOf(r) = "open"
    BY <1>1, StageOfOwn DEF ParkRun
  <1> DEFINE row == [run[r] EXCEPT !.status = "stalled", !.noMutation = TRUE]
  <1>3. row # NoRun /\ row.noMutation /\ row.attempted = run[r].attempted
    BY <1>1 DEF Run, NoRun
  <1>4. Patch(r, row)
    BY <1>1 DEF ParkRun
  <1> HIDE DEF row
  <1>5. Others(r) /\ run'[r] = row
    BY <1>4, Written
  <1>6. StageOf(r)' = "closed"
    BY <1>2, <1>3, <1>5 DEF StageOf
  <1> QED BY <1>2, <1>5, <1>6, OneMove DEF LedgerMoves, Ledger!Next, Ledger!Close

LEMMA AttemptMove ==
    ASSUME TypeOK, LedgerInv, Observe, NEW w \in Worker,
           UNCHANGED <<issued, started>>, RecordClaimAttempt(w)
    PROVE  LedgerMoves
  <1>1. PICK r \in RunId : r = loc[w].rid /\ run[r] \in Run
    BY OwnRow DEF RecordClaimAttempt, TypeOK, WithRun
  <1>2. StageOf(r) = "open"
    BY <1>1, StageOfOwn DEF RecordClaimAttempt
  <1> DEFINE row == [run[r] EXCEPT !.status = "running", !.attempted = TRUE]
  <1>3. row # NoRun /\ row.attempted
    BY <1>1 DEF Run, NoRun
  <1>4. Patch(r, row)
    BY <1>1 DEF RecordClaimAttempt
  <1> HIDE DEF row
  <1>5. Others(r) /\ run'[r] = row
    BY <1>4, Written
  <1>6. StageOf(r)' = "announced"
    BY <1>2, <1>3, <1>5 DEF StageOf
  <1> QED BY <1>2, <1>5, <1>6, OneMove DEF LedgerMoves, Ledger!Next, Ledger!Announce

\* RecordClaimed and RecordDispatched write the status alone.
LEMMA RecordMove ==
    ASSUME TypeOK, LedgerInv, Observe, NEW w \in Worker,
           UNCHANGED <<issued, started>>, RecordClaimed(w) \/ RecordDispatched(w)
    PROVE  LedgerMoves
  <1>1. PICK r \in RunId : r = loc[w].rid /\ run[r] # NoRun
    BY OwnRow DEF RecordClaimed, RecordDispatched, TypeOK, WithRun, LedgerInv, Own
  <1>2. PICK s \in {"claimed", "running"} : Patch(r, [run[r] EXCEPT !.status = s])
    BY <1>1 DEF RecordClaimed, RecordDispatched
  <1>3. SameFlags(r) /\ \A q \in RunId \ {r} : run'[q] = run[q]
    BY <1>1, <1>2, StatusOnly DEF RunStatus
  <1> QED BY <1>1, <1>3, NoMove DEF LedgerMoves

LEMMA QueuedMove ==
    ASSUME TypeOK, LedgerInv, Observe, NEW w \in Worker,
           UNCHANGED <<issued, started>>, AlreadyQueued(w)
    PROVE  LedgerMoves
  <1> DEFINE r == ActiveRun(loc[w].task, loc[w].dry)
  <1>1. CASE UNCHANGED <<run, age>>
    BY <1>1, NoMove DEF LedgerMoves
  <1>2. CASE Patch(r, [run[r] EXCEPT !.status = "dry_run"]) /\ run[r].dry
    <2>1. CASE r \in RunId
      <3>1. run[r] # NoRun
        BY <1>2 DEF NoRun
      <3> HIDE DEF r
      <3>2. SameFlags(r) /\ \A q \in RunId \ {r} : run'[q] = run[q]
        BY <1>2, <2>1, <3>1, StatusOnly DEF RunStatus
      <3> QED BY <3>1, <3>2, NoMove DEF LedgerMoves
    <2>2. CASE r \notin RunId
      <3> HIDE DEF r
      <3>1. run' = run
        BY <1>2, <2>2 DEF Patch, TypeOK
      <3> QED BY <3>1, NoMove DEF LedgerMoves
    <2> QED BY <2>1, <2>2
  <1> QED BY <1>1, <1>2 DEF AlreadyQueued

LEMMA StartMove ==
    ASSUME TypeOK, LedgerInv, Observe, NEW w \in Worker,
           StartSucceeds(w) \/ StartFails(w)
    PROVE  LedgerMoves
  <1>1. /\ WorkerStep(w) /\ UNCHANGED run /\ pc[w] = "start"
        /\ pc'[w] \in {"claimed", "suspend"}
    BY DEF StartSucceeds, StartFails, Goto, TypeOK, WorkerStep, Scout, portal
  <1>2. \A v \in Worker \ {w} : pc'[v] = pc[v]
    BY <1>1, Frame DEF TypeOK
  <1>3. PICK r \in RunId : r = loc[w].rid /\ StageOf(r) = "announced"
    BY <1>1, StageOfOwn
  <1>4. /\ issued' = issued \cup {r}
        /\ started \subseteq started' /\ started' \subseteq started \cup {r}
    BY <1>1, <1>2, <1>3, OneCall
  <1>5. Others(r)
    BY <1>1, <1>4 DEF Others, StageOf
  <1>6. StageOf(r)' = "issued"
    BY <1>1, <1>3, <1>4 DEF StageOf
  <1>7. started' \in {started, started \cup {r}}
    BY <1>4
  <1>8. Ledger!Step(r, {"announced"}, "issued")
    BY <1>3, <1>5, <1>6, OneMove
  <1> QED BY <1>7, <1>8 DEF LedgerMoves, Ledger!Next, Ledger!Issue

LEMMA OutsideMove ==
    ASSUME TypeOK, LedgerInv, Observe, OutsideStep
    PROVE  LedgerMoves
  <1>1. UNCHANGED <<issued, started>>
    BY OutsideFrame, NoCall
  <1>2. CASE run' = run
    BY <1>1, <1>2, NoMove DEF LedgerMoves
  <1>3. ASSUME NEW r \in RunId, ArchonEnds(r) PROVE LedgerMoves
    <2>1. run[r] # NoRun
      BY <1>3 DEF ArchonEnds, LedgerInv, RowTruth, NoRun
    <2>2. PICK s \in {"completed", "suspended", "failed"} :
             Patch(r, [run[r] EXCEPT !.status = s])
      BY <1>3 DEF ArchonEnds
    <2>3. SameFlags(r) /\ \A q \in RunId \ {r} : run'[q] = run[q]
      BY <2>1, <2>2, StatusOnly DEF RunStatus
    <2> QED BY <1>1, <2>1, <2>3, NoMove DEF LedgerMoves
  <1> QED
    BY <1>2, <1>3 DEF OutsideStep, HumanPlays, HumanStops, HumanTakesOver,
                      PrerequisitesMet, portal

-----------------------------------------------------------------------------

LEMMA LedgerNext ==
    ASSUME TypeOK, LedgerInv, [HNext]_allvars PROVE LedgerMoves
  <1>1. CASE UNCHANGED allvars
    BY <1>1, NoMove DEF allvars, vars, hvars, LedgerMoves
  <1>2. CASE HNext
    <2>1. CASE OutsideStep
      BY <1>2, <2>1, OutsideMove DEF HNext
    <2>2. ASSUME NEW w \in Worker, WorkerStep(w) PROVE LedgerMoves
      <3>1. CASE StartSucceeds(w) \/ StartFails(w)
        BY <1>2, <3>1, StartMove DEF HNext
      <3>2. CASE Quiet(w)
        <4>1. UNCHANGED <<issued, started>>
          BY <1>2, <2>2, <3>2, NoCall, Frame DEF HNext, Quiet, TypeOK
        <4> QED BY <3>2, <4>1, NoMove DEF Quiet, LedgerMoves
      <3>3. CASE DispatchSucceeds(w) \/ DispatchFails(w)
        <4>1. pc[w] = "dispatch" /\ run' = run
          BY <3>3 DEF DispatchSucceeds, DispatchFails, portal
        <4>2. UNCHANGED <<issued, started>>
          BY <1>2, <2>2, <4>1, NoCall, Frame DEF HNext, TypeOK
        <4> QED BY <4>1, <4>2, NoMove DEF LedgerMoves
      <3>4. CASE \/ CreateStallRun(w) \/ AlreadyQueued(w) \/ CreateRun(w)
                 \/ ParkRun(w) \/ RecordClaimAttempt(w) \/ RecordClaimed(w)
                 \/ RecordDispatched(w) \/ RecordEscalation(w)
        <4>1. pc[w] # "start"
          BY <3>4 DEF CreateStallRun, AlreadyQueued, CreateRun, ParkRun,
             RecordClaimAttempt, RecordClaimed, RecordDispatched, RecordEscalation
        <4>2. UNCHANGED <<issued, started>>
          BY <1>2, <2>2, <4>1, NoCall, Frame DEF HNext, TypeOK
        <4> QED BY <1>2, <3>4, <4>2, StallRunMove, QueuedMove, CreateMove,
                   ParkMove, AttemptMove, RecordMove, EscalationMove DEF HNext
      <3> QED BY <2>2, <3>1, <3>2, <3>3, <3>4, WritesOrQuiet DEF Writes
    <2> QED BY <1>2, <2>1, <2>2, StepsOfNext DEF HNext
  <1> QED BY <1>1, <1>2

LEMMA LedgerStart == ASSUME HInit PROVE Ledger!Init
  <1>1. \A r \in RunId : run[r] = NoRun \/ (run[r].dry /\ ~ run[r].attempted)
    <2>1. LET row == [NoRun EXCEPT !.task = LegacyRow, !.status = "queued",
                                   !.dry = TRUE]
          IN  row.dry /\ ~ row.attempted
      BY DEF NoRun
    <2>2. CASE run = [r \in RunId |-> NoRun]
      BY <2>2
    <2>3. ASSUME NEW q \in RunId,
                 run = [r \in RunId |->
                          IF r = q THEN [NoRun EXCEPT !.task = LegacyRow,
                                           !.status = "queued", !.dry = TRUE]
                          ELSE NoRun]
          PROVE \A r \in RunId : run[r] = NoRun \/ (run[r].dry /\ ~ run[r].attempted)
      BY <2>1, <2>3
    <2> QED BY <2>2, <2>3 DEF HInit, Init
  <1>2. \A r \in RunId : StageOf(r) \in {"free", "closed"}
    BY <1>1 DEF StageOf, HInit
  <1> QED BY <1>2 DEF Ledger!Init, HInit

\* The run rows are a ledger of PAVE start calls for any number of workers,
\* tasks, rows and crashes: announced, then made, at most once, and never for a
\* row that denies them (worker.py:1188-1422 and 763-835).
THEOREM LedgerImplemented == HSpec => ImplementsLedger
  <1>1. HInit => Ledger!Init
    BY LedgerStart
  <1>2. TypeOK /\ LedgerInv /\ [HNext]_allvars =>
           [Ledger!Next]_<<[r \in RunId |-> StageOf(r)], started>>
    BY LedgerNext DEF LedgerMoves
  <1>3. HSpec => Ledger!Init /\ [][Ledger!Next]_<<[r \in RunId |-> StageOf(r)], started>>
    BY <1>1, <1>2, TypesHold, LedgerHolds, PTL DEF HSpec
  <1> QED BY <1>3, PTL DEF ImplementsLedger, Ledger!Spec

-----------------------------------------------------------------------------
(* The scout that is alone never plays over its own work                    *)

\* From the opening of a cycle to its start call.
Looking == {"cycle", "global", "board", "polled", "resolve", "lookup", "create",
            "gates", "fresh", "claim", "start"}

\* Until a person acts, what is playing has been playing since the cycle of a
\* scout that is still looking was opened.
StillPlaying ==
    \A w \in Worker :
        humanActs = 0 /\ pc[w] \in Looking => Playing \subseteq sinceCycle[w]

\* A worker changes the board only where it calls PAVE.
LEMMA WorkerCalls ==
    ASSUME TypeOK, NEW w \in Worker, WorkerStep(w)
    PROVE  /\ UNCHANGED pave \/ pc'[w] \in {"claimed", "suspend", "assign", "record"}
           /\ humanActs' = humanActs
  BY DEF WorkerStep, Scout, Goto, TypeOK, bounds,
         BeginCycle, McpNotReady, CreateStallRun, EdiMissing, ListStaffTasks,
         ListGlobalPlaying, ListBoardChannel, GlowFails, PollFailed,
         PlayingTaskPresent, NoStartableWork, SelectCandidate, ResolveTask,
         ResolutionFails, NoActiveRun, AlreadyQueued, CreateRun, GatesRefuse,
         GatesPass, FreshCheckPasses, FreshCheckBlocks, ParkRun,
         RecordClaimAttempt, StartSucceeds, StartFails, RecordClaimed,
         DispatchSucceeds, DispatchFails, RecordDispatched, OperatorEscalates,
         EscalateSuspend, EscalateAssign, RecordEscalation, AbandonCycle

\* People apart, only a start call sets a task playing.
LEMMA OutsideStops ==
    ASSUME TypeOK, OutsideStep
    PROVE  /\ humanActs' = 0 => humanActs = 0
           /\ humanActs' = 0 => Playing' \subseteq Playing
  <1>1. ASSUME NEW t \in Task, HumanPlays(t) PROVE humanActs' # 0
    BY <1>1 DEF HumanPlays, TypeOK
  <1>2. ASSUME NEW t \in Task, HumanStops(t)
        PROVE  humanActs' = humanActs /\ Playing' \subseteq Playing
    BY <1>2 DEF HumanStops, TypeOK, Playing, bounds
  <1>3. ASSUME NEW t \in Task, HumanTakesOver(t) PROVE humanActs' # 0
    BY <1>3 DEF HumanTakesOver, TypeOK
  <1>4. ASSUME NEW t \in Task, PrerequisitesMet(t)
        PROVE  humanActs' = humanActs /\ Playing' \subseteq Playing
    BY <1>4 DEF PrerequisitesMet, Playing, bounds
  <1>5. ASSUME NEW r \in RunId, ArchonEnds(r)
        PROVE  humanActs' = humanActs /\ Playing' \subseteq Playing
    BY <1>5 DEF ArchonEnds, TypeOK, Playing, bounds
  <1> QED BY <1>1, <1>2, <1>3, <1>4, <1>5 DEF OutsideStep

LEMMA StillStep ==
    ASSUME \A v, w \in Worker : v = w, TypeOK, StillPlaying, [HNext]_allvars
    PROVE  StillPlaying'
  <1>1. CASE UNCHANGED allvars
    BY <1>1 DEF StillPlaying, Playing, allvars, vars, hvars
  <1>2. CASE HNext
    <2> SUFFICES ASSUME NEW w \in Worker, humanActs' = 0, pc'[w] \in Looking
                 PROVE  Playing' \subseteq sinceCycle'[w]
      BY DEF StillPlaying
    <2>1. humanActs = 0 /\ Playing' \subseteq Playing
      <3>1. CASE OutsideStep
        BY <3>1, OutsideStops
      <3>2. ASSUME NEW v \in Worker, WorkerStep(v)
            PROVE  humanActs = 0 /\ Playing' \subseteq Playing
        <4>1. v = w
          OBVIOUS
        <4> QED BY <3>2, <4>1, WorkerCalls DEF Looking, Playing, pave
      <3> QED BY <1>2, <3>1, <3>2, StepsOfNext DEF HNext
    <2>2. CASE pc[w] = "idle" /\ pc'[w] = "cycle"
      BY <1>2, <2>2 DEF HNext, Observe
    <2>3. CASE pc[w] \in Looking
      <3>1. sinceCycle'[w] = sinceCycle[w] \cap Playing'
        BY <1>2, <2>3 DEF HNext, Observe, Looking
      <3> QED BY <2>1, <2>3, <3>1 DEF StillPlaying
    <2>4. (pc[w] = "idle" /\ pc'[w] = "cycle") \/ pc[w] \in Looking
      BY <1>2, FlowHolds DEF Flow, Looking
    <2> QED BY <2>2, <2>3, <2>4
  <1> QED BY <1>1, <1>2

\* A scout that is the only one, whose Glow fallback is on and answered, never
\* calls start while a task of its staff code is playing, so its call suspends
\* none, until a person plays or stops a task by hand (README.md:144,
\* worker.py:1008-1074 and 1424-1459); whatever fails or crashes.
THEOREM NeverSuspends ==
    ASSUME Fallback, \A v, w \in Worker : v = w
    PROVE  HSpec => NeverSuspendsPlayingTask
  <1>1. HInit => StillPlaying
    BY DEF HInit, Init, StillPlaying, Looking
  <1>2. TypeOK /\ StillPlaying /\ [HNext]_allvars => StillPlaying'
    BY StillStep
  <1>3. StillPlaying /\ FirstGuardHolds /\ [HNext]_allvars =>
           [\A w \in Worker : humanActs = 0 /\ Calls(w) /\ ~ loc[w].error =>
               \A t \in Playing : t # loc[w].task => status'[t] = "WRK"]_vars
    BY DEF StillPlaying, FirstGuardHolds, AboutToStart, Calls, Looking
  <1> QED BY <1>1, <1>2, <1>3, TypesHold, FirstGuard, PTL
          DEF HSpec, NeverSuspendsPlayingTask

-----------------------------------------------------------------------------
(* One active run per task                                                 *)

\* Rows that keep the task t from being started.
Active(t) == {r \in RunId : run[r].task = t /\ run[r].status \in ActiveStatus(FALSE)}

\* Rows that exist, and how far back in the lookup's order they can be.
Used == RunId \ Free
Ages == \A r \in Used : age[r] < Cardinality(Used)

\* Before the row of a cycle is there.
Rowless == {"idle", "cycle", "stall", "global", "board", "polled", "resolve", "lookup", "create"}

\* What a scout that is alone knows of the rows of its task.
Alone(w) ==
    /\ pc[w] \in Rowless => loc[w].rid = None
    /\ pc[w] = "create" => Active(loc[w].task) = {}
    /\ loc[w].rid # None => /\ run[loc[w].rid].task = loc[w].task
                            /\ Active(loc[w].task) \subseteq {loc[w].rid}
    /\ pc[w] \in {"suspend", "assign", "record"} /\ loc[w].rid = None =>
          loc[w].task \in OperatorTask

OneInv == OneActiveRunPerTask /\ \A w \in Worker : Alone(w)

LEMMA LeastNatural ==
    ASSUME NEW S \in SUBSET Nat, S # {}
    PROVE  \E m \in S : \A n \in S : m <= n
  <1> DEFINE R == OpToRel(<, Nat)
  <1>1. IsWellFoundedOn(R, Nat)
    BY NatLessThanWellFounded
  <1>2. \A x, y \in Nat : y < x => <<y, x>> \in R
    BY DEF OpToRel
  <1> HIDE DEF R
  <1>3. PICK m \in S : \A n \in S : ~ (<<n, m>> \in R)
    BY <1>1, WFMin
  <1>4. ASSUME NEW n \in S PROVE m <= n
    <2>1. ~ (n < m)
      BY <1>2, <1>3, n \in Nat, m \in Nat, Zenon
    <2> QED BY <2>1
  <1> QED BY <1>4

\* A row that is written is the newest; older ones move back by at most one
\* place, and only if they were newer than it.
LEMMA AgesPatch ==
    ASSUME TypeOK, IsFiniteSet(RunId), Ages,
           NEW r \in RunId, NEW row \in Run, Patch(r, row)
    PROVE  Ages'
  <1>1. row # NoRun
    BY DEF Run, NoRun, RunStatus
  <1>2. Used' = Used \cup {r}
    BY <1>1 DEF Used, Free, Patch, TypeOK
  <1>3. IsFiniteSet(Used)
    BY FS_Subset DEF Used
  <1>4. Cardinality(Used) \in Nat
    BY <1>3, FS_CardinalityType
  <1>5. \A q \in RunId : age[q] \in Nat
    BY DEF TypeOK
  <1>6. age'[r] = 0
    BY DEF Patch, Touch
  <1>7. CASE r \in Free
    <2>1. Cardinality(Used') = Cardinality(Used) + 1
      BY <1>2, <1>3, <1>7, FS_AddElement DEF Used
    <2>2. ASSUME NEW q \in Used, q # r PROVE age'[q] = age[q] + 1
      BY <1>7, <2>2 DEF Patch, Touch, Used
    <2>3. ASSUME NEW q \in Used' PROVE age'[q] < Cardinality(Used)'
      <3>1. CASE q = r
        BY <1>4, <1>6, <2>1, <3>1
      <3>2. CASE q \in Used /\ q # r
        <4>1. age[q] < Cardinality(Used) /\ age[q] \in Nat
          BY <1>5, <3>2 DEF Ages, Used
        <4>2. age'[q] = age[q] + 1
          BY <2>2, <3>2
        <4> QED BY <1>4, <2>1, <4>1, <4>2
      <3> QED BY <1>2, <3>1, <3>2
    <2> QED BY <2>3 DEF Ages
  <1>8. CASE r \in Used
    <2>1. Used' = Used
      BY <1>2, <1>8
    <2>2. age[r] < Cardinality(Used)
      BY <1>8 DEF Ages
    <2>3. ASSUME NEW q \in Used PROVE age'[q] < Cardinality(Used)
      <3>1. age[q] < Cardinality(Used) /\ age[q] \in Nat
        BY <1>5 DEF Ages, Used
      <3>2. CASE q = r
        BY <1>4, <1>6, <2>2, <3>2, <1>5
      <3>3. CASE q # r /\ age[q] < age[r]
        <4>1. age'[q] = age[q] + 1
          BY <1>8, <3>3 DEF Patch, Touch, Used
        <4> QED BY <1>4, <1>5, <2>2, <3>1, <3>3, <4>1
      <3>4. CASE q # r /\ ~ (age[q] < age[r])
        <4>1. age'[q] = age[q]
          BY <1>8, <3>4 DEF Patch, Touch, Used
        <4> QED BY <3>1, <4>1
      <3> QED BY <3>2, <3>3, <3>4
    <2> QED BY <2>1, <2>3 DEF Ages
  <1> QED BY <1>7, <1>8 DEF Used

\* The lookup answers with a row that it has read, or there is none to answer with.
LEMMA LookupAnswers ==
    ASSUME TypeOK, NEW t, NEW dry
    PROVE  \/ ActiveRun(t, dry) \in RunId
           \/ /\ ActiveRun(t, dry) = None
              /\ {r \in RunId : /\ run[r].task = t
                                /\ run[r].status \in ActiveStatus(dry)
                                /\ age[r] < Window} = {}
  <1> DEFINE hits == {r \in RunId :
                        /\ run[r].task = t
                        /\ run[r].status \in ActiveStatus(dry)
                        /\ age[r] < Window}
  <1>1. CASE hits = {}
    BY <1>1 DEF ActiveRun
  <1>2. CASE hits # {}
    <2> DEFINE places == {age[r] : r \in hits}
    <2>1. places \in SUBSET Nat /\ places # {}
      BY <1>2 DEF TypeOK
    <2>2. PICK m \in places : \A n \in places : m <= n
      BY <2>1, LeastNatural
    <2>3. PICK r \in hits : \A q \in hits : age[r] <= age[q]
      BY <2>2
    <2>4. ActiveRun(t, dry) \in hits
      BY <2>3 DEF ActiveRun
    <2> QED BY <2>4
  <1> QED BY <1>1, <1>2

\* If the lookup reads as many rows as there can be, None means that no row is
\* active.
LEMMA LookupSeesAll ==
    ASSUME TypeOK, Ages, IsFiniteSet(RunId), Cardinality(RunId) <= Window,
           NEW t \in Task, NEW dry \in BOOLEAN, ActiveRun(t, dry) = None
    PROVE  Active(t) = {}
  <1> DEFINE hits == {r \in RunId :
                        /\ run[r].task = t
                        /\ run[r].status \in ActiveStatus(dry)
                        /\ age[r] < Window}
  <1>1. Active(t) \subseteq hits
    <2> SUFFICES ASSUME NEW r \in Active(t) PROVE age[r] < Window
      BY DEF Active, ActiveStatus
    <2>1. r \in Used
      BY DEF Active, ActiveStatus, Used, Free, NoRun
    <2>2. /\ Cardinality(Used) <= Cardinality(RunId)
          /\ Cardinality(Used) \in Nat /\ Cardinality(RunId) \in Nat
      BY FS_Subset, FS_CardinalityType DEF Used
    <2>3. age[r] \in Nat /\ age[r] < Cardinality(Used)
      BY <2>1 DEF TypeOK, Ages, Used
    <2> QED BY <2>2, <2>3, ScoutAssumption DEF ScoutAssumption
  <1>2. hits = {}
    BY LookupAnswers, ScoutAssumption DEF ScoutAssumption
  <1> QED BY <1>1, <1>2

-----------------------------------------------------------------------------

\* A row written over others, one at a time.
LEMMA ActivePatch ==
    ASSUME TypeOK, NEW r \in RunId, NEW row \in Run, Patch(r, row), NEW t
    PROVE  /\ Active(t)' \subseteq Active(t) \cup {r}
           /\ row.task # t \/ row.status \notin ActiveStatus(FALSE) =>
                 Active(t)' \subseteq Active(t)
  BY DEF TypeOK, Patch, Active, ActiveStatus

LEMMA OnePatch ==
    ASSUME TypeOK, OneActiveRunPerTask,
           NEW r \in RunId, NEW row \in Run, Patch(r, row),
           row.status \in ActiveStatus(FALSE) /\ row.task \notin OperatorTask \cup {None}
             => Active(row.task) \subseteq {r}
    PROVE  OneActiveRunPerTask'
  <1> SUFFICES ASSUME NEW p \in RunId, NEW q \in RunId,
                      run'[p].task \notin OperatorTask \cup {None},
                      run'[p].task = run'[q].task,
                      run'[p].status \in ActiveStatus(FALSE),
                      run'[q].status \in ActiveStatus(FALSE)
               PROVE  p = q
    BY DEF OneActiveRunPerTask, ActiveStatus
  <1>1. run'[r] = row /\ \A u \in RunId \ {r} : run'[u] = run[u]
    BY DEF Patch, TypeOK
  <1>2. CASE p # r /\ q # r
    BY <1>1, <1>2 DEF OneActiveRunPerTask
  <1>3. CASE p = r
    BY <1>1, <1>3 DEF Active
  <1>4. CASE q = r
    BY <1>1, <1>4 DEF Active
  <1> QED BY <1>2, <1>3, <1>4

LEMMA AtRestAlone ==
    ASSUME TypeOK, NEW w \in Worker, Return(w) PROVE Alone(w)'
  BY DEF Return, TypeOK, Alone, AtRest

\* What a step does with the task and the row of its cycle.
LEMMA CycleMemory ==
    ASSUME TypeOK, NEW w \in Worker, WorkerStep(w)
    PROVE  \/ Return(w)
           \/ BeginCycle(w) \/ OperatorEscalates(w) \/ ResolveTask(w) \/ CreateRun(w)
           \/ /\ loc'[w].task = loc[w].task /\ loc'[w].rid = loc[w].rid
              /\ pc[w] # "idle" /\ pc'[w] # "idle" /\ pc'[w] # "cycle"
              /\ pc'[w] = "create" => NoActiveRun(w)
  <1>1. CASE ListBoardChannel(w)
    <2>1. PICK rows : loc' = [loc EXCEPT ![w].tasks = rows, ![w].glow = {}]
      BY <1>1 DEF ListBoardChannel
    <2>2. loc'[w].task = loc[w].task /\ loc'[w].rid = loc[w].rid
      BY <2>1 DEF TypeOK, Local
    <2>3. pc[w] = "board" /\ Goto(w, "polled")
      BY <1>1 DEF ListBoardChannel
    <2> QED BY <2>2, <2>3 DEF Goto, TypeOK
  <1>2. CASE SelectCandidate(w)
    <2>1. PICK x : loc' = [loc EXCEPT ![w].sel = x, ![w].tasks = {}]
      BY <1>2 DEF SelectCandidate
    <2>2. loc'[w].task = loc[w].task /\ loc'[w].rid = loc[w].rid
      BY <2>1 DEF TypeOK, Local
    <2> QED BY <1>2, <2>2 DEF SelectCandidate, Goto, TypeOK
  <1>3. CASE ListStaffTasks(w) \/ ListGlobalPlaying(w) \/ GlowFails(w)
    BY <1>3 DEF ListStaffTasks, ListGlobalPlaying, GlowFails, Goto, TypeOK, Local
  <1>4. CASE EscalateSuspend(w) \/ EscalateAssign(w)
    BY <1>4 DEF EscalateSuspend, EscalateAssign, Goto, TypeOK, Local
  <1>5. CASE \/ McpNotReady(w) \/ NoActiveRun(w) \/ GatesRefuse(w)
             \/ GatesPass(w) \/ FreshCheckPasses(w) \/ FreshCheckBlocks(w)
             \/ RecordClaimAttempt(w) \/ StartSucceeds(w) \/ StartFails(w)
             \/ RecordClaimed(w) \/ DispatchSucceeds(w) \/ DispatchFails(w)
    BY <1>5 DEF McpNotReady, NoActiveRun, GatesRefuse, GatesPass,
                FreshCheckPasses, FreshCheckBlocks, RecordClaimAttempt,
                StartSucceeds, StartFails, RecordClaimed, DispatchSucceeds,
                DispatchFails, Goto, TypeOK, portal
  <1>6. CASE \/ EdiMissing(w) \/ PollFailed(w) \/ PlayingTaskPresent(w)
             \/ NoStartableWork(w) \/ ResolutionFails(w) \/ AbandonCycle(w)
             \/ CreateStallRun(w) \/ AlreadyQueued(w) \/ ParkRun(w)
             \/ RecordDispatched(w) \/ RecordEscalation(w)
    BY <1>6 DEF EdiMissing, PollFailed, PlayingTaskPresent, NoStartableWork,
                ResolutionFails, AbandonCycle, CreateStallRun, AlreadyQueued,
                ParkRun, RecordDispatched, RecordEscalation
  <1> QED BY <1>1, <1>2, <1>3, <1>4, <1>5, <1>6 DEF WorkerStep, Scout

\* A scout's own row exists and is its task's.
LEMMA AloneRow ==
    ASSUME TypeOK, NEW w \in Worker, Alone(w), loc[w].rid # None
    PROVE  /\ loc[w].rid \in RunId /\ run[loc[w].rid] \in Run
           /\ run[loc[w].rid].task = loc[w].task
           /\ Active(loc[w].task) \subseteq {loc[w].rid}
  <1>1. pc[w] \in Resolved
    BY DEF Alone, Rowless, Resolved, WithRun, TypeOK, Label
  <1>2. loc[w].task # None
    BY <1>1 DEF TypeOK
  <1>3. loc[w].rid \in RunId
    BY DEF TypeOK, Local
  <1>4. run[loc[w].rid] # NoRun
    BY <1>2 DEF Alone, NoRun
  <1> QED BY <1>3, <1>4 DEF TypeOK, Alone

\* The row is as it was, or its status is another and no other row's.
LEMMA AloneKept ==
    ASSUME TypeOK, NEW w \in Worker, WorkerStep(w), Alone(w),
           loc'[w].task = loc[w].task, loc'[w].rid = loc[w].rid,
           pc[w] # "idle", pc'[w] # "idle", pc'[w] # "cycle", pc'[w] # "create",
           loc[w].rid # None => run'[loc[w].rid].task = run[loc[w].rid].task,
           \A q \in RunId : q # loc[w].rid => run'[q] = run[q]
    PROVE  Alone(w)'
  <1>1. <<pc[w], pc'[w]>> \in Flow
    BY Frame DEF TypeOK
  <1>2. pc'[w] \in Rowless => pc[w] \in Rowless
    BY <1>1 DEF Flow, Rowless
  <1>3. pc'[w] \in {"suspend", "assign", "record"} /\ loc[w].rid = None =>
           pc[w] \in {"suspend", "assign", "record"}
    BY <1>1 DEF Flow, TypeOK, WithRun
  <1>4. loc[w].rid # None => Active(loc[w].task)' \subseteq {loc[w].rid}
    <2> SUFFICES ASSUME loc[w].rid # None, NEW q \in RunId, q # loc[w].rid,
                        run'[q].task = loc'[w].task,
                        run'[q].status \in ActiveStatus(FALSE)
                 PROVE  FALSE
      BY DEF Active, ActiveStatus
    <2>1. q \in Active(loc[w].task)
      BY DEF Active
    <2> QED BY <2>1, AloneRow
  <1> QED BY <1>2, <1>3, <1>4 DEF Alone

LEMMA OneQuiet ==
    ASSUME TypeOK, Ages, IsFiniteSet(RunId), Cardinality(RunId) <= Window,
           \A v, w \in Worker : v = w,
           OneInv, NEW w \in Worker, WorkerStep(w), run' = run
    PROVE  OneInv'
  <1>1. OneActiveRunPerTask'
    BY DEF OneInv, OneActiveRunPerTask
  <1>2. \A t : Active(t)' = Active(t)
    BY DEF Active
  <1>3. CASE Return(w)
    BY <1>1, <1>3, AtRestAlone DEF OneInv
  <1>4. CASE BeginCycle(w) \/ OperatorEscalates(w)
    <2>1. Alone(w)'
      BY <1>4 DEF BeginCycle, OperatorEscalates, Goto, Alone, TypeOK, AtRest, Rowless
    <2> QED BY <1>1, <2>1 DEF OneInv
  <1>5. CASE ResolveTask(w)
    <2>1. Alone(w)'
      BY <1>5 DEF ResolveTask, Goto, OneInv, Alone, TypeOK, Local, Rowless
    <2> QED BY <1>1, <2>1 DEF OneInv
  <1>6. CASE CreateRun(w)
    <2>1. PICK r \in Free : Patch(r, [NoRun EXCEPT !.task = loc[w].task,
              !.dry = loc[w].dry, !.status = IF loc[w].dry THEN "dry_run" ELSE "queued"])
      BY <1>6 DEF CreateRun
    <2> DEFINE row == [NoRun EXCEPT !.task = loc[w].task, !.dry = loc[w].dry,
                          !.status = IF loc[w].dry THEN "dry_run" ELSE "queued"]
    <2>2. row.status # NoRun.status
      BY DEF NoRun
    <2>3. Patch(r, row) /\ r \in RunId /\ run[r] = NoRun
      BY <2>1 DEF Free
    <2> HIDE DEF row
    <2>4. run'[r] = row
      BY <2>3 DEF Patch, TypeOK
    <2> QED BY <2>2, <2>3, <2>4
  <1>7. CASE /\ loc'[w].task = loc[w].task /\ loc'[w].rid = loc[w].rid
             /\ pc[w] # "idle" /\ pc'[w] # "idle" /\ pc'[w] # "cycle"
             /\ pc'[w] = "create" => NoActiveRun(w)
    <2>0. Alone(w)
      BY DEF OneInv
    <2>1. CASE pc'[w] = "create"
      <3>1. NoActiveRun(w)
        BY <1>7, <2>1
      <3>2. loc[w].task \in Task /\ loc[w].dry \in BOOLEAN /\ loc[w].rid = None
        BY <2>0, <3>1 DEF NoActiveRun, TypeOK, Local, Resolved, Alone, Rowless
      <3>3. Active(loc[w].task) = {}
        BY <3>1, <3>2, LookupSeesAll DEF NoActiveRun
      <3>4. loc' = loc
        BY <3>1 DEF NoActiveRun
      <3>5. Alone(w)'
        BY <1>2, <2>1, <3>2, <3>3, <3>4 DEF Alone
      <3> QED BY <1>1, <3>5 DEF OneInv
    <2>2. CASE pc'[w] # "create"
      <3>1. Alone(w)'
        BY <1>7, <2>0, <2>2, AloneKept
      <3> QED BY <1>1, <3>1 DEF OneInv
    <2> QED BY <2>1, <2>2
  <1> QED BY <1>3, <1>4, <1>5, <1>6, <1>7, CycleMemory

LEMMA OneStallRun ==
    ASSUME TypeOK, OneActiveRunPerTask, NEW w \in Worker, CreateStallRun(w)
    PROVE  OneActiveRunPerTask'
  <1> DEFINE row == [NoRun EXCEPT !.status = "stalled", !.noMutation = TRUE]
  <1>1. PICK r \in Free : Patch(r, row)
    BY DEF CreateStallRun
  <1>2. row \in Run /\ row.task = None /\ r \in RunId
    BY DEF NoRun, Run, RunStatus, Free
  <1> HIDE DEF row
  <1> QED BY <1>1, <1>2, OnePatch

\* An older build's "queued" dry run becomes one.
LEMMA OneQueued ==
    ASSUME TypeOK, OneActiveRunPerTask, NEW w \in Worker, AlreadyQueued(w)
    PROVE  OneActiveRunPerTask'
  <1>1. CASE UNCHANGED <<run, age>>
    BY <1>1 DEF OneActiveRunPerTask
  <1> DEFINE r == ActiveRun(loc[w].task, loc[w].dry)
  <1>2. CASE Patch(r, [run[r] EXCEPT !.status = "dry_run"])
    <2> HIDE DEF r
    <2>1. CASE r \in RunId
      <3> DEFINE row == [run[r] EXCEPT !.status = "dry_run"]
      <3>1. row \in Run /\ row.status = "dry_run"
        <4>1. run[r] \in Run \cup {NoRun} /\ "dry_run" \in RunStatus
          BY <2>1 DEF TypeOK, RunStatus
        <4>2. row \in Run
          BY <4>1, RowUpdate
        <4>3. row.status = "dry_run"
          BY <4>1 DEF Run, NoRun
        <4> QED BY <4>2, <4>3
      <3>2. Patch(r, row)
        BY <1>2
      <3> HIDE DEF row
      <3> QED BY <2>1, <3>1, <3>2, OnePatch DEF ActiveStatus
    <2>2. CASE r \notin RunId
      <3>1. run' = run
        BY <1>2, <2>2 DEF Patch, TypeOK
      <3> QED BY <3>1 DEF OneActiveRunPerTask
    <2> QED BY <2>1, <2>2
  <1> QED BY <1>1, <1>2 DEF AlreadyQueued

\* The row of a new run: the lookup has shown that there is no other.
LEMMA OneCreate ==
    ASSUME TypeOK, OneInv, NEW w \in Worker, CreateRun(w)
    PROVE  OneActiveRunPerTask' /\ Alone(w)'
  <1> DEFINE row == [NoRun EXCEPT !.task = loc[w].task, !.dry = loc[w].dry,
                        !.status = IF loc[w].dry THEN "dry_run" ELSE "queued"]
  <1>1. PICK r \in Free :
           /\ Patch(r, row)
           /\ IF loc[w].dry THEN Return(w)
              ELSE /\ loc' = [loc EXCEPT ![w].rid = r]
                   /\ Goto(w, "gates")
    BY DEF CreateRun
  <1>2. loc[w].task \in Task \cup {None} /\ loc[w].dry \in BOOLEAN
    BY DEF TypeOK, Local
  <1>3. row \in Run /\ row.task = loc[w].task /\ r \in RunId
    BY <1>2 DEF NoRun, Run, RunStatus, Free
  <1>4. Active(loc[w].task) = {}
    BY DEF CreateRun, OneInv, Alone
  <1> HIDE DEF row
  <1>5. OneActiveRunPerTask'
    BY <1>1, <1>3, <1>4, OnePatch DEF OneInv
  <1>6. Alone(w)'
    <2>1. CASE Return(w)
      BY <2>1, AtRestAlone
    <2>2. CASE loc' = [loc EXCEPT ![w].rid = r] /\ Goto(w, "gates")
      <3>1. /\ loc'[w].task = loc[w].task /\ loc'[w].rid = r /\ pc'[w] = "gates"
            /\ run'[r] = row
        BY <1>1, <1>3, <2>2 DEF TypeOK, Local, Goto, Patch
      <3>2. Active(loc[w].task)' \subseteq {r}
        <4> SUFFICES ASSUME NEW q \in RunId, q # r, run'[q].task = loc'[w].task,
                            run'[q].status \in ActiveStatus(FALSE)
                     PROVE  FALSE
          BY DEF Active, ActiveStatus
        <4>1. run'[q] = run[q]
          BY <1>1 DEF Patch, TypeOK
        <4> QED BY <1>4, <3>1, <4>1 DEF Active
      <3> QED BY <1>3, <3>1, <3>2 DEF Alone, Rowless, Active
    <2> QED BY <1>1, <2>1, <2>2
  <1> QED BY <1>5, <1>6

\* A cycle writes a status, and no more, in its own row.
LEMMA OneOwnRow ==
    ASSUME TypeOK, OneInv, NEW w \in Worker, NEW r \in RunId, r = loc[w].rid,
           NEW row \in Run, row.task = run[r].task, Patch(r, row)
    PROVE  /\ OneActiveRunPerTask'
           /\ run'[r].task = run[r].task
           /\ \A q \in RunId : q # r => run'[q] = run[q]
  <1>1. r # None
    BY ScoutAssumption DEF ScoutAssumption
  <1>2. run[r].task = loc[w].task /\ Active(loc[w].task) \subseteq {r}
    BY <1>1, AloneRow DEF OneInv
  <1>3. OneActiveRunPerTask'
    BY <1>2, OnePatch DEF OneInv
  <1>4. run'[r].task = run[r].task /\ \A q \in RunId \ {r} : run'[q] = run[q]
    BY DEF Patch, TypeOK
  <1> QED BY <1>3, <1>4

OwnRowAction(w) ==
    \/ ParkRun(w) \/ RecordClaimAttempt(w) \/ RecordClaimed(w) \/ RecordDispatched(w)

LEMMA OneRecord ==
    ASSUME TypeOK, OneInv, NEW w \in Worker, WorkerStep(w), OwnRowAction(w)
    PROVE  OneActiveRunPerTask' /\ Alone(w)'
  <1>1. PICK r \in RunId : r = loc[w].rid /\ run[r] \in Run
    BY AloneRow DEF OwnRowAction, ParkRun, RecordClaimAttempt, RecordClaimed,
                    RecordDispatched, TypeOK, WithRun, OneInv
  <1>2. PICK row \in Run : row.task = run[r].task /\ Patch(r, row)
    <2>1. CASE ParkRun(w)
      <3> DEFINE row == [run[r] EXCEPT !.status = "stalled", !.noMutation = TRUE]
      <3>1. row \in Run /\ row.task = run[r].task
        BY <1>1 DEF Run, RunStatus
      <3> QED BY <1>1, <2>1, <3>1 DEF ParkRun
    <2>2. CASE RecordClaimAttempt(w)
      <3> DEFINE row == [run[r] EXCEPT !.status = "running", !.attempted = TRUE]
      <3>1. row \in Run /\ row.task = run[r].task
        BY <1>1 DEF Run, RunStatus
      <3> QED BY <1>1, <2>2, <3>1 DEF RecordClaimAttempt
    <2>3. CASE RecordClaimed(w)
      <3> DEFINE row == [run[r] EXCEPT !.status = "claimed"]
      <3>1. row \in Run /\ row.task = run[r].task
        BY <1>1 DEF Run, RunStatus
      <3> QED BY <1>1, <2>3, <3>1 DEF RecordClaimed
    <2>4. CASE RecordDispatched(w)
      <3> DEFINE row == [run[r] EXCEPT !.status = "running"]
      <3>1. row \in Run /\ row.task = run[r].task
        BY <1>1 DEF Run, RunStatus
      <3> QED BY <1>1, <2>4, <3>1 DEF RecordDispatched
    <2> QED BY <2>1, <2>2, <2>3, <2>4 DEF OwnRowAction
  <1>3. /\ OneActiveRunPerTask'
        /\ run'[r].task = run[r].task
        /\ \A q \in RunId : q # r => run'[q] = run[q]
    BY <1>1, <1>2, OneOwnRow
  <1>4. CASE ParkRun(w) \/ RecordDispatched(w)
    BY <1>3, <1>4, AtRestAlone DEF ParkRun, RecordDispatched
  <1>5. CASE RecordClaimAttempt(w) \/ RecordClaimed(w)
    <2>1. /\ loc' = loc /\ pc[w] \in {"claim", "claimed"}
          /\ pc'[w] \in {"start", "dispatch"}
      BY <1>5 DEF RecordClaimAttempt, RecordClaimed, Goto, TypeOK
    <2>2. Alone(w)
      BY DEF OneInv
    <2> QED BY <1>1, <1>3, <2>1, <2>2, AloneKept
  <1> QED BY <1>4, <1>5 DEF OwnRowAction

\* An escalation writes its outcome in its cycle's row, or a row of its own for
\* a task that an operator named.
LEMMA OneEscalation ==
    ASSUME TypeOK, OneInv, NEW w \in Worker, RecordEscalation(w)
    PROVE  OneActiveRunPerTask'
  <1> DEFINE outcome == EscalationStatus(loc[w].done)
  <1>1. outcome \in RunStatus
    BY DEF EscalationStatus, RunStatus
  <1>2. CASE loc[w].rid # None
    <2>1. PICK r \in RunId : r = loc[w].rid /\ run[r] \in Run
      BY <1>2, AloneRow DEF OneInv
    <2>2. Patch(r, [run[r] EXCEPT !.status = outcome])
      BY <1>2, <2>1 DEF RecordEscalation
    <2> HIDE DEF outcome
    <2> DEFINE row == [run[r] EXCEPT !.status = outcome]
    <2>3. row \in Run /\ row.task = run[r].task /\ Patch(r, row)
      BY <1>1, <2>1, <2>2 DEF Run
    <2> HIDE DEF row
    <2> QED BY <2>1, <2>3, OneOwnRow
  <1>3. CASE loc[w].rid = None
    <2> DEFINE row == [NoRun EXCEPT !.task = loc[w].task, !.status = outcome]
    <2>1. PICK r \in Free : Patch(r, row)
      BY <1>3 DEF RecordEscalation
    <2>2. loc[w].task \in OperatorTask
      BY <1>3 DEF RecordEscalation, OneInv, Alone
    <2>3. loc[w].task \in Task \cup {None}
      BY DEF TypeOK, Local
    <2> HIDE DEF outcome
    <2>4. row \in Run /\ row.task = loc[w].task
      BY <1>1, <2>3 DEF NoRun, Run
    <2> HIDE DEF row
    <2>5. r \in RunId
      BY DEF Free
    <2> QED BY <2>1, <2>2, <2>4, <2>5, OnePatch DEF OneInv
  <1> QED BY <1>2, <1>3

\* A workflow's end leaves its row inactive.
LEMMA OneArchonEnds ==
    ASSUME TypeOK, OneInv, NEW r \in RunId, ArchonEnds(r)
    PROVE  OneInv'
  <1>1. PICK s \in {"completed", "suspended", "failed"} :
           Patch(r, [run[r] EXCEPT !.status = s])
    BY DEF ArchonEnds
  <1> DEFINE row == [run[r] EXCEPT !.status = s]
  <1>2. row \in Run /\ row.status = s /\ row.task = run[r].task /\ Patch(r, row)
    <2>1. run[r] \in Run \cup {NoRun} /\ s \in RunStatus
      BY DEF TypeOK, RunStatus
    <2>2. row \in Run
      BY <2>1, RowUpdate
    <2>3. row.status = s /\ row.task = run[r].task
      BY <2>1 DEF Run, NoRun
    <2> QED BY <1>1, <2>2, <2>3
  <1> HIDE DEF row
  <1>3. OneActiveRunPerTask'
    BY <1>2, OnePatch DEF ActiveStatus, OneInv
  <1>4. /\ run'[r] = row /\ \A q \in RunId \ {r} : run'[q] = run[q]
        /\ pc' = pc /\ loc' = loc
    BY <1>2 DEF ArchonEnds, Patch, TypeOK
  <1>5. ASSUME NEW w \in Worker PROVE Alone(w)'
    <2>1. Alone(w)
      BY DEF OneInv
    <2>2. Active(loc[w].task)' \subseteq Active(loc[w].task)
      BY <1>2, <1>4 DEF Active, ActiveStatus
    <2>3. loc[w].rid # None => run'[loc[w].rid].task = run[loc[w].rid].task
      BY <1>2, <1>4 DEF TypeOK, Local
    <2> QED BY <1>4, <2>1, <2>2, <2>3 DEF Alone
  <1> QED BY <1>3, <1>5 DEF OneInv

LEMMA OneStep ==
    ASSUME IsFiniteSet(RunId), Cardinality(RunId) <= Window,
           \A v, w \in Worker : v = w,
           TypeOK, Ages, OneInv, [Next]_vars
    PROVE  OneInv'
  <1>1. CASE UNCHANGED vars
    BY <1>1 DEF vars, OneInv, OneActiveRunPerTask, Alone, Active
  <1>2. ASSUME NEW w \in Worker, WorkerStep(w) PROVE OneInv'
    <2>1. CASE run' = run
      BY <1>2, <2>1, OneQuiet
    <2>2. CASE CreateRun(w)
      BY <2>2, OneCreate DEF OneInv
    <2>3. CASE OwnRowAction(w)
      BY <1>2, <2>3, OneRecord DEF OneInv
    <2>4. CASE CreateStallRun(w) \/ AlreadyQueued(w) \/ RecordEscalation(w)
      <3>1. OneActiveRunPerTask'
        BY <2>4, OneStallRun, OneQueued, OneEscalation DEF OneInv
      <3>2. Alone(w)'
        BY <2>4, AtRestAlone DEF CreateStallRun, AlreadyQueued, RecordEscalation
      <3> QED BY <3>1, <3>2 DEF OneInv
    <2>5. CASE StartSucceeds(w) \/ StartFails(w) \/ DispatchSucceeds(w) \/ DispatchFails(w)
      <3>1. run' = run
        BY <2>5 DEF StartSucceeds, StartFails, DispatchSucceeds, DispatchFails, portal
      <3> QED BY <2>1, <3>1
    <2> QED BY <1>2, <2>1, <2>2, <2>3, <2>4, <2>5, WritesOrQuiet
            DEF Writes, Quiet, OwnRowAction
  <1>3. CASE OutsideStep
    <2>1. CASE UNCHANGED <<run, pc, loc>>
      BY <2>1 DEF OneInv, OneActiveRunPerTask, Alone, Active
    <2> QED BY <1>3, <2>1, OneArchonEnds
            DEF OutsideStep, HumanPlays, HumanStops, HumanTakesOver,
                PrerequisitesMet, portal
  <1> QED BY <1>1, <1>2, <1>3, StepsOfNext

\* Rows are only ever written, one at a time, and never removed.
RowWritten == \E r \in RunId : \E row \in Run : Patch(r, row)

LEMMA StatusWritten ==
    ASSUME TypeOK, NEW r \in RunId, NEW s \in RunStatus,
           \/ Patch(r, [run[r] EXCEPT !.status = s])
           \/ Patch(r, [run[r] EXCEPT !.status = s, !.noMutation = TRUE])
           \/ Patch(r, [run[r] EXCEPT !.status = s, !.attempted = TRUE])
    PROVE  RowWritten
  <1>1. run[r] \in Run \cup {NoRun}
    BY DEF TypeOK
  <1> QED BY <1>1, RowUpdate DEF RowWritten

LEMMA RowsOfWorker ==
    ASSUME TypeOK, NEW w \in Worker, WorkerStep(w)
    PROVE  UNCHANGED <<run, age>> \/ RowWritten
  <1>1. CASE CreateStallRun(w)
    <2>1. [NoRun EXCEPT !.status = "stalled", !.noMutation = TRUE] \in Run
      BY DEF NoRun, Run, RunStatus
    <2> QED BY <1>1, <2>1 DEF CreateStallRun, Free, RowWritten
  <1>2. CASE CreateRun(w)
    <2> DEFINE row == [NoRun EXCEPT !.task = loc[w].task, !.dry = loc[w].dry,
                          !.status = IF loc[w].dry THEN "dry_run" ELSE "queued"]
    <2>1. row \in Run
      <3>1. loc[w].task \in Task \cup {None} /\ loc[w].dry \in BOOLEAN
        BY DEF TypeOK, Local
      <3> QED BY <3>1 DEF NoRun, Run, RunStatus
    <2>2. \E r \in Free : Patch(r, row)
      BY <1>2 DEF CreateRun
    <2> HIDE DEF row
    <2> QED BY <2>1, <2>2 DEF Free, RowWritten
  <1>3. CASE OwnRowAction(w)
    <2>1. loc[w].rid \in RunId
      BY <1>3 DEF OwnRowAction, ParkRun, RecordClaimAttempt, RecordClaimed,
                  RecordDispatched, TypeOK, WithRun, Local
    <2> QED BY <1>3, <2>1, StatusWritten
            DEF OwnRowAction, ParkRun, RecordClaimAttempt, RecordClaimed,
                RecordDispatched, RunStatus
  <1>4. CASE AlreadyQueued(w)
    <2> DEFINE r == ActiveRun(loc[w].task, loc[w].dry)
    <2>1. CASE UNCHANGED <<run, age>>
      BY <2>1
    <2>2. CASE Patch(r, [run[r] EXCEPT !.status = "dry_run"]) /\ r \in RunId
      <3> HIDE DEF r
      <3> QED BY <2>2, StatusWritten DEF RunStatus
    <2>3. r # None => r \in RunId
      BY LookupAnswers
    <2> QED BY <1>4, <2>1, <2>2, <2>3 DEF AlreadyQueued
  <1>5. CASE RecordEscalation(w)
    <2> DEFINE outcome == EscalationStatus(loc[w].done)
    <2>1. outcome \in RunStatus
      BY DEF EscalationStatus, RunStatus
    <2>2. CASE loc[w].rid # None
      <3>1. loc[w].rid \in RunId /\ Patch(loc[w].rid, [run[loc[w].rid] EXCEPT !.status = outcome])
        BY <1>5, <2>2 DEF RecordEscalation, TypeOK, Local
      <3> HIDE DEF outcome
      <3> QED BY <2>1, <3>1, StatusWritten
    <2>3. CASE loc[w].rid = None
      <3> DEFINE row == [NoRun EXCEPT !.task = loc[w].task, !.status = outcome]
      <3>1. \E r \in Free : Patch(r, row)
        BY <1>5, <2>3 DEF RecordEscalation
      <3>2. loc[w].task \in Task \cup {None}
        BY DEF TypeOK, Local
      <3> HIDE DEF outcome
      <3>3. row \in Run
        BY <2>1, <3>2 DEF NoRun, Run
      <3> HIDE DEF row
      <3> QED BY <3>1, <3>3 DEF Free, RowWritten
    <2> QED BY <2>2, <2>3
  <1>6. CASE \/ BeginCycle(w) \/ McpNotReady(w) \/ EdiMissing(w) \/ ListStaffTasks(w)
             \/ ListGlobalPlaying(w) \/ ListBoardChannel(w) \/ GlowFails(w)
             \/ PollFailed(w) \/ PlayingTaskPresent(w) \/ NoStartableWork(w)
             \/ SelectCandidate(w) \/ ResolveTask(w) \/ ResolutionFails(w)
             \/ NoActiveRun(w) \/ GatesRefuse(w) \/ GatesPass(w)
             \/ FreshCheckPasses(w) \/ FreshCheckBlocks(w) \/ StartSucceeds(w)
             \/ StartFails(w) \/ DispatchSucceeds(w) \/ DispatchFails(w)
             \/ EscalateSuspend(w) \/ EscalateAssign(w)
             \/ OperatorEscalates(w) \/ AbandonCycle(w)
    BY <1>6 DEF BeginCycle, McpNotReady, EdiMissing, ListStaffTasks,
         ListGlobalPlaying, ListBoardChannel, GlowFails, PollFailed,
         PlayingTaskPresent, NoStartableWork, SelectCandidate, ResolveTask,
         ResolutionFails, NoActiveRun, GatesRefuse, GatesPass, FreshCheckPasses,
         FreshCheckBlocks, StartSucceeds, StartFails, DispatchSucceeds,
         DispatchFails, EscalateSuspend, EscalateAssign, OperatorEscalates,
         AbandonCycle, portal
  <1> QED BY <1>1, <1>2, <1>3, <1>4, <1>5, <1>6 DEF WorkerStep, Scout, OwnRowAction

LEMMA AgesStep ==
    ASSUME IsFiniteSet(RunId), TypeOK, Ages, [Next]_vars PROVE Ages'
  <1>1. CASE UNCHANGED <<run, age>>
    BY <1>1 DEF Ages, Used, Free
  <1>2. CASE RowWritten
    BY <1>2, AgesPatch DEF RowWritten
  <1>3. CASE OutsideStep
    <2>1. ASSUME NEW r \in RunId, ArchonEnds(r) PROVE RowWritten
      BY <2>1, StatusWritten DEF ArchonEnds, RunStatus
    <2> QED BY <1>1, <1>2, <1>3, <2>1
            DEF OutsideStep, HumanPlays, HumanStops, HumanTakesOver,
                PrerequisitesMet, portal
  <1> QED BY <1>1, <1>2, <1>3, RowsOfWorker, StepsOfNext DEF vars

LEMMA OneStart ==
    ASSUME IsFiniteSet(RunId), Init PROVE Ages /\ OneInv
  <1>1. Ages
    <2> SUFFICES ASSUME NEW r \in Used PROVE age[r] < Cardinality(Used)
      BY DEF Ages
    <2>1. IsFiniteSet(Used)
      BY FS_Subset DEF Used
    <2>2. Cardinality(Used) \in Nat \ {0}
      BY <2>1, FS_CardinalityType, FS_EmptySet
    <2>3. age[r] = 0
      BY DEF Init, Used
    <2> QED BY <2>2, <2>3
  <1>2. OneActiveRunPerTask
    <2>1. CASE run = [r \in RunId |-> NoRun]
      BY <2>1 DEF OneActiveRunPerTask, NoRun
    <2>2. CASE \E q \in RunId :
                 run = [r \in RunId |->
                          IF r = q THEN [NoRun EXCEPT !.task = LegacyRow,
                                           !.status = "queued", !.dry = TRUE]
                          ELSE NoRun]
      <3>1. PICK q \in RunId : \A r \in RunId : r # q => run[r] = NoRun
        BY <2>2
      <3> QED BY <3>1 DEF OneActiveRunPerTask, NoRun
    <2> QED BY <2>1, <2>2 DEF Init
  <1>3. \A w \in Worker : Alone(w)
    BY DEF Init, Alone, AtRest
  <1> QED BY <1>1, <1>2, <1>3 DEF OneInv

\* One scout process whose lookup reads as many rows as there are never keeps two
\* active rows for one task, an operator's own escalations apart: whatever fails,
\* crashes or is still executing, a row left behind is found before another is
\* made (worker.py:1142-1188).
THEOREM OneActive ==
    ASSUME IsFiniteSet(RunId), Cardinality(RunId) <= Window,
           \A v, w \in Worker : v = w
    PROVE  Spec => []OneActiveRunPerTask
  <1>1. Init => Ages /\ OneInv
    BY OneStart
  <1>2. TypeOK /\ Ages /\ OneInv /\ [Next]_vars => Ages' /\ OneInv'
    BY AgesStep, OneStep
  <1>3. OneInv => OneActiveRunPerTask
    BY DEF OneInv
  <1> QED BY <1>1, <1>2, <1>3, TypeCorrect, PTL DEF Spec
==============================================================================
