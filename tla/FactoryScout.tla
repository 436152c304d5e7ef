---------------------------- MODULE FactoryScout ----------------------------
(***************************************************************************)
(* The PAVE scout worker: what one cycle of scout_once does, call by call,  *)
(* against the PAVE board (external) and the run rows of the portal.        *)
(*                                                                         *)
(* Between two calls of a scout everything else may move: another worker    *)
(* with the same staff code, a person playing a task by hand, a detached    *)
(* Archon workflow finishing, a crash of the worker.  An exception in any   *)
(* call is caught by run_loop and has the same effect as a crash: the cycle *)
(* is dropped where it stood.                                               *)
(*                                                                         *)
(* Wording, snapshots, events and artifacts carry no control and are left   *)
(* out; an event bumps its run's updated_at together with the patch beside  *)
(* it.                                                                      *)
(***************************************************************************)
EXTENDS Naturals

CONSTANTS
    Worker,         \* scout processes sharing the execution staff code
    Task,           \* PAVE tasks
    RunId,          \* ids of portal run rows; when they are used up, cycles stop
    None,           \* Python's None
    StaffListed,    \* tasks that `edi staff tasks` returns
    BoardTask,      \* tasks on the configured board
    Rank,           \* order of select_startable_candidate's sort key
    Window,         \* rows the active-run lookup reads (500 in the code)
    DryModes,       \* values FACTORY_SCOUT_DRY_RUN may be started with
    Fallback,       \* FACTORY_PAVE_BOARD_CHANNEL_FALLBACK
    OperatorTask,   \* tasks an operator may pass to --escalate-task-id
    LegacyRow,      \* task of a "queued" dry-run row of an older build, or None
    Faults,         \* kinds of failure this instance admits
    MaxHumanActs,   \* bound on what people do to tasks by hand
    MaxCrashes      \* bound on abandoned cycles

FaultKind == {"mcp", "edi", "glow", "twin", "config", "start", "suspend",
              "assign", "dispatch", "crash"}

ASSUME ScoutAssumption ==
    /\ StaffListed \subseteq Task
    /\ BoardTask \subseteq Task
    /\ OperatorTask \subseteq Task
    /\ Rank \in [Task -> Nat]
    /\ Window \in Nat
    /\ DryModes \subseteq BOOLEAN
    /\ Fallback \in BOOLEAN
    /\ LegacyRow \in Task \cup {None}
    /\ Faults \subseteq FaultKind
    /\ MaxHumanActs \in Nat
    /\ MaxCrashes \in Nat
    /\ None \notin Task
    /\ None \notin RunId

VARIABLES
    status,      \* PAVE status of each task
    ready,       \* tasks whose PAVE prerequisites are met (readyToStart)
    mine,        \* tasks assigned to the execution staff code
    hand,        \* tasks that a person is playing under that staff code
    run,         \* portal run rows
    age,         \* how many rows were updated after each created row
    cycle,       \* status of each worker's latest scout cycle row
    pc,          \* next call of each worker
    loc,         \* local variables of each worker's cycle
    executing,   \* runs with a live Archon workflow
    humanActs, crashes

pave == <<status, ready, mine, hand>>
portal == <<run, age, cycle>>
bounds == <<humanActs, crashes>>
vars == <<status, ready, mine, hand, run, age, cycle, pc, loc, executing,
          humanActs, crashes>>

-----------------------------------------------------------------------------
(* Types                                                                   *)

PaveStatus == {"OPN", "WRK", "SUS", "CMP"}
RunStatus == {"queued", "dry_run", "running", "claimed", "stalled",
              "suspended", "failed", "completed"}
CycleStatus == {"none", "running", "ready", "blocked", "stalled"}
Label == {"idle", "cycle", "stall", "global", "board", "polled", "resolve",
          "lookup", "create", "gates", "park", "fresh", "claim", "start",
          "claimed", "dispatch", "dispatched", "suspend", "assign", "record"}

\* Where a cycle has a run row of its own, and where it knows its task.
WithRun == {"gates", "park", "fresh", "claim", "start", "claimed", "dispatch",
            "dispatched"}
Resolved == WithRun \cup {"lookup", "create", "suspend", "assign", "record"}

Row == [task : Task, status : PaveStatus, ready : BOOLEAN,
        src : {"staff", "global", "board"}]
ASSUME NoneIsNoRow == None \notin Row

Run == [task : Task \cup {None}, status : RunStatus, dry : BOOLEAN,
        noMutation : BOOLEAN, attempted : BOOLEAN]
NoRun == [task |-> None, status |-> "none", dry |-> FALSE,
          noMutation |-> FALSE, attempted |-> FALSE]
Local == [dry : BOOLEAN, tasks : SUBSET Row, glow : SUBSET Row,
          error : BOOLEAN, sel : Row \cup {None}, task : Task \cup {None},
          rid : RunId \cup {None}, done : SUBSET {"suspend", "assign"}]
AtRest == [dry |-> FALSE, tasks |-> {}, glow |-> {}, error |-> FALSE,
           sel |-> None, task |-> None, rid |-> None, done |-> {}]

TypeOK ==
    /\ status \in [Task -> PaveStatus]
    /\ ready \subseteq Task
    /\ mine \subseteq Task
    /\ hand \subseteq Task
    /\ run \in [RunId -> Run \cup {NoRun}]
    /\ age \in [RunId -> Nat]
    /\ cycle \in [Worker -> CycleStatus]
    /\ pc \in [Worker -> Label]
    /\ loc \in [Worker -> Local]
    /\ \A w \in Worker :
          /\ pc[w] = "resolve" => loc[w].sel # None
          /\ pc[w] \in Resolved => loc[w].task # None
          /\ pc[w] \in WithRun => loc[w].rid # None
    /\ executing \subseteq RunId
    /\ humanActs \in Nat
    /\ crashes \in Nat

-----------------------------------------------------------------------------
(* The PAVE board, as the lifecycle calls see it                            *)

Playing == {t \in mine : status[t] = "WRK"}

\* PAVE plays one task per staff code: starting t suspends the others.
StatusAfterStart(t) ==
    [u \in Task |-> IF u = t THEN "WRK"
                    ELSE IF u \in Playing THEN "SUS" ELSE status[u]]

ScoutStarts(t) ==
    /\ status' = StatusAfterStart(t)
    /\ hand' = hand \cap {t}

Startable(t) == t \in mine /\ t \in ready /\ status[t] \in {"OPN", "SUS"}

RowOf(t, source) ==
    [task |-> t, status |-> status[t], src |-> source,
     ready |-> t \in ready /\ source # "global"]

\* Listings show what is assigned to the staff code and not completed.
Listed(tasks) == {t \in tasks \cap mine : status[t] # "CMP"}
StaffRows == {RowOf(t, "staff") : t \in Listed(StaffListed)}
GlobalRows == {RowOf(t, "global") : t \in Playing}
BoardRows == {RowOf(t, "board") : t \in Listed(BoardTask)}

-----------------------------------------------------------------------------
(* The portal's run rows                                                   *)

ActiveStatus(dry) ==
    {"queued", "claimed", "running", "stalled"}
        \cup (IF dry THEN {"dry_run"} ELSE {})

Free == {r \in RunId : run[r] = NoRun}

\* Row r becomes the most recently updated one.
Touch(r) ==
    age' = [q \in RunId |->
              IF q = r THEN 0
              ELSE IF q \notin Free /\ (r \in Free \/ age[q] < age[r])
                   THEN age[q] + 1
              ELSE age[q]]

\* Mutant of ActiveRun: the lookup reads the latest row only.
ActiveRunInLatestRow(t, dry) ==
    LET hits == {r \in RunId :
                    /\ run[r].task = t
                    /\ run[r].status \in ActiveStatus(dry)
                    /\ age[r] = 0 /\ r \notin Free}
    IN  IF hits = {} THEN None ELSE CHOOSE r \in hits : TRUE

\* The newest active row for t among the rows the lookup reads, or None.
ActiveRun(t, dry) ==
    LET hits == {r \in RunId :
                    /\ run[r].task = t
                    /\ run[r].status \in ActiveStatus(dry)
                    /\ age[r] < Window}
    IN  IF hits = {} THEN None
        ELSE CHOOSE r \in hits : \A q \in hits : age[r] <= age[q]

Patch(r, row) ==
    /\ run' = [run EXCEPT ![r] = row]
    /\ Touch(r)

-----------------------------------------------------------------------------
(* Helpers of a cycle                                                      *)

Goto(w, l) == pc' = [pc EXCEPT ![w] = l]

Return(w) ==
    /\ pc' = [pc EXCEPT ![w] = "idle"]
    /\ loc' = [loc EXCEPT ![w] = AtRest]

FinishCycle(w, s) == cycle' = [cycle EXCEPT ![w] = s]

find_playing(rows) == {x \in rows : x.status = "WRK"}

candidates(rows) ==
    {x \in rows : x.task \in BoardTask /\ x.ready /\ x.status # "WRK"}

-----------------------------------------------------------------------------
(* One cycle                                                               *)

\* Register, report readiness and tooling, then open a scout cycle.
BeginCycle(w) ==
    /\ pc[w] = "idle"
    /\ Free # {}
    /\ \E dry \in DryModes : loc' = [loc EXCEPT ![w] = [AtRest EXCEPT !.dry = dry]]
    /\ FinishCycle(w, "running")
    /\ Goto(w, "cycle")
    /\ UNCHANGED <<pave, run, age, executing, bounds>>

\* A required MCP is not ready: the cycle stalls before PAVE is polled.
McpNotReady(w) ==
    /\ pc[w] = "cycle"
    /\ "mcp" \in Faults
    /\ FinishCycle(w, "stalled")
    /\ Goto(w, "stall")
    /\ UNCHANGED <<pave, run, age, loc, executing, bounds>>

\* Each such cycle leaves a run row of its own, without a task.
CreateStallRun(w) ==
    /\ pc[w] = "stall"
    /\ \E r \in Free :
          Patch(r, [NoRun EXCEPT !.status = "stalled", !.noMutation = TRUE])
    /\ Return(w)
    /\ UNCHANGED <<pave, cycle, executing, bounds>>

EdiMissing(w) ==
    /\ pc[w] = "cycle"
    /\ "edi" \in Faults
    /\ FinishCycle(w, "stalled")
    /\ Return(w)
    /\ UNCHANGED <<pave, run, age, executing, bounds>>

ListStaffTasks(w) ==
    /\ pc[w] = "cycle"
    /\ loc' = [loc EXCEPT ![w].tasks = StaffRows]
    /\ Goto(w, IF Fallback THEN "global" ELSE "polled")
    /\ UNCHANGED <<pave, portal, executing, bounds>>

ListGlobalPlaying(w) ==
    /\ pc[w] = "global"
    /\ loc' = [loc EXCEPT ![w].glow = GlobalRows]
    /\ Goto(w, "board")
    /\ UNCHANGED <<pave, portal, executing, bounds>>

\* Mutant of ListBoardChannel: the global answer only removes duplicates.
KeepBoardRowsOnly(w) ==
    /\ pc[w] = "board"
    /\ LET seen == {x.task : x \in loc[w].glow}
           extra == {x \in BoardRows : x.task \notin seen}
       IN loc' = [loc EXCEPT ![w].tasks = @ \cup extra, ![w].glow = {}]
    /\ Goto(w, "polled")
    /\ UNCHANGED <<pave, portal, executing, bounds>>

\* Both Glow answers are merged after the second call; a board row whose task
\* id the global query already returned is dropped.
ListBoardChannel(w) ==
    /\ pc[w] = "board"
    /\ LET seen == {x.task : x \in loc[w].glow}
           extra == {x \in BoardRows : x.task \notin seen}
       IN loc' = [loc EXCEPT ![w].tasks = @ \cup loc[w].glow \cup extra,
                             ![w].glow = {}]
    /\ Goto(w, "polled")
    /\ UNCHANGED <<pave, portal, executing, bounds>>

\* Either Glow call fails: both answers are lost and the error is remembered.
GlowFails(w) ==
    /\ pc[w] \in {"global", "board"}
    /\ "glow" \in Faults
    /\ loc' = [loc EXCEPT ![w].glow = {}, ![w].error = TRUE]
    /\ Goto(w, "polled")
    /\ UNCHANGED <<pave, portal, executing, bounds>>

PollFailed(w) ==
    /\ pc[w] = "polled"
    /\ loc[w].error /\ loc[w].tasks = {}
    /\ FinishCycle(w, "stalled")
    /\ Return(w)
    /\ UNCHANGED <<pave, run, age, executing, bounds>>

PlayingTaskPresent(w) ==
    /\ pc[w] = "polled"
    /\ find_playing(loc[w].tasks) # {}
    /\ FinishCycle(w, "blocked")
    /\ Return(w)
    /\ UNCHANGED <<pave, run, age, executing, bounds>>

NoStartableWork(w) ==
    /\ pc[w] = "polled"
    /\ ~ (loc[w].error /\ loc[w].tasks = {})
    /\ find_playing(loc[w].tasks) = {}
    /\ candidates(loc[w].tasks) = {}
    /\ FinishCycle(w, "ready")
    /\ Return(w)
    /\ UNCHANGED <<pave, run, age, executing, bounds>>

\* The lowest sort key wins; rows of one task from two listings may tie.
SelectCandidate(w) ==
    /\ pc[w] = "polled"
    /\ find_playing(loc[w].tasks) = {}
    /\ \E x \in candidates(loc[w].tasks) :
          /\ \A y \in candidates(loc[w].tasks) : Rank[x.task] <= Rank[y.task]
          /\ loc' = [loc EXCEPT ![w].sel = x, ![w].tasks = {}]
    /\ Goto(w, "resolve")
    /\ UNCHANGED <<pave, portal, executing, bounds>>

\* A board row carries its task id; a staff row is matched again, field by
\* field, against PAVE's current tasks.  (Fields may also match a twin alone,
\* when the task itself no longer does: edi_cli.py:533-541 then takes the twin.
\* The model gives up instead, as with several matches.)
StillMatches(x) ==
    x.src = "board" \/ (status[x.task] = x.status /\ x.task \in ready)

ResolveTask(w) ==
    /\ pc[w] = "resolve"
    /\ StillMatches(loc[w].sel)
    /\ loc' = [loc EXCEPT ![w].task = loc[w].sel.task, ![w].sel = None]
    /\ FinishCycle(w, "ready")
    /\ Goto(w, "lookup")
    /\ UNCHANGED <<pave, run, age, executing, bounds>>

ResolutionFails(w) ==
    /\ pc[w] = "resolve"
    /\ loc[w].sel.src = "staff"
    /\ ~ StillMatches(loc[w].sel) \/ "twin" \in Faults
    /\ FinishCycle(w, "stalled")
    /\ Return(w)
    /\ UNCHANGED <<pave, run, age, executing, bounds>>

NoActiveRun(w) ==
    /\ pc[w] = "lookup"
    /\ ActiveRun(loc[w].task, loc[w].dry) = None
    /\ Goto(w, "create")
    /\ UNCHANGED <<pave, portal, loc, executing, bounds>>

\* The task already has an active row: nothing is started.  A dry-run scout
\* corrects a "queued" row that an older build left for a dry run.
AlreadyQueued(w) ==
    LET r == ActiveRun(loc[w].task, loc[w].dry)
    IN  /\ pc[w] = "lookup"
        /\ r # None
        /\ IF loc[w].dry /\ run[r].status = "queued" /\ run[r].dry
           THEN Patch(r, [run[r] EXCEPT !.status = "dry_run"])
           ELSE UNCHANGED <<run, age>>
        /\ FinishCycle(w, "ready")
        /\ Return(w)
        /\ UNCHANGED <<pave, executing, bounds>>

\* The row and the handoff; a dry run ends here.
CreateRun(w) ==
    LET dry == loc[w].dry
    IN  /\ pc[w] = "create"
        /\ \E r \in Free :
              /\ Patch(r, [NoRun EXCEPT !.task = loc[w].task, !.dry = dry,
                              !.status = IF dry THEN "dry_run" ELSE "queued"])
              /\ IF dry THEN Return(w)
                 ELSE /\ loc' = [loc EXCEPT ![w].rid = r]
                      /\ Goto(w, "gates")
        /\ UNCHANGED <<pave, cycle, executing, bounds>>

\* Archon execution disabled, archon missing, or OAuth staff mismatch.
GatesRefuse(w) ==
    /\ pc[w] = "gates"
    /\ "config" \in Faults
    /\ FinishCycle(w, "stalled")
    /\ Goto(w, "park")
    /\ UNCHANGED <<pave, run, age, loc, executing, bounds>>

GatesPass(w) ==
    /\ pc[w] = "gates"
    /\ Goto(w, "fresh")
    /\ UNCHANGED <<pave, portal, loc, executing, bounds>>

\* Mutants of FreshCheckPasses: no second look; the row is not patched first.
NoFreshCheck(w) ==
    /\ pc[w] = "fresh"
    /\ Goto(w, "claim")
    /\ UNCHANGED <<pave, portal, loc, executing, bounds>>

StartUnannounced(w) ==
    /\ pc[w] = "fresh"
    /\ find_playing(StaffRows) = {}
    /\ Goto(w, "start")
    /\ UNCHANGED <<pave, portal, loc, executing, bounds>>

\* The second look before claim/start: the staff listing only, no Glow query.
FreshCheckPasses(w) ==
    /\ pc[w] = "fresh"
    /\ find_playing(StaffRows) = {}
    /\ Goto(w, "claim")
    /\ UNCHANGED <<pave, portal, loc, executing, bounds>>

FreshCheckBlocks(w) ==
    /\ pc[w] = "fresh"
    /\ find_playing(StaffRows) # {}
    /\ FinishCycle(w, "blocked")
    /\ Goto(w, "park")
    /\ UNCHANGED <<pave, run, age, loc, executing, bounds>>

\* Mutant of ParkRun: the return after it is forgotten.
ParkRunAndGoOn(w) ==
    /\ pc[w] = "park"
    /\ Patch(loc[w].rid, [run[loc[w].rid] EXCEPT !.status = "stalled",
                                                 !.noMutation = TRUE])
    /\ Goto(w, "claim")
    /\ UNCHANGED <<pave, cycle, loc, executing, bounds>>

\* The run is stalled with no_pave_mutation: nothing was asked of PAVE.
ParkRun(w) ==
    /\ pc[w] = "park"
    /\ Patch(loc[w].rid, [run[loc[w].rid] EXCEPT !.status = "stalled",
                                                 !.noMutation = TRUE])
    /\ Return(w)
    /\ UNCHANGED <<pave, cycle, executing, bounds>>

\* Mutant of RecordClaimAttempt: the metadata is not sent.
RecordRunningOnly(w) ==
    /\ pc[w] = "claim"
    /\ Patch(loc[w].rid, [run[loc[w].rid] EXCEPT !.status = "running"])
    /\ Goto(w, "start")
    /\ UNCHANGED <<pave, cycle, loc, executing, bounds>>

RecordClaimAttempt(w) ==
    /\ pc[w] = "claim"
    /\ Patch(loc[w].rid, [run[loc[w].rid] EXCEPT !.status = "running",
                                                 !.attempted = TRUE])
    /\ Goto(w, "start")
    /\ UNCHANGED <<pave, cycle, loc, executing, bounds>>

StartSucceeds(w) ==
    /\ pc[w] = "start"
    /\ loc[w].task \in mine /\ status[loc[w].task] # "CMP"
    /\ ScoutStarts(loc[w].task)
    /\ Goto(w, "claimed")
    /\ UNCHANGED <<ready, mine, portal, loc, executing, bounds>>

\* Mutants of StartFails: the error is swallowed; it is logged and forgotten.
SwallowStartError(w) ==
    /\ pc[w] = "start"
    /\ "start" \in Faults \/ status[loc[w].task] \in {"CMP", "WRK"}
    /\ Goto(w, "claimed")
    /\ UNCHANGED <<pave, portal, loc, executing, bounds>>

ForgetStartError(w) ==
    /\ pc[w] = "start"
    /\ "start" \in Faults
    /\ Return(w)
    /\ UNCHANGED <<pave, portal, executing, bounds>>

\* EdiCliError: PAVE refused (the task is gone, done or already playing), the
\* call failed, or it timed out after PAVE had carried it out.
StartFails(w) ==
    /\ pc[w] = "start"
    /\ \/ /\ \/ "start" \in Faults
             \/ loc[w].task \notin mine
             \/ status[loc[w].task] \in {"CMP", "WRK"}
          /\ UNCHANGED <<status, hand>>
       \/ /\ "start" \in Faults
          /\ loc[w].task \in mine /\ status[loc[w].task] # "CMP"
          /\ ScoutStarts(loc[w].task)
    /\ Goto(w, "suspend")
    /\ UNCHANGED <<ready, mine, portal, loc, executing, bounds>>

RecordClaimed(w) ==
    /\ pc[w] = "claimed"
    /\ Patch(loc[w].rid, [run[loc[w].rid] EXCEPT !.status = "claimed"])
    /\ Goto(w, "dispatch")
    /\ UNCHANGED <<pave, cycle, loc, executing, bounds>>

DispatchSucceeds(w) ==
    /\ pc[w] = "dispatch"
    /\ executing' = executing \cup {loc[w].rid}
    /\ Goto(w, "dispatched")
    /\ UNCHANGED <<pave, portal, loc, bounds>>

\* archon refuses, or the 60 s limit expires after it launched the workflow.
DispatchFails(w) ==
    /\ pc[w] = "dispatch"
    /\ "dispatch" \in Faults
    /\ executing' \in {executing, executing \cup {loc[w].rid}}
    /\ Goto(w, "suspend")
    /\ UNCHANGED <<pave, portal, loc, bounds>>

RecordDispatched(w) ==
    /\ pc[w] = "dispatched"
    /\ Patch(loc[w].rid, [run[loc[w].rid] EXCEPT !.status = "running"])
    /\ Return(w)
    /\ UNCHANGED <<pave, cycle, executing, bounds>>

-----------------------------------------------------------------------------
(* escalate_task_to_guardian: note, suspend and assign each fail on their   *)
(* own; the row records what succeeded.                                     *)

\* --escalate-task-id: an operator's escalation, without a run.  It is a process
\* of its own (worker.py:1609); a scout between two cycles stands for it.
OperatorEscalates(w) ==
    /\ pc[w] = "idle"
    /\ Free # {}
    /\ \E t \in OperatorTask : loc' = [loc EXCEPT ![w] = [AtRest EXCEPT !.task = t]]
    /\ Goto(w, "suspend")
    /\ UNCHANGED <<pave, portal, executing, bounds>>

\* PAVE suspends only a playing task; a call may also fail after its effect.
EscalateSuspend(w) ==
    LET t == loc[w].task
    IN  /\ pc[w] = "suspend"
        /\ \/ /\ status[t] = "WRK"
              /\ status' = [status EXCEPT ![t] = "SUS"]
              /\ hand' = hand \ {t}
              /\ \/ loc' = [loc EXCEPT ![w].done = @ \cup {"suspend"}]
                 \/ "suspend" \in Faults /\ loc' = loc
           \/ /\ status[t] # "WRK" \/ "suspend" \in Faults
              /\ UNCHANGED <<status, hand, loc>>
        /\ Goto(w, "assign")
        /\ UNCHANGED <<ready, mine, portal, executing, bounds>>

EscalateAssign(w) ==
    LET t == loc[w].task
    IN  /\ pc[w] = "assign"
        /\ \/ /\ mine' = mine \ {t}
              /\ \/ loc' = [loc EXCEPT ![w].done = @ \cup {"assign"}]
                 \/ "assign" \in Faults /\ loc' = loc
           \/ "assign" \in Faults /\ UNCHANGED <<mine, loc>>
        /\ Goto(w, "record")
        /\ UNCHANGED <<status, ready, hand, portal, executing, bounds>>

\* Mutant of EscalationStatus: a status that no row may have.
EscalationStatusAssigned(done) ==
    IF "assign" \in done THEN "assigned" ELSE "failed"

EscalationStatus(done) ==
    IF "assign" \notin done THEN "failed"
    ELSE IF "suspend" \in done THEN "suspended" ELSE "stalled"

RecordEscalation(w) ==
    LET outcome == EscalationStatus(loc[w].done)
    IN  /\ pc[w] = "record"
        /\ IF loc[w].rid # None
           THEN Patch(loc[w].rid, [run[loc[w].rid] EXCEPT !.status = outcome])
           ELSE \E r \in Free :
                   Patch(r, [NoRun EXCEPT !.task = loc[w].task, !.status = outcome])
        /\ Return(w)
        /\ UNCHANGED <<pave, cycle, executing, bounds>>

-----------------------------------------------------------------------------
(* Everything else                                                         *)

\* An exception that run_loop swallows, or the process dies and is restarted.
AbandonCycle(w) ==
    /\ pc[w] # "idle"
    /\ "crash" \in Faults
    /\ crashes < MaxCrashes
    /\ crashes' = crashes + 1
    /\ Return(w)
    /\ UNCHANGED <<pave, portal, executing, humanActs>>

HumanPlays(t) ==
    /\ humanActs < MaxHumanActs
    /\ t \in mine /\ status[t] \in {"OPN", "SUS"}
    /\ status' = StatusAfterStart(t)
    /\ hand' = {t}
    /\ humanActs' = humanActs + 1
    /\ UNCHANGED <<ready, mine, portal, pc, loc, executing, crashes>>

HumanStops(t) ==
    /\ t \in hand \cap Playing
    /\ \E s \in {"SUS", "CMP"} : status' = [status EXCEPT ![t] = s]
    /\ hand' = hand \ {t}
    /\ UNCHANGED <<ready, mine, portal, pc, loc, executing, bounds>>

\* A person suspends or completes what the scout or its workflow is playing.
HumanTakesOver(t) ==
    /\ humanActs < MaxHumanActs
    /\ t \in Playing \ hand
    /\ \E s \in {"SUS", "CMP"} : status' = [status EXCEPT ![t] = s]
    /\ humanActs' = humanActs + 1
    /\ UNCHANGED <<ready, mine, hand, portal, pc, loc, executing, crashes>>

PrerequisitesMet(t) ==
    /\ t \notin ready
    /\ ready' = ready \cup {t}
    /\ UNCHANGED <<status, mine, hand, portal, pc, loc, executing, bounds>>

\* The Archon workflow's close-or-suspend node: the task is completed, or
\* suspended and assigned to the guardian, or was no longer its to close.
ArchonEnds(r) ==
    LET t == run[r].task
    IN  /\ r \in executing
        /\ executing' = executing \ {r}
        /\ \/ /\ t \in Playing
              /\ status' = [status EXCEPT ![t] = "CMP"]
              /\ mine' = mine
              /\ Patch(r, [run[r] EXCEPT !.status = "completed"])
           \/ /\ t \in Playing
              /\ status' = [status EXCEPT ![t] = "SUS"]
              /\ mine' = mine \ {t}
              /\ Patch(r, [run[r] EXCEPT !.status = "suspended"])
           \/ /\ t \notin Playing
              /\ UNCHANGED <<status, mine>>
              /\ Patch(r, [run[r] EXCEPT !.status = "failed"])
        /\ UNCHANGED <<ready, hand, cycle, pc, loc, bounds>>

-----------------------------------------------------------------------------
Init ==
    /\ status = [t \in Task |-> "OPN"]
    /\ ready \in SUBSET Task
    /\ mine = Task
    /\ hand = {}
    /\ \/ LegacyRow = None /\ run = [r \in RunId |-> NoRun]
       \/ /\ LegacyRow # None
          /\ \E q \in RunId :
                run = [r \in RunId |->
                         IF r = q THEN [NoRun EXCEPT !.task = LegacyRow,
                                          !.status = "queued", !.dry = TRUE]
                         ELSE NoRun]
    /\ age = [r \in RunId |-> 0]
    /\ cycle = [w \in Worker |-> "none"]
    /\ pc = [w \in Worker |-> "idle"]
    /\ loc = [w \in Worker |-> AtRest]
    /\ executing = {}
    /\ humanActs = 0
    /\ crashes = 0

Scout(w) ==
    \/ BeginCycle(w) \/ McpNotReady(w) \/ CreateStallRun(w) \/ EdiMissing(w)
    \/ ListStaffTasks(w) \/ ListGlobalPlaying(w) \/ ListBoardChannel(w)
    \/ GlowFails(w) \/ PollFailed(w) \/ PlayingTaskPresent(w)
    \/ NoStartableWork(w) \/ SelectCandidate(w) \/ ResolveTask(w)
    \/ ResolutionFails(w) \/ NoActiveRun(w) \/ AlreadyQueued(w)
    \/ CreateRun(w) \/ GatesRefuse(w) \/ GatesPass(w)
    \/ FreshCheckPasses(w) \/ FreshCheckBlocks(w) \/ ParkRun(w)
    \/ RecordClaimAttempt(w) \/ StartSucceeds(w) \/ StartFails(w)
    \/ RecordClaimed(w) \/ DispatchSucceeds(w) \/ DispatchFails(w)
    \/ RecordDispatched(w) \/ EscalateSuspend(w) \/ EscalateAssign(w)
    \/ RecordEscalation(w)

Environment ==
    \/ \E w \in Worker : OperatorEscalates(w) \/ AbandonCycle(w)
    \/ \E t \in Task : \/ HumanPlays(t) \/ HumanStops(t) \/ HumanTakesOver(t)
                       \/ PrerequisitesMet(t)
    \/ \E r \in RunId : ArchonEnds(r)

Next == Environment \/ \E w \in Worker : Scout(w)

Spec == Init /\ [][Next]_vars

-----------------------------------------------------------------------------
(* Properties                                                              *)

\* One scout process that looks far enough back never keeps two active rows
\* for one task: a row that a crash left behind is found, not duplicated.  (An
\* operator's --escalate-task-id looks for no row before it creates its own.)
OneActiveRunPerTask ==
    \A r, q \in RunId :
        /\ run[r].task \notin OperatorTask \cup {None} /\ run[r].task = run[q].task
        /\ {run[r].status, run[q].status} \subseteq ActiveStatus(FALSE)
        => r = q

\* w calls edi.start_task; its local variables are still those of the call.
Calls(w) == pc[w] = "start" /\ pc'[w] \in {"claimed", "suspend"}

\* No start call suspends another task of the staff code (README.md:144): until
\* a person has acted, a scout that is alone with its executors, and whose Glow
\* queries are answered, never plays over its own work.
NeverSuspendsPlayingTask ==
    [][\A w \in Worker : humanActs = 0 /\ Calls(w) /\ ~ loc[w].error =>
          \A t \in Playing : t # loc[w].task => status'[t] = "WRK"]_vars

\* A scout polls on for ever, a workflow ends, and a person who plays a task
\* stops it; nothing else is owed.
Fairness ==
    /\ \A w \in Worker : WF_vars(Scout(w))
    /\ \A r \in RunId : WF_vars(ArchonEnds(r))
    /\ \A t \in Task : WF_vars(HumanStops(t))

FairSpec == Spec /\ Fairness

\* A startable board task does not stay startable for ever: it is started,
\* or handed to the guardian.  (With a scout that neither crashes nor is
\* refused by its configuration.)
EveryTaskServed ==
    \A t \in BoardTask : Startable(t) ~> ~ Startable(t)
=============================================================================
