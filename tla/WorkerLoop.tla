----------------------------- MODULE WorkerLoop -----------------------------
(***************************************************************************)
(* The worker around its scout cycles: it registers, probes its MCPs, posts *)
(* what it found, reports its tools, carries out update jobs and sleeps;    *)
(* run with an option it only checks the tools, or uploads the evidence of  *)
(* a run, and ends.  The portal keeps the rows and shows the live ones.     *)
(* One action per request or command; what a request does inside its        *)
(* database is RowStore, what a cycle does with PAVE is FactoryScout.       *)
(***************************************************************************)
EXTENDS Integers, Sequences, FiniteSets

CONSTANTS
    Process,
    Host,         \* machines; _stable_instance_id makes one instance of each
    Portal,       \* stands for instance_id None in the inventory and the jobs
    HostOf,       \* where each process runs
    REQUIRED_MCPS,
    DryRun,       \* FACTORY_SCOUT_DRY_RUN
    Stale,        \* FACTORY_INSTANCE_STALE_SECONDS, in ticks
    JobLimit,     \* list_tooling_update_jobs(limit)
    ReportLimit,  \* list_run_events(limit) of an evidence report
    Requests,     \* tool, kind and instance of the update jobs asked for
    Conditions,   \* what may become of a host
    \* bounds: calls that fail, changes of the world and of pauses, jobs,
    \* versions of the tool
    MaxFaults, MaxChanges, MaxJobs, MaxVersion

Mcp == {REQUIRED_MCPS[n] : n \in DOMAIN REQUIRED_MCPS}
Owner == Host \cup {Portal}

\* main's options: none, --check-tooling, --escalate-task-id,
\* --upload-evidence-run-id; --once is "loop", killed after its cycle.
Mode == {"loop", "check", "escalate", "evidence"}

Facts == [listed : SUBSET Mcp, profile : {"own", "other", "error"}, checkout : Nat]
Tool == [installed : Nat, latest : Nat, reported : BOOLEAN]

ASSUME WorkerLoopAssumption ==
    /\ Portal \notin Host
    /\ HostOf \in [Process -> Host]
    /\ Requests \subseteq Owner \X {"git", "other"} \X Owner
    /\ Conditions \subseteq Facts
    /\ DryRun \in BOOLEAN
    /\ {Stale, JobLimit, ReportLimit, MaxFaults, MaxChanges, MaxJobs, MaxVersion} \subseteq Nat

VARIABLES
    instance,   \* factory_instances
    mcp,        \* latest row of factory_mcp_readiness, by instance and name
    inventory,  \* factory_tooling_inventory: the git tool, by instance
    jobs,       \* factory_tooling_update_jobs, by created_at
    run,        \* the run whose evidence is uploaded, and its eDoc attempts
    worker,     \* the processes
    facts,      \* of each host: MCPs that codex lists, edi's profile, checkout
    remote,     \* HEAD of the tool's origin
    eDoc,       \* reports that reached the job in PAVE
    pulled,     \* jobs for which some git pull succeeded
    abandoned,  \* jobs that a process had in hand when it failed
    faults, changes

vars == <<instance, mcp, inventory, jobs, run, worker, facts, remote, eDoc,
          pulled, abandoned, faults, changes>>
portal == <<instance, mcp, inventory, jobs, run>>
world == <<facts, remote, eDoc, pulled, changes>>

NoInstance == [status |-> "none", is_paused |-> FALSE, age |-> 0]
NoTool == [installed |-> 0, latest |-> 0, reported |-> FALSE]
Reading(installed, latest) ==
    [installed |-> installed, latest |-> latest, reported |-> TRUE]
Healthy == [listed |-> Mcp, profile |-> "own", checkout |-> 1]
Off == [mode |-> "off", pc |-> "off", found |-> <<>>, reading |-> NoTool,
        todo |-> <<>>, again |-> FALSE, verdict |-> "", seen |-> 0]
\* "again": the report after the jobs; of a sleeper, that its cycle went well.
Sleeping(well) == [Off EXCEPT !.mode = "loop", !.pc = "sleep", !.again = well]
NeverRun == [Off EXCEPT !.mode = "new"]

Init ==
    /\ instance = [h \in Host |-> NoInstance]
    /\ mcp = [h \in Host |-> [m \in Mcp |-> "none"]]
    /\ inventory = [o \in Owner |-> NoTool]
    /\ jobs = <<>>
    /\ run = [e_doc_status |-> "none", uploads |-> {}, events |-> 1]
    /\ worker = [p \in Process |-> NeverRun]
    /\ facts = [h \in Host |-> Healthy]
    /\ remote = 1
    /\ eDoc = {} /\ pulled = {} /\ abandoned = {}
    /\ faults = 0 /\ changes = 0

-----------------------------------------------------------------------------
(* What the portal answers.                                                *)

_is_live_instance(h) ==
    \/ instance[h].is_paused
    \/ instance[h].status \in {"paused", "stalled"}
    \/ instance[h].age <= Stale

list_stalled_mcps ==
    {at \in Host \X Mcp :
        /\ _is_live_instance(at[1])
        /\ mcp[at[1]][at[2]] \in {"stale", "unauthenticated", "unavailable", "degraded"}}

list_tooling_inventory ==
    {o \in Owner : inventory[o].reported /\ (o \in Host => _is_live_instance(o))}

\* The newest JobLimit jobs, whatever their status; then the queued ones that
\* this instance may take, newest first, with the tool if it is listed.
Newest == {j \in DOMAIN jobs : j > Len(jobs) - JobLimit}

\* Mutant: the jobs of the dashboard, which name no instance, are nobody's.
OwnOnly(h) == {j \in Newest : jobs[j].status = "queued" /\ jobs[j].instance = h}

VisibleTo(h) ==
    {j \in Newest : jobs[j].status = "queued" /\ jobs[j].instance \in {Portal, h}}

worker_list_tooling_update_jobs(h) ==
    LET newestFirst == [n \in 1..Len(jobs) |-> Len(jobs) + 1 - n]
        visible(j) == j \in VisibleTo(h)
        joined(j) == [id |-> j, git |-> /\ jobs[j].tool \in list_tooling_inventory
                                        /\ jobs[j].kind = "git"]
        chosen == SelectSeq(newestFirst, visible)
    IN  [n \in DOMAIN chosen |-> joined(chosen[n])]

-----------------------------------------------------------------------------
(* How a process goes on.                                                  *)

At(p, pc) == worker[p].pc = pc
InHand(p) ==
    IF worker[p].pc \in {"judge", "verdict"} THEN {Head(worker[p].todo).id} ELSE {}

Goes(p, w) ==
    /\ worker' = [worker EXCEPT ![p] = w]
    /\ UNCHANGED <<abandoned, faults>>

Breaks(p, w, hand) ==
    /\ faults < MaxFaults
    /\ faults' = faults + 1
    /\ abandoned' = abandoned \cup hand
    /\ worker' = [worker EXCEPT ![p] = w]

\* run_loop catches every exception of a cycle and sleeps; everything else,
\* main's own registration included, ends the process.  (So does run_loop's
\* wait for the portal, before the first cycle: that end is Dies.)
Raises(p, hand) ==
    LET inCycle == worker[p].mode = "loop" /\ worker[p].pc # "boot"
    IN  Breaks(p, IF inCycle THEN Sleeping(FALSE) ELSE Off, hand)

\* The portal has done what was asked; the answer may be lost.
Answered(p, w) == Goes(p, w) \/ Raises(p, InHand(p))

\* The portal was not reached, or a command that must answer did not.
CallFails(p) ==
    /\ worker[p].pc \notin {"off", "sleep"}
    /\ Raises(p, InHand(p))
    /\ UNCHANGED <<portal, world>>

\* The process is killed; whoever starts it again starts a new one.
Dies(p) ==
    /\ worker[p].pc # "off"
    /\ Breaks(p, Off, InHand(p))
    /\ UNCHANGED <<portal, world>>

-----------------------------------------------------------------------------
(* A cycle up to its scout.                                                *)

main(p, mode) ==
    /\ At(p, "off")
    /\ Goes(p, [Off EXCEPT !.mode = mode, !.pc = "boot"])
    /\ UNCHANGED <<portal, world>>

upsert_instance(h) ==
    instance' = [instance EXCEPT ![h].status = "ready", ![h].age = 0]

\* An escalation is FactoryScout's.
AfterBoot == [loop |-> "register", check |-> "probe", evidence |-> "fetch"]

register_instance(p) ==
    /\ worker[p].pc \in {"boot", "register"}
    /\ upsert_instance(HostOf[p])
    /\ Answered(p, IF worker[p].mode = "escalate" THEN Off
                   ELSE [worker[p] EXCEPT !.pc =
                           IF @ = "register" THEN "probe" ELSE AfterBoot[worker[p].mode]])
    /\ UNCHANGED <<mcp, inventory, jobs, run, world>>

probe_mcps(h) ==
    [m \in Mcp |->
        CASE m \notin facts[h].listed -> "unavailable"
          [] m = "ediprod" /\ facts[h].profile = "error" -> "unauthenticated"
          [] m = "ediprod" /\ facts[h].profile = "other" /\ ~DryRun -> "degraded"
          [] OTHER -> "ready"]

Probes(p) ==
    /\ At(p, "probe")
    /\ LET status == probe_mcps(HostOf[p])
       IN  Goes(p, [worker[p] EXCEPT !.pc = "post",
                      !.found = [n \in DOMAIN REQUIRED_MCPS |-> status[REQUIRED_MCPS[n]]]])
    /\ UNCHANGED <<portal, world>>

\* Mutant: only what is ready is recorded.
RecordsReady(h, m, status) ==
    mcp' = IF status = "ready" THEN [mcp EXCEPT ![h][m] = status] ELSE mcp

record_mcp_readiness(h, m, status) == mcp' = [mcp EXCEPT ![h][m] = status]

PostsReadiness(p) ==
    LET status == Head(worker[p].found)
        rest == Tail(worker[p].found)
    IN  /\ At(p, "post")
        /\ record_mcp_readiness(HostOf[p], REQUIRED_MCPS[Len(REQUIRED_MCPS) - Len(rest)], status)
        /\ Answered(p, [worker[p] EXCEPT
               !.pc = IF rest = <<>> THEN "beat" ELSE "post",
               !.found = rest,
               !.verdict = IF status = "ready" THEN @ ELSE "stalled"])
        /\ UNCHANGED <<instance, inventory, jobs, run, world>>

heartbeat_instance(p) ==
    /\ At(p, "beat")
    /\ instance' = [instance EXCEPT ![HostOf[p]].age = 0, ![HostOf[p]].status =
                      IF worker[p].verdict = "stalled" THEN "stalled" ELSE "ready"]
    /\ Answered(p, [worker[p] EXCEPT !.pc = "collect", !.verdict = ""])
    /\ UNCHANGED <<mcp, inventory, jobs, run, world>>

\* The remote may not be reached, and git may fail to name the commit (counted
\* as a fault); without a checkout there is neither.
collect_tooling_inventory(p) ==
    LET checkout == facts[HostOf[p]].checkout
        collected(head, latest) ==
            [worker[p] EXCEPT !.pc = "inventory",
               !.reading = Reading(head, IF checkout = 0 THEN 0 ELSE latest)]
    IN  /\ At(p, "collect")
        /\ \E latest \in {0, remote} :
              \/ Goes(p, collected(checkout, latest))
              \/ Breaks(p, collected(0, latest), {})
    /\ UNCHANGED <<portal, world>>

\* What follows of the cycle is FactoryScout's.
Ends(p) == IF worker[p].mode = "loop" THEN Sleeping(TRUE) ELSE Off

upsert_tooling_inventory(owner, reading) ==
    inventory' = [inventory EXCEPT ![owner] = reading]

report_tooling(p) ==
    /\ At(p, "inventory")
    /\ upsert_tooling_inventory(HostOf[p], worker[p].reading)
    /\ Answered(p, IF worker[p].again THEN Ends(p)
                   ELSE [worker[p] EXCEPT !.pc = "list", !.reading = NoTool])
    /\ UNCHANGED <<instance, mcp, jobs, run, world>>

-----------------------------------------------------------------------------
(* Tooling update jobs.                                                    *)

ListsJobs(p) ==
    /\ At(p, "list")
    /\ LET found == worker_list_tooling_update_jobs(HostOf[p])
       IN  Goes(p, IF found = <<>> THEN Ends(p)
                   ELSE [worker[p] EXCEPT !.pc = "take", !.todo = found])
    /\ UNCHANGED <<portal, world>>

TakesJob(p) ==
    /\ At(p, "take")
    /\ jobs' = [jobs EXCEPT ![Head(worker[p].todo).id].status = "running"]
    /\ \/ Goes(p, [worker[p] EXCEPT !.pc = "judge"])
       \/ Raises(p, {Head(worker[p].todo).id})
    /\ UNCHANGED <<instance, mcp, inventory, run, world>>

Concludes(p, verdict) ==
    Goes(p, [worker[p] EXCEPT !.pc = "verdict", !.verdict = verdict])

CannotUpdate(p) ==
    /\ At(p, "judge")
    /\ ~Head(worker[p].todo).git \/ facts[HostOf[p]].checkout = 0
    /\ Concludes(p, "failed")
    /\ UNCHANGED <<portal, world>>

MayPull(p) ==
    /\ At(p, "judge")
    /\ Head(worker[p].todo).git /\ facts[HostOf[p]].checkout # 0

Pulls(p) ==
    /\ MayPull(p)
    /\ facts' = [facts EXCEPT ![HostOf[p]].checkout = remote]
    /\ pulled' = pulled \cup {Head(worker[p].todo).id}
    /\ Concludes(p, "completed")
    /\ UNCHANGED <<portal, remote, eDoc, changes>>

\* Mutant: the return code is not looked at.
PullRefusedUnseen(p) ==
    /\ MayPull(p)
    /\ Concludes(p, "completed")
    /\ UNCHANGED <<portal, world>>

PullRefused(p) ==
    /\ MayPull(p)
    /\ Concludes(p, "failed")
    /\ UNCHANGED <<portal, world>>

\* Mutant: what was updated is not reported.
EndsUnreported(p) == Ends(p)

\* if payload.get("jobs"): await report_tooling(api)
ReportsAgain(p) == [Off EXCEPT !.mode = worker[p].mode, !.pc = "collect", !.again = TRUE]

\* An error message, of a pull what git wrote to stderr and maybe nothing, is
\* set or NULL.  COALESCE: once it is there it stays.
update_tooling_update_job(p) ==
    /\ At(p, "verdict")
    /\ jobs' = [jobs EXCEPT ![Head(worker[p].todo).id].status = worker[p].verdict,
                  ![Head(worker[p].todo).id].error = @ \/ worker[p].verdict = "failed"]
    /\ LET rest == Tail(worker[p].todo)
       IN  Answered(p, IF rest = <<>> THEN ReportsAgain(p)
                       ELSE [worker[p] EXCEPT !.pc = "take", !.todo = rest, !.verdict = ""])
    /\ UNCHANGED <<instance, mcp, inventory, run, world>>

\* asyncio.sleep(FACTORY_SCOUT_INTERVAL_SECONDS)
Wakes(p) ==
    /\ At(p, "sleep")
    /\ Goes(p, [Off EXCEPT !.mode = "loop", !.pc = "register"])
    /\ UNCHANGED <<portal, world>>

-----------------------------------------------------------------------------
(* Evidence of a run.                                                      *)

\* Oldest first, ReportLimit at most.
_build_evidence_report == IF run.events < ReportLimit THEN run.events ELSE ReportLimit

FetchesReport(p) ==
    /\ At(p, "fetch")
    /\ Goes(p, [worker[p] EXCEPT !.pc = "upload", !.seen = _build_evidence_report])
    /\ UNCHANGED <<portal, world>>

Uploads(p) ==
    /\ At(p, "upload")
    /\ eDoc' = eDoc \cup {worker[p].seen}
    /\ Goes(p, [worker[p] EXCEPT !.pc = "attempt", !.verdict = "uploaded", !.seen = 0])
    /\ UNCHANGED <<portal, facts, remote, pulled, changes>>

\* EdiCliError; after a time-out the document may be there all the same.
UploadFails(p) ==
    /\ At(p, "upload")
    /\ eDoc' \in {eDoc, eDoc \cup {worker[p].seen}}
    /\ Goes(p, [worker[p] EXCEPT !.pc = "attempt", !.verdict = "failed", !.seen = 0])
    /\ UNCHANGED <<portal, facts, remote, pulled, changes>>

create_edoc_upload(p) ==
    /\ At(p, "attempt")
    /\ run' = [run EXCEPT !.uploads = @ \cup {worker[p].verdict}]
    /\ Answered(p, [worker[p] EXCEPT !.pc = "patch"])
    /\ UNCHANGED <<instance, mcp, inventory, jobs, world>>

PatchesRun(p) ==
    /\ At(p, "patch")
    /\ run' = [run EXCEPT !.e_doc_status = worker[p].verdict]
    /\ Answered(p, [worker[p] EXCEPT !.pc = "event"])
    /\ UNCHANGED <<instance, mcp, inventory, jobs, world>>

AppendsEvent(p) ==
    /\ At(p, "event")
    /\ run' = [run EXCEPT !.events = @ + 1]
    /\ Answered(p, Off)
    /\ UNCHANGED <<instance, mcp, inventory, jobs, world>>

-----------------------------------------------------------------------------
(* The operator and the world.                                             *)

Changed ==
    /\ changes < MaxChanges
    /\ changes' = changes + 1
    /\ UNCHANGED <<worker, pulled, eDoc, abandoned, faults>>

pause_instance(h) ==
    /\ instance[h] # NoInstance
    /\ instance' = [instance EXCEPT ![h].is_paused = TRUE, ![h].status = "paused"]
    /\ Changed
    /\ UNCHANGED <<mcp, inventory, jobs, run, facts, remote>>

resume_instance(h) ==
    /\ instance[h].is_paused
    /\ instance' = [instance EXCEPT ![h].is_paused = FALSE, ![h].status = "ready"]
    /\ Changed
    /\ UNCHANGED <<mcp, inventory, jobs, run, facts, remote>>

check_latest_tooling ==
    /\ inventory[Portal] = NoTool
    /\ upsert_tooling_inventory(Portal, Reading(0, 0))
    /\ Changed
    /\ UNCHANGED <<instance, mcp, jobs, run, facts, remote>>

create_tooling_update_job(tool, kind, to) ==
    jobs' = Append(jobs, [tool |-> tool, kind |-> kind, instance |-> to,
                          status |-> "queued", error |-> FALSE])

\* The dashboard names no instance, a caller of the API may.  Only sbkb and
\* the prompts ("git") can be updated; the other tools can be asked for.
update_tooling(tool, kind, to) ==
    /\ tool \in list_tooling_inventory
    /\ Len(jobs) < MaxJobs
    /\ create_tooling_update_job(tool, kind, to)
    /\ UNCHANGED <<instance, mcp, inventory, run, worker, world, abandoned, faults>>

\* A checkout that is removed stays away.
FactsChange(h, f) ==
    /\ facts' = [facts EXCEPT ![h] = [f EXCEPT !.checkout =
                                       IF @ = 0 THEN 0 ELSE facts[h].checkout]]
    /\ facts' # facts
    /\ Changed
    /\ UNCHANGED <<portal, remote>>

RemoteMoves ==
    /\ remote < MaxVersion
    /\ remote' = remote + 1
    /\ UNCHANGED <<portal, worker, facts, eDoc, pulled, changes, abandoned, faults>>

\* A cycle and the sleep after it last no longer than an instance may be
\* silent (three intervals), but for the jobs in it.
Tick(h) ==
    /\ instance[h] # NoInstance
    /\ instance[h].age <= Stale
    /\ instance[h].age = Stale =>
          \A p \in Process : HostOf[p] = h => worker[p].pc \in {"off", "judge"}
    /\ instance' = [instance EXCEPT ![h].age = @ + 1]
    /\ UNCHANGED <<mcp, inventory, jobs, run, worker, world, abandoned, faults>>

WorkerStep(p) ==
    \/ register_instance(p)
    \/ Probes(p)
    \/ PostsReadiness(p)
    \/ heartbeat_instance(p)
    \/ collect_tooling_inventory(p)
    \/ report_tooling(p)
    \/ ListsJobs(p)
    \/ TakesJob(p)
    \/ CannotUpdate(p)
    \/ Pulls(p)
    \/ PullRefused(p)
    \/ update_tooling_update_job(p)
    \/ Wakes(p)
    \/ FetchesReport(p)
    \/ Uploads(p)
    \/ UploadFails(p)
    \/ create_edoc_upload(p)
    \/ PatchesRun(p)
    \/ AppendsEvent(p)
    \/ CallFails(p)

Operator ==
    \/ \E h \in Host : pause_instance(h) \/ resume_instance(h)
    \/ check_latest_tooling
    \/ \E request \in Requests : update_tooling(request[1], request[2], request[3])

World ==
    \/ \E h \in Host, f \in Conditions : FactsChange(h, f)
    \/ RemoteMoves
    \/ \E h \in Host : Tick(h)
    \/ \E p \in Process : Dies(p)

Next ==
    \/ \E p \in Process : (\E mode \in Mode : main(p, mode)) \/ WorkerStep(p)
    \/ Operator
    \/ World

Spec == Init /\ [][Next]_vars

\* What a process does takes a bounded time: every call has a time-out.
\* Nobody has to start a process, and a process may be killed.
WorkerFairness ==
    \A p \in Process : []<>(worker[p].pc = "off") \/ []<><<WorkerStep(p)>>_vars

-----------------------------------------------------------------------------
(* Properties                                                              *)

Loops(p) == worker[p].mode = "loop" /\ worker[p].pc # "off"
Down(h, m) == probe_mcps(h)[m] # "ready"

(***************************************************************************)
(* While a worker goes round its loop, an MCP that stays down ends up in    *)
(* the dashboard's stalled list and stays there, though every registration  *)
(* calls the instance ready again; one that stays up leaves the list,       *)
(* whatever answers were lost, and however other processes of the instance  *)
(* cross it (worker.py report_readiness, list_latest_mcp_readiness).        *)
(***************************************************************************)
DashboardSettles ==
    \A p \in Process, m \in Mcp :
        LET h == HostOf[p]
        IN  /\ <>[](Loops(p) /\ Down(h, m)) => <>[](<<h, m>> \in list_stalled_mcps)
            /\ <>[](Loops(p) /\ ~Down(h, m)) => <>[](<<h, m>> \notin list_stalled_mcps)

StatusOf(j) == IF j \in DOMAIN jobs THEN jobs[j].status ELSE "none"
Hidden(j) == j \in DOMAIN jobs /\ j \notin Newest
Unserved(j) ==
    /\ j \in DOMAIN jobs
    /\ \A p \in Process : Loops(p) => jobs[j].instance \notin {Portal, HostOf[p]}

(***************************************************************************)
(* An update job that is among the newest JobLimit, and that some looping   *)
(* worker may take, is taken; one that was taken ends completed or failed,  *)
(* unless a worker broke off with it in hand, be it carried out by one      *)
(* worker or by two (worker.py process_tooling_update_jobs).                *)
(***************************************************************************)
EveryJobEnds ==
    \A j \in 1..MaxJobs :
        /\ StatusOf(j) = "queued" ~> StatusOf(j) # "queued" \/ Hidden(j) \/ Unserved(j)
        /\ StatusOf(j) = "running"
              ~> StatusOf(j) \in {"completed", "failed"} \/ j \in abandoned

(***************************************************************************)
(* When the only worker its host ever had sleeps after a cycle that went    *)
(* well, the inventory has its report, and shows no other version than the  *)
(* one it has, be it one that its last jobs have just pulled; or none, when *)
(* git could not name it (worker.py:136, 647, dashboard tooling tab).       *)
(***************************************************************************)
InventoryIsCurrent ==
    \A p \in Process :
        LET h == HostOf[p]
            alone == \A q \in Process \ {p} : HostOf[q] # h \/ worker[q] = NeverRun
        IN  At(p, "sleep") /\ worker[p].again /\ alone
              => /\ inventory[h].reported
                 /\ facts[h].checkout # 0 =>
                       inventory[h].installed \in {0, facts[h].checkout}

(***************************************************************************)
(* What the portal says was done was done: a completed job has been pulled  *)
(* by some worker, a failed one has its error message (as much as git gave  *)
(* of one), and a run whose evidence is uploaded has a report in eDoc and   *)
(* an attempt that says so, however the workers that share a job or a run   *)
(* overtake each other and break off.                                       *)
(***************************************************************************)
VerdictsAreTrue ==
    /\ \A j \in DOMAIN jobs :
          /\ jobs[j].status = "completed" => j \in pulled
          /\ jobs[j].status = "failed" => jobs[j].error
    /\ run.e_doc_status = "uploaded" => eDoc # {} /\ "uploaded" \in run.uploads
    /\ run.e_doc_status = "failed" => "failed" \in run.uploads
=============================================================================
