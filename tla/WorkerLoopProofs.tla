--------------------------- MODULE WorkerLoopProofs ---------------------------
(***************************************************************************)
(* Proofs about the worker loop, for every number of processes, hosts, MCPs *)
(* and jobs: what the portal says was done was done, and the inventory of a *)
(* worker alone on its host is current while it sleeps.                     *)
(*                                                                         *)
(* The invariant, LoopInv, is what a process carries from the step that did *)
(* the work to the one that reports it: the verdict on a job or an upload   *)
(* (Carries), and the reading of the tool (Fresh).                        *)
(***************************************************************************)
EXTENDS WorkerLoop, SequenceTheorems, TLAPS

-----------------------------------------------------------------------------
(* The invariant                                                           *)

\* A record with the fields of a process, whatever they hold.
Fields == {"mode", "pc", "found", "reading", "todo", "again", "verdict", "seen"}
Shape(w) == w = [f \in Fields |-> w[f]]

Upload == {"uploaded", "failed"}
Status == {"queued", "running", "completed", "failed"}
Job == [tool : Owner, kind : {"git", "other"}, instance : Owner, status : Status, error : BOOLEAN]

\* What a process has to report, with the portal and the world as they are.
Carries(w) ==
    /\ Shape(w)
    /\ w.pc # "off" => w.mode \in Mode
    /\ w.pc = "verdict" => /\ w.verdict \in {"completed", "failed"}
                           /\ w.verdict = "completed" => Head(w.todo).id \in pulled
    /\ w.pc \in {"attempt", "patch"} => /\ w.verdict \in Upload
                                        /\ w.verdict = "uploaded" => eDoc # {}
    /\ w.pc = "patch" => w.verdict \in run.uploads
    /\ w.reading \in Tool

\* The other processes of p's host were never run.
Alone(p) == \A q \in Process \ {p} : HostOf[q] # HostOf[p] \/ worker[q] = NeverRun

\* A reading of the tool on host h names the version that h has, or none.
Current(tool, h) ==
    /\ tool.reported
    /\ facts[h].checkout # 0 => tool.installed \in {0, facts[h].checkout}

\* So does the one that a process of the host has made, or has reported.
Fresh(h, w) ==
    /\ w.pc = "inventory" => Current(w.reading, h)
    /\ w.pc = "list" => Current(inventory[h], h)
    /\ w.pc = "sleep" /\ w.again => Current(inventory[h], h)

\* The tables, whatever they hold.
TablesType ==
    /\ worker = [p \in Process |-> worker[p]]
    /\ facts \in [Host -> Facts]
    /\ inventory \in [Owner -> Tool]
    /\ run = [e_doc_status |-> run.e_doc_status, uploads |-> run.uploads, events |-> run.events]
    /\ remote \in Nat
    /\ jobs \in Seq(Job)

LoopInv ==
    /\ TablesType
    /\ \A p \in Process : Carries(worker[p])
    /\ VerdictsAreTrue
    /\ \A p \in Process : Alone(p) => Fresh(HostOf[p], worker[p])

-----------------------------------------------------------------------------
(* A step of one process                                                   *)

\* Process p goes on as w, with what it has to report.
Moved(p, w) ==
    /\ worker' = [worker EXCEPT ![p] = w]
    /\ w # NeverRun
    /\ Carries(w)'
    /\ Alone(p) => Fresh(HostOf[p], w)'

\* The other processes keep what they carry, and one that is alone on its host
\* has it as it was.
LEMMA Moves ==
    ASSUME LoopInv, NEW p \in Process, NEW w, Moved(p, w),
           TablesType', VerdictsAreTrue', pulled \subseteq pulled', eDoc \subseteq eDoc',
           run.uploads \subseteq run'.uploads,
           \A h \in Host \ {HostOf[p]} : inventory'[h] = inventory[h] /\ facts'[h] = facts[h]
    PROVE  LoopInv'
  <1>1. worker'[p] = w /\ \A q \in Process \ {p} : worker'[q] = worker[q]
    BY DEF Moved, LoopInv, TablesType
  <1>2. ASSUME NEW q \in Process
        PROVE  Carries(worker[q])'
    <2>1. CASE q = p
      BY <1>1, <2>1 DEF Moved, Carries
    <2>2. CASE q # p
      <3>1. Carries(worker[q]) /\ worker'[q] = worker[q]
        BY <1>1, <2>2 DEF LoopInv
      <3> QED BY <3>1 DEF Carries
    <2> QED BY <2>1, <2>2
  <1>3. ASSUME NEW q \in Process, Alone(q)'
        PROVE  Fresh(HostOf[q], worker[q])'
    <2>1. CASE q = p
      <3>1. Alone(p)
        BY <1>1, <1>3, <2>1 DEF Alone
      <3> QED BY <1>1, <2>1, <3>1 DEF Moved, Fresh
    <2>2. CASE q # p
      <3>1. HostOf[p] # HostOf[q]
        BY <1>1, <1>3, <2>2 DEF Alone, Moved
      <3>2. Alone(q)
        BY <1>1, <1>3, <3>1 DEF Alone
      <3>3. Fresh(HostOf[q], worker[q]) /\ worker'[q] = worker[q]
        BY <1>1, <2>2, <3>2 DEF LoopInv
      <3>4. HostOf[q] \in Host \ {HostOf[p]}
        BY <3>1, WorkerLoopAssumption
      <3> QED BY <3>3, <3>4 DEF Fresh, Current
    <2> QED BY <2>1, <2>2
  <1> QED BY <1>2, <1>3 DEF LoopInv

\* A process that goes on and leaves the tables alone.
LEMMA MovesQuietly ==
    ASSUME LoopInv, NEW p \in Process, NEW w, Moved(p, w),
           UNCHANGED <<inventory, jobs, run, facts, remote, pulled>>, eDoc \subseteq eDoc'
    PROVE  LoopInv'
  <1>1. worker' = [q \in Process |-> worker'[q]]
    BY DEF Moved, LoopInv, TablesType
  <1>2. TablesType'
    BY <1>1 DEF LoopInv, TablesType
  <1>3. VerdictsAreTrue'
    BY DEF LoopInv, VerdictsAreTrue
  <1> QED BY <1>2, <1>3, Moves

\* A call that fails ends the process, or its cycle.
LEMMA BreaksOff ==
    ASSUME NEW p \in Process, NEW w, w = Off \/ w = Sleeping(FALSE),
           worker' = [worker EXCEPT ![p] = w]
    PROVE  Moved(p, w)
  <1>1. NoTool \in Tool
    BY DEF NoTool, Tool
  <1>4. /\ w.pc = "off" \/ (w.pc = "sleep" /\ w.mode \in Mode)
        /\ w.mode # "new" /\ w.again = FALSE /\ w.reading = NoTool
    <2>1. CASE w = Off
      BY <2>1 DEF Off
    <2>2. CASE w = Sleeping(FALSE)
      BY <2>2 DEF Sleeping, Off, Mode
    <2> QED BY <2>1, <2>2
  <1>5. NeverRun.mode = "new"
    BY DEF NeverRun, Off
  <1>2. /\ w # NeverRun /\ (w.pc # "off" => w.mode \in Mode) /\ w.pc \in {"off", "sleep"}
        /\ ~ w.again /\ w.reading = NoTool
    BY <1>4, <1>5
  <1>3. Shape(w)
    BY DEF Sleeping, Off, Shape, Fields
  <1> QED BY <1>1, <1>2, <1>3 DEF Moved, Carries, Fresh

LEMMA RaisesMoves ==
    ASSUME NEW p \in Process, NEW hand, Raises(p, hand)
    PROVE  \E w : Moved(p, w)
  <1>1. PICK w : /\ w = Off \/ w = Sleeping(FALSE)
                 /\ worker' = [worker EXCEPT ![p] = w]
    BY DEF Raises, Breaks
  <1>2. Moved(p, w)
    BY <1>1, BreaksOff
  <1> QED BY <1>2

\* Where a process has nothing to report that a property is about.
Plain == {"boot", "register", "probe", "post", "beat", "collect", "take", "judge",
          "fetch", "upload", "event"}

LEMMA MovesOn ==
    ASSUME NEW p \in Process, NEW w, worker' = [worker EXCEPT ![p] = w],
           Shape(w), w.mode \in Mode, w.reading \in Tool, w.pc \in Plain
    PROVE  Moved(p, w)
  <1>1. NeverRun.mode = "new"
    BY DEF NeverRun, Off
  <1>2. w # NeverRun
    BY <1>1 DEF Mode
  <1> QED BY <1>2 DEF Moved, Carries, Fresh, Plain

LEMMA AnsweredMoves ==
    ASSUME NEW p \in Process, NEW w, Answered(p, w),
           worker' = [worker EXCEPT ![p] = w] => Moved(p, w)
    PROVE  \E v : Moved(p, v)
  <1>1. CASE Goes(p, w)
    BY <1>1 DEF Goes
  <1>2. CASE Raises(p, InHand(p))
    BY <1>2, RaisesMoves
  <1> QED BY <1>1, <1>2 DEF Answered

\* What a process is while it runs.
LEMMA Running ==
    ASSUME LoopInv, NEW p \in Process, worker[p].pc # "off"
    PROVE  Shape(worker[p]) /\ worker[p].mode \in Mode /\ worker[p].reading \in Tool
  BY DEF LoopInv, Carries

-----------------------------------------------------------------------------
(* The steps of a process that leave inventory, jobs and run alone         *)

LEMMA MainStep ==
    ASSUME LoopInv, NEW p \in Process, NEW mode \in Mode, main(p, mode)
    PROVE  LoopInv'
  <1>1. PICK w : w = [Off EXCEPT !.mode = mode, !.pc = "boot"]
    OBVIOUS
  <1>2. Shape(w) /\ w.mode = mode /\ w.pc = "boot" /\ w.reading = NoTool
    BY <1>1 DEF Off, Shape, Fields
  <1>3. w.reading \in Tool
    BY <1>2 DEF NoTool, Tool
  <1>4. worker' = [worker EXCEPT ![p] = w]
    BY <1>1 DEF main, Goes
  <1>5. Moved(p, w)
    BY <1>2, <1>3, <1>4, MovesOn DEF Plain
  <1> QED BY <1>5, MovesQuietly DEF main, portal, world

LEMMA RegisterStep ==
    ASSUME LoopInv, NEW p \in Process, register_instance(p)
    PROVE  LoopInv'
  <1> DEFINE r == worker[p]
  <1>1. Shape(r) /\ r.mode \in Mode /\ r.reading \in Tool
    BY Running DEF register_instance
  <1>2. PICK w : /\ w = IF r.mode = "escalate" THEN Off
                        ELSE [r EXCEPT !.pc = IF @ = "register" THEN "probe"
                                              ELSE AfterBoot[r.mode]]
                 /\ Answered(p, w)
    BY DEF register_instance
  <1>3. ASSUME worker' = [worker EXCEPT ![p] = w]
        PROVE  Moved(p, w)
    <2>1. CASE r.mode = "escalate"
      BY <1>2, <1>3, <2>1, BreaksOff
    <2>2. CASE r.mode # "escalate"
      <3>1. PICK pc : pc = IF r.pc = "register" THEN "probe" ELSE AfterBoot[r.mode]
        OBVIOUS
      <3>2. pc \in Plain
        BY <1>1, <2>2, <3>1 DEF Mode, AfterBoot, Plain
      <3>3. w = [r EXCEPT !.pc = pc]
        BY <1>2, <2>2, <3>1
      <3>4. Shape(w) /\ w.pc = pc /\ w.mode = r.mode /\ w.reading = r.reading
        BY <1>1, <3>3 DEF Shape, Fields
      <3> QED BY <1>1, <1>3, <3>2, <3>4, MovesOn
    <2> QED BY <2>1, <2>2
  <1>4. PICK v : Moved(p, v)
    BY <1>2, <1>3, AnsweredMoves
  <1> QED BY <1>4, MovesQuietly DEF register_instance, world

LEMMA ProbeStep ==
    ASSUME LoopInv, NEW p \in Process, Probes(p)
    PROVE  LoopInv'
  <1> DEFINE r == worker[p]
  <1>1. Shape(r) /\ r.mode \in Mode /\ r.reading \in Tool
    BY Running DEF Probes, At
  <1>2. PICK x : worker' = [worker EXCEPT ![p] = [r EXCEPT !.pc = "post", !.found = x]]
    BY DEF Probes, Goes
  <1>3. PICK w : w = [r EXCEPT !.pc = "post", !.found = x]
    OBVIOUS
  <1>4. Shape(w) /\ w.pc = "post" /\ w.mode = r.mode /\ w.reading = r.reading
    BY <1>1, <1>3 DEF Shape, Fields
  <1>5. Moved(p, w)
    BY <1>1, <1>2, <1>3, <1>4, MovesOn DEF Plain
  <1> QED BY <1>5, MovesQuietly DEF Probes, portal, world

LEMMA PostStep ==
    ASSUME LoopInv, NEW p \in Process, PostsReadiness(p)
    PROVE  LoopInv'
  <1> DEFINE r == worker[p]
  <1>1. Shape(r) /\ r.mode \in Mode /\ r.reading \in Tool
    BY Running DEF PostsReadiness, At
  <1>2. PICK w :
           /\ w = [r EXCEPT !.pc = IF Tail(r.found) = <<>> THEN "beat" ELSE "post",
                            !.found = Tail(r.found),
                            !.verdict = IF Head(r.found) = "ready" THEN @ ELSE "stalled"]
           /\ Answered(p, w)
    BY DEF PostsReadiness
  <1>3. /\ Shape(w) /\ w.pc \in {"beat", "post"} /\ w.mode = r.mode
        /\ w.reading = r.reading
    BY <1>1, <1>2 DEF Shape, Fields
  <1>4. worker' = [worker EXCEPT ![p] = w] => Moved(p, w)
    BY <1>1, <1>3, MovesOn DEF Plain
  <1>5. PICK v : Moved(p, v)
    BY <1>2, <1>4, AnsweredMoves
  <1> QED BY <1>5, MovesQuietly DEF PostsReadiness, world

LEMMA BeatStep ==
    ASSUME LoopInv, NEW p \in Process, heartbeat_instance(p)
    PROVE  LoopInv'
  <1> DEFINE r == worker[p]
  <1>1. Shape(r) /\ r.mode \in Mode /\ r.reading \in Tool
    BY Running DEF heartbeat_instance, At
  <1>2. PICK w : w = [r EXCEPT !.pc = "collect", !.verdict = ""] /\ Answered(p, w)
    BY DEF heartbeat_instance
  <1>3. Shape(w) /\ w.pc = "collect" /\ w.mode = r.mode /\ w.reading = r.reading
    BY <1>1, <1>2 DEF Shape, Fields
  <1>4. worker' = [worker EXCEPT ![p] = w] => Moved(p, w)
    BY <1>1, <1>3, MovesOn DEF Plain
  <1>5. PICK v : Moved(p, v)
    BY <1>2, <1>4, AnsweredMoves
  <1> QED BY <1>5, MovesQuietly DEF heartbeat_instance, world

LEMMA WakeStep ==
    ASSUME LoopInv, NEW p \in Process, Wakes(p)
    PROVE  LoopInv'
  <1>1. PICK w : w = [Off EXCEPT !.mode = "loop", !.pc = "register"]
    OBVIOUS
  <1>2. Shape(w) /\ w.mode = "loop" /\ w.pc = "register" /\ w.reading = NoTool
    BY <1>1 DEF Off, Shape, Fields
  <1>3. w.reading \in Tool
    BY <1>2 DEF NoTool, Tool
  <1>4. worker' = [worker EXCEPT ![p] = w]
    BY <1>1 DEF Wakes, Goes
  <1>5. Moved(p, w)
    BY <1>2, <1>3, <1>4, MovesOn DEF Plain, Mode
  <1> QED BY <1>5, MovesQuietly DEF Wakes, portal, world

LEMMA FetchStep ==
    ASSUME LoopInv, NEW p \in Process, FetchesReport(p)
    PROVE  LoopInv'
  <1> DEFINE r == worker[p]
  <1>1. Shape(r) /\ r.mode \in Mode /\ r.reading \in Tool
    BY Running DEF FetchesReport, At
  <1>2. PICK x : worker' = [worker EXCEPT ![p] = [r EXCEPT !.pc = "upload", !.seen = x]]
    BY DEF FetchesReport, Goes
  <1>3. PICK w : w = [r EXCEPT !.pc = "upload", !.seen = x]
    OBVIOUS
  <1>4. Shape(w) /\ w.pc = "upload" /\ w.mode = r.mode /\ w.reading = r.reading
    BY <1>1, <1>3 DEF Shape, Fields
  <1>5. Moved(p, w)
    BY <1>1, <1>2, <1>3, <1>4, MovesOn DEF Plain
  <1> QED BY <1>5, MovesQuietly DEF FetchesReport, portal, world

LEMMA FailStep ==
    ASSUME LoopInv, NEW p \in Process, CallFails(p) \/ Dies(p)
    PROVE  LoopInv'
  <1>1. \E w : Moved(p, w)
    <2>1. CASE CallFails(p)
      BY <2>1, RaisesMoves DEF CallFails
    <2>2. CASE Dies(p)
      BY <2>2, BreaksOff DEF Dies, Breaks
    <2> QED BY <2>1, <2>2
  <1> QED BY <1>1, MovesQuietly DEF CallFails, Dies, portal, world

-----------------------------------------------------------------------------
(* The inventory                                                           *)

LEMMA CollectStep ==
    ASSUME LoopInv, NEW p \in Process, collect_tooling_inventory(p)
    PROVE  LoopInv'
  <1> DEFINE r == worker[p]
             head == facts[HostOf[p]].checkout
  <1>1. Shape(r) /\ r.mode \in Mode /\ r.reading \in Tool
    BY Running DEF collect_tooling_inventory, At
  <1>2. PICK told \in {0, head}, latest \in {0, remote} :
           worker' = [worker EXCEPT ![p] = [r EXCEPT !.pc = "inventory",
                        !.reading = Reading(told, IF head = 0 THEN 0 ELSE latest)]]
    BY DEF collect_tooling_inventory, Goes, Breaks
  <1>3. head \in Nat /\ remote \in Nat
    BY WorkerLoopAssumption DEF LoopInv, TablesType, Facts
  <1>4. PICK read \in Tool :
           /\ read.reported /\ read.installed \in {0, head}
           /\ worker' = [worker EXCEPT ![p] = [r EXCEPT !.pc = "inventory", !.reading = read]]
    <2>1. Reading(told, IF head = 0 THEN 0 ELSE latest) \in Tool
      BY <1>2, <1>3 DEF Reading, Tool
    <2>2. /\ Reading(told, IF head = 0 THEN 0 ELSE latest).installed = told
          /\ Reading(told, IF head = 0 THEN 0 ELSE latest).reported
      BY DEF Reading
    <2> HIDE DEF r, head
    <2> QED BY <1>2, <2>1, <2>2
  <1>5. PICK w : w = [r EXCEPT !.pc = "inventory", !.reading = read]
    OBVIOUS
  <1>6. Shape(w) /\ w.pc = "inventory" /\ w.mode = r.mode /\ w.reading = read
    BY <1>1, <1>5 DEF Shape, Fields
  <1>7. Carries(w)'
    BY <1>1, <1>6 DEF Carries
  <1>8. Fresh(HostOf[p], w)'
    BY <1>4, <1>6 DEF Fresh, Current, collect_tooling_inventory, world
  <1>9. w # NeverRun
    BY <1>6 DEF NeverRun, Off
  <1>10. Moved(p, w)
    BY <1>4, <1>5, <1>7, <1>8, <1>9 DEF Moved
  <1> QED BY <1>10, MovesQuietly DEF collect_tooling_inventory, portal, world

\* Where the cycle ends, with what it knows of the tool.
LEMMA EndsMoves ==
    ASSUME NEW p \in Process, NEW w, w = Ends(p), worker' = [worker EXCEPT ![p] = w],
           Alone(p) => Current(inventory[HostOf[p]], HostOf[p])'
    PROVE  Moved(p, w)
  <1>1. CASE w = Off
    BY <1>1, BreaksOff
  <1>2. CASE w = Sleeping(TRUE)
    <2>1. Shape(w) /\ w.mode = "loop" /\ w.pc = "sleep" /\ w.reading = NoTool
      BY <1>2 DEF Sleeping, Off, Shape, Fields
    <2>2. w.reading \in Tool
      BY <2>1 DEF NoTool, Tool
    <2>3. NeverRun.mode = "new"
      BY DEF NeverRun, Off
    <2>4. w # NeverRun
      BY <2>1, <2>3
    <2> QED BY <2>1, <2>2, <2>4 DEF Moved, Carries, Fresh, Mode
  <1> QED BY <1>1, <1>2 DEF Ends

LEMMA ReportStep ==
    ASSUME LoopInv, NEW p \in Process, report_tooling(p)
    PROVE  LoopInv'
  <1> DEFINE r == worker[p]
             h == HostOf[p]
  <1>1. Shape(r) /\ r.mode \in Mode /\ r.reading \in Tool /\ r.pc = "inventory"
    BY Running DEF report_tooling, At
  <1>2. h \in Host /\ h \in Owner
    BY WorkerLoopAssumption DEF Owner
  <1>3. inventory' = [inventory EXCEPT ![h] = r.reading]
    BY DEF report_tooling, upsert_tooling_inventory
  <1>4. inventory' \in [Owner -> Tool] /\ inventory'[h] = r.reading
    BY <1>1, <1>2, <1>3 DEF LoopInv, TablesType
  <1>5. Alone(p) => Current(inventory[h], h)'
    BY <1>1, <1>4 DEF LoopInv, Fresh, Current, report_tooling, world
  <1>6. PICK w : /\ w = IF r.again THEN Ends(p)
                        ELSE [r EXCEPT !.pc = "list", !.reading = NoTool]
                 /\ Answered(p, w)
    BY DEF report_tooling
  <1>7. ASSUME worker' = [worker EXCEPT ![p] = w]
        PROVE  Moved(p, w)
    <2>1. CASE r.again
      BY <1>5, <1>6, <1>7, <2>1, EndsMoves
    <2>2. CASE ~ r.again
      <3>1. Shape(w) /\ w.pc = "list" /\ w.mode = r.mode /\ w.reading = NoTool
        BY <1>1, <1>6, <2>2 DEF Shape, Fields
      <3>2. w.reading \in Tool
        BY <3>1 DEF NoTool, Tool
      <3>3. w # NeverRun
        BY <3>1 DEF NeverRun, Off
      <3>4. Carries(w)'
        BY <1>1, <3>1, <3>2 DEF Carries
      <3>5. Alone(p) => Fresh(h, w)'
        BY <1>5, <3>1 DEF Fresh
      <3> QED BY <1>7, <3>3, <3>4, <3>5 DEF Moved
    <2> QED BY <2>1, <2>2
  <1>8. PICK v : Moved(p, v)
    BY <1>6, <1>7, AnsweredMoves
  <1>9. worker' = [q \in Process |-> worker'[q]]
    BY <1>8 DEF Moved, LoopInv, TablesType
  <1>10. TablesType'
    BY <1>4, <1>9 DEF LoopInv, TablesType, report_tooling, world
  <1>11. VerdictsAreTrue'
    BY DEF LoopInv, VerdictsAreTrue, report_tooling, world
  <1>12. \A g \in Host \ {h} : inventory'[g] = inventory[g] /\ facts'[g] = facts[g]
    BY <1>3 DEF LoopInv, TablesType, Owner, report_tooling, world
  <1> QED BY <1>8, <1>10, <1>11, <1>12, Moves DEF report_tooling, world

-----------------------------------------------------------------------------
(* The update jobs                                                         *)

LEMMA ListStep ==
    ASSUME LoopInv, NEW p \in Process, ListsJobs(p)
    PROVE  LoopInv'
  <1> DEFINE r == worker[p]
             found == worker_list_tooling_update_jobs(HostOf[p])
  <1>1. Shape(r) /\ r.mode \in Mode /\ r.reading \in Tool /\ r.pc = "list"
    BY Running DEF ListsJobs, At
  <1>2. PICK w : /\ w = IF found = <<>> THEN Ends(p) ELSE [r EXCEPT !.pc = "take", !.todo = found]
                 /\ worker' = [worker EXCEPT ![p] = w]
    BY DEF ListsJobs, Goes
  <1> HIDE DEF found
  <1>3. CASE found = <<>>
    <2>1. Alone(p) => Current(inventory[HostOf[p]], HostOf[p])'
      BY <1>1 DEF LoopInv, Fresh, Current, ListsJobs, portal, world
    <2>2. Moved(p, w)
      BY <1>2, <1>3, <2>1, EndsMoves
    <2> QED BY <2>2, MovesQuietly DEF ListsJobs, portal, world
  <1>4. CASE found # <<>>
    <2>1. Shape(w) /\ w.pc = "take" /\ w.mode = r.mode /\ w.reading = r.reading
      BY <1>1, <1>2, <1>4 DEF Shape, Fields
    <2>2. Moved(p, w)
      BY <1>1, <1>2, <2>1, MovesOn DEF Plain
    <2> QED BY <2>2, MovesQuietly DEF ListsJobs, portal, world
  <1> QED BY <1>3, <1>4

LEMMA IsSequence ==
    ASSUME NEW S, NEW n \in Nat, NEW f \in [1 .. n -> S]
    PROVE  f \in Seq(S)
  <1>1. \E m \in Nat : f \in [1 .. m -> S]
    OBVIOUS
  <1>2. Seq(S) = UNION {[1 .. m -> S] : m \in Nat}
    BY SeqDef
  <1> QED BY Zenon, <1>1, <1>2

LEMMA JobRow ==
    ASSUME TablesType, NEW k \in DOMAIN jobs
    PROVE  jobs[k] \in Job
  BY SeqDef DEF TablesType

\* A row of the jobs is changed, if it is there.
Rewritten(k, status, error) ==
    /\ jobs' \in Seq(Job)
    /\ DOMAIN jobs' = DOMAIN jobs
    /\ \A j \in DOMAIN jobs : IF j = k THEN jobs'[j].status = status /\ jobs'[j].error = error
                                       ELSE jobs'[j] = jobs[j]

LEMMA RowChanges ==
    ASSUME TablesType, NEW k \in DOMAIN jobs, NEW status \in Status, NEW error \in BOOLEAN,
           jobs' = [jobs EXCEPT ![k].status = status, ![k].error = error]
    PROVE  Rewritten(k, status, error)
  <1> DEFINE row == [jobs[k] EXCEPT !.status = status, !.error = error]
  <1>1. PICK n \in Nat : jobs \in [1 .. n -> Job]
    BY SeqDef DEF TablesType
  <1>2. DOMAIN jobs' = 1 .. n /\ \A j \in 1 .. n : jobs'[j] = IF j = k THEN row ELSE jobs[j]
    BY <1>1
  <1>3. row \in Job /\ row.status = status /\ row.error = error
    BY JobRow DEF Job
  <1>4. jobs' = [j \in 1 .. n |-> jobs'[j]]
    BY <1>1
  <1> HIDE DEF row
  <1>5. \A j \in 1 .. n : jobs'[j] \in Job
    BY <1>1, <1>2, <1>3
  <1>6. jobs' \in Seq(Job)
    <2>1. jobs' \in [1 .. n -> Job]
      BY <1>4, <1>5
    <2> QED BY <2>1, IsSequence
  <1> QED BY <1>1, <1>2, <1>3, <1>6 DEF Rewritten

LEMMA TakeStep ==
    ASSUME LoopInv, NEW p \in Process, TakesJob(p)
    PROVE  LoopInv'
  <1> DEFINE r == worker[p]
  <1>1. Shape(r) /\ r.mode \in Mode /\ r.reading \in Tool
    BY Running DEF TakesJob, At
  <1>2. PICK k : jobs' = [jobs EXCEPT ![k].status = "running"]
    BY DEF TakesJob
  <1>3. PICK w : w = [r EXCEPT !.pc = "judge"]
    OBVIOUS
  <1>4. Shape(w) /\ w.pc = "judge" /\ w.mode = r.mode /\ w.reading = r.reading
    BY <1>1, <1>3 DEF Shape, Fields
  <1>5. worker' = [worker EXCEPT ![p] = w] \/ \E v : Moved(p, v)
    BY <1>3, RaisesMoves DEF TakesJob, Goes
  <1>6. PICK v : Moved(p, v)
    BY <1>1, <1>4, <1>5, MovesOn DEF Plain
  <1>7. worker' = [q \in Process |-> worker'[q]]
    BY <1>6 DEF Moved, LoopInv, TablesType
  <1>8. /\ jobs' \in Seq(Job) /\ DOMAIN jobs' = DOMAIN jobs
        /\ \A j \in DOMAIN jobs : jobs'[j].status = "running" \/ jobs'[j] = jobs[j]
    <2>1. CASE k \notin DOMAIN jobs
      <3>1. jobs' = jobs /\ jobs \in Seq(Job)
        <4>1. jobs \in Seq(Job)
          BY DEF LoopInv, TablesType
        <4> QED BY <1>2, <2>1, <4>1
      <3> QED BY <3>1
    <2>2. CASE k \in DOMAIN jobs
      <3>1. jobs[k].error \in BOOLEAN /\ jobs[k] = [jobs[k] EXCEPT !.error = jobs[k].error]
        BY <2>2, JobRow DEF LoopInv, Job
      <3>2. jobs' = [jobs EXCEPT ![k].status = "running", ![k].error = jobs[k].error]
        BY <1>2, <2>2, JobRow DEF LoopInv, Job
      <3>3. "running" \in Status
        BY DEF Status
      <3>4. Rewritten(k, "running", jobs[k].error)
        BY <2>2, <3>1, <3>2, <3>3, RowChanges DEF LoopInv
      <3> QED BY <3>4 DEF Rewritten
    <2> QED BY <2>1, <2>2
  <1>9. TablesType'
    BY <1>7, <1>8 DEF LoopInv, TablesType, TakesJob, world
  <1>10. VerdictsAreTrue'
    BY <1>8 DEF LoopInv, VerdictsAreTrue, TakesJob, world
  <1> QED BY <1>6, <1>9, <1>10, Moves DEF TakesJob, world

\* A process with a verdict on the job in its hand.
LEMMA VerdictMoves ==
    ASSUME LoopInv, NEW p \in Process, At(p, "judge"), NEW verdict \in {"completed", "failed"},
           verdict = "completed" => Head(worker[p].todo).id \in pulled',
           worker' = [worker EXCEPT ![p] = [worker[p] EXCEPT !.pc = "verdict", !.verdict = verdict]]
    PROVE  \E w : Moved(p, w)
  <1> DEFINE r == worker[p]
  <1>1. Shape(r) /\ r.mode \in Mode /\ r.reading \in Tool
    BY Running DEF At
  <1>2. PICK w : w = [r EXCEPT !.pc = "verdict", !.verdict = verdict]
    OBVIOUS
  <1>3. /\ Shape(w) /\ w.pc = "verdict" /\ w.mode = r.mode /\ w.reading = r.reading
        /\ w.verdict = verdict /\ w.todo = r.todo
    BY <1>1, <1>2 DEF Shape, Fields
  <1>4. Carries(w)'
    BY <1>1, <1>3 DEF Carries
  <1>5. Fresh(HostOf[p], w)'
    BY <1>3 DEF Fresh
  <1>6. w # NeverRun
    BY <1>3 DEF NeverRun, Off
  <1>7. Moved(p, w)
    BY <1>2, <1>4, <1>5, <1>6 DEF Moved
  <1> QED BY <1>7

LEMMA JudgeStep ==
    ASSUME LoopInv, NEW p \in Process, CannotUpdate(p) \/ PullRefused(p)
    PROVE  LoopInv'
  <1>1. PICK w : Moved(p, w)
    BY VerdictMoves DEF CannotUpdate, PullRefused, MayPull, Concludes, Goes
  <1> QED BY <1>1, MovesQuietly DEF CannotUpdate, PullRefused, portal, world

LEMMA PullStep ==
    ASSUME LoopInv, NEW p \in Process, Pulls(p)
    PROVE  LoopInv'
  <1> DEFINE h == HostOf[p]
  <1>1. PICK w : Moved(p, w)
    BY VerdictMoves DEF Pulls, MayPull, Concludes, Goes
  <1>2. h \in Host
    BY WorkerLoopAssumption
  <1>3. facts' \in [Host -> Facts] /\ \A g \in Host \ {h} : facts'[g] = facts[g]
    BY <1>2 DEF Pulls, LoopInv, TablesType, Facts
  <1>4. worker' = [q \in Process |-> worker'[q]]
    BY <1>1 DEF Moved, LoopInv, TablesType
  <1>5. TablesType'
    BY <1>3, <1>4 DEF LoopInv, TablesType, Pulls, portal
  <1>6. VerdictsAreTrue'
    BY DEF LoopInv, VerdictsAreTrue, Pulls, portal
  <1> QED BY <1>1, <1>3, <1>5, <1>6, Moves DEF Pulls, portal

LEMMA UpdateStep ==
    ASSUME LoopInv, NEW p \in Process, update_tooling_update_job(p)
    PROVE  LoopInv'
  <1> DEFINE r == worker[p]
             k == Head(r.todo).id
             rest == Tail(r.todo)
  <1>1. /\ Shape(r) /\ r.mode \in Mode /\ r.reading \in Tool
        /\ r.verdict \in {"completed", "failed"}
        /\ r.verdict = "completed" => k \in pulled
    BY Running DEF update_tooling_update_job, At, LoopInv, Carries
  <1>2. jobs' = [jobs EXCEPT ![k].status = r.verdict, ![k].error = @ \/ r.verdict = "failed"]
    BY DEF update_tooling_update_job
  <1>3. PICK w :
           /\ w = IF rest = <<>>
                  THEN [Off EXCEPT !.mode = r.mode, !.pc = "collect", !.again = TRUE]
                  ELSE [r EXCEPT !.pc = "take", !.todo = rest, !.verdict = ""]
           /\ Answered(p, w)
    BY DEF update_tooling_update_job, ReportsAgain
  <1> HIDE DEF k, rest
  <1>4. ASSUME worker' = [worker EXCEPT ![p] = w]
        PROVE  Moved(p, w)
    <2>1. CASE rest = <<>>
      <3>1. Shape(w) /\ w.mode = r.mode /\ w.pc = "collect" /\ w.reading = NoTool
        BY <1>3, <2>1 DEF Off, Shape, Fields
      <3>2. w.reading \in Tool
        BY <3>1 DEF NoTool, Tool
      <3> QED BY <1>1, <1>4, <3>1, <3>2, MovesOn DEF Plain
    <2>2. CASE rest # <<>>
      <3>1. Shape(w) /\ w.mode = r.mode /\ w.pc = "take" /\ w.reading = r.reading
        BY <1>1, <1>3, <2>2 DEF Shape, Fields
      <3> QED BY <1>1, <1>4, <3>1, MovesOn DEF Plain
    <2> QED BY <2>1, <2>2
  <1>5. PICK v : Moved(p, v)
    BY <1>3, <1>4, AnsweredMoves
  <1>6. worker' = [q \in Process |-> worker'[q]]
    BY <1>5 DEF Moved, LoopInv, TablesType
  <1>7. /\ jobs' \in Seq(Job) /\ DOMAIN jobs' = DOMAIN jobs
        /\ \A j \in DOMAIN jobs :
              \/ jobs'[j] = jobs[j]
              \/ /\ j = k /\ jobs'[j].status = r.verdict
                 /\ r.verdict = "failed" => jobs'[j].error
    <2>1. CASE k \notin DOMAIN jobs
      <3>1. jobs \in Seq(Job)
        BY DEF LoopInv, TablesType
      <3>2. jobs' = jobs
        BY <1>2, <2>1, <3>1
      <3> QED BY <3>1, <3>2
    <2>2. CASE k \in DOMAIN jobs
      <3>1. jobs[k] \in Job
        BY <2>2, JobRow DEF LoopInv
      <3>2. PICK error \in BOOLEAN : error = (jobs[k].error \/ r.verdict = "failed")
        OBVIOUS
      <3>3. jobs' = [jobs EXCEPT ![k].status = r.verdict, ![k].error = error]
        BY <1>2, <2>2, <3>1, <3>2 DEF Job
      <3>4. r.verdict \in Status
        BY <1>1 DEF Status
      <3>5. Rewritten(k, r.verdict, error)
        BY <2>2, <3>3, <3>4, RowChanges DEF LoopInv
      <3> QED BY <3>2, <3>5 DEF Rewritten
    <2> QED BY <2>1, <2>2
  <1>8. TablesType'
    BY <1>6, <1>7 DEF LoopInv, TablesType, update_tooling_update_job, world
  <1>9. VerdictsAreTrue'
    BY <1>1, <1>7 DEF LoopInv, VerdictsAreTrue, update_tooling_update_job, world
  <1> QED BY <1>5, <1>8, <1>9, Moves DEF update_tooling_update_job, world

-----------------------------------------------------------------------------
(* The evidence of a run                                                   *)

LEMMA UploadStep ==
    ASSUME LoopInv, NEW p \in Process, Uploads(p) \/ UploadFails(p)
    PROVE  LoopInv'
  <1> DEFINE r == worker[p]
  <1>1. Shape(r) /\ r.mode \in Mode /\ r.reading \in Tool
    BY Running DEF Uploads, UploadFails, At
  <1>2. PICK verdict \in Upload :
           /\ verdict = "uploaded" => eDoc' # {}
           /\ worker' = [worker EXCEPT ![p] =
                           [r EXCEPT !.pc = "attempt", !.verdict = verdict, !.seen = 0]]
    BY DEF Uploads, UploadFails, Upload, Goes
  <1>3. PICK w : w = [r EXCEPT !.pc = "attempt", !.verdict = verdict, !.seen = 0]
    OBVIOUS
  <1>4. /\ Shape(w) /\ w.pc = "attempt" /\ w.mode = r.mode /\ w.reading = r.reading
        /\ w.verdict = verdict
    BY <1>1, <1>3 DEF Shape, Fields
  <1>5. Carries(w)'
    BY <1>1, <1>2, <1>4 DEF Carries
  <1>6. Fresh(HostOf[p], w)'
    BY <1>4 DEF Fresh
  <1>7. w # NeverRun
    BY <1>4 DEF NeverRun, Off
  <1>8. Moved(p, w)
    BY <1>2, <1>3, <1>5, <1>6, <1>7 DEF Moved
  <1>9. eDoc \subseteq eDoc'
    BY DEF Uploads, UploadFails
  <1> QED BY <1>8, <1>9, MovesQuietly DEF Uploads, UploadFails, portal

\* The row of the run changes, and its attempts are kept.
LEMMA RunMoves ==
    ASSUME LoopInv, NEW p \in Process, NEW w, Moved(p, w),
           UNCHANGED <<inventory, jobs, facts, remote, pulled, eDoc>>,
           run' = [e_doc_status |-> run'.e_doc_status, uploads |-> run'.uploads,
                   events |-> run'.events],
           run.uploads \subseteq run'.uploads,
           \/ run'.e_doc_status = run.e_doc_status
           \/ /\ run'.e_doc_status \in run.uploads
              /\ run'.e_doc_status = "uploaded" => eDoc # {}
    PROVE  LoopInv'
  <1>1. worker' = [q \in Process |-> worker'[q]]
    BY DEF Moved, LoopInv, TablesType
  <1>2. TablesType'
    BY <1>1 DEF LoopInv, TablesType
  <1>3. VerdictsAreTrue'
    BY DEF LoopInv, VerdictsAreTrue
  <1> QED BY <1>2, <1>3, Moves

LEMMA AttemptStep ==
    ASSUME LoopInv, NEW p \in Process, create_edoc_upload(p)
    PROVE  LoopInv'
  <1> DEFINE r == worker[p]
  <1>1. /\ Shape(r) /\ r.mode \in Mode /\ r.reading \in Tool /\ r.verdict \in Upload
        /\ r.verdict = "uploaded" => eDoc # {}
    BY Running DEF create_edoc_upload, At, LoopInv, Carries
  <1>2. run' = [run EXCEPT !.uploads = @ \cup {r.verdict}]
    BY DEF create_edoc_upload
  <1>3. /\ run' = [e_doc_status |-> run'.e_doc_status, uploads |-> run'.uploads,
                   events |-> run'.events]
        /\ run'.e_doc_status = run.e_doc_status
        /\ run'.uploads = run.uploads \cup {r.verdict}
    BY <1>2 DEF LoopInv, TablesType
  <1>4. PICK w : w = [r EXCEPT !.pc = "patch"] /\ Answered(p, w)
    BY DEF create_edoc_upload
  <1>5. /\ Shape(w) /\ w.pc = "patch" /\ w.mode = r.mode /\ w.reading = r.reading
        /\ w.verdict = r.verdict
    BY <1>1, <1>4 DEF Shape, Fields
  <1>6. Carries(w)'
    BY <1>1, <1>3, <1>5 DEF Carries, create_edoc_upload, world
  <1>7. w # NeverRun
    BY <1>5 DEF NeverRun, Off
  <1>8. worker' = [worker EXCEPT ![p] = w] => Moved(p, w)
    BY <1>5, <1>6, <1>7 DEF Moved, Fresh
  <1>9. PICK v : Moved(p, v)
    BY <1>4, <1>8, AnsweredMoves
  <1> QED BY <1>3, <1>9, RunMoves DEF create_edoc_upload, world

LEMMA PatchStep ==
    ASSUME LoopInv, NEW p \in Process, PatchesRun(p)
    PROVE  LoopInv'
  <1> DEFINE r == worker[p]
  <1>1. /\ Shape(r) /\ r.mode \in Mode /\ r.reading \in Tool /\ r.verdict \in run.uploads
        /\ r.verdict = "uploaded" => eDoc # {}
    BY Running DEF PatchesRun, At, LoopInv, Carries
  <1>2. run' = [run EXCEPT !.e_doc_status = r.verdict]
    BY DEF PatchesRun
  <1>3. /\ run' = [e_doc_status |-> run'.e_doc_status, uploads |-> run'.uploads,
                   events |-> run'.events]
        /\ run'.e_doc_status = r.verdict /\ run'.uploads = run.uploads
    BY <1>2 DEF LoopInv, TablesType
  <1>4. PICK w : w = [r EXCEPT !.pc = "event"] /\ Answered(p, w)
    BY DEF PatchesRun
  <1>5. Shape(w) /\ w.pc = "event" /\ w.mode = r.mode /\ w.reading = r.reading
    BY <1>1, <1>4 DEF Shape, Fields
  <1>6. worker' = [worker EXCEPT ![p] = w] => Moved(p, w)
    BY <1>1, <1>5, MovesOn DEF Plain
  <1>7. PICK v : Moved(p, v)
    BY <1>4, <1>6, AnsweredMoves
  <1> QED BY <1>1, <1>3, <1>7, RunMoves DEF PatchesRun, world

LEMMA EventStep ==
    ASSUME LoopInv, NEW p \in Process, AppendsEvent(p)
    PROVE  LoopInv'
  <1>1. /\ run' = [e_doc_status |-> run'.e_doc_status, uploads |-> run'.uploads,
                   events |-> run'.events]
        /\ run'.e_doc_status = run.e_doc_status /\ run'.uploads = run.uploads
    BY DEF AppendsEvent, LoopInv, TablesType
  <1>2. worker' = [worker EXCEPT ![p] = Off] => Moved(p, Off)
    <2>1. PICK w : w = Off
      OBVIOUS
    <2> QED BY <2>1, BreaksOff
  <1>3. PICK v : Moved(p, v)
    BY <1>2, AnsweredMoves DEF AppendsEvent
  <1> QED BY <1>1, <1>3, RunMoves DEF AppendsEvent, world

-----------------------------------------------------------------------------
(* The operator and the world                                              *)

\* The inventory and the checkouts of hosts may change, if no checkout comes
\* back and none moves, and jobs may be asked for.
LEMMA Around ==
    ASSUME LoopInv, TablesType', VerdictsAreTrue', UNCHANGED <<worker, run, eDoc, pulled>>,
           \A h \in Host : /\ inventory'[h] = inventory[h]
                           /\ facts'[h].checkout \in {facts[h].checkout, 0}
    PROVE  LoopInv'
  <1>1. \A p \in Process : Carries(worker[p])'
    BY DEF LoopInv, Carries
  <1>2. ASSUME NEW p \in Process, Alone(p)'
        PROVE  Fresh(HostOf[p], worker[p])'
    <2>1. Alone(p)
      BY <1>2 DEF Alone
    <2>2. HostOf[p] \in Host
      BY WorkerLoopAssumption
    <2>3. /\ Fresh(HostOf[p], worker[p]) /\ inventory'[HostOf[p]] = inventory[HostOf[p]]
          /\ \/ facts'[HostOf[p]].checkout = facts[HostOf[p]].checkout
             \/ facts'[HostOf[p]].checkout = 0
      BY <2>1, <2>2 DEF LoopInv
    <2> QED BY <2>3 DEF Fresh, Current
  <1> QED BY <1>1, <1>2 DEF LoopInv

LEMMA OperatorStep ==
    ASSUME LoopInv, Operator
    PROVE  LoopInv'
  <1>1. ASSUME NEW h \in Host, pause_instance(h) \/ resume_instance(h)
        PROVE  LoopInv'
    <2>1. UNCHANGED <<worker, facts, inventory, run, remote, jobs, eDoc, pulled>>
      BY <1>1 DEF pause_instance, resume_instance, Changed
    <2>2. TablesType' /\ VerdictsAreTrue'
      BY <2>1 DEF LoopInv, TablesType, VerdictsAreTrue
    <2> QED BY <2>1, <2>2, Around
  <1>2. CASE check_latest_tooling
    <2>1. /\ UNCHANGED <<worker, facts, run, remote, jobs, eDoc, pulled>>
          /\ inventory' = [inventory EXCEPT ![Portal] = Reading(0, 0)]
      BY <1>2 DEF check_latest_tooling, Changed, upsert_tooling_inventory
    <2>2. Reading(0, 0) \in Tool
      BY DEF Reading, Tool
    <2>3. TablesType' /\ VerdictsAreTrue'
      BY <2>1, <2>2 DEF LoopInv, TablesType, VerdictsAreTrue
    <2>4. \A h \in Host : inventory'[h] = inventory[h]
      BY <2>1, WorkerLoopAssumption DEF LoopInv, TablesType, Owner
    <2> QED BY <2>1, <2>3, <2>4, Around
  <1>3. ASSUME NEW request \in Requests, update_tooling(request[1], request[2], request[3])
        PROVE  LoopInv'
    <2>1. PICK job : /\ job = [tool |-> request[1], kind |-> request[2], instance |-> request[3],
                               status |-> "queued", error |-> FALSE]
                     /\ jobs' = Append(jobs, job)
      BY <1>3 DEF update_tooling, create_tooling_update_job
    <2>2. UNCHANGED <<worker, facts, inventory, run, remote, eDoc, pulled>>
      BY <1>3 DEF update_tooling, world
    <2>3. job \in Job
      BY <2>1, WorkerLoopAssumption DEF Job, Status
    <2>4. jobs \in Seq(Job) /\ Len(jobs) \in Nat /\ DOMAIN jobs = 1 .. Len(jobs)
      BY DEF LoopInv, TablesType
    <2>5. /\ jobs' \in Seq(Job) /\ DOMAIN jobs' = 1 .. Len(jobs) + 1
          /\ \A j \in 1 .. Len(jobs) : jobs'[j] = jobs[j]
          /\ jobs'[Len(jobs) + 1] = job
      BY <2>1, <2>3, <2>4
    <2>6. TablesType'
      BY <2>2, <2>5 DEF LoopInv, TablesType
    <2>7. \A j \in DOMAIN jobs' : \/ j \in DOMAIN jobs /\ jobs'[j] = jobs[j]
                                  \/ jobs'[j].status = "queued"
      BY <2>1, <2>4, <2>5
    <2>8. VerdictsAreTrue'
      BY <2>2, <2>7 DEF LoopInv, VerdictsAreTrue
    <2> QED BY <2>2, <2>6, <2>8, Around
  <1> QED BY <1>1, <1>2, <1>3 DEF Operator

LEMMA WorldStep ==
    ASSUME LoopInv, World
    PROVE  LoopInv'
  <1>1. ASSUME NEW h \in Host, NEW f \in Conditions, FactsChange(h, f)
        PROVE  LoopInv'
    <2>1. PICK c : /\ c = [f EXCEPT !.checkout = IF @ = 0 THEN 0 ELSE facts[h].checkout]
                   /\ facts' = [facts EXCEPT ![h] = c]
      BY <1>1 DEF FactsChange
    <2>2. UNCHANGED <<worker, inventory, run, remote, jobs, eDoc, pulled>>
      BY <1>1 DEF FactsChange, Changed, portal
    <2>3. facts \in [Host -> Facts] /\ f \in Facts
      BY WorkerLoopAssumption DEF LoopInv, TablesType
    <2>4. c \in Facts /\ c.checkout \in {facts[h].checkout, 0}
      BY <2>1, <2>3 DEF Facts
    <2>5. /\ facts' \in [Host -> Facts]
          /\ \A g \in Host : facts'[g].checkout \in {facts[g].checkout, 0}
      BY <2>1, <2>3, <2>4
    <2>6. TablesType' /\ VerdictsAreTrue'
      BY <2>2, <2>5 DEF LoopInv, TablesType, VerdictsAreTrue
    <2> QED BY <2>2, <2>5, <2>6, Around
  <1>2. CASE RemoteMoves
    <2>1. /\ UNCHANGED <<worker, facts, inventory, run, jobs, eDoc, pulled>>
          /\ remote' = remote + 1
      BY <1>2 DEF RemoteMoves, portal
    <2>2. TablesType' /\ VerdictsAreTrue'
      BY <2>1 DEF LoopInv, TablesType, VerdictsAreTrue
    <2> QED BY <2>1, <2>2, Around
  <1>3. ASSUME NEW h \in Host, Tick(h)
        PROVE  LoopInv'
    <2>1. UNCHANGED <<worker, facts, inventory, run, remote, jobs, eDoc, pulled>>
      BY <1>3 DEF Tick, world
    <2>2. TablesType' /\ VerdictsAreTrue'
      BY <2>1 DEF LoopInv, TablesType, VerdictsAreTrue
    <2> QED BY <2>1, <2>2, Around
  <1> QED BY <1>1, <1>2, <1>3, FailStep DEF World

-----------------------------------------------------------------------------
(* The theorems                                                            *)

LEMMA LoopInit == Init => LoopInv
  <1> SUFFICES ASSUME Init PROVE LoopInv
    OBVIOUS
  <1>1. Healthy \in Facts /\ NoTool \in Tool
    BY DEF Healthy, Facts, NoTool, Tool
  <1>2. TablesType
    BY <1>1 DEF Init, TablesType
  <1>3. Shape(NeverRun) /\ NeverRun.pc = "off" /\ NeverRun.reading = NoTool
    BY DEF NeverRun, Off, Shape, Fields
  <1>4. \A p \in Process : worker[p] = NeverRun
    BY DEF Init
  <1>5. \A p \in Process : Carries(worker[p]) /\ Fresh(HostOf[p], worker[p])
    BY <1>1, <1>3, <1>4 DEF Carries, Fresh
  <1>6. VerdictsAreTrue
    BY DEF Init, VerdictsAreTrue
  <1> QED BY <1>2, <1>5, <1>6 DEF LoopInv

LEMMA LoopStep == LoopInv /\ [Next]_vars => LoopInv'
  <1> SUFFICES ASSUME LoopInv, [Next]_vars PROVE LoopInv'
    OBVIOUS
  <1>1. ASSUME NEW p \in Process, WorkerStep(p)
        PROVE  LoopInv'
    BY <1>1, RegisterStep, ProbeStep, PostStep, BeatStep, CollectStep, ReportStep, ListStep,
       TakeStep, JudgeStep, PullStep, UpdateStep, WakeStep, FetchStep, UploadStep,
       AttemptStep, PatchStep, EventStep, FailStep
       DEF WorkerStep
  <1>2. CASE UNCHANGED vars
    <2>1. UNCHANGED <<worker, facts, inventory, run, remote, jobs, eDoc, pulled>>
      BY <1>2 DEF vars
    <2>2. TablesType' /\ VerdictsAreTrue'
      BY <2>1 DEF LoopInv, TablesType, VerdictsAreTrue
    <2> QED BY <2>1, <2>2, Around
  <1> QED BY <1>1, <1>2, MainStep, OperatorStep, WorldStep DEF Next

\* However the processes of all hosts cross each other, lose answers, break off
\* and are started again, each carries what it has to report, and every process
\* alone on its host knows the version it has.
THEOREM LoopHolds == Spec => []LoopInv
  BY LoopInit, LoopStep, PTL DEF Spec

\* A job called completed was pulled and a failed one says why; evidence called
\* uploaded reached eDoc and has its attempt (process_tooling_update_jobs,
\* upload_evidence_report).
THEOREM VerdictsTrue == Spec => []VerdictsAreTrue
  <1>1. LoopInv => VerdictsAreTrue
    BY DEF LoopInv
  <1> QED BY <1>1, LoopHolds, PTL

\* The inventory of a worker that is alone on its host is current while it sleeps
\* after a cycle that went well (report_tooling, once more after its jobs).
THEOREM InventoryCurrent == Spec => []InventoryIsCurrent
  <1>1. LoopInv => InventoryIsCurrent
    BY DEF LoopInv, InventoryIsCurrent, Alone, Fresh, Current, At
  <1> QED BY <1>1, LoopHolds, PTL
=============================================================================
