# Verification of the PAVE Dark Factory worker and its portal

TLA+ models of this repository, checked with TLC on small instances and, for
the results listed under [Proofs](#proofs), proved with TLAPS for every value of
the constants. Paths below are relative to the repository (`src/`).

`PROJECT.json` is the index: which definition models which lines (`map`), which
run checks what (`runs`), what could go wrong and which property would notice
(`hazards`), a plausible bug that each property is known to catch (`mutants`),
where the code disagrees with its documents (`findings`).

## 1. Inventory

The repository holds two programs that share one FastAPI backend: the *dark
factory* (a worker that takes tasks from a PAVE board and gives them to Archon
workflows, and the portal that records what it does), and the *RAG assistant*
it grew from (chat over a video library).

### Dark factory

| part | code | state | operations | what is hard |
|---|---|---|---|---|
| Scout worker | `app/backend/factory/worker.py`, `edi_cli.py` | locals of one cycle; nothing persists in the process | `scout_once` (poll, guard, select, resolve, create row, guard again, start, dispatch), `escalate_task_to_guardian`, `run_loop` | every call is remote; people and other workers move PAVE between two calls; any call may fail, time out after its effect, or be the last one before a crash |
| PAVE board | external, through `edi` and the Glow API | status, assignee and readiness of tasks; one task plays per staff code | `task start`, `suspend`, `assign`, listings | starting a task suspends the one that plays |
| Portal run rows | `routes/factory.py`, `db/factory_*_repository.py` | run rows, cycles, events, artifacts | create, patch, active-run lookup, finish cycle | the lookup and the creation are two requests; SQLite patches are read-modify-write |
| Worker loop and instances | `worker.py:488-571`, `1540-1637`, `routes/factory.py:668-711`, `432-470` | one row per instance: status, last seen, `is_paused`; the mode of each process | register, probe, post, heartbeat, sleep, one-shot modes; pause, resume | several processes share one instance; heartbeat and pause write the same columns of the same row; any answer may be lost |
| Tooling jobs | `worker.py:574-648`, `routes/factory.py:856-882` | job rows queued/running/completed/failed | list, take, `git pull`, finish | no compare-and-set: two workers may run one job; a crash leaves it running |
| MCP readiness, tooling inventory | `worker.py:254-485`, `routes/factory.py:430-510` | latest row per instance and MCP; versions per tool | probe, report, list stalled | rows arrive one by one; an update makes the inventory stale |
| Evidence (eDoc) upload | `worker.py:838-908` | eDoc rows | fetch, upload, record | three calls, any may fail |
| Archon workflow | `.archon/workflows/pave-dark-factory-execute-task.yaml` | its own run | close or suspend at the end | detached; outlives the worker |
| Dashboard | `app/frontend/src/pages/FactoryDashboard.tsx` | view | reads the portal | display only |

### RAG assistant

| part | code | state | operations | what is hard |
|---|---|---|---|---|
| Daily message cap | `rate_limit.py`, `db/user_messages_repo.py` | audit rows per user | `check_and_record`, `get_status` | concurrent sends; the statement's `now()` is the transaction's start, older than its lock |
| Sign-up limits | `signup_rate_limit.py`, `routes/auth.py`, `db/postgres.py` | attempt rows, pool of 10 connections, a global advisory lock | sign up | a second connection is taken while the first holds the lock |
| Membership gate | `integrations/circle.py`, `auth/dependencies.py`, `routes/auth.py` | member flag and time of the last answer | verify at sign-up, refresh on `/me` | a failed call is stamped like an answer; answers cross |
| Chat turn | `routes/messages.py`, `llm/openrouter.py`, `rag/tools.py` | messages of a conversation | own, limit, insert, retrieve, stream, persist | the client may leave at any token; the model decides how often tools are called |
| Library | `routes/channels.py`, `admin.py`, `ingest.py`, `ingest/dynamous.py`, `db/repository.py`, `scripts/sync_channel_cli.py` | videos, chunks, sync runs, caches | sync, add, delete, re-chunk | several statements without a transaction; caches invalidated by some writers only |
| Retrieval | `rag/{chunker,retriever_hybrid,expansion,catalog,citations,embeddings}.py` | caches | chunk, rank, fuse, cite | index arithmetic |
| Frontend hooks | `app/frontend/src/hooks/*` | view state | stream, load, switch | answers that arrive after the view moved on |
| Migrations, deployment | `app/backend/alembic`, `scripts`, `deploy/` | schema, containers | migrate, blue/green swap | a step fails half-way |

How they interact: the worker calls the portal over HTTP (`FactoryApi`), PAVE
through the `edi` executable, Glow over HTTP, and starts Archon as a detached
process which later patches the run row itself. The portal is the only owner of
the rows. The assistant's routes share the database pool with sign-up and the
message cap.

### What makes each part correct

- *Scout*: it never starts a task it could have known would suspend another
  play; whatever crashes, a row tells the truth about the calls that were made;
  no startable task waits for ever.
- *Run rows*: at most one active row per task; a settled row stays settled.
- *Instances*: a pause survives heartbeats and is obeyed.
- *Tooling jobs*: each job is run once and ends.
- *Message cap*: at most 25 messages in any 24 hours, however they interleave;
  a refusal names a time at which one more is allowed.
- *Sign-up*: limits hold under concurrency, and nobody waits for ever.
- *Membership*: the flag follows Circle's last answer.
- *Chat turn*: every accepted user message ends with a stored answer or an
  error, and nothing is stored twice.
- *Library*: a listed video can be retrieved; what is deleted is not cited.
- *Retrieval*: an answer holds what was found, once, with a source that can be
  opened; paid lessons reach members only.
- *Frontend*: what is shown belongs to the conversation that is open.

## 2. Plan

Each component has a module with one action per call, statement or step of the
code, constants with named assumptions, no `RECURSIVE` operator, and an MC module
with its instances. The order is that of importance.

| # | module | what | state |
|---|---|---|---|
| 1 | `FactoryScout`, `ScoutHistory`, abstract `ClaimLedger` | the scout cycle against PAVE and the run rows | done, with proofs and the refinement |
| 2 | `MessageCap` | the daily cap under the clock of Postgres transactions | done, with proofs |
| 3 | `SignupPool` | connections, the advisory lock, the limits, the deadlock | done, with proofs |
| 4 | `RowStore` | one row under concurrent requests, in each repository | done, with proofs |
| 5 | `Library` | sync, add, delete, re-sync, ingest, the lessons' sweep, the catalog | done, with proofs |
| 6 | `ChatTurn`, `Citations` | questions, tool rounds, streaming, disconnects, what is stored | done, with proofs |
| 7 | `Membership`, `Retrieval`, `Fusion`, `Chunker`, `Transforms` | who may see lessons; the tools over a library that changes; merging and chunking as functions | done, with proofs |
| 8 | `WorkerLoop` | registration, probes, pause, tooling jobs, evidence | done, with proofs |

What is left, in this order: the frontend's hooks over `ChatTurn` (an answer for a
conversation that was left is shown in the one that is open, `useMessages.ts:25`);
the parts of the repositories that only insert or list; the blue/green swap and
the migrations. A theorem still worth proving: what `Says` knows of the nested
markers that `StoredIsSaid` excludes.

How the modules compose: `ScoutHistory` extends `FactoryScout` and implements
`ClaimLedger`; `ChatTurn` extends `Citations`; `Retrieval` extends `Membership`
(the flag a turn reads) and `Fusion`; `Transforms` extends `Chunker` and `Fusion`;
`MCRetrieval` extends `Retrieval` and `Transforms`. `ChatTurnProofs` holds the proofs
about `ChatTurn` and about `MessageCap`, whose names differ for that (`CapInit`,
`CapNext`, `CapSpec`). A request that is one step in `FactoryScout` or `WorkerLoop` is opened up in `RowStore`; the
cap that `ChatTurn` asks once is `MessageCap`; the transaction behind `SignsUp` is
`SignupPool`; a re-sync that is one step in `Retrieval` is `Library`.

## 3. Modules and code

### `FactoryScout`

One action per call that `scout_once` and `escalate_task_to_guardian` make, in
the order of the code; `pc[w]` names the next call, `loc[w]` the locals that
survive it (the merged listing, the Glow rows, the selected row, the task and
the run id).

| labels | code |
|---|---|
| `idle`, `cycle`, `stall` | open the cycle row, MCP readiness and its stall row, the executable of `edi` (`worker.py:911-1006`) |
| `global`, `board` | after `edi staff tasks`: the two Glow listings and their merge; a failure keeps what was listed (`worker.py:1008-1035`) |
| `polled` | the first guard, nothing to do, the selection (`worker.py:1037-1093`, `edi_cli.py:201-220`) |
| `resolve`, `lookup`, `create` | the task's twin, the active-run lookup, the run row (`worker.py:1095-1310`) |
| `gates`, `fresh`, `park`, `claim` | configuration gates, the second look, a refused row, the patch that announces the start (`worker.py:1312-1433`) |
| `start`, `claimed`, `dispatch`, `dispatched` | `task start`, patch, Archon, patch (`worker.py:1434-1538`) |
| `suspend`, `assign`, `record` | the escalation (`worker.py:738-835`) |

PAVE (`status`, `ready`, `mine`, `hand`) is external: a start plays the task and
suspends whatever else the staff code plays, and may take effect although the
call reports an error. People play, stop and take over tasks; prerequisites are
met; a workflow ends by completing, suspending or losing the task
(`ArchonEnds`). `AbandonCycle` stands for a crash and for every exception that
`run_loop` catches: the cycle is dropped between two calls. `age` orders rows by
`updated_at`, because the lookup reads only the latest rows.

`ScoutHistory` adds history variables: what has been playing without a break
since the cycle, or the run row, began (`sinceCycle`, `sinceRun`), the rows for
which a start call was made (`issued`) and those whose call played the task
(`started`). `ClaimLedger` is what the rows promise: free, open, announced,
issued, or closed. `StageOf` maps a run row to its stage; `ImplementsLedger` is
the refinement.

### `MessageCap`

`check_and_record` statement by statement: `Begin` fixes `now()`, `Lock` takes the
user's advisory lock, `Count`, then `Insert` or `Refuse` (with the second query
for the oldest row). `Commit` makes the row visible and releases the lock.
`Abort` is a cancelled request or a lost connection.

### `SignupPool`

The sign-up handler with each connection it takes: one for the transaction, a
second for a duplicate's audit row, one for `set_member_status`. `Other` requests
take a connection each. Waiting in the pool or for the lock is a disabled
action.

### `RowStore`

Requests on one row, in four backends: SQLite (a JSON document, read and then
written whole), Postgres (one `UPDATE` that merges), SQL Server with locking
reads, and SQL Server with row versions (read committed snapshot). `ask` is what
a patch changes: columns and metadata keys, taken from the instance updates
(upsert, heartbeat, pause, resume) or the run patches (dispatch, evidence,
escalation). A value is the request that wrote it. An append inserts an event
and rewrites `dashboard_log` from the events it reads. `before[r]` is the set of
requests that had ended when `r` began: "undone" means replaced by one of them.

### `Library`

Every way into and out of the tables `videos` and `chunks`, one action per
database statement or external call: `sync_channel` (from the admin page, forced,
or in the scheduled process, where `Outside` holds), `add_video`, `resync_video`,
`delete_video`, `ingest_video`, `ingest_from_url` and the start-up sweep of
Dynamous lessons. `kind[o]` says which of them operation `o` is, `pc[o]` its next
statement, `loc[o]` its locals. A chunk is a row id, the number of a part, the
operation that stored it and whether it was stored in one transaction
(`replace_chunks_for_video`) or alone (`create_chunk`): which operation stored a
part stands for its content. `get_catalog` is asked, answered and kept in three
steps, since the cache is filled after the `await`; `known` is a history variable,
the videos an invalidation has announced while no `get_catalog` waited. Each
external call and each statement may fail, and a process may die, in which case
its transaction is undone and the `finally` of no handler runs. `Blanks` names the
editions of a lesson from which nothing can be extracted or chunked; such a lesson is
passed over without an error (`LessonIsBlank`, `dynamous.py:198-206`).

### `ChatTurn` and `Citations`

A turn is one `POST …/messages`: `Posts`, `Owns`, `Counts`, `InsertsQuestion`,
`ReadsHistory` (`messages.py:61-117`), the rounds of `stream_chat` (`AsksModel`,
`Token`, `CallsTools`, `RunsTool`, `OverCap`), the sources (`TakesSources`,
`Finishes`), the save in the `finally` (`Saves`), and the automatic title. The
shielded save is a task of its own: `InsertsAnswer` may happen after the client's
departure (`LeavesWhileStoring`) has ended the turn, and `touch_conversation` may
raise when the row is there (`TouchFails`). `Citations` holds
`CitationMarkerStripper` on sequences of characters, so that a marker can be cut
by the stream at any place: `Markers` are the places that `_MARKER_RE` matches,
`PartialAtEnd` what `_PARTIAL_AT_END_RE` does, and a text loses its markers by
keeping the places outside of them (`Picks`).

### `Membership`, `Retrieval`, `Fusion`, `Chunker`, `Transforms`

`Membership`: `users.is_member` and the age of `member_verified_at`, the calls to
Circle (search, access groups) of a sign-up, a login or `/me`, and the store of
the answer; Circle changes and fails, and a request may break off with nothing
stored (`BreaksOff`). `Retrieval`: one chat turn that calls the
four tools, await by await: embedding, keyword and vector search (any ranking),
the fusion, metadata through `_video_cache` or per video, the cap per video,
neighbours, spans, transcripts. Meanwhile videos are re-synced or deleted and the
caches invalidated later. An expansion gathers hits and neighbours, sorts them
(`Sorted`), cuts them where a place is missing (`Runs`) and answers a span for each
run. `Fusion` is `_rrf_merge` with scores as fractions; `FairMerge` is what a merge
owes.
`Chunker` is the splitting, grouping, forced splitting and timing of `chunker.py`
as functions on sequences of tokens; docling's `HybridChunker` is external and may
group or raise as it likes. A loop over parts is a fold. `_split_text` calls itself on
a part that is too long; such a part holds no more of the separator it was cut at, so
each separator is a function that falls back on the finer ones (`SplitAt`).
`Transforms` runs these functions, one job after another: a transcript to chunk, with
or without timestamps, or a pair of rankings to merge.

### `WorkerLoop`

One action per request or command of `main`, `run_loop`, `report_readiness`,
`report_tooling`, `process_tooling_update_jobs` and `upload_evidence_report`.
`worker[p]` is a process in one of its modes (`loop`, `check`, `escalate`,
`evidence`), several of which may run on one host and therefore as one instance
(`_stable_instance_id`). An answer can be lost after its effect (`Answered`), a
process can die anywhere. `facts[h]` is what a probe would find on the host.
`pulled` and `abandoned` are history variables. The scout cycle itself is left to
`FactoryScout`.

## 4. Runs

`CHECK_DEADLOCK FALSE` appears in every run because every instance ends: run ids
are used up, requests are sent once, the clock stops at `MaxClock`. Waiting for
ever is the subject of the liveness properties instead.

| run | shows | bounds, and why they are enough |
|---|---|---|
| `scout_one` | types; one active row per task; no start suspends the factory's own play | one scout, three rows so that a row left by a crash, a legacy dry-run row and a new one coexist; one task of the staff listing, one that only Glow lists, one of neither that an operator escalates; all ten faults, one human act, one crash; dry-run may differ between cycles. Every action fires. The one-row property is of a single scout |
| `scout_pair` | both guards see what they can see; the ledger properties and the refinement | two scouts of one staff code, two rows, a task that only Glow lists, refused starts, configuration gates, a human act and a crash: the race for one task and a start that came too late |
| `scout_live` | no startable board task is passed over for ever | three tasks, one that the staff listing omits, three rows: the passed-over task is preceded by two others |
| `cap` | the cap in every window, honest refusals, every send answered | four sends of one user, cap 2, window 2, clock to 3: a stale transaction, a full window and the next one. One user is enough: locks and counts are per user |
| `signup_limits` | both limits, accounts against audit rows and answers, everybody answered | three sign-ups, two per address and two per e-mail, four connections and one other request, limits of 1: each outcome occurs |
| `rows` | which writes a slower request can undo, per repository | two patches and two appends, every mix of kinds and all four backends. A lost write needs two requests, a blocked pair two appends |
| `library` | what stays searchable, what sync records say, what a lesson's hash promises, what the catalog may omit | every pair of the nine kinds of operation, two videos of which one can be asked for, one lesson in three editions of which the third is blank, two parts, one reader, two failures of any kind. Overlap needs two operations; a half-stored video two parts |
| `chat` | what is stored and shown of an answer, and that turns end | two questions in one conversation, the second by either user; two tool calls in a round and one allowed; three chunks of two videos; a marker in two pieces and a refusal; one failure, departure or death; a cap of one uncited source |
| `retrieval` | lessons, spans, fusion, chunking, the member flag | two crossing checks, two changes and one outage of Circle; two tool calls over a talk of five chunks and a lesson of one; rankings of three chunks; transcripts of seven tokens |
| `worker_loop` | stalls, tools, jobs and evidence as the dashboard shows them | a looping worker and a second process started by hand on the same host; at most two of jobs, changes and faults together, one fault; a job limit of 1 and a report limit of 2 for 50 and 2000 |

`retrieval` composes three parts that share little, and `MCRetrieval` says how: a
turn reads the flag once, when it begins, so it begins when Circle has said all it
will (every flag and history of payments is then reachable); merging and chunking
share no state with the rest and run on their own. `worker_loop` uploads evidence
only while nothing else has happened: evidence and jobs share nothing but the
registration. In both, `NextBounded` is the part of `Next` that the instance takes
(`SpecBounded`); the theorems are about `Spec`, which takes all of it.

Two runs end in a counterexample. Each checks a sentence of the repository's
documents or comments; `findings` quotes it.

| run | the code | the sentence |
|---|---|---|
| `scout_lost_race` | parks a lost race in a status that counts as active, so the task is never tried again | `docs/dark-factory-pave-single-source-report.md:1830` |
| `signup_exhausted` | takes a second connection under the lock | `auth.py:167-169` |

What some properties leave out on purpose, because the code does otherwise:

- `GuardsHold` says what a reader of a remote board can promise. With Glow down
  the cycle goes on with the staff listing alone (`worker.py:1034`) and may
  suspend a play of its own board; the second look repeats the staff listing and
  not Glow; a failed start is escalated by suspending whatever plays the task. The
  stronger sentences are in `FACTORY_RULES.md:24`, `MISSION.md:71` and
  `FACTORY_RULES.md:44`.
- `NewestStands` and `LogIsEvents` name the repositories they speak of: in SQLite a
  row that was read before is written back whole, in SQL Server its metadata is, and
  in Postgres the refresh with the older snapshot may write `dashboard_log` last.
  `AloneStands` is what is left in every one of them.
- `SweepBringsEdition` does not speak of a lesson whose edition yields no chunk: see 7.
- `VerdictsAreTrue` has one direction: eDoc may hold a report that the portal calls
  failed, or does not know.
- `FlagSettles` allows the delay after a failed call: see 7.
- `OneActiveRunPerTask` excludes tasks that an operator escalates by hand: that
  command creates a row without a lookup. It is of a single scout, and the limit of
  500 rows is not reached.
- `EveryJobEnds` allows a job that a process had in hand when it failed (it stays
  `running`), one that 50 newer jobs hide, and one no looping worker may take.
- `CatalogKnowsAnnounced` speaks of the invalidations that happened while no
  `get_catalog` was waiting: see 7.
- `SpansTellTheVideo` states the full contract only for a call that nothing
  disturbed.

## 5. Fairness

- `FactoryScout`: weak fairness of each scout, because `run_loop` polls for ever
  and every call returns or times out; of `ArchonEnds`, because a workflow has a
  last node; of `HumanStops`, because a person does not play for ever. Nothing
  is assumed of PAVE's prerequisites or of which outcome a call has.
- `MessageCap`: weak fairness of each send that has begun. The lock's holder
  always has a next statement, so a waiter's turn comes. Neither starting a send
  nor aborting one is owed.
- `SignupPool`: strong fairness of each sign-up, because the pool's queue and the
  lock's queue are served in order, so one that is repeatedly about to be served
  is served; weak fairness of the other requests, which end.
- `RowStore`: weak fairness of requests that have begun, and of the deadlock
  monitor of SQL Server.
- `ChatTurn`: every posted turn and every shielded task goes on until it ends (the
  event loop, bounded calls). It is written without `ENABLED`, as an active turn
  always has a step: `[]<>~Active \/ []<><<Advances>>`, which TLC evaluates much
  faster. That the provider calls no tool it was told not to call (`tool_choice:
  none`) is the constant `ProviderObeys`; without it the loop of
  `openrouter.py:276` need not end.
- `Membership`: Circle's calls end within their timeout, stored times grow old,
  users come back to `/me`.
- `WorkerLoop`: a process that runs takes steps, because every request and command
  has a timeout. Nobody need start one, and one may be killed. An instance is
  silent no longer than `FACTORY_INSTANCE_STALE_SECONDS` while its process runs,
  except in a job (`Tick`): a cycle and its sleep take less than three intervals.
- `Library` has no liveness property: each operation is a finite sequence of
  statements.

## 6. Proofs

All theorems hold for every value of the constants that satisfies the named
assumptions (`ScoutAssumption` and `NoneIsNoRow`, `CapAssumption`,
`SignupAssumption`, `RowAssumption`, `LibraryAssumption`, `ChatAssumption`,
`CitationsAssumption`, `MembershipAssumption`, `RetrievalAssumption`,
`FusionAssumption`, `ChunkerAssumption`, `TransformsAssumption`,
`WorkerLoopAssumption`). They state the types of the constants,
positive limits, and that a "nobody" value is no member of the set it extends. None
restricts how many workers, tasks, requests, operations, turns, processes or failures
there are. `FusionAssumption` also says that the constant covers the over-fetch
(`K >= MaxTopK * Overfetch`), which `config.py` satisfies with equality: 60, 30
and 2. `CitationsAssumption` says that a marker's punctuation is in no id, as
`_MARKER_RE` does. A theorem that needs more says so in its own `ASSUME`, given
below.

**The scout** (`ScoutProofs`). `TypeCorrect`: `TypeOK` is inductive because it names
the labels at which a cycle has a row, a task and a selection. The step is proved
action by action.
- `SecondGuard`: `SecondGuardHolds` is inductive on its own, with the fact that a
  play the listing can show is in the listing.
- `FirstGuard` assumes the Glow fallback and an answering Glow. `FirstInv` says
  where a cycle's knowledge is: what has played since the cycle began is in the
  global answer, then in the merged listing, and after the selection there is
  nothing. `Guards` joins the two.
- `NeverSuspends` assumes the fallback and one worker. Nobody else of the factory can
  start a task, so until a person acts, what plays when start is called has played
  since the cycle began (`StillPlaying`), and `FirstGuard` says that it was seen.
- `OneActive` assumes one worker and a lookup that reads as many rows as there are
  (`Cardinality(RunId) <= Window`; 500 in the code). `Ages` bounds how far back a row
  can be in the order of the lookup by the number of rows, so none is missed, and
  `Alone` says what the cycle knows from its lookup to the end: no active row of its
  task before the creation, none but its own after. Both assumptions are needed: the
  lookup and the creation are two requests.
- `NoMutationTrue`, `StartRecordedFirst`, `ClaimedStarted`: `LedgerInv` has three
  parts. `Own`: a cycle's row belongs to that cycle. `Apart`: two cycles have
  different rows. `RowTruth`: what each row says, label by label. Without `Apart`
  another worker could close a row between its announcement and its call.
- `LedgerImplemented`: each step changes the stage of one row as `ClaimLedger`
  allows, or of none.

**The cap** (`ChatTurnProofs`, `CapInv`). `CapNeverExceeded` is about windows that end at
any time, while the code counts at `now()`. The query has no upper end, so a count
made at an old `now()` includes every row committed since; the new row therefore
brings no window above the cap. The inductive invariant adds to `TypeOK` who holds
which lock (`Locked`), that recorded times are not in the future (`Past`), that a
count stays exact while the lock is held (`Fresh`), and that after a refusal as
many rows as the cap admits keep counting until its `reset_at` (`Full`).
`RefusalsStand` and `ResetWorthWaiting` follow from it, and `RefusalsRight` joins
them.

**Sign-up** (`SignupPoolProofs`). The same argument with one lock and two windows:
`Mutex`, `Past`, `Fresh` (what was checked holds until the commit) and the
properties themselves, joined in `LimitsNeverExceeded` and `AlwaysAudited`.
`OneMoreInWindow` is the lemma on windows.

**Rows** (`RowStoreProofs`).
- `ColumnsAreNewest`, `KeysAreNewest`, joined in `NewestAlwaysStands`: `Ordered`
  says that `before` refers to the past only, so a request that writes now is
  before no request that has ended. It puts its own name into what it sets and
  leaves the rest as it is stored.
- `LogEqualsEvents` (`OneReader`): while an append has read and not yet written,
  it is the only one with an uncommitted event, so what it writes is what is
  committed with it.
- `AloneIsSafe` (`Kept`): a request that overlapped no other is in the row and in
  every copy that a later request has read.

**The library** (`LibraryProofs`).
- `TypeCorrect`: the invariant `Types` has four parts. `Ops` says, with `Fits`,
  what an operation knows at each of its statements (its video, its row, its
  part); `Tables`, `Records` and `Caches` type the rest.
- `NeverHalfReplaced`: a transcript that one transaction stored is there whole or
  not at all. Its invariant `PartsInv` says of the stored chunks, and of the
  snapshot that every open replacement has taken, that they are closed under the
  parts of one transaction (`Tied`), and that a snapshot is of the replacement's
  own video (`Own`). A replacement deletes its snapshot, not what is there when it
  commits: this is why overlapping re-syncs may leave both sets, and never half of
  one.
- `StaysSearchable`: `StaysWhole` for any number of overlapping operations. A
  statement that removes chunks is a delete of the video or a commit that puts a
  whole transcript in their place.
- `ShelvesHold` is the invariant that the next three rest on: a sweep works on
  lessons and every other operation on YouTube videos, a hash is a lesson's, and a
  chunk has its row.
- `HashNeverLies`: one sweep runs at a time (`OneSweep`) and nobody else writes to a
  lesson, so the snapshot a sweep replaces is what is there (`SawLatest`), and for
  every stored hash there is a sweep whose whole edition the chunks are (`Vouches`).
- `SweepsBringEdition`: a lesson has one row (`OneRow`), and a sweep without an error
  has brought every lesson it has been through to its edition, if that yields a chunk
  (`Brought`), whatever an earlier sweep left when it died.
- `IngestedStaysWhole`: what a sync has stored so far is there unless somebody has
  stored the whole transcript meanwhile (`Stored`), and an ingested entry's video is
  whole until it is deleted (`EntryWhole`).
- `RunsReportRecords`: the counters of a sync are those of its entries between two
  videos, and off by one, in a known way, while it is with one (`Tally`).
- `CatalogComplete`: a list that was read and may yet be kept names every announced
  row that is still there (`AnnouncedInv`).

**The chat** (`ChatTurnProofs`). `ChatHolds`: the invariant `ChatInv` says what a turn
knows of itself at each label (`Knows`: its conversation, what it heard, whether its
sources were shown and a save is owed), where each row of a conversation stands
(`Placed`: whose turn it is, and after which question), and that the question of a
turn under way is there unless the conversation is gone (`Asked`).
- `MessagesAtHome` and `ShownIsStored` follow from it.
- `SourcesHonest`: the places that `Picks` keeps are the elements of a set in order
  (`PicksAre`), so the citation cap and the collapse by video keep what they must, and
  a source is called cited exactly if its video is.
- `StoredIsSaid`: `ToldInv` adds what a turn has sent of what was said (`Says`) and
  that a stored answer is what its turn had sent (`RowsTold`). `Told` is the invariant
  of the stripper: what was given out, with what is held back, is the text so far
  without its markers. One `feed` keeps it (`FeedTells`) because stripping a text that
  continues another removes the markers of the first, and those that the held end and
  the new piece make together.

  It assumes of what the model says (`Plain`) that no marker begins where the beginning
  of another stands unfinished, and that no unfinished marker fills the hold-back. The
  code needs both. Of the deltas `[c:`, `[c:a]`, `a]` the stripper joins what the inner
  marker leaves and removes `[c:a]` once more, which one pass of `_MARKER_RE` over the
  whole text leaves in place. An unfinished marker as long as `_MAX_HOLDBACK` is given
  out as it stands (`citations.py:58`), and its end is then not recognised. Nothing but
  parts of markers is concerned, and the ids that the prompt asks for have neither
  form; the instance that TLC checks has no such deltas.

**Membership and retrieval** (`RetrievalProofs`).
- `BothBeatOne`: whatever the ranks, a chunk that both searches found outranks each
  that only one found, exactly because the constant covers the over-fetch.
  `AgreementStands`: an order on which both rankings agree is never turned round. They
  are facts about fractions, which the comparison by cross-multiplication keeps in the
  integers.
- `MergesFairly`: every merge is fair (`FairMerge`). Scores with a tie rule order the
  candidates totally, so "the element with k - 1 ahead of it" is one element for every
  k (`PlacesInOrder`), and the first places hold what has the fewest ahead. `MergeFair`
  says it of every state of `Transforms`.
- `RetrievalHolds`: the invariant `RetrievalInv` joins `PaidTold` (a flag, and every
  answer under way, is of somebody that has paid once), `Legal` (what a turn holds at
  any stage may be shown to its user), `InStage` (how far a call is), `Calm` (while
  nothing was changed or failed, what it holds is what is stored) and `CacheTrue`.
- `LessonsShown` is `Legal` at the stage where the answer is read.
- `SpansTold` assumes that expansion is on (`Window # 0`; the default is 1, and with 0
  the hits are answered one by one). Sorting and cutting are shown to lose nothing and
  to repeat nothing for any hits and neighbours, also of two editions (`Gathers`,
  `Apart`); for a call that nothing disturbed, a run is an interval of places of one
  edition and two runs do not touch (`CalmTold`).

**Chunking** (`ChunkerProofs`). `ChunksTold`: what `ChunksTellTheTalk` claims holds for
transcripts of every length, every limit and title, and whatever `HybridChunker` groups
or raises.
- The induction over texts is over a set of sequences that contains the empty one and,
  with each of its members, every sequence with one element more (`ByAppending`;
  `ByCounting` for numbers). `Fold` and `FlattenSeq` take one element after the other,
  and what a loop of the code keeps is a set of that kind. No parameter of a theorem is
  an operator.
- `SplitTextTells`: the pieces of a text that is too long are short enough (but for a
  title that is itself too long), the last one is not blank, and they tell what the
  text tells in its order (`WellSplit`). It is shown for hard cuts
  first and then for stops, lines and paragraphs, each with the one before as `finer`;
  `Grouped` is what holds while `_group_parts` goes through the parts. It rests on the
  shape of what comes to be split (`Plain`): it ends with something said, so a group
  that the code drops as blank held nothing.
- `ChunkVideoTells` adds the grouping by `HybridChunker` (`Groups`: each paragraph is
  in one group, in order, and a chunk is at least as long as each of its paragraphs) and
  the forced split. Three paragraphs give two chunks: a text that is too long falls
  into at least two pieces that are not blank (`Spoken`); if none was, no paragraph is too
  long, and what is forced stays within the limit and a title.
- `TimedChunksTell`: chunks of one segment share its interval in steps and in turn
  (`InTime`), and those of a later segment begin no earlier when the segments are
  `Orderly`.

**The worker loop** (`WorkerLoopProofs`). `LoopHolds`: the invariant `LoopInv` says what a
process carries from the step that did the work to the one that reports it (`Carries`:
a verdict "completed" only for a job whose pull succeeded, "uploaded" only when eDoc has
the file). `VerdictsTrue` is part of it. `InventoryCurrent` adds what a process alone on
its host knows of the version it has read (`Fresh`), from the reading through the pull to
the sleep. What it reports is that version, or none when git could not name the commit.

Only model-checked, with the reason:

| what | why |
|---|---|
| `EveryTaskServed`, `EverySendAnswered`, `EverySignupAnswered`, `EveryRequestAnswered`, `TurnEnds`, `FlagSettles`, `DashboardSettles`, `EveryJobEnds` | liveness under fairness, out of the prover's reach, like `ENABLED` |
| `StoredIsWhatWasSaid` for texts that are not `Plain` | false of the code, see `StoredIsSaid` |
| `OneActiveRunPerTask` and `NeverSuspendsPlayingTask` with several workers | not promised by the code: the lookup and the creation are two requests |
| the two violations | counterexamples |

## 7. What is left out, and what was seen

### Abstractions

- The scout reads PAVE in one step per listing; the inside of `edi` and of Glow is
  external. Each portal request is atomic in `FactoryScout`; what happens inside
  one is `RowStore`. Events, artifacts and snapshots carry no control.
- A staff row whose own task no longer matches it is given up; in the code a single
  other task with the same fields would be taken for it (`edi_cli.py:533-541`). An
  operator's escalation is a process of its own; a scout between two cycles stands
  for it.
- The lookup's limit is the constant `Window`, and no instance reaches it:
  exceeding 500 rows needs as many rows as runs.
- `MessageCap` and `SignupPool`: the clock does not go backwards; acquiring a
  connection and `BEGIN` are one step, as are the commit and the release of the
  lock; the insert is visible to others only at the commit.
- `signup_exhausted` has as many sign-ups as connections (2); in the code that is
  10 at once.
- `RowStore`: the row exists. The 404 path and two concurrent first registrations
  are left out. In SQL Server a patch's `UPDATE` and re-read are one step, since
  nothing can come between that changes the row. Artifacts, repositories and
  critic reports are only inserted, so no request can undo another's.
- `Library`: listings read in one step; two clips of a channel and one lesson
  stand for many; embeddings are not looked into. A transcript that is removed from
  the disk is not modelled: the sweep does not see it, and its lesson stays.
- `ChatTurn`: the prompt and the text of chunks are not looked into; the turn with
  `LLM_TOOLS_ENABLED=false` is not modelled. `MaxHoldback` is large enough for
  every id of the instance, and no marker of the instance is nested in another; see
  `StoredIsSaid` in 6 for what happens otherwise.
- `Retrieval`: a ranking is any order, an embedding is a call that fails or not. The
  status line of a tool call, which may name a video (`openrouter.py:174-201`), is
  left out.
- `Chunker`: the limit is `MaxChars`, of which a separator takes what it takes in the
  code and the title a width of its own. Blanks at the ends of lines are left out, so
  `". "` stands between words only: `strip()` takes its blank at the end of a
  paragraph. Two line breaks in a row are a paragraph's. Words are counted as runs of
  characters.
- `WorkerLoop`: one tool with a checkout and one without stand for six, one MCP
  for the required ones, a report is the number of events it holds. A failed job has
  an error message; of a pull it is what git wrote to stderr, which may be nothing.
  Reauthentication sessions are rows that an operator edits and nothing reads.
- Components with status `not_modelled` in `PROJECT.json` each have their reason
  there: prompts run by an external engine (what they may do to a task is
  `ArchonEnds`), a page that only displays, library calls on one value, calls of a
  service whose failure is a fault of its callers, development data, scripts run
  one at a time by an operator, and the frontend, which is next.

### Behaviour the models show and no property claims

The models do all of the following, so no property contradicts it. A maintainer
may want to know.

*Worker.* The loop never reads whether its instance is paused (`worker.py:1545`),
against `FACTORY_RULES.md:22`. Each registration writes `ready` before the probes,
so a stalled instance looks ready for a moment in each cycle, and a process that
dies between the two lets its stall fade from the list. An instance that was
paused or stalled when it died is listed for ever. Jobs asked for on the dashboard
name no instance, so any worker may run one on its own host for another host's
tool (`README.md:150`). A job for the tool of a stale instance ends in "No
automated update handler". A `git pull` that times out leaves its job `running`. A
completed job keeps an earlier `error_message`. The evidence report lists the
oldest 2000 events and says `full_log_included` in any case (`README.md:21`).
Postgres lists stalled MCPs of dead instances too, the other repositories do not.
The registration at start is outside the loop's exception handler: if it fails,
the process ends. The patch to `running` after a dispatch may reopen a row that
the workflow has already closed.

*Portal accounts.* A failed Circle call is stored with the time of an answered
one, so the "next /me" of `circle.py:7` comes only after
`MEMBERSHIP_REFRESH_SECONDS`. `get_status` reads the counter in two statements and
may show one used message without a reset time (`rate_limit.py:104`).

*Library.* Overlapping syncs store a video twice, against "idempotent by
youtube_video_id" (`channels.py:64`). When `add_video` fails in its replace, a row
without chunks stays, against its docstring (`admin.py:182`). The scheduled sync
runs in a process of its own, and the admin's add and delete clear the retriever's
cache and not the catalog, so the portal's catalog can lack or keep their videos
until another writer invalidates it (`catalog.py:3-5`); a `get_catalog` that waits
across an invalidation keeps the older list. A lesson whose file becomes blank is
skipped with a warning and counted nowhere (`dynamous.py:198-206`): what was stored of
it stays searchable at its older edition and hash, and a sweep reports no error.

*Chat.* The automatic title can replace one that its owner chose meanwhile
(`messages.py:460`). A truncated transcript puts all of its chunks among the
sources, more than "what the model actually read" (`messages.py:121-122`).

*Retrieval.* After a re-sync the anchor of a span need not be hydrated, against
`expansion.py:130-136`, and a lesson is then cited like a YouTube video; so it is
when fetching its metadata fails. The two searches of `retriever_hybrid.py:85` are
awaited one after the other, not "concurrently". `_video_cache` is filled after an
`await` and can keep what was invalidated meanwhile. A blank segment with
timestamps becomes a blank chunk, which `embed_batch` refuses. In a forced split
the title may take a chunk past `_MAX_CHUNK_CHARS`. The estimate at 150 words per
minute (`chunker.py:212-214`) yields minutes that are stored as seconds.
