------------------------------ MODULE RowStore ------------------------------
(***************************************************************************)
(* Concurrent requests of the portal on one row, as each repository carries *)
(* them out: requests run in threads, and only some repositories read and   *)
(* write the row in one step.                                              *)
(*                                                                         *)
(* A value is abstracted to the request that wrote it; a column or metadata *)
(* key nobody has written since the row was created holds None.            *)
(***************************************************************************)
CONSTANTS
    Patch,     \* requests that change columns and metadata of the row
    Append,    \* requests that record a run event and refresh dashboard_log
    Backend,   \* FACTORY_STORAGE_PROVIDER, with the isolation of SQL Server
    None       \* the value at creation

Backends == {"sqlite", "postgres", "sqlserver", "sqlserver_rcsi"}

ASSUME RowAssumption ==
    /\ Patch \cap Append = {}
    /\ Backend \subseteq Backends
    /\ None \notin Patch

VARIABLES
    backend,  \* which of them serves the portal
    ask,      \* what each patch changes
    row,      \* the row, as the next statement sees it
    events,   \* the events of the run, uncommitted ones too
    pc,       \* where each request is
    seen,     \* what each request has read
    before    \* the requests that had ended when each one began

vars == <<backend, ask, row, events, pc, seen, before>>

Request == Patch \cup Append
Column == {"status", "is_paused", "last_heartbeat_at", "identity", "e_doc_status"}
Key == {"archon_dispatch", "evidence_upload", "guardian_escalation"}

Row == [col: [Column -> Patch \cup {None}],
        key: [Key -> Patch \cup {None}],
        log: SUBSET Append]
Ask == [columns: SUBSET Column, keys: SUBSET Key]

TypeOK ==
    /\ backend \in Backend
    /\ ask \in [Patch -> Ask]
    /\ row \in Row
    /\ events \subseteq Append
    /\ pc \in [Request -> {"new", "read", "inserted", "ok", "error"}]
    /\ seen \in [Request -> Row]
    /\ before \in [Request -> SUBSET Request]

-----------------------------------------------------------------------------
(* What the requests on an instance's row and on a run's row write. *)

upsert_instance == [columns |-> {"status", "last_heartbeat_at", "identity"}, keys |-> {}]
heartbeat_instance == [columns |-> {"status", "last_heartbeat_at"}, keys |-> {}]
pause_instance == [columns |-> {"status", "is_paused"}, keys |-> {}]
resume_instance == [columns |-> {"status", "is_paused"}, keys |-> {}]

archon_dispatched == [columns |-> {"status"}, keys |-> {"archon_dispatch"}]
upload_evidence == [columns |-> {"e_doc_status"}, keys |-> {"evidence_upload"}]
escalate == [columns |-> {"status"}, keys |-> {"guardian_escalation"}]

OnInstance == {upsert_instance, heartbeat_instance, pause_instance, resume_instance}
OnRun == {archon_dispatched, upload_evidence, escalate}

Created == [col |-> [c \in Column |-> None], key |-> [k \in Key |-> None], log |-> {}]

Init ==
    /\ backend \in Backend
    /\ ask \in [Patch -> OnInstance] \cup [Patch -> OnRun]
    /\ row = Created
    /\ events = {}
    /\ pc = [r \in Request |-> "new"]
    /\ seen = [r \in Request |-> Created]
    /\ before = [r \in Request |-> {}]

-----------------------------------------------------------------------------
(* Transactions *)

(* Only a run has events. *)
RunRow == \A p \in Patch : ask[p] \in OnRun

Ended == {r \in Request : pc[r] \in {"ok", "error"}}

(* A request is under way from its first statement to its answer. *)
Starts(r, label) ==
    /\ pc[r] = "new"
    /\ r \in Append => RunRow
    /\ pc' = [pc EXCEPT ![r] = label]
    /\ before' = [before EXCEPT ![r] = Ended]

Answers(r) ==
    /\ pc' = [pc EXCEPT ![r] = "ok"]
    /\ seen' = [seen EXCEPT ![r] = Created]
    /\ UNCHANGED before

SqlServer == backend \in {"sqlserver", "sqlserver_rcsi"}

\* Mutant of Uncommitted: a failed transaction is left open.
UncommittedLeaked == {a \in Append : SqlServer /\ pc[a] \in {"inserted", "read", "error"}}

(* SQL Server holds an append's event until the whole request commits; the *)
(* other repositories commit it with, or before, anybody sees it.          *)
Uncommitted == {a \in Append : SqlServer /\ pc[a] \in {"inserted", "read"}}
Committed == events \ Uncommitted

\* Mutant of Patched: metadata is replaced, not merged.
PatchedReplacing(base, p) ==
    [base EXCEPT !.col = [c \in Column |-> IF c \in ask[p].columns THEN p ELSE base.col[c]],
                 !.key = [k \in Key |-> IF k \in ask[p].keys THEN p ELSE None]]

(* update_run and the instance updates, applied to what was read. *)
Patched(base, p) ==
    [base EXCEPT !.col = [c \in Column |-> IF c \in ask[p].columns THEN p ELSE base.col[c]],
                 !.key = [k \in Key |-> IF k \in ask[p].keys THEN p ELSE base.key[k]]]

-----------------------------------------------------------------------------
(* SQLite: the row is one JSON document, read before the write transaction *)
(* begins and written back whole.                                          *)

SqliteRead(p) ==
    /\ backend = "sqlite"
    /\ Starts(p, "read")
    /\ seen' = [seen EXCEPT ![p] = row]
    /\ UNCHANGED <<backend, ask, row, events>>

SqliteSave(p) ==
    /\ backend = "sqlite"
    /\ pc[p] = "read"
    /\ row' = Patched(seen[p], p)
    /\ Answers(p)
    /\ UNCHANGED <<backend, ask, events>>

(* The insert of the event takes the write lock before the row is read. *)
SqliteAppend(a) ==
    /\ backend = "sqlite"
    /\ Starts(a, "ok")
    /\ events' = events \cup {a}
    /\ row' = [row EXCEPT !.log = events']
    /\ UNCHANGED <<backend, ask, seen>>

(* Postgres: a patch is one statement that merges with the newest version. *)
PostgresUpdate(p) ==
    /\ backend = "postgres"
    /\ Starts(p, "ok")
    /\ row' = Patched(row, p)
    /\ UNCHANGED <<backend, ask, events, seen>>

PostgresInsertEvent(a) ==
    /\ backend = "postgres"
    /\ Starts(a, "inserted")
    /\ events' = events \cup {a}
    /\ UNCHANGED <<backend, ask, row, seen>>

(* The snapshot of the refresh is taken before it waits for the row. *)
PostgresRefreshStarts(a) ==
    /\ backend = "postgres"
    /\ pc[a] = "inserted"
    /\ pc' = [pc EXCEPT ![a] = "read"]
    /\ seen' = [seen EXCEPT ![a].log = events]
    /\ UNCHANGED <<backend, ask, row, events, before>>

PostgresRefresh(a) ==
    /\ backend = "postgres"
    /\ pc[a] = "read"
    /\ row' = [row EXCEPT !.log = seen[a].log]
    /\ Answers(a)
    /\ UNCHANGED <<backend, ask, events>>

-----------------------------------------------------------------------------
(* SQL Server: columns are updated in place, metadata is read, merged and   *)
(* written, and an append is one transaction of an insert, a select of the  *)
(* events and an update.                                                   *)

SqlServerRead(p) ==
    /\ SqlServer
    /\ Starts(p, "read")
    /\ seen' = [seen EXCEPT ![p] = row]
    /\ UNCHANGED <<backend, ask, row, events>>

\* Mutant: the columns are those of the row that was read.
SqlServerUpdateWhole(p) ==
    /\ SqlServer
    /\ pc[p] = "read"
    /\ row' = Patched(seen[p], p)
    /\ Answers(p)
    /\ UNCHANGED <<backend, ask, events>>

SqlServerUpdate(p) ==
    /\ SqlServer
    /\ pc[p] = "read"
    /\ row' = Patched([row EXCEPT !.key = seen[p].key], p)
    /\ Answers(p)
    /\ UNCHANGED <<backend, ask, events>>

SqlServerInsertEvent(a) ==
    /\ SqlServer
    /\ Starts(a, "inserted")
    /\ events' = events \cup {a}
    /\ UNCHANGED <<backend, ask, row, seen>>

\* Mutant of SqlServerSelectEvents: WITH (NOLOCK).
SqlServerSelectNolock(a) ==
    /\ SqlServer
    /\ pc[a] = "inserted"
    /\ pc' = [pc EXCEPT ![a] = "read"]
    /\ seen' = [seen EXCEPT ![a].log = events]
    /\ UNCHANGED <<backend, ask, row, events, before>>

(* Without row versions the select waits for every uncommitted event; with  *)
(* them it sees what was committed when it began, and its own.             *)
SqlServerSelectEvents(a) ==
    /\ SqlServer
    /\ pc[a] = "inserted"
    /\ backend = "sqlserver" => Uncommitted = {a}
    /\ pc' = [pc EXCEPT ![a] = "read"]
    /\ seen' = [seen EXCEPT ![a].log = Committed \cup {a}]
    /\ UNCHANGED <<backend, ask, row, events, before>>

SqlServerLog(a) ==
    /\ SqlServer
    /\ pc[a] = "read"
    /\ row' = [row EXCEPT !.log = seen[a].log]
    /\ Answers(a)
    /\ UNCHANGED <<backend, ask, events>>

(* A lost connection, a busy database or an exception: what the request has *)
(* not committed is rolled back.                                           *)
Fail(r) ==
    /\ pc[r] \in {"read", "inserted"}
    /\ pc' = [pc EXCEPT ![r] = "error"]
    /\ seen' = [seen EXCEPT ![r] = Created]
    /\ events' = IF SqlServer THEN events \ {r} ELSE events
    /\ UNCHANGED <<backend, ask, row, before>>

(* Two appends that wait for each other's event: the server rolls one back. *)
DeadlockVictim(a) ==
    /\ backend = "sqlserver"
    /\ \E b \in Append \ {a} : pc[a] = "inserted" /\ pc[b] = "inserted"
    /\ Fail(a)

-----------------------------------------------------------------------------
update(p) ==
    \/ SqliteRead(p) \/ SqliteSave(p)
    \/ PostgresUpdate(p)
    \/ SqlServerRead(p) \/ SqlServerUpdate(p)

append_run_event(a) ==
    \/ SqliteAppend(a)
    \/ PostgresInsertEvent(a) \/ PostgresRefreshStarts(a) \/ PostgresRefresh(a)
    \/ SqlServerInsertEvent(a) \/ SqlServerSelectEvents(a) \/ SqlServerLog(a)

Next ==
    \/ \E p \in Patch : update(p)
    \/ \E a \in Append : append_run_event(a) \/ DeadlockVictim(a)
    \/ \E r \in Request : Fail(r)

Spec == Init /\ [][Next]_vars

(* Threads run to their next statement, and the lock monitor runs. *)
FairSpec ==
    /\ Spec
    /\ \A p \in Patch : WF_vars(pc[p] # "new" /\ update(p))
    /\ \A a \in Append : WF_vars(pc[a] # "new" /\ append_run_event(a))
    /\ WF_vars(\E a \in Append : DeadlockVictim(a))

-----------------------------------------------------------------------------
(* Properties *)

Done(r) == pc[r] = "ok"

(* A request during which no other was under way, up to now. *)
Alone(r) == \A q \in Request \ {r} : pc[q] = "new" \/ q \in before[r] \/ r \in before[q]

(* What p wrote is still there, or was replaced by a request that ended *)
(* after p began.                                                       *)
ColumnsStand(p) == \A c \in ask[p].columns : row.col[c] \notin before[p] \cup {None}
KeysStand(p) == \A k \in ask[p].keys : row.key[k] \notin before[p] \cup {None}

(* Whatever serves the portal, nothing that later requests do undoes a     *)
(* request that overlapped no other: its columns, its metadata and its line *)
(* of dashboard_log stay (_save, update_run, refresh_run_dashboard_log).   *)
AloneStands ==
    \A r \in Request : Done(r) /\ Alone(r) =>
        /\ r \in Patch => ColumnsStand(r) /\ KeysStand(r)
        /\ r \in Append => r \in row.log

(* Only SQLite writes back columns it did not set: elsewhere a pause, a    *)
(* resume or a status that was answered is never undone by a slower        *)
(* request, however they overlap (heartbeat_instance, update_run).         *)
ColumnsNewest == backend # "sqlite" => \A p \in Patch : Done(p) => ColumnsStand(p)

(* Only Postgres merges metadata where it is stored (metadata || $15): an  *)
(* answered key is never undone by a request that read the row before it.  *)
KeysNewest == backend = "postgres" => \A p \in Patch : Done(p) => KeysStand(p)

(* What was answered last stands, wherever the repository promises it: the *)
(* columns outside SQLite, the keys of metadata in Postgres.               *)
NewestStands == ColumnsNewest /\ KeysNewest

(* With locking reads, the default of SQL Server, dashboard_log is exactly *)
(* the committed events, though each append writes what it read earlier    *)
(* (_refresh_run_dashboard_log_sync).                                      *)
LogIsEvents == backend = "sqlserver" => row.log = Committed

(* Every request that began is answered: the appends that block each other *)
(* in SQL Server do not stay blocked.                                      *)
EveryRequestAnswered == \A r \in Request : pc[r] # "new" ~> r \in Ended
=============================================================================
