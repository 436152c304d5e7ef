--------------------------- MODULE RowStoreProofs ---------------------------
(***************************************************************************)
(* What concurrent requests leave in a row, for any number of requests and  *)
(* every repository.                                                       *)
(***************************************************************************)
EXTENDS RowStore, TLAPS

-----------------------------------------------------------------------------
(* Steps *)

\* The steps of the specification, action by action.
LEMMA Steps ==
  ASSUME Next
  PROVE  \/ \E p \in Patch : SqliteRead(p)
         \/ \E p \in Patch : SqliteSave(p)
         \/ \E p \in Patch : PostgresUpdate(p)
         \/ \E p \in Patch : SqlServerRead(p)
         \/ \E p \in Patch : SqlServerUpdate(p)
         \/ \E a \in Append : SqliteAppend(a)
         \/ \E a \in Append : PostgresInsertEvent(a)
         \/ \E a \in Append : PostgresRefreshStarts(a)
         \/ \E a \in Append : PostgresRefresh(a)
         \/ \E a \in Append : SqlServerInsertEvent(a)
         \/ \E a \in Append : SqlServerSelectEvents(a)
         \/ \E a \in Append : SqlServerLog(a)
         \/ \E r \in Request : Fail(r)
  BY DEF Next, update, append_run_event, DeadlockVictim, Request

-----------------------------------------------------------------------------
(* Types *)

\* A row is created well typed.
LEMMA CreatedIsRow == Created \in Row
  BY DEF Created, Row

\* What every patch asks for is a set of columns and a set of keys.
LEMMA AsksAreTyped == OnInstance \subseteq Ask /\ OnRun \subseteq Ask
  BY DEF OnInstance, OnRun, Ask, upsert_instance, heartbeat_instance,
         pause_instance, resume_instance, archon_dispatched, upload_evidence,
         escalate, Column, Key

\* A patch leaves a row a row.
LEMMA PatchedIsRow ==
  ASSUME NEW base \in Row, NEW p \in Patch, ask \in [Patch -> Ask]
  PROVE  /\ Patched(base, p) \in Row
         /\ Patched(base, p).log = base.log
         /\ \A c \in Column : Patched(base, p).col[c]
                = IF c \in ask[p].columns THEN p ELSE base.col[c]
         /\ \A k \in Key : Patched(base, p).key[k]
                = IF k \in ask[p].keys THEN p ELSE base.key[k]
  BY DEF Patched, Row

\* Every step keeps the types.
LEMMA TypeStep ==
  ASSUME TypeOK, [Next]_vars
  PROVE  TypeOK'
  <1> USE DEF TypeOK, Request
  <1>1. CASE UNCHANGED vars
    BY <1>1 DEF vars
  <1>2. ASSUME NEW p \in Patch, SqliteRead(p)
        PROVE  TypeOK'
    BY <1>2 DEF SqliteRead, Starts, Ended
  <1>3. ASSUME NEW p \in Patch, SqliteSave(p)
        PROVE  TypeOK'
    BY <1>3, PatchedIsRow, CreatedIsRow DEF SqliteSave, Answers
  <1>4. ASSUME NEW p \in Patch, PostgresUpdate(p)
        PROVE  TypeOK'
    BY <1>4, PatchedIsRow DEF PostgresUpdate, Starts, Ended
  <1>5. ASSUME NEW p \in Patch, SqlServerRead(p)
        PROVE  TypeOK'
    BY <1>5 DEF SqlServerRead, Starts, Ended
  <1>6. ASSUME NEW p \in Patch, SqlServerUpdate(p)
        PROVE  TypeOK'
    <2>1. [row EXCEPT !.key = seen[p].key] \in Row
      BY DEF Row
    <2> QED BY <1>6, <2>1, PatchedIsRow, CreatedIsRow DEF SqlServerUpdate, Answers
  <1>7. ASSUME NEW a \in Append, SqliteAppend(a)
        PROVE  TypeOK'
    <2>1. [row EXCEPT !.log = events'] \in Row
      BY <1>7 DEF SqliteAppend, Row
    <2> QED BY <1>7, <2>1 DEF SqliteAppend, Starts, Ended
  <1>8. ASSUME NEW a \in Append, PostgresInsertEvent(a)
        PROVE  TypeOK'
    BY <1>8 DEF PostgresInsertEvent, Starts, Ended
  <1>9. ASSUME NEW a \in Append, NEW L \in SUBSET Append,
               seen' = [seen EXCEPT ![a].log = L]
        PROVE  seen' \in [Request -> Row]
    BY <1>9 DEF Row
  <1>10. ASSUME NEW a \in Append, PostgresRefreshStarts(a)
         PROVE  TypeOK'
    BY <1>9, <1>10 DEF PostgresRefreshStarts
  <1>11. ASSUME NEW a \in Append
         PROVE  [row EXCEPT !.log = seen[a].log] \in Row
    BY DEF Row
  <1>12. ASSUME NEW a \in Append, PostgresRefresh(a)
         PROVE  TypeOK'
    BY <1>11, <1>12, CreatedIsRow DEF PostgresRefresh, Answers
  <1>13. ASSUME NEW a \in Append, SqlServerInsertEvent(a)
         PROVE  TypeOK'
    BY <1>13 DEF SqlServerInsertEvent, Starts, Ended
  <1>14. ASSUME NEW a \in Append, SqlServerSelectEvents(a)
         PROVE  TypeOK'
    <2>1. Committed \cup {a} \in SUBSET Append
      BY DEF Committed
    <2> QED BY <1>9, <1>14, <2>1 DEF SqlServerSelectEvents
  <1>15. ASSUME NEW a \in Append, SqlServerLog(a)
         PROVE  TypeOK'
    BY <1>11, <1>15, CreatedIsRow DEF SqlServerLog, Answers
  <1>16. ASSUME NEW r \in Request, Fail(r)
         PROVE  TypeOK'
    BY <1>16, CreatedIsRow DEF Fail
  <1> QED BY Steps, <1>1, <1>2, <1>3, <1>4, <1>5, <1>6, <1>7, <1>8, <1>10,
             <1>12, <1>13, <1>14, <1>15, <1>16

\* Every reachable row and every local copy of it is well typed.
THEOREM RowTypes == Spec => []TypeOK
  <1>1. Init => TypeOK
    BY CreatedIsRow, AsksAreTyped DEF Init, TypeOK, Request
  <1>2. TypeOK /\ [Next]_vars => TypeOK'
    BY TypeStep
  <1> QED BY <1>1, <1>2, PTL DEF Spec

-----------------------------------------------------------------------------
(* Order of the requests *)

\* What had ended when a request began has ended, and a request that has not
\* begun has nobody before it.
Ordered ==
    \A r \in Request :
        /\ before[r] \subseteq Ended
        /\ pc[r] = "new" => before[r] = {}

\* A request ends once, and what is before it is fixed when it begins.
LEMMA OrderStep ==
  ASSUME TypeOK, [Next]_vars
  PROVE  /\ backend' = backend /\ ask' = ask
         /\ Ended \subseteq Ended' /\ \A r \in Ended : pc'[r] = pc[r]
         /\ \A r \in Request :
               /\ pc[r] # "new" => before'[r] = before[r] /\ pc'[r] # "new"
               /\ pc[r] = "new" /\ pc'[r] = "new" => before'[r] = before[r]
               /\ pc[r] = "new" /\ pc'[r] # "new" => before'[r] = Ended
  <1> USE DEF TypeOK, Request, Ended
  <1>1. CASE UNCHANGED vars
    BY <1>1 DEF vars
  <1>2. ASSUME NEW p \in Patch,
               SqliteRead(p) \/ PostgresUpdate(p) \/ SqlServerRead(p)
        PROVE  \E label \in {"read", "ok"} :
                  Starts(p, label) /\ backend' = backend /\ ask' = ask
    BY <1>2 DEF SqliteRead, PostgresUpdate, SqlServerRead
  <1>3. ASSUME NEW a \in Append,
               SqliteAppend(a) \/ PostgresInsertEvent(a) \/ SqlServerInsertEvent(a)
        PROVE  \E label \in {"inserted", "ok"} :
                  Starts(a, label) /\ backend' = backend /\ ask' = ask
    BY <1>3 DEF SqliteAppend, PostgresInsertEvent, SqlServerInsertEvent
  <1>4. ASSUME NEW r \in Request, NEW label \in {"read", "inserted", "ok"},
               Starts(r, label)
        PROVE  /\ Ended \subseteq Ended' /\ \A q \in Ended : pc'[q] = pc[q]
               /\ \A q \in Request :
                     /\ pc[q] # "new" => before'[q] = before[q] /\ pc'[q] # "new"
                     /\ pc[q] = "new" /\ pc'[q] = "new" => before'[q] = before[q]
                     /\ pc[q] = "new" /\ pc'[q] # "new" => before'[q] = Ended
    BY <1>4 DEF Starts
  <1>5. ASSUME NEW p \in Patch, SqliteSave(p) \/ SqlServerUpdate(p)
        PROVE  /\ pc[p] = "read" /\ pc' = [pc EXCEPT ![p] = "ok"]
               /\ before' = before /\ backend' = backend /\ ask' = ask
    BY <1>5 DEF SqliteSave, SqlServerUpdate, Answers
  <1>6. ASSUME NEW a \in Append,
               PostgresRefreshStarts(a) \/ PostgresRefresh(a)
               \/ SqlServerSelectEvents(a) \/ SqlServerLog(a)
        PROVE  /\ pc[a] \in {"inserted", "read"}
               /\ \E label \in {"read", "ok"} : pc' = [pc EXCEPT ![a] = label]
               /\ before' = before /\ backend' = backend /\ ask' = ask
    BY <1>6 DEF PostgresRefreshStarts, PostgresRefresh, SqlServerSelectEvents,
                SqlServerLog, Answers
  <1>7. ASSUME NEW r \in Request, Fail(r)
        PROVE  /\ pc[r] \in {"inserted", "read"}
               /\ pc' = [pc EXCEPT ![r] = "error"]
               /\ before' = before /\ backend' = backend /\ ask' = ask
    BY <1>7 DEF Fail
  <1>8. ASSUME NEW r \in Request, NEW label \in {"read", "ok", "error"},
               pc[r] \in {"inserted", "read"}, pc' = [pc EXCEPT ![r] = label],
               before' = before
        PROVE  /\ Ended \subseteq Ended' /\ \A q \in Ended : pc'[q] = pc[q]
               /\ \A q \in Request :
                     /\ pc[q] # "new" => before'[q] = before[q] /\ pc'[q] # "new"
                     /\ pc[q] = "new" => pc'[q] = "new" /\ before'[q] = before[q]
    BY <1>8
  <1>9. ASSUME NEW p \in Patch,
               SqliteRead(p) \/ PostgresUpdate(p) \/ SqlServerRead(p)
               \/ SqliteSave(p) \/ SqlServerUpdate(p)
        PROVE  /\ backend' = backend /\ ask' = ask
               /\ Ended \subseteq Ended' /\ \A q \in Ended : pc'[q] = pc[q]
               /\ \A q \in Request :
                     /\ pc[q] # "new" => before'[q] = before[q] /\ pc'[q] # "new"
                     /\ pc[q] = "new" /\ pc'[q] = "new" => before'[q] = before[q]
                     /\ pc[q] = "new" /\ pc'[q] # "new" => before'[q] = Ended
    BY <1>2, <1>4, <1>5, <1>8, <1>9
  <1>10. ASSUME NEW a \in Append,
                SqliteAppend(a) \/ PostgresInsertEvent(a) \/ SqlServerInsertEvent(a)
                \/ PostgresRefreshStarts(a) \/ PostgresRefresh(a)
                \/ SqlServerSelectEvents(a) \/ SqlServerLog(a)
         PROVE  /\ backend' = backend /\ ask' = ask
                /\ Ended \subseteq Ended' /\ \A q \in Ended : pc'[q] = pc[q]
                /\ \A q \in Request :
                      /\ pc[q] # "new" => before'[q] = before[q] /\ pc'[q] # "new"
                      /\ pc[q] = "new" /\ pc'[q] = "new" => before'[q] = before[q]
                      /\ pc[q] = "new" /\ pc'[q] # "new" => before'[q] = Ended
    BY <1>3, <1>4, <1>6, <1>8, <1>10
  <1> QED BY Steps, <1>1, <1>7, <1>8, <1>9, <1>10

\* The order is kept.
LEMMA OrderedStep ==
  ASSUME TypeOK, Ordered, [Next]_vars
  PROVE  Ordered'
  BY OrderStep DEF Ordered, Request

-----------------------------------------------------------------------------
(* Columns and metadata *)

\* Outside SQLite, a step that changes columns sets those of one patch that
\* has not ended before; no other patch is answered by it.
LEMMA ColumnStep ==
  ASSUME TypeOK, [Next]_vars, backend # "sqlite"
  PROVE  \/ /\ row'.col = row.col
            /\ \A p \in Patch : Done(p)' => Done(p)
         \/ \E q \in Patch :
               /\ q \notin Ended
               /\ \A c \in Column : row'.col[c] = IF c \in ask[q].columns
                                                 THEN q ELSE row.col[c]
               /\ \A p \in Patch \ {q} : Done(p)' => Done(p)
  <1> USE DEF TypeOK, Request, Done, Ended
  <1>1. CASE UNCHANGED vars
    BY <1>1 DEF vars
  <1>2. ASSUME NEW p \in Patch, SqlServerRead(p)
        PROVE  row' = row /\ \A q \in Patch : Done(q)' => Done(q)
    BY <1>2 DEF SqlServerRead, Starts
  <1>3. ASSUME NEW p \in Patch, PostgresUpdate(p)
        PROVE  /\ p \notin Ended
               /\ \A c \in Column : row'.col[c] = IF c \in ask[p].columns
                                                 THEN p ELSE row.col[c]
               /\ \A q \in Patch \ {p} : Done(q)' => Done(q)
    BY <1>3, PatchedIsRow DEF PostgresUpdate, Starts
  <1>4. ASSUME NEW p \in Patch, SqlServerUpdate(p)
        PROVE  /\ p \notin Ended
               /\ \A c \in Column : row'.col[c] = IF c \in ask[p].columns
                                                 THEN p ELSE row.col[c]
               /\ \A q \in Patch \ {p} : Done(q)' => Done(q)
    <2> DEFINE base == [row EXCEPT !.key = seen[p].key]
    <2>1. base \in Row /\ base.col = row.col
      BY DEF Row
    <2> HIDE DEF base
    <2>2. \A c \in Column : Patched(base, p).col[c]
             = IF c \in ask[p].columns THEN p ELSE row.col[c]
      BY <2>1, PatchedIsRow
    <2>3. /\ pc[p] = "read" /\ pc' = [pc EXCEPT ![p] = "ok"]
          /\ row' = Patched(base, p)
      BY <1>4 DEF SqlServerUpdate, Answers, base
    <2> QED BY <2>2, <2>3
  <1>5. ASSUME NEW a \in Append,
               PostgresInsertEvent(a) \/ PostgresRefreshStarts(a)
               \/ SqlServerInsertEvent(a) \/ SqlServerSelectEvents(a)
        PROVE  row' = row /\ \A q \in Patch : Done(q)' => Done(q)
    BY <1>5 DEF PostgresInsertEvent, PostgresRefreshStarts,
                SqlServerInsertEvent, SqlServerSelectEvents, Starts
  <1>6. ASSUME NEW a \in Append, PostgresRefresh(a) \/ SqlServerLog(a)
        PROVE  row'.col = row.col /\ \A q \in Patch : Done(q)' => Done(q)
    BY <1>6, RowAssumption DEF PostgresRefresh, SqlServerLog, Answers, Row
  <1>7. ASSUME NEW r \in Request, Fail(r)
        PROVE  row' = row /\ \A q \in Patch : Done(q)' => Done(q)
    BY <1>7 DEF Fail
  <1> QED BY Steps, <1>1, <1>2, <1>3, <1>4, <1>5, <1>6, <1>7
          DEF SqliteRead, SqliteSave, SqliteAppend

\* Outside SQLite an answered patch stands.
LEMMA ColumnsStep ==
  ASSUME TypeOK, Ordered, ColumnsNewest, [Next]_vars
  PROVE  ColumnsNewest'
  <1> SUFFICES ASSUME backend # "sqlite", NEW p \in Patch, Done(p)',
                      NEW c \in ask[p].columns
               PROVE  row'.col[c] \notin before'[p] \cup {None}
    BY OrderStep DEF ColumnsNewest, ColumnsStand
  <1>1. /\ p \in Request /\ c \in Column /\ before[p] \subseteq Ended
        /\ before'[p] \in {before[p], Ended}
    BY OrderStep DEF TypeOK, Ask, Ordered, Request
  <1>2. Done(p) => /\ row.col[c] \notin before[p] \cup {None}
                   /\ before'[p] = before[p]
    BY <1>1, OrderStep DEF ColumnsNewest, ColumnsStand, Done
  <1>3. CASE row'.col = row.col /\ Done(p)
    BY <1>2, <1>3
  <1>4. ASSUME NEW q \in Patch, q \notin Ended, p = q \/ Done(p),
               \A d \in Column : row'.col[d] = IF d \in ask[q].columns
                                              THEN q ELSE row.col[d]
        PROVE  row'.col[c] \notin before'[p] \cup {None}
    <2>1. row'.col[c] = IF c \in ask[q].columns THEN q ELSE row.col[c]
      BY <1>1, <1>4
    <2>2. q \notin before'[p] /\ q # None
      BY <1>1, <1>4, RowAssumption
    <2> QED BY <1>2, <1>4, <2>1, <2>2
  <1> QED BY ColumnStep, <1>3, <1>4

\* An answered pause, resume or status is not undone by a slower request.
THEOREM ColumnsAreNewest == Spec => []ColumnsNewest
  <1>1. Init => Ordered /\ ColumnsNewest
    BY DEF Init, Ordered, ColumnsNewest, Done, Request
  <1>2. TypeOK /\ Ordered /\ ColumnsNewest /\ [Next]_vars => (Ordered /\ ColumnsNewest)'
    BY OrderedStep, ColumnsStep
  <1> QED BY <1>1, <1>2, RowTypes, PTL DEF Spec

\* In Postgres a step that changes metadata sets the keys of one patch that
\* has not ended before; no other patch is answered by it.
LEMMA KeyStep ==
  ASSUME TypeOK, [Next]_vars, backend = "postgres"
  PROVE  \/ /\ row'.key = row.key
            /\ \A p \in Patch : Done(p)' => Done(p)
         \/ \E q \in Patch :
               /\ q \notin Ended
               /\ \A k \in Key : row'.key[k] = IF k \in ask[q].keys
                                              THEN q ELSE row.key[k]
               /\ \A p \in Patch \ {q} : Done(p)' => Done(p)
  <1> USE DEF TypeOK, Request, Done, Ended
  <1>1. CASE UNCHANGED vars
    BY <1>1 DEF vars
  <1>2. ASSUME NEW p \in Patch, PostgresUpdate(p)
        PROVE  /\ p \notin Ended
               /\ \A k \in Key : row'.key[k] = IF k \in ask[p].keys
                                              THEN p ELSE row.key[k]
               /\ \A q \in Patch \ {p} : Done(q)' => Done(q)
    BY <1>2, PatchedIsRow DEF PostgresUpdate, Starts
  <1>3. ASSUME NEW a \in Append, PostgresInsertEvent(a) \/ PostgresRefreshStarts(a)
        PROVE  row' = row /\ \A q \in Patch : Done(q)' => Done(q)
    BY <1>3 DEF PostgresInsertEvent, PostgresRefreshStarts, Starts
  <1>4. ASSUME NEW a \in Append, PostgresRefresh(a)
        PROVE  row'.key = row.key /\ \A q \in Patch : Done(q)' => Done(q)
    BY <1>4, RowAssumption DEF PostgresRefresh, Answers, Row
  <1>5. ASSUME NEW r \in Request, Fail(r)
        PROVE  row' = row /\ \A q \in Patch : Done(q)' => Done(q)
    BY <1>5 DEF Fail
  <1> QED BY Steps, <1>1, <1>2, <1>3, <1>4, <1>5
          DEF SqliteRead, SqliteSave, SqliteAppend, SqlServer, SqlServerRead,
              SqlServerUpdate, SqlServerInsertEvent, SqlServerSelectEvents,
              SqlServerLog

\* In Postgres the metadata of an answered patch stands.
LEMMA KeysStep ==
  ASSUME TypeOK, Ordered, KeysNewest, [Next]_vars
  PROVE  KeysNewest'
  <1> SUFFICES ASSUME backend = "postgres", NEW p \in Patch, Done(p)',
                      NEW k \in ask[p].keys
               PROVE  row'.key[k] \notin before'[p] \cup {None}
    BY OrderStep DEF KeysNewest, KeysStand
  <1>1. /\ p \in Request /\ k \in Key /\ before[p] \subseteq Ended
        /\ before'[p] \in {before[p], Ended}
    BY OrderStep DEF TypeOK, Ask, Ordered, Request
  <1>2. Done(p) => /\ row.key[k] \notin before[p] \cup {None}
                   /\ before'[p] = before[p]
    BY <1>1, OrderStep DEF KeysNewest, KeysStand, Done
  <1>3. CASE row'.key = row.key /\ Done(p)
    BY <1>2, <1>3
  <1>4. ASSUME NEW q \in Patch, q \notin Ended, p = q \/ Done(p),
               \A j \in Key : row'.key[j] = IF j \in ask[q].keys
                                           THEN q ELSE row.key[j]
        PROVE  row'.key[k] \notin before'[p] \cup {None}
    <2>1. row'.key[k] = IF k \in ask[q].keys THEN q ELSE row.key[k]
      BY <1>1, <1>4
    <2>2. q \notin before'[p] /\ q # None
      BY <1>1, <1>4, RowAssumption
    <2> QED BY <1>2, <1>4, <2>1, <2>2
  <1> QED BY KeyStep, <1>3, <1>4

\* In Postgres an answered metadata key is not undone by a request that began
\* before it was written.
THEOREM KeysAreNewest == Spec => []KeysNewest
  <1>1. Init => Ordered /\ KeysNewest
    BY DEF Init, Ordered, KeysNewest, Done, Request
  <1>2. TypeOK /\ Ordered /\ KeysNewest /\ [Next]_vars => (Ordered /\ KeysNewest)'
    BY OrderedStep, KeysStep
  <1> QED BY <1>1, <1>2, RowTypes, PTL DEF Spec

\* What was answered last stands wherever the repository promises it.
THEOREM NewestAlwaysStands == Spec => []NewestStands
  <1>1. ColumnsNewest /\ KeysNewest => NewestStands
    BY DEF NewestStands
  <1> QED BY <1>1, ColumnsAreNewest, KeysAreNewest, PTL

-----------------------------------------------------------------------------
(* dashboard_log in SQL Server                                             *)
(*                                                                         *)
(* The list an append has read is still the committed events and its own   *)
(* when it writes it: no other append can read while its event is not      *)
(* committed, so none can commit.                                          *)

OneReader ==
    backend = "sqlserver" =>
        /\ \A a \in Append :
              /\ pc[a] \in {"new", "error"} => a \notin events
              /\ pc[a] \in {"inserted", "read"} => a \in events
              /\ pc[a] = "read" => /\ seen[a].log = Committed \cup {a}
                                   /\ \A b \in Append : pc[b] = "read" => b = a

LogInv == OneReader /\ LogIsEvents

\* Every step keeps the log and the list that is about to be written.
LEMMA LogStep ==
  ASSUME TypeOK, LogInv, [Next]_vars
  PROVE  LogInv'
  <1> SUFFICES ASSUME backend = "sqlserver", backend' = backend
               PROVE  LogInv'
    BY OrderStep DEF LogInv, OneReader, LogIsEvents
  <1> USE DEF TypeOK, Request, LogInv, OneReader, LogIsEvents, Committed,
              Uncommitted, SqlServer
  <1>1. CASE UNCHANGED vars
    BY <1>1 DEF vars
  <1>2. ASSUME NEW p \in Patch, SqlServerRead(p)
        PROVE  LogInv'
    BY <1>2, RowAssumption DEF SqlServerRead, Starts
  <1>3. ASSUME NEW p \in Patch, SqlServerUpdate(p)
        PROVE  LogInv'
    <2> DEFINE base == [row EXCEPT !.key = seen[p].key]
    <2>1. base \in Row /\ base.log = row.log
      BY DEF Row
    <2> HIDE DEF base
    <2>2. Patched(base, p).log = row.log
      BY <2>1, PatchedIsRow
    <2>3. row'.log = row.log /\ events' = events
      BY <1>3, <2>2 DEF SqlServerUpdate, base
    <2>4. \A a \in Append : pc'[a] = pc[a] /\ seen'[a] = seen[a]
      BY <1>3, RowAssumption DEF SqlServerUpdate, Answers
    <2> QED BY <2>3, <2>4
  <1>4. ASSUME NEW a \in Append, SqlServerInsertEvent(a)
        PROVE  LogInv'
    BY <1>4 DEF SqlServerInsertEvent, Starts
  <1>5. ASSUME NEW a \in Append, SqlServerSelectEvents(a)
        PROVE  LogInv'
    <2>1. /\ pc[a] = "inserted" /\ Uncommitted = {a} /\ events' = events
          /\ pc' = [pc EXCEPT ![a] = "read"] /\ row' = row
          /\ seen' = [seen EXCEPT ![a].log = Committed \cup {a}]
      BY <1>5 DEF SqlServerSelectEvents
    <2>2. Uncommitted' = Uncommitted /\ Committed' = Committed
      BY <2>1
    <2>3. seen'[a].log = Committed \cup {a}
      BY <2>1 DEF Row
    <2>4. \A b \in Append \ {a} : pc[b] # "read" /\ pc'[b] = pc[b]
      BY <2>1
    <2> QED BY <2>1, <2>2, <2>3, <2>4
  <1>6. ASSUME NEW a \in Append, SqlServerLog(a)
        PROVE  LogInv'
    <2>1. /\ pc[a] = "read" /\ events' = events
          /\ pc' = [pc EXCEPT ![a] = "ok"]
          /\ row'.log = Committed \cup {a}
      BY <1>6 DEF SqlServerLog, Answers, Row
    <2>2. Committed' = Committed \cup {a}
      BY <2>1
    <2>3. \A b \in Append : pc'[b] # "read"
      BY <2>1
    <2> QED BY <2>1, <2>2, <2>3
  <1>7. ASSUME NEW r \in Request, Fail(r)
        PROVE  LogInv'
    <2>1. /\ pc[r] \in {"read", "inserted"} /\ pc' = [pc EXCEPT ![r] = "error"]
          /\ events' = events \ {r} /\ row' = row
          /\ \A b \in Append \ {r} : seen'[b] = seen[b]
      BY <1>7 DEF Fail
    <2>2. Committed' = Committed
      BY <2>1
    <2> QED BY <2>1, <2>2
  <1> QED BY Steps, <1>1, <1>2, <1>3, <1>4, <1>5, <1>6, <1>7
          DEF SqliteRead, SqliteSave, SqliteAppend, PostgresUpdate,
              PostgresInsertEvent, PostgresRefreshStarts, PostgresRefresh

\* With locking reads, dashboard_log is exactly the committed events.
THEOREM LogEqualsEvents == Spec => []LogIsEvents
  <1>1. Init => LogInv
    BY DEF Init, LogInv, OneReader, LogIsEvents, Committed, Uncommitted, Created,
           Request
  <1>2. TypeOK /\ LogInv /\ [Next]_vars => LogInv'
    BY LogStep
  <1>3. LogInv => LogIsEvents
    BY DEF LogInv
  <1> QED BY <1>1, <1>2, <1>3, RowTypes, PTL DEF Spec

-----------------------------------------------------------------------------
(* A request that overlaps no other                                        *)
(*                                                                         *)
(* Whoever writes the row later read it after the request had ended, so the *)
(* copies that are about to be written hold what it did as the row does.    *)

Stands(r, B, w) ==
    /\ r \in Patch => /\ \A c \in ask[r].columns : w.col[c] \notin B \cup {None}
                      /\ \A k \in ask[r].keys : w.key[k] \notin B \cup {None}
    /\ r \in Append => r \in w.log

Kept(r) ==
    /\ Stands(r, before[r], row)
    /\ \A p \in Patch : pc[p] = "read" => Stands(r, before[r], seen[p])
    /\ r \in Append => \A a \in Append : pc[a] = "read" => r \in seen[a].log

AloneInv == \A r \in Request : Done(r) /\ Alone(r) => Kept(r)

\* The events of appends that have not failed are there, and in their lists.
EventsIn ==
    \A a \in Append :
        /\ pc[a] \in {"inserted", "read", "ok"} => a \in events
        /\ pc[a] = "read" => a \in seen[a].log

\* Events are kept.
LEMMA EventsStep ==
  ASSUME TypeOK, EventsIn, [Next]_vars
  PROVE  EventsIn'
  <1> USE DEF TypeOK, Request, EventsIn
  <1>1. CASE UNCHANGED vars
    BY <1>1 DEF vars
  <1>2. ASSUME NEW p \in Patch,
               SqliteRead(p) \/ SqliteSave(p) \/ PostgresUpdate(p)
               \/ SqlServerRead(p) \/ SqlServerUpdate(p)
        PROVE  EventsIn'
    <2>1. \A a \in Append : pc'[a] = pc[a] /\ seen'[a] = seen[a] /\ events' = events
      BY <1>2, RowAssumption DEF SqliteRead, SqliteSave, PostgresUpdate,
         SqlServerRead, SqlServerUpdate, Starts, Answers
    <2> QED BY <2>1
  <1>3. ASSUME NEW a \in Append,
               SqliteAppend(a) \/ PostgresInsertEvent(a) \/ SqlServerInsertEvent(a)
        PROVE  EventsIn'
    BY <1>3 DEF SqliteAppend, PostgresInsertEvent, SqlServerInsertEvent, Starts
  <1>4. ASSUME NEW a \in Append, PostgresRefreshStarts(a)
        PROVE  EventsIn'
    <2>1. /\ pc[a] = "inserted" /\ pc' = [pc EXCEPT ![a] = "read"]
          /\ events' = events /\ seen'[a].log = events
          /\ \A b \in Append \ {a} : seen'[b] = seen[b]
      BY <1>4 DEF PostgresRefreshStarts, Row
    <2> QED BY <2>1
  <1>5. ASSUME NEW a \in Append, SqlServerSelectEvents(a)
        PROVE  EventsIn'
    <2>1. /\ pc[a] = "inserted" /\ pc' = [pc EXCEPT ![a] = "read"]
          /\ events' = events /\ seen'[a].log = Committed \cup {a}
          /\ \A b \in Append \ {a} : seen'[b] = seen[b]
      BY <1>5 DEF SqlServerSelectEvents, Row
    <2> QED BY <2>1
  <1>6. ASSUME NEW a \in Append, PostgresRefresh(a) \/ SqlServerLog(a)
        PROVE  EventsIn'
    BY <1>6 DEF PostgresRefresh, SqlServerLog, Answers
  <1>7. ASSUME NEW r \in Request, Fail(r)
        PROVE  EventsIn'
    BY <1>7 DEF Fail
  <1> QED BY Steps, <1>1, <1>2, <1>3, <1>4, <1>5, <1>6, <1>7

\* A request that is alone after a step was alone before it, and nobody is
\* under way while it is.
LEMMA AloneBefore ==
  ASSUME TypeOK, Ordered, [Next]_vars, NEW r \in Request, Done(r)', Alone(r)'
  PROVE  /\ before'[r] \subseteq Ended
         /\ Done(r) => Alone(r) /\ before'[r] = before[r]
         /\ \A q \in Request \ {r} : pc[q] \in {"read", "inserted"} => Done(r)
  <1> USE DEF Done, Alone, Request
  <1>1. before'[r] \subseteq Ended
    BY OrderStep DEF Ordered
  <1>2. Done(r) => Alone(r) /\ before'[r] = before[r]
    BY OrderStep
  <1>3. ASSUME NEW q \in Request \ {r}, pc[q] \in {"read", "inserted"}
        PROVE  Done(r)
    <2>1. q \notin Ended /\ pc[q] # "new"
      BY <1>3 DEF Ended
    <2>2. pc'[q] # "new" /\ before'[q] = before[q] /\ before[q] \subseteq Ended
      BY <2>1, OrderStep DEF Ordered
    <2>3. r \in Ended
      BY <1>1, <2>1, <2>2
    <2> QED BY <2>3, OrderStep
  <1> QED BY <1>1, <1>2, <1>3

\* A patch that did not end before r began leaves what r did.
LEMMA PatchedStands ==
  ASSUME NEW base \in Row, NEW q \in Patch, NEW r \in Request, NEW B,
         ask \in [Patch -> Ask], q \notin B, Stands(r, B, base)
  PROVE  Stands(r, B, Patched(base, q))
  <1>1. \A p \in Patch : ask[p].columns \subseteq Column /\ ask[p].keys \subseteq Key
    BY DEF Ask
  <1>2. q # None
    BY RowAssumption
  <1> DEFINE w == Patched(base, q)
  <1>3. /\ w.log = base.log
        /\ \A c \in Column : w.col[c] = IF c \in ask[q].columns THEN q ELSE base.col[c]
        /\ \A k \in Key : w.key[k] = IF k \in ask[q].keys THEN q ELSE base.key[k]
    BY PatchedIsRow
  <1> HIDE DEF w
  <1>4. r \in Append => r \in w.log
    BY <1>3 DEF Stands
  <1>5. ASSUME r \in Patch
        PROVE  /\ \A c \in ask[r].columns : w.col[c] \notin B \cup {None}
               /\ \A k \in ask[r].keys : w.key[k] \notin B \cup {None}
    BY <1>1, <1>2, <1>3, <1>5 DEF Stands
  <1>6. Stands(r, B, w)
    BY <1>4, <1>5 DEF Stands
  <1> QED BY <1>6 DEF w

\* A patch carries out what it was asked.
LEMMA PatchedByItself ==
  ASSUME NEW base \in Row, NEW r \in Patch, NEW B, ask \in [Patch -> Ask], r \notin B
  PROVE  Stands(r, B, Patched(base, r))
  <1>1. ask[r].columns \subseteq Column /\ ask[r].keys \subseteq Key
    BY DEF Ask
  <1>2. r # None /\ r \notin Append
    BY RowAssumption
  <1> QED BY <1>1, <1>2, PatchedIsRow DEF Stands

\* A write of the row by another request leaves what r did, as does every
\* copy of the row that is taken or kept.
LEMMA KeptByOthers ==
  ASSUME TypeOK, NEW r \in Request, Kept(r), before'[r] = before[r], ask' = ask,
         Stands(r, before[r], row'),
         \A p \in Patch : pc'[p] = "read" =>
            \/ pc[p] = "read" /\ seen'[p] = seen[p]
            \/ seen'[p] = row,
         \A a \in Append : pc'[a] = "read" =>
            \/ pc[a] = "read" /\ seen'[a] = seen[a]
            \/ r \in Append => r \in seen'[a].log
  PROVE  Kept(r)'
  BY DEF Kept, Stands

\* A request that has just ended, alone, is in the row, and nobody holds an
\* older copy.
LEMMA KeptByItself ==
  ASSUME TypeOK, NEW r \in Request, ask' = ask,
         Stands(r, before'[r], row'),
         \A q \in Request : pc'[q] # "read"
  PROVE  Kept(r)'
  BY DEF Kept, Stands, Request

\* Every step keeps what an alone request did.
LEMMA AloneStep ==
  ASSUME TypeOK, Ordered, EventsIn, AloneInv, [Next]_vars
  PROVE  AloneInv'
  <1> SUFFICES ASSUME NEW r \in Request, Done(r)', Alone(r)'
               PROVE  Kept(r)'
    BY DEF AloneInv, Request
  <1>a. /\ ask' = ask /\ ask \in [Patch -> Ask] /\ row \in Row
        /\ seen \in [Request -> Row]
        /\ Patch \subseteq Request /\ Append \subseteq Request
    BY OrderStep DEF TypeOK, Request
  <1>b. /\ before'[r] \subseteq Ended
        /\ Done(r) => Kept(r) /\ before'[r] = before[r]
        /\ \A q \in Request \ {r} : pc[q] \in {"read", "inserted"} => Done(r)
    BY AloneBefore DEF AloneInv
  <1>c. Done(r) /\ r \in Append => r \in Committed
    BY DEF EventsIn, Committed, Uncommitted, Done
  <1>1. CASE UNCHANGED vars
    BY <1>1, <1>b, KeptByOthers DEF vars, Kept, Done
  <1>2. ASSUME NEW p \in Patch, SqliteRead(p) \/ SqlServerRead(p)
        PROVE  Kept(r)'
    <2>1. /\ pc[p] = "new" /\ pc' = [pc EXCEPT ![p] = "read"] /\ row' = row
          /\ seen' = [seen EXCEPT ![p] = row]
      BY <1>2 DEF SqliteRead, SqlServerRead, Starts
    <2>2. Done(r)
      BY <1>a, <2>1 DEF Done, TypeOK
    <2>3. /\ \A q \in Patch : pc'[q] = "read" =>
                \/ pc[q] = "read" /\ seen'[q] = seen[q]
                \/ seen'[q] = row
          /\ \A a \in Append : pc'[a] = "read" => pc[a] = "read" /\ seen'[a] = seen[a]
      BY <1>a, <2>1, RowAssumption DEF TypeOK
    <2> QED BY <1>a, <1>b, <2>1, <2>2, <2>3, KeptByOthers DEF Kept
  <1>3. ASSUME NEW p \in Patch, NEW base \in Row,
               row' = Patched(base, p), p \notin Ended,
               pc' = [pc EXCEPT ![p] = "ok"],
               \A q \in Request \ {p} : seen'[q] = seen[q],
               Done(r) /\ r # p => Stands(r, before[r], base)
        PROVE  Kept(r)'
    <2>1. CASE r = p
      <3>1. Stands(r, before'[r], row')
        BY <1>3, <1>a, <1>b, <2>1, PatchedByItself
      <3>2. \A q \in Request : pc'[q] # "read"
        BY <1>3, <1>a, <1>b, <2>1 DEF TypeOK, Done, Ended
      <3> QED BY <1>a, <3>1, <3>2, KeptByItself
    <2>2. CASE r # p
      <3>1. Done(r)
        BY <1>3, <1>a, <2>2 DEF Done, TypeOK
      <3>2. p \notin before[r]
        BY <1>3, <1>b, <3>1
      <3>3. Stands(r, before[r], row')
        BY <1>3, <1>a, <2>2, <3>1, <3>2, PatchedStands
      <3>4. \A q \in Request : pc'[q] = "read" => pc[q] = "read" /\ seen'[q] = seen[q]
        BY <1>3, <1>a DEF TypeOK
      <3> QED BY <1>a, <1>b, <3>1, <3>3, <3>4, KeptByOthers
    <2> QED BY <2>1, <2>2
  <1>4. ASSUME NEW p \in Patch, SqliteSave(p)
        PROVE  Kept(r)'
    <2>1. /\ row' = Patched(seen[p], p) /\ pc[p] = "read"
          /\ pc' = [pc EXCEPT ![p] = "ok"]
          /\ \A q \in Request \ {p} : seen'[q] = seen[q]
      BY <1>4, <1>a DEF SqliteSave, Answers
    <2>2. Done(r) => Stands(r, before[r], seen[p])
      BY <1>b, <2>1 DEF Kept
    <2>3. p \notin Ended /\ seen[p] \in Row
      BY <1>a, <2>1 DEF Ended
    <2> QED BY <1>3, <2>1, <2>2, <2>3
  <1>5. ASSUME NEW p \in Patch, PostgresUpdate(p)
        PROVE  Kept(r)'
    BY <1>3, <1>5, <1>a, <1>b DEF PostgresUpdate, Starts, Kept, Ended
  <1>6. ASSUME NEW p \in Patch, SqlServerUpdate(p)
        PROVE  Kept(r)'
    <2> DEFINE base == [row EXCEPT !.key = seen[p].key]
    <2>1. /\ base \in Row /\ base.col = row.col /\ base.log = row.log
          /\ base.key = seen[p].key
      BY <1>a DEF Row
    <2>2. /\ row' = Patched(base, p) /\ pc[p] = "read" /\ pc' = [pc EXCEPT ![p] = "ok"]
          /\ \A q \in Request \ {p} : seen'[q] = seen[q]
      BY <1>6, <1>a DEF SqlServerUpdate, Answers
    <2> HIDE DEF base
    <2>3. Done(r) /\ r # p => Stands(r, before[r], base)
      BY <1>b, <2>1, <2>2 DEF Kept, Stands
    <2> QED BY <1>3, <2>1, <2>2, <2>3 DEF Ended
  <1>7. ASSUME NEW a \in Append, row'.col = row.col, row'.key = row.key,
               a \notin Ended, pc' = [pc EXCEPT ![a] = "ok"],
               \A q \in Request \ {a} : seen'[q] = seen[q],
               r = a => r \in row'.log,
               Done(r) /\ r \in Append => r \in row'.log
        PROVE  Kept(r)'
    <2>1. CASE r = a
      <3>1. Stands(r, before'[r], row')
        BY <1>7, <2>1, RowAssumption DEF Stands
      <3>2. \A q \in Request : pc'[q] # "read"
        BY <1>7, <1>a, <1>b, <2>1 DEF TypeOK, Done, Ended
      <3> QED BY <1>a, <3>1, <3>2, KeptByItself
    <2>2. CASE r # a
      <3>1. Done(r)
        BY <1>7, <1>a, <2>2 DEF Done, TypeOK
      <3>2. Stands(r, before[r], row')
        BY <1>7, <1>b, <3>1 DEF Kept, Stands
      <3>3. \A q \in Request : pc'[q] = "read" => pc[q] = "read" /\ seen'[q] = seen[q]
        BY <1>7, <1>a DEF TypeOK
      <3> QED BY <1>a, <1>b, <3>1, <3>2, <3>3, KeptByOthers
    <2> QED BY <2>1, <2>2
  <1>8. ASSUME NEW a \in Append, SqliteAppend(a)
        PROVE  Kept(r)'
    <2>1. /\ row'.col = row.col /\ row'.key = row.key /\ row'.log = events \cup {a}
          /\ pc[a] = "new" /\ pc' = [pc EXCEPT ![a] = "ok"] /\ seen' = seen
      BY <1>8, <1>a DEF SqliteAppend, Starts, Row
    <2>2. a \notin Ended
      BY <2>1 DEF Ended
    <2>3. Done(r) /\ r \in Append => r \in events
      BY <1>c DEF Committed
    <2> QED BY <1>7, <2>1, <2>2, <2>3
  <1>9. ASSUME NEW a \in Append, PostgresRefresh(a) \/ SqlServerLog(a)
        PROVE  Kept(r)'
    <2>1. /\ row'.col = row.col /\ row'.key = row.key /\ row'.log = seen[a].log
          /\ pc[a] = "read" /\ pc' = [pc EXCEPT ![a] = "ok"]
          /\ \A q \in Request \ {a} : seen'[q] = seen[q]
      BY <1>9, <1>a DEF PostgresRefresh, SqlServerLog, Answers, Row
    <2>2. Done(r) /\ r \in Append => r \in seen[a].log
      BY <1>b, <2>1 DEF Kept
    <2>3. a \notin Ended /\ a \in seen[a].log
      BY <2>1 DEF Ended, EventsIn
    <2> QED BY <1>7, <2>1, <2>2, <2>3
  <1>10. ASSUME NEW a \in Append, PostgresInsertEvent(a) \/ SqlServerInsertEvent(a)
         PROVE  Kept(r)'
    <2>1. pc' = [pc EXCEPT ![a] = "inserted"] /\ row' = row /\ seen' = seen
      BY <1>10 DEF PostgresInsertEvent, SqlServerInsertEvent, Starts
    <2>2. Done(r)
      BY <1>a, <2>1 DEF Done, TypeOK
    <2>3. \A q \in Request : pc'[q] = "read" => pc[q] = "read" /\ seen'[q] = seen[q]
      BY <2>1 DEF TypeOK
    <2> QED BY <1>a, <1>b, <2>1, <2>2, <2>3, KeptByOthers DEF Kept
  <1>11. ASSUME NEW a \in Append,
                PostgresRefreshStarts(a) \/ SqlServerSelectEvents(a)
         PROVE  Kept(r)'
    <2>1. /\ pc' = [pc EXCEPT ![a] = "read"] /\ row' = row
          /\ \E L : Committed \subseteq L /\ seen' = [seen EXCEPT ![a].log = L]
      BY <1>11 DEF PostgresRefreshStarts, SqlServerSelectEvents, Committed
    <2>2. Done(r)
      BY <1>a, <2>1 DEF Done, TypeOK
    <2>3. /\ \A q \in Request \ {a} : pc'[q] = pc[q] /\ seen'[q] = seen[q]
          /\ Committed \subseteq seen'[a].log
      BY <1>a, <2>1 DEF TypeOK, Row
    <2>4. /\ \A q \in Patch : pc'[q] = "read" => pc[q] = "read" /\ seen'[q] = seen[q]
          /\ \A b \in Append : pc'[b] = "read" =>
                \/ pc[b] = "read" /\ seen'[b] = seen[b]
                \/ r \in Append => r \in seen'[b].log
      BY <1>a, <1>c, <2>2, <2>3, RowAssumption
    <2> QED BY <1>a, <1>b, <2>1, <2>2, <2>4, KeptByOthers DEF Kept
  <1>12. ASSUME NEW q \in Request, Fail(q)
         PROVE  Kept(r)'
    <2>1. /\ pc' = [pc EXCEPT ![q] = "error"] /\ row' = row
          /\ \A s \in Request \ {q} : seen'[s] = seen[s]
      BY <1>12 DEF Fail, TypeOK
    <2>2. Done(r)
      BY <1>a, <2>1 DEF Done, TypeOK
    <2>3. \A s \in Request : pc'[s] = "read" => pc[s] = "read" /\ seen'[s] = seen[s]
      BY <2>1 DEF TypeOK
    <2> QED BY <1>a, <1>b, <2>1, <2>2, <2>3, KeptByOthers DEF Kept
  <1> QED BY Steps, <1>1, <1>2, <1>4, <1>5, <1>6, <1>8, <1>9, <1>10, <1>11, <1>12

\* In every repository, what a request did that overlapped no other is there
\* for good: only a request that set the same thing later replaces it.
THEOREM AloneIsSafe == Spec => []AloneStands
  <1>1. Init => Ordered /\ EventsIn /\ AloneInv
    BY DEF Init, Ordered, EventsIn, AloneInv, Done, Request
  <1>2. TypeOK /\ Ordered /\ EventsIn /\ AloneInv /\ [Next]_vars
           => (Ordered /\ EventsIn /\ AloneInv)'
    BY OrderedStep, EventsStep, AloneStep
  <1>3. AloneInv => AloneStands
    BY DEF AloneInv, AloneStands, Kept, Stands, ColumnsStand, KeysStand
  <1> QED BY <1>1, <1>2, <1>3, RowTypes, PTL DEF Spec
=============================================================================
