-------------------------- MODULE LibraryProofs --------------------------
(***************************************************************************)
(* Proofs about the library, for any number of operations, videos, chunks   *)
(* of a video, failures and deaths.                                         *)
(***************************************************************************)
EXTENDS Library, FiniteSetTheorems, TLAPS

-----------------------------------------------------------------------------
(* Types                                                                   *)

\* What an operation of kind k at label p knows in its local variables l.
Fits(k, p, l) ==
    /\ l.i >= 1 /\ l.part >= 1
    /\ p \in {"store", "replace", "commit"} => l.row # None \/ k = "lessons"
    /\ k \in Syncs /\ l.had => l.row # None
    /\ k \in Syncs \cup Ingests \cup {"resync"} /\ p = "embed" => l.row # None
    /\ k = "resync" /\ p = "fetch" => l.row # None
    /\ p = "mark" => l.outcome # "none"
    /\ p \in {"lookup", "exists", "fetch", "create", "embed", "commit", "replace"} =>
          l.title # None
    /\ k # "lessons" /\ p \in {"new", "lookup", "fetch", "exists", "create", "embed"} =>
          l.part = 1
    /\ p = "store" => l.part <= Parts

Ops ==
    /\ kind \in [Op -> Kinds]
    /\ pc \in [Op -> Label]
    /\ loc \in [Op -> Local]
    /\ \A o \in Op : Fits(kind[o], pc[o], loc[o])

Tables ==
    /\ videos \in [RowId -> Title \cup {"free", "gone"}]
    /\ hash \in [RowId -> Nat \cup {None}]
    /\ chunks \subseteq Chunk

Records ==
    /\ run \in [Op -> [status : RunStatus, total : Nat, new : Nat, error : Nat]]
    /\ entry \in [Op -> Seq(Entry)]

Caches ==
    /\ cat \in Catalog \cup {None}
    /\ reader \in [Reader -> [at : {"idle", "asking", "answered"},
                              list : SUBSET RowId, ok : BOOLEAN]]
    /\ known \subseteq RowId

Types == Ops /\ Tables /\ Records /\ Caches /\ failures \in 0..MaxFailures

\* An operation that goes on with other locals disturbs no other.
LEMMA OpMoves ==
    ASSUME Ops, NEW o \in Op, NEW p \in Label, NEW l \in Local,
           Fits(kind[o], p, l),
           kind' = kind, Goto(o, p), Keeps(o, l)
    PROVE  Ops'
  BY DEF Ops, Goto, Keeps

\* Nor does one that goes on with the same locals.
LEMMA OpGoes ==
    ASSUME Ops, NEW o \in Op, NEW p \in Label,
           Fits(kind[o], p, loc[o]),
           kind' = kind, Goto(o, p), loc' = loc
    PROVE  Ops'
  BY DEF Ops, Goto

\* What the operation at hand knows before its step.
LEMMA OpKnows ==
    ASSUME Ops, NEW o \in Op
    PROVE  /\ kind[o] \in Kinds /\ pc[o] \in Label /\ loc[o] \in Local
           /\ Fits(kind[o], pc[o], loc[o])
  BY DEF Ops

\* What is written down is a typed change of the tables, the records and the
\* caches.
LEMMA Rows ==
    ASSUME Tables, NEW r \in RowId, NEW t \in Title, create_video(r, t),
           UNCHANGED <<hash, chunks>>
    PROVE  Tables'
  BY DEF Tables, create_video

LEMMA MoreChunks ==
    ASSUME Tables, NEW S \in SUBSET Chunk, NEW D, chunks' = (chunks \ D) \cup S,
           UNCHANGED <<videos, hash>>
    PROVE  Tables'
  BY DEF Tables

LEMMA Forgets ==
    ASSUME Caches, NEW o \in Op, invalidate_catalog(o), UNCHANGED reader
    PROVE  Caches'
  BY DEF Caches, invalidate_catalog, Announce, list_videos

LEMMA Closed ==
    ASSUME Records, NEW o \in Op, NEW s \in RunStatus, NEW n \in Nat,
           loc[o] \in Local, update_sync_run(o, s, n), UNCHANGED entry
    PROVE  Records'
  BY DEF Records, update_sync_run, Local

LEMMA PartIsChunk ==
    ASSUME NEW r \in RowId, NEW o \in Op \cup {None}, NEW p \in 1..Parts,
           NEW tx \in BOOLEAN
    PROVE  PartOf(r, o, p, tx) \in Chunk
  BY DEF PartOf, Chunk

LEMMA FullIsChunks ==
    ASSUME NEW r \in RowId, NEW o \in Op \cup {None}, NEW tx \in BOOLEAN
    PROVE  Full(r, o, tx) \subseteq Chunk
  BY PartIsChunk DEF Full

\* A failure is counted, within its bound.
LEMMA Counted ==
    ASSUME LibraryAssumption, failures \in 0..MaxFailures, NEW some,
           Fault(some) \/ failures' = failures
    PROVE  failures' \in 0..MaxFailures
  BY DEF Fault, LibraryAssumption

\* A conversion of the state back to what TypeOK says.
LEMMA TypesAreRight == Types => TypeOK
  BY DEF Types, TypeOK, Ops, Tables, Records, Caches, Fits

\* Counters of an operation's locals go on being numbers.
LEMMA LocalCounts ==
    ASSUME NEW l \in Local
    PROVE  l.i + 1 \in Nat /\ l.error + 1 \in Nat /\ l.new + 1 \in Nat
           /\ l.part + 1 \in Nat
  BY DEF Local

\* Fail takes an operation to a label where it knows enough.
LEMMA FailFits ==
    ASSUME Ops, NEW o \in Op, Fail(o), kind' = kind,
           kind[o] \in Syncs => pc[o] # "new"
    PROVE  Ops'
  <1>0. /\ kind[o] \in Kinds /\ pc[o] \in Label /\ loc[o] \in Local
        /\ Fits(kind[o], pc[o], loc[o])
    BY OpKnows
  <1>1. CASE kind[o] \in Syncs
    <2> DEFINE l == [loc[o] EXCEPT !.error = @ + 1, !.outcome = "error"]
    <2>1. Goto(o, "mark") /\ Keeps(o, l)
      BY <1>1 DEF Fail, Syncs
    <2>2. l \in Local
      BY <1>0, LocalCounts DEF Local, Outcome
    <2>3. Fits(kind[o], "mark", l)
      BY <1>0, <1>1, LocalCounts DEF Fits, Syncs, Local
    <2> QED BY <2>1, <2>2, <2>3, OpMoves DEF Label
  <1>2. CASE kind[o] = "lessons"
    <2> DEFINE l == [loc[o] EXCEPT !.i = @ + 1, !.error = @ + 1]
    <2>1. Goto(o, "next") /\ Keeps(o, l)
      BY <1>2 DEF Fail, Syncs
    <2>2. l \in Local
      BY <1>0, LocalCounts DEF Local
    <2>3. Fits(kind[o], "next", l)
      BY <1>0, <1>2, LocalCounts DEF Fits, Syncs, Ingests, Local
    <2> QED BY <2>1, <2>2, <2>3, OpMoves DEF Label
  <1>3. CASE kind[o] \notin Syncs /\ kind[o] # "lessons"
    <2>1. Goto(o, "done") /\ loc' = loc
      BY <1>3 DEF Fail
    <2>2. Fits(kind[o], "done", loc[o])
      BY <1>0, <1>3 DEF Fits, Ingests
    <2> QED BY <2>1, <2>2, OpGoes DEF Label
  <1> QED BY <1>1, <1>2, <1>3

-----------------------------------------------------------------------------
(* What each operation knows                                               *)

\* A sync knows its video and its row where it needs them.
LEMMA SyncKnows ==
    ASSUME LibraryAssumption, Ops, Tables, NEW o \in Op, Sync(o)
    PROVE  Ops'
  <1>0. /\ kind[o] \in Kinds /\ pc[o] \in Label /\ loc[o] \in Local
        /\ Fits(kind[o], pc[o], loc[o])
    BY OpKnows
  <1>1. CASE SyncBegins(o)
    <2>1. Fits(kind[o], "enumerate", loc[o])
      BY <1>0, <1>1 DEF SyncBegins, At, Fits, Syncs, Ingests
    <2> QED BY <2>1, <1>1, OpGoes DEF SyncBegins, Label
  <1>2. CASE EnumerateFails(o)
    <2>1. Fits(kind[o], "done", loc[o])
      BY <1>0, <1>2 DEF EnumerateFails, At, Fits, Syncs, Ingests
    <2> QED BY <2>1, <1>2, OpGoes DEF EnumerateFails, Label
  <1>3. CASE Enumerates(o)
    <2>1. Fits(kind[o], "next", loc[o])
      BY <1>0, <1>3 DEF Enumerates, At, Fits, Syncs, Ingests
    <2> QED BY <2>1, <1>3, OpGoes DEF Enumerates, Label
  <1>4. CASE NextVideo(o)
    <2> DEFINE l == [loc[o] EXCEPT !.title = Channel[loc[o].i], !.row = None,
                   !.had = FALSE, !.part = 1, !.snap = {}, !.outcome = "none"]
    <2>0. /\ loc[o].i \in 1..Len(Channel)
          /\ Channel \in Seq(Clip)
      BY <1>0, <1>4 DEF NextVideo, Fits, Local, LibraryAssumption
    <2>a. Channel[loc[o].i] \in Clip /\ None \notin Clip
      BY <2>0 DEF LibraryAssumption
    <2>1. l \in Local
      BY <1>0, <2>a DEF Local, Outcome, Title
    <2>2. Fits(kind[o], "lookup", l)
      BY <1>0, <1>4, <2>a DEF NextVideo, At, Fits, Syncs, Ingests, Local
    <2> QED BY <2>1, <2>2, <1>4, OpMoves DEF NextVideo, Label
  <1>5. CASE SkipsKnown(o)
    <2> DEFINE l == [loc[o] EXCEPT !.new = @ + 1, !.outcome = "ingested"]
    <2>1. l \in Local
      BY <1>0, <1>5, LocalCounts DEF SkipsKnown, Local, Outcome
    <2>2. Fits(kind[o], "mark", l)
      BY <1>0, <1>5, LocalCounts DEF SkipsKnown, At, Fits, Syncs, Ingests, Local
    <2> QED BY <2>1, <2>2, <1>5, OpMoves DEF SkipsKnown, Label
  <1>6. CASE TakesKnown(o)
    <2>0. PICK r \in RowId : Keeps(o, [loc[o] EXCEPT !.row = r, !.had = TRUE])
      BY <1>6 DEF TakesKnown, get_video_by_youtube_id
    <2> DEFINE l == [loc[o] EXCEPT !.row = r, !.had = TRUE]
    <2>1. l \in Local
      BY <1>0, <1>6 DEF TakesKnown, Local
    <2>2. Fits(kind[o], "fetch", l)
      BY <1>0, <1>6 DEF TakesKnown, At, Fits, Syncs, Ingests, Local
    <2> QED BY <2>0, <2>1, <2>2, <1>6, OpMoves DEF TakesKnown, Label
  <1>7. CASE FindsNew(o)
    <2>1. Fits(kind[o], "fetch", loc[o])
      BY <1>0, <1>7 DEF FindsNew, At, Fits, Syncs, Ingests
    <2> QED BY <2>1, <1>7, OpGoes DEF FindsNew, Label
  <1>8. CASE SyncFetches(o)
    <2>1. Fits(kind[o], IF loc[o].had THEN "embed" ELSE "create", loc[o])
      BY <1>0, <1>8 DEF SyncFetches, At, Fits, Syncs, Ingests
    <2> QED BY <2>1, <1>8, OpGoes DEF SyncFetches, Label
  <1>9. CASE SyncFetchFails(o)
    BY <1>9, FailFits DEF SyncFetchFails, At, db, history
  <1>10. CASE SyncCreates(o)
    <2>0. PICK r \in RowId : Keeps(o, [loc[o] EXCEPT !.row = r])
      BY <1>10 DEF SyncCreates
    <2> DEFINE l == [loc[o] EXCEPT !.row = r]
    <2>1. l \in Local
      BY <1>0, <1>10 DEF SyncCreates, Local
    <2>2. Fits(kind[o], "embed", l)
      BY <1>0, <1>10 DEF SyncCreates, At, Fits, Syncs, Ingests, Local
    <2> QED BY <2>0, <2>1, <2>2, <1>10, OpMoves DEF SyncCreates, Label
  <1>11. CASE SyncCreateFails(o)
    BY <1>11, FailFits DEF SyncCreateFails, At, db, history
  <1>12. CASE SyncEmbeds(o)
    <2>1. Fits(kind[o], IF loc[o].had THEN "replace" ELSE "store", loc[o])
      BY <1>0, <1>12 DEF SyncEmbeds, At, Fits, Syncs, Ingests, LibraryAssumption
    <2> QED BY <2>1, <1>12, OpGoes DEF SyncEmbeds, Label
  <1>13. CASE SyncEmbedFails(o)
    BY <1>13, FailFits DEF SyncEmbedFails, At, db, history
  <1>14. CASE SyncStores(o)
    <2> DEFINE l == IF loc[o].part < Parts
                    THEN [loc[o] EXCEPT !.part = loc[o].part + 1]
                    ELSE [loc[o] EXCEPT !.new = @ + 1, !.outcome = "ingested"]
               p == IF loc[o].part < Parts THEN "store" ELSE "mark"
    <2>1. l \in Local
      BY <1>0, LocalCounts DEF Local, Outcome
    <2>2. Fits(kind[o], p, l)
      BY <1>0, <1>14, LocalCounts DEF SyncStores, At, Fits, Syncs, Ingests, Local,
         LibraryAssumption
    <2>3. Goto(o, p) /\ Keeps(o, l)
      BY <1>0, <1>14 DEF SyncStores, At, Goto, Ops
    <2> QED BY <2>1, <2>2, <2>3, <1>14, OpMoves DEF SyncStores, Label
  <1>15. CASE SyncReplaces(o)
    <2> DEFINE l == [loc[o] EXCEPT !.new = @ + 1, !.outcome = "ingested"]
    <2>1. l \in Local
      BY <1>0, <1>15, LocalCounts DEF SyncReplaces, Local, Outcome
    <2>2. Fits(kind[o], "mark", l)
      BY <1>0, <1>15, LocalCounts DEF SyncReplaces, At, Fits, Syncs, Ingests, Local
    <2> QED BY <2>1, <2>2, <1>15, OpMoves DEF SyncReplaces, Label
  <1>16. CASE SyncStoreFails(o)
    BY <1>16, FailFits DEF SyncStoreFails, At, db, history
  <1>17. CASE MarksVideo(o)
    <2> DEFINE l == [loc[o] EXCEPT !.i = @ + 1]
    <2>1. l \in Local
      BY <1>0, <1>17, LocalCounts DEF MarksVideo, Local
    <2>2. Fits(kind[o], "next", l)
      BY <1>0, <1>17, LocalCounts DEF MarksVideo, At, Fits, Syncs, Ingests, Local
    <2> QED BY <2>1, <2>2, <1>17, OpMoves DEF MarksVideo, Label
  <1>18. CASE LoopRaises(o)
    <2>1. Fits(kind[o], "done", loc[o])
      BY <1>0, <1>18 DEF LoopRaises, At, Fits, Syncs, Ingests
    <2> QED BY <2>1, <1>18, OpGoes DEF LoopRaises, Label
  <1>19. CASE LoopEnds(o)
    <2>1. Fits(kind[o], "close", loc[o])
      BY <1>0, <1>19 DEF LoopEnds, At, Fits, Syncs, Ingests
    <2> QED BY <2>1, <1>19, OpGoes DEF LoopEnds, Label
  <1>20. CASE ClosesRun(o)
    <2>1. Fits(kind[o], "done", loc[o])
      BY <1>0, <1>20 DEF ClosesRun, At, Fits, Syncs, Ingests
    <2> QED BY <2>1, <1>20, OpGoes DEF ClosesRun, Label
  <1> QED BY <1>1, <1>2, <1>3, <1>4, <1>5, <1>6, <1>7, <1>8, <1>9, <1>10, <1>11, <1>12, <1>13, <1>14, <1>15, <1>16, <1>17, <1>18, <1>19, <1>20 DEF Sync

\* So does a request of the admin.
LEMMA AdminKnows ==
    ASSUME LibraryAssumption, Ops, Tables, NEW o \in Op, Admin(o)
    PROVE  Ops'
  <1>0. /\ kind[o] \in Kinds /\ pc[o] \in Label /\ loc[o] \in Local
        /\ Fits(kind[o], pc[o], loc[o])
    BY OpKnows
  <1>1. CASE AddBegins(o)
    <2>0. PICK c \in Wanted : Keeps(o, [loc[o] EXCEPT !.title = c])
      BY <1>1 DEF AddBegins
    <2> DEFINE l == [loc[o] EXCEPT !.title = c]
    <2>1. c \in Title /\ c # None
      BY <2>0 DEF Title, LibraryAssumption
    <2>2. l \in Local
      BY <1>0, <2>1 DEF Local
    <2>3. Fits(kind[o], "fetch", l)
      BY <1>0, <2>1, <1>1 DEF AddBegins, At, Fits, Syncs, Ingests, Local
    <2> QED BY <2>0, <2>2, <2>3, <1>1, OpMoves DEF AddBegins, Label
  <1>2. CASE ResyncBegins(o)
    <2>0. PICK r \in RowId : /\ videos[r] \in Clip
                             /\ Keeps(o, [loc[o] EXCEPT !.title = videos[r], !.row = r])
      BY <1>2 DEF ResyncBegins, list_videos
    <2> DEFINE l == [loc[o] EXCEPT !.title = videos[r], !.row = r]
    <2>1. videos[r] \in Title /\ videos[r] # None /\ r # None
      BY <2>0 DEF Title, LibraryAssumption
    <2>2. l \in Local
      BY <1>0, <2>1 DEF Local
    <2>3. Fits(kind[o], "fetch", l)
      BY <1>0, <2>1, <1>2 DEF ResyncBegins, At, Fits, Syncs, Ingests, Local
    <2> QED BY <2>0, <2>2, <2>3, <1>2, OpMoves DEF ResyncBegins, Label
  <1>3. CASE AdminFetches(o)
    <2>1. Fits(kind[o], "embed", loc[o])
      BY <1>0, <1>3 DEF AdminFetches, At, Fits, Syncs, Ingests
    <2> QED BY <2>1, <1>3, OpGoes DEF AdminFetches, Label
  <1>4. CASE AdminFetchFails(o)
    <2>1. Fits(kind[o], "done", loc[o])
      BY <1>0, <1>4 DEF AdminFetchFails, At, Fits, Syncs, Ingests
    <2> QED BY <2>1, <1>4, OpGoes DEF AdminFetchFails, Label
  <1>5. CASE AdminEmbeds(o)
    <2>1. Fits(kind[o], IF kind[o] = "add" THEN "exists" ELSE "replace", loc[o])
      BY <1>0, <1>5 DEF AdminEmbeds, At, Fits, Syncs, Ingests
    <2> QED BY <2>1, <1>5, OpGoes DEF AdminEmbeds, Label
  <1>6. CASE AlreadyInLibrary(o)
    <2>1. Fits(kind[o], "done", loc[o])
      BY <1>0, <1>6 DEF AlreadyInLibrary, At, Fits, Syncs, Ingests
    <2> QED BY <2>1, <1>6, OpGoes DEF AlreadyInLibrary, Label
  <1>7. CASE NotInLibrary(o)
    <2>1. Fits(kind[o], "create", loc[o])
      BY <1>0, <1>7 DEF NotInLibrary, At, Fits, Syncs, Ingests
    <2> QED BY <2>1, <1>7, OpGoes DEF NotInLibrary, Label
  <1>8. CASE AddCreates(o)
    <2>0. PICK r \in RowId : Keeps(o, [loc[o] EXCEPT !.row = r])
      BY <1>8 DEF AddCreates
    <2> DEFINE l == [loc[o] EXCEPT !.row = r]
    <2>1. l \in Local
      BY <1>0, <1>8 DEF AddCreates, Local
    <2>2. Fits(kind[o], "replace", l)
      BY <1>0, <1>8 DEF AddCreates, At, Fits, Syncs, Ingests, Local
    <2> QED BY <2>0, <2>1, <2>2, <1>8, OpMoves DEF AddCreates, Label
  <1>9. CASE AdminReplaces(o)
    <2>1. Fits(kind[o], "done", loc[o])
      BY <1>0, <1>9 DEF AdminReplaces, At, Fits, Syncs, Ingests
    <2> QED BY <2>1, <1>9, OpGoes DEF AdminReplaces, Label
  <1>10. CASE AdminStoreFails(o)
    <2>1. Fits(kind[o], "done", loc[o])
      BY <1>0, <1>10 DEF AdminStoreFails, At, Fits, Syncs, Ingests
    <2> QED BY <2>1, <1>10, OpGoes DEF AdminStoreFails, Label
  <1>11. CASE DeletesVideo(o)
    <2>1. Fits(kind[o], "done", loc[o])
      BY <1>0, <1>11 DEF DeletesVideo, At, Fits, Syncs, Ingests
    <2> QED BY <2>1, <1>11, OpGoes DEF DeletesVideo, Label
  <1> QED BY <1>1, <1>2, <1>3, <1>4, <1>5, <1>6, <1>7, <1>8, <1>9, <1>10, <1>11 DEF Admin

\* So does an ingest.
LEMMA IngestKnows ==
    ASSUME LibraryAssumption, Ops, Tables, NEW o \in Op, Ingest(o)
    PROVE  Ops'
  <1>0. /\ kind[o] \in Kinds /\ pc[o] \in Label /\ loc[o] \in Local
        /\ Fits(kind[o], pc[o], loc[o])
    BY OpKnows
  <1>1. CASE IngestBegins(o)
    <2>0. PICK c \in Wanted : Keeps(o, [loc[o] EXCEPT !.title = c])
      BY <1>1 DEF IngestBegins
    <2> DEFINE l == [loc[o] EXCEPT !.title = c]
    <2>1. c \in Title /\ c # None
      BY <2>0 DEF Title, LibraryAssumption
    <2>2. l \in Local
      BY <1>0, <2>1 DEF Local
    <2>3. Fits(kind[o], IF kind[o] = "json" THEN "create" ELSE "fetch", l)
      BY <1>0, <2>1, <1>1 DEF IngestBegins, At, Fits, Syncs, Ingests, Local
    <2> QED BY <2>0, <2>2, <2>3, <1>1, OpMoves DEF IngestBegins, Label
  <1>2. CASE UrlFetches(o)
    <2>1. Fits(kind[o], "create", loc[o]) /\ Fits(kind[o], "done", loc[o])
      BY <1>0, <1>2 DEF UrlFetches, At, Fits, Syncs, Ingests
    <2> QED BY <2>1, <1>2, OpGoes DEF UrlFetches, Label
  <1>3. CASE IngestCreates(o)
    <2>0. PICK r \in RowId : Keeps(o, [loc[o] EXCEPT !.row = r])
      BY <1>3 DEF IngestCreates
    <2> DEFINE l == [loc[o] EXCEPT !.row = r]
    <2>1. l \in Local
      BY <1>0, <1>3 DEF IngestCreates, Local
    <2>2. Fits(kind[o], "embed", l)
      BY <1>0, <1>3 DEF IngestCreates, At, Fits, Syncs, Ingests, Local
    <2> QED BY <2>0, <2>1, <2>2, <1>3, OpMoves DEF IngestCreates, Label
  <1>4. CASE IngestHasNoChunks(o)
    <2>1. Fits(kind[o], "done", loc[o])
      BY <1>0, <1>4 DEF IngestHasNoChunks, At, Fits, Syncs, Ingests
    <2> QED BY <2>1, <1>4, OpGoes DEF IngestHasNoChunks, Label
  <1>5. CASE IngestEmbeds(o)
    <2>1. Fits(kind[o], "store", loc[o])
      BY <1>0, <1>5 DEF IngestEmbeds, At, Fits, Syncs, Ingests
    <2> QED BY <2>1, <1>5, OpGoes DEF IngestEmbeds, Label
  <1>6. CASE JsonEmbedFails(o)
    <2>1. Fits(kind[o], "done", loc[o])
      BY <1>0, <1>6 DEF JsonEmbedFails, At, Fits, Syncs, Ingests
    <2> QED BY <2>1, <1>6, OpGoes DEF JsonEmbedFails, Label
  <1>7. CASE UrlEmbedFails(o)
    <2>1. Fits(kind[o], "done", loc[o])
      BY <1>0, <1>7 DEF UrlEmbedFails, At, Fits, Syncs, Ingests
    <2> QED BY <2>1, <1>7, OpGoes DEF UrlEmbedFails, Label
  <1>8. CASE IngestStores(o)
    <2> DEFINE l == [loc[o] EXCEPT !.part = loc[o].part + 1]
               p == IF loc[o].part < Parts THEN "store" ELSE "finally"
    <2>1. l \in Local
      BY <1>0, LocalCounts DEF Local
    <2>2. Fits(kind[o], p, l)
      BY <1>0, <1>8, LocalCounts DEF IngestStores, At, Fits, Syncs, Ingests, Local,
         LibraryAssumption
    <2> QED BY <2>1, <2>2, <1>8, OpMoves DEF IngestStores, Label
  <1>9. CASE IngestStoreFails(o)
    <2>1. Fits(kind[o], "finally", loc[o])
      BY <1>0, <1>9 DEF IngestStoreFails, At, Fits, Syncs, Ingests
    <2> QED BY <2>1, <1>9, OpGoes DEF IngestStoreFails, Label
  <1>10. CASE IngestFinally(o)
    <2>1. Fits(kind[o], "done", loc[o])
      BY <1>0, <1>10 DEF IngestFinally, At, Fits, Syncs, Ingests
    <2> QED BY <2>1, <1>10, OpGoes DEF IngestFinally, Label
  <1> QED BY <1>1, <1>2, <1>3, <1>4, <1>5, <1>6, <1>7, <1>8, <1>9, <1>10 DEF Ingest

\* So does the sweep over the lessons.
LEMMA SweepKnows ==
    ASSUME LibraryAssumption, Ops, Tables, NEW o \in Op, Sweep(o)
    PROVE  Ops'
  <1>0. /\ kind[o] \in Kinds /\ pc[o] \in Label /\ loc[o] \in Local
        /\ Fits(kind[o], pc[o], loc[o])
    BY OpKnows
  <1>1. CASE SweepBegins(o)
    <2>0. PICK e \in Editions : Keeps(o, [loc[o] EXCEPT !.edition = e])
      BY <1>1 DEF SweepBegins
    <2> DEFINE l == [loc[o] EXCEPT !.edition = e]
    <2>1. l \in Local
      BY <1>0, <1>1 DEF SweepBegins, Local, LibraryAssumption
    <2>2. Fits(kind[o], "next", l)
      BY <1>0, <1>1 DEF SweepBegins, At, Fits, Syncs, Ingests, Local
    <2> QED BY <2>0, <2>1, <2>2, <1>1, OpMoves DEF SweepBegins, Label
  <1>2. CASE LessonUnchanged(o)
    <2> DEFINE l == [loc[o] EXCEPT !.i = @ + 1]
    <2>1. l \in Local
      BY <1>0, LocalCounts DEF Local
    <2>2. Fits(kind[o], "next", l)
      BY <1>0, <1>2, LocalCounts DEF LessonUnchanged, At, Fits, Syncs, Ingests, Local
    <2>3. Goto(o, "next")
      BY <1>2 DEF LessonUnchanged, At, Goto, Ops
    <2> QED BY <2>1, <2>2, <2>3, <1>2, OpMoves DEF LessonUnchanged, Label
  <1>3. CASE LessonChanged(o)
    <2> DEFINE file == LessonFiles[loc[o].i]
    <2>0. PICK r \in RowId \cup {None} :
             Keeps(o, [loc[o] EXCEPT !.title = file, !.row = r])
      BY <1>3 DEF LessonChanged, get_video_by_youtube_id
    <2> DEFINE l == [loc[o] EXCEPT !.title = file, !.row = r]
    <2>a. loc[o].i \in 1..Len(LessonFiles)
      <3>1. loc[o].i <= Len(LessonFiles)
        BY <1>3 DEF LessonChanged
      <3>2. Len(LessonFiles) \in Nat
        BY DEF LibraryAssumption
      <3>3. loc[o].i \in Nat /\ loc[o].i >= 1
        BY <1>0 DEF Fits, Local
      <3> QED BY <3>1, <3>2, <3>3
    <2>b. file \in Lesson
      BY <2>a DEF LibraryAssumption
    <2>1. file \in Title /\ file # None
      BY <2>b DEF Title, LibraryAssumption
    <2>2. l \in Local
      BY <1>0, <2>1 DEF Local
    <2>3. Fits(kind[o], "embed", l)
      BY <1>0, <2>1, <1>3 DEF LessonChanged, At, Fits, Syncs, Ingests, Local
    <2> QED BY <2>0, <2>2, <2>3, <1>3, OpMoves DEF LessonChanged, Label
  <1>4. CASE LessonEmbeds(o)
    <2>1. CASE loc[o].row = None
      <3>1. Fits(kind[o], "commit", loc[o])
        BY <1>0, <1>4 DEF LessonEmbeds, At, Fits, Syncs, Ingests
      <3> QED BY <3>1, <2>1, <1>4, OpGoes DEF LessonEmbeds, Label
    <2>2. CASE loc[o].row # None
      <3> DEFINE l == [loc[o] EXCEPT !.snap = Of(loc[o].row)]
      <3>1. l \in Local
        BY <1>0 DEF Local, Of, Tables
      <3>2. Fits(kind[o], "commit", l)
        BY <1>0, <1>4 DEF LessonEmbeds, At, Fits, Syncs, Ingests, Local
      <3> QED BY <3>1, <3>2, <2>2, <1>4, OpMoves DEF LessonEmbeds, Label
    <2> QED BY <2>1, <2>2
  <1>5. CASE LessonInserted(o)
    <2> DEFINE l == [loc[o] EXCEPT !.i = @ + 1]
    <2>1. l \in Local
      BY <1>0, <1>5, LocalCounts DEF LessonInserted, Local
    <2>2. Fits(kind[o], "next", l)
      BY <1>0, <1>5, LocalCounts DEF LessonInserted, At, Fits, Syncs, Ingests, Local
    <2> QED BY <2>1, <2>2, <1>5, OpMoves DEF LessonInserted, Label
  <1>6. CASE LessonReplaced(o)
    <2> DEFINE l == [loc[o] EXCEPT !.i = @ + 1]
    <2>1. l \in Local
      BY <1>0, <1>6, LocalCounts DEF LessonReplaced, Local
    <2>2. Fits(kind[o], "next", l)
      BY <1>0, <1>6, LocalCounts DEF LessonReplaced, At, Fits, Syncs, Ingests, Local
    <2> QED BY <2>1, <2>2, <1>6, OpMoves DEF LessonReplaced, Label
  <1>7. CASE LessonFails(o)
    BY <1>7, FailFits DEF LessonFails, At, db, history, Syncs
  <1>8. CASE SweepEnds(o)
    <2>1. Fits(kind[o], "done", loc[o])
      BY <1>0, <1>8 DEF SweepEnds, At, Fits, Syncs, Ingests
    <2> QED BY <2>1, <1>8, OpGoes DEF SweepEnds, Label
  <1>9. CASE LessonIsBlank(o)
    <2> DEFINE l == [loc[o] EXCEPT !.i = @ + 1]
    <2>1. l \in Local
      BY <1>0, <1>9, LocalCounts DEF LessonIsBlank, Local
    <2>2. Fits(kind[o], "next", l)
      BY <1>0, <1>9, LocalCounts DEF LessonIsBlank, At, Fits, Syncs, Ingests, Local
    <2> QED BY <2>1, <2>2, <1>9, OpMoves DEF LessonIsBlank, Label
  <1> QED BY <1>1, <1>2, <1>3, <1>4, <1>5, <1>6, <1>7, <1>8, <1>9 DEF Sweep

\* So does an operation that begins to replace the chunks of its row.
LEMMA ReplaceKnows ==
    ASSUME LibraryAssumption, Ops, Tables, NEW o \in Op, ReplaceBegins(o)
    PROVE  Ops'
  <1>0. /\ kind[o] \in Kinds /\ pc[o] \in Label /\ loc[o] \in Local
        /\ Fits(kind[o], pc[o], loc[o])
    BY OpKnows
  <1> DEFINE l == [loc[o] EXCEPT !.snap = Of(loc[o].row)]
  <1>1. l \in Local
    BY <1>0 DEF Local, Of, Tables
  <1>2. Fits(kind[o], "commit", l)
    BY <1>0 DEF ReplaceBegins, Fits, Syncs, Ingests, Local
  <1> QED BY <1>1, <1>2, OpMoves DEF ReplaceBegins, Label

\* A death only ends operations.
LEMMA DeathKnows ==
    ASSUME Ops, ProcessDies
    PROVE  Ops'
  <1>1. /\ kind' = kind /\ loc' = loc /\ pc' \in [Op -> Label]
        /\ \A o \in Op : pc'[o] = pc[o] \/ pc'[o] = "done"
    BY DEF ProcessDies, Goto, Ops, Label
  <1>2. \A o \in Op : Fits(kind[o], "done", loc[o])
    BY DEF Ops, Fits
  <1> QED BY <1>1, <1>2 DEF Ops

LEMMA OpsStep ==
    ASSUME LibraryAssumption, Ops, Tables, [Next]_vars
    PROVE  Ops'
  <1>1. CASE UNCHANGED vars
    BY <1>1 DEF vars, Ops
  <1>2. ASSUME NEW o \in Op, Step(o)
        PROVE  Ops'
    BY <1>2, SyncKnows, AdminKnows, ReplaceKnows, IngestKnows, SweepKnows DEF Step
  <1>3. ASSUME NEW q \in Reader, GetCatalog(q)
        PROVE  Ops'
    BY <1>3 DEF GetCatalog, CatalogAsked, CatalogAnswered, CatalogKept, Ops
  <1> QED BY <1>1, <1>2, <1>3, DeathKnows DEF Next

-----------------------------------------------------------------------------
(* Tables, records and caches                                              *)

\* The statements that write videos, hashes or chunks.
LEMMA Writers ==
    ASSUME NEW o \in Op, Step(o), db' # db
    PROVE  \/ SyncCreates(o) \/ AddCreates(o) \/ IngestCreates(o)
           \/ SyncStores(o) \/ IngestStores(o) \/ SyncReplaces(o)
           \/ AdminReplaces(o) \/ LessonReplaced(o) \/ LessonInserted(o)
           \/ DeletesVideo(o) \/ JsonEmbedFails(o)
  BY DEF Step, Sync, Admin, Ingest, Sweep, ReplaceBegins,
         SyncBegins, EnumerateFails, Enumerates, NextVideo, SkipsKnown, TakesKnown,
         FindsNew, SyncFetches, SyncFetchFails, SyncCreateFails, SyncEmbeds,
         SyncEmbedFails, SyncStoreFails, MarksVideo, LoopRaises, LoopEnds, ClosesRun,
         AddBegins, ResyncBegins, AdminFetches, AdminFetchFails, AdminEmbeds,
         AlreadyInLibrary, NotInLibrary, AdminStoreFails, IngestBegins, UrlFetches,
         IngestHasNoChunks, IngestEmbeds, UrlEmbedFails, IngestStoreFails,
         IngestFinally, SweepBegins, LessonUnchanged, LessonChanged, LessonEmbeds,
         LessonFails,
         LessonIsBlank, SweepEnds

LEMMA TablesStep ==
    ASSUME LibraryAssumption, Ops, Tables, [Next]_vars
    PROVE  Tables'
  <1>1. CASE UNCHANGED db
    BY <1>1 DEF db, Tables
  <1>2. ASSUME NEW o \in Op, SyncCreates(o) \/ AddCreates(o) \/ IngestCreates(o)
        PROVE  Tables'
    <2>1. loc[o].title \in Title
      BY <1>2, OpKnows DEF SyncCreates, AddCreates, IngestCreates, At, Fits, Local
    <2> QED BY <1>2, <2>1, Rows DEF SyncCreates, AddCreates, IngestCreates
  <1>3. ASSUME NEW o \in Op, SyncStores(o) \/ IngestStores(o)
        PROVE  Tables'
    <2>1. loc[o].part \in 1..Parts /\ loc[o].row \in RowId
      <3>1. /\ loc[o] \in Local /\ Fits(kind[o], pc[o], loc[o])
        BY OpKnows
      <3>2. pc[o] = "store" /\ loc[o].row \in list_videos
        BY <1>3 DEF SyncStores, IngestStores, create_chunk, At
      <3>3. loc[o].part \in Nat /\ loc[o].part >= 1 /\ loc[o].part <= Parts
        BY <3>1, <3>2 DEF Local, Fits
      <3> QED BY <3>2, <3>3 DEF list_videos, LibraryAssumption
    <2>2. PartOf(loc[o].row, o, loc[o].part, FALSE) \in Chunk
      <3>1. o \in Op \cup {None} /\ FALSE \in BOOLEAN
        OBVIOUS
      <3> QED BY <2>1, <3>1, PartIsChunk
    <2> QED BY <1>3, <2>2 DEF SyncStores, IngestStores, create_chunk, Tables
  <1>4. ASSUME NEW o \in Op, SyncReplaces(o) \/ AdminReplaces(o)
        PROVE  Tables'
    <2>1. loc[o].row \in RowId /\ Full(loc[o].row, o, TRUE) \in SUBSET Chunk
      BY <1>4, FullIsChunks
         DEF SyncReplaces, AdminReplaces, replace_chunks_for_video, list_videos
    <2> QED BY <1>4, <2>1, MoreChunks DEF SyncReplaces, AdminReplaces, replace_chunks_for_video
  <1>5. ASSUME NEW o \in Op, LessonReplaced(o)
        PROVE  Tables'
    <2>1. loc[o].row \in RowId /\ Full(loc[o].row, o, TRUE) \in SUBSET Chunk
      BY <1>5, FullIsChunks DEF LessonReplaced, replace_chunks_for_video, list_videos
    <2>2. loc[o].edition \in Nat
      BY OpKnows DEF Local
    <2> QED BY <1>5, <2>1, <2>2 DEF LessonReplaced, replace_chunks_for_video, Tables
  <1>6. ASSUME NEW o \in Op, LessonInserted(o)
        PROVE  Tables'
    <2>1. PICK r \in RowId : /\ create_video(r, loc[o].title)
                             /\ hash' = [hash EXCEPT ![r] = loc[o].edition]
                             /\ chunks' = chunks \cup Full(r, o, TRUE)
      BY <1>6 DEF LessonInserted
    <2>2. loc[o].edition \in Nat /\ loc[o].title \in Title
      BY <1>6, OpKnows DEF LessonInserted, At, Fits, Local
    <2> QED BY <2>1, <2>2, FullIsChunks DEF create_video, Tables
  <1>7. ASSUME NEW o \in Op, DeletesVideo(o) \/ JsonEmbedFails(o)
        PROVE  Tables'
    BY <1>7 DEF DeletesVideo, JsonEmbedFails, delete_video_cascade, Tables
  <1>8. ASSUME NEW q \in Reader, GetCatalog(q)
        PROVE  UNCHANGED db
    BY <1>8 DEF GetCatalog, CatalogAsked, CatalogAnswered, CatalogKept
  <1> QED BY <1>1, <1>2, <1>3, <1>4, <1>5, <1>6, <1>7, <1>8, Writers
          DEF Next, ProcessDies, vars, db

\* Changing the last element of a sequence, if there is one.
LEMMA LastChanged ==
    ASSUME NEW S, NEW s \in Seq(S), NEW e, Len(s) > 0 => e \in S
    PROVE  [s EXCEPT ![Len(s)] = e] \in Seq(S)
  <1>1. CASE Len(s) > 0
    BY <1>1
  <1>2. CASE Len(s) = 0
    <2>1. [s EXCEPT ![Len(s)] = e] = s
      BY <1>2
    <2> QED BY <2>1
  <1> QED BY <1>1, <1>2

LEMMA RecordsStep ==
    ASSUME LibraryAssumption, Ops, Records, [Next]_vars
    PROVE  Records'
  <1>1. CASE UNCHANGED history
    BY <1>1 DEF history, Records
  <1>2. ASSUME NEW o \in Op, SyncBegins(o)
        PROVE  Records'
    BY <1>2 DEF SyncBegins, create_sync_run, Records, RunStatus
  <1>3. ASSUME NEW o \in Op, EnumerateFails(o) \/ ClosesRun(o)
        PROVE  Records'
    <2>1. loc[o] \in Local /\ 0 \in Nat /\ Len(Channel) \in Nat
      BY OpKnows DEF LibraryAssumption
    <2> QED BY <1>3, <2>1, Closed DEF EnumerateFails, ClosesRun, RunStatus
  <1>4. ASSUME NEW o \in Op, NextVideo(o)
        PROVE  Records'
    <2>1. loc[o].i \in 1..Len(Channel) /\ Channel \in Seq(Clip)
      BY <1>4, OpKnows DEF NextVideo, Fits, Local, LibraryAssumption
    <2>2. [title |-> Channel[loc[o].i], status |-> "pending", row |-> None] \in Entry
      BY <2>1 DEF Entry
    <2>3. entry[o] \in Seq(Entry)
      BY DEF Records
    <2> QED BY <1>4, <2>2, <2>3 DEF NextVideo, create_sync_video, Records
  <1>5. ASSUME NEW o \in Op, MarksVideo(o)
        PROVE  Records'
    <2> DEFINE n == Len(entry[o])
    <2>1. loc[o].outcome \in {"ingested", "error"} /\ loc[o].row \in RowId \cup {None}
      BY <1>5, OpKnows DEF MarksVideo, At, Fits, Local, Outcome
    <2>2. entry[o] \in Seq(Entry)
      BY DEF Records
    <2>3. \A e \in Entry : [e EXCEPT !.status = loc[o].outcome, !.row = loc[o].row] \in Entry
      BY <2>1 DEF Entry
    <2>4. [entry[o] EXCEPT ![n] = [@ EXCEPT !.status = loc[o].outcome,
                                            !.row = loc[o].row]] \in Seq(Entry)
      <3>1. n > 0 => entry[o][n] \in Entry
        BY <2>2
      <3> QED BY <2>2, <2>3, <3>1, LastChanged
    <2> QED BY <1>5, <2>4 DEF MarksVideo, update_sync_video_status, Records
  <1>6. ASSUME NEW o \in Op, Step(o), history' # history
        PROVE  \/ SyncBegins(o) \/ EnumerateFails(o) \/ ClosesRun(o)
               \/ NextVideo(o) \/ MarksVideo(o)
    BY <1>6 DEF Step, Sync, Admin, Ingest, Sweep, ReplaceBegins,
         Enumerates, SkipsKnown, TakesKnown, FindsNew, SyncFetches, SyncFetchFails,
         SyncCreates, SyncCreateFails, SyncEmbeds, SyncEmbedFails, SyncStores,
         SyncReplaces, SyncStoreFails, LoopRaises, LoopEnds,
         AddBegins, ResyncBegins, AdminFetches, AdminFetchFails, AdminEmbeds,
         AlreadyInLibrary, NotInLibrary, AddCreates, AdminReplaces, AdminStoreFails,
         DeletesVideo, IngestBegins, UrlFetches, IngestCreates, IngestHasNoChunks,
         IngestEmbeds, JsonEmbedFails, UrlEmbedFails, IngestStores, IngestStoreFails,
         IngestFinally, SweepBegins, LessonUnchanged, LessonChanged, LessonEmbeds,
         LessonInserted, LessonReplaced, LessonFails,
         LessonIsBlank, SweepEnds
  <1>7. ASSUME NEW q \in Reader, GetCatalog(q)
        PROVE  UNCHANGED history
    BY <1>7 DEF GetCatalog, CatalogAsked, CatalogAnswered, CatalogKept
  <1> QED BY <1>1, <1>2, <1>3, <1>4, <1>5, <1>6, <1>7
          DEF Next, ProcessDies, vars, history

\* The statements that invalidate the catalog.
LEMMA CacheWriters ==
    ASSUME NEW o \in Op, Step(o), cache' # cache
    PROVE  LoopRaises(o) \/ LoopEnds(o) \/ IngestFinally(o)
  BY DEF Step, Sync, Admin, Ingest, Sweep, ReplaceBegins, SyncBegins,
         EnumerateFails, Enumerates, NextVideo, SkipsKnown, TakesKnown,
         FindsNew, SyncFetches, SyncFetchFails, SyncCreates, SyncCreateFails,
         SyncEmbeds, SyncEmbedFails, SyncStores, SyncReplaces, SyncStoreFails,
         MarksVideo, ClosesRun, AddBegins, ResyncBegins, AdminFetches,
         AdminFetchFails, AdminEmbeds, AlreadyInLibrary, NotInLibrary, AddCreates,
         AdminReplaces, AdminStoreFails, DeletesVideo, IngestBegins, UrlFetches,
         IngestCreates, IngestHasNoChunks, IngestEmbeds, JsonEmbedFails,
         UrlEmbedFails, IngestStores, IngestStoreFails, SweepBegins,
         LessonUnchanged, LessonChanged, LessonEmbeds, LessonInserted,
         LessonReplaced, LessonFails,
         LessonIsBlank, SweepEnds

LEMMA CachesStep ==
    ASSUME Caches, [Next]_vars
    PROVE  Caches'
  <1>1. CASE UNCHANGED cache
    BY <1>1 DEF cache, Caches
  <1>2. ASSUME NEW o \in Op, LoopRaises(o) \/ LoopEnds(o) \/ IngestFinally(o)
        PROVE  Caches'
    BY <1>2, Forgets DEF LoopRaises, LoopEnds, IngestFinally
  <1>3. ASSUME NEW q \in Reader, GetCatalog(q)
        PROVE  Caches'
    <2>1. CASE CatalogAsked(q)
      BY <2>1 DEF CatalogAsked, Caches
    <2>2. CASE CatalogAnswered(q)
      <3>1. list_videos \in SUBSET RowId /\ {} \in SUBSET RowId
        BY DEF list_videos
      <3>2. /\ cat' = cat /\ known' = known
            /\ \E l \in SUBSET RowId, b \in BOOLEAN :
                  reader' = [reader EXCEPT ![q] = [at |-> "answered", list |-> l, ok |-> b]]
        BY <2>2, <3>1 DEF CatalogAnswered
      <3> QED BY <3>2 DEF Caches
    <2>3. CASE CatalogKept(q)
      BY <2>3 DEF CatalogKept, Caches, Catalog, NotAsking
    <2> QED BY <1>3, <2>1, <2>2, <2>3 DEF GetCatalog
  <1>4. CASE ProcessDies
    <2>1. CASE /\ cat' = None
               /\ reader' = [q \in Reader |-> NotAsking]
               /\ known' = list_videos
      BY <2>1 DEF Caches, NotAsking, list_videos
    <2> QED BY <1>1, <1>4, <2>1 DEF ProcessDies, cache
  <1> QED BY <1>1, <1>2, CacheWriters, <1>3, <1>4 DEF Next, vars, cache

\* Failures are counted up to their bound.
LEMMA FailuresStep ==
    ASSUME LibraryAssumption, failures \in 0..MaxFailures, [Next]_vars
    PROVE  failures' \in 0..MaxFailures
  <1>1. ASSUME NEW o \in Op, Step(o)
        PROVE  failures' = failures \/ \E some : Fault(some)
    BY <1>1 DEF Step, Sync, Admin, Ingest, Sweep, ReplaceBegins, SyncBegins,
         EnumerateFails, Enumerates, NextVideo, SkipsKnown, TakesKnown,
         FindsNew, SyncFetches, SyncFetchFails, SyncCreates, SyncCreateFails,
         SyncEmbeds, SyncEmbedFails, SyncStores, SyncReplaces, SyncStoreFails,
         MarksVideo, LoopRaises, LoopEnds, ClosesRun, AddBegins, ResyncBegins,
         AdminFetches, AdminFetchFails, AdminEmbeds, AlreadyInLibrary,
         NotInLibrary, AddCreates, AdminReplaces, AdminStoreFails, DeletesVideo,
         IngestBegins, UrlFetches, IngestCreates, IngestHasNoChunks, IngestEmbeds,
         JsonEmbedFails, UrlEmbedFails, IngestStores, IngestStoreFails,
         IngestFinally, SweepBegins, LessonUnchanged, LessonChanged, LessonEmbeds,
         LessonInserted, LessonReplaced, LessonFails,
         LessonIsBlank, SweepEnds, FailsOrGone
  <1>2. ASSUME NEW q \in Reader, GetCatalog(q)
        PROVE  failures' = failures \/ \E some : Fault(some)
    BY <1>2 DEF GetCatalog, CatalogAsked, CatalogAnswered, CatalogKept
  <1>3. CASE ProcessDies
    BY <1>3, Counted DEF ProcessDies
  <1> QED BY <1>1, <1>2, <1>3, Counted DEF Next, vars

LEMMA TypesInit == LibraryAssumption /\ Init => Types
  <1> SUFFICES ASSUME LibraryAssumption, Init PROVE Types
    OBVIOUS
  <1>1. Ops
    <2>1. Blank \in Local /\ \A k \in Kinds : Fits(k, "new", Blank)
      BY DEF Blank, Local, Outcome, Fits
    <2> QED BY <2>1 DEF Init, Ops, Label
  <1>2. Tables
    BY FullIsChunks DEF Init, Tables, Title, LibraryAssumption
  <1>3. Records /\ Caches
    BY DEF Init, Records, Caches, NoRun, RunStatus, NotAsking, list_videos
  <1> QED BY <1>1, <1>2, <1>3 DEF Init, Types, LibraryAssumption

\* Every reachable state of the library is well typed, and an operation knows
\* its video, its row and its part at every label that uses them.
THEOREM LibraryTypes == Spec => []Types
  <1>1. Types /\ [Next]_vars => Types'
    BY LibraryAssumption, OpsStep, TablesStep, RecordsStep, CachesStep, FailuresStep
       DEF Types
  <1> QED BY <1>1, TypesInit, LibraryAssumption, PTL DEF Spec

THEOREM TypeCorrect == Spec => []TypeOK
  BY LibraryTypes, TypesAreRight, PTL

-----------------------------------------------------------------------------
(* Whole transcripts                                                       *)
(*                                                                         *)
(* A replacement deletes what it saw when its DELETE began, which may be a  *)
(* transcript that another replacement has stored since, or half of one if  *)
(* halves were ever there to be seen.  So the invariant speaks of the       *)
(* chunks and of every set of chunks an operation has seen: each holds a    *)
(* transcript that one transaction stored either whole or not at all.       *)

Tied(S) ==
    \A r \in RowId, o \in Op \cup {None}, p, q \in 1..Parts :
        PartOf(r, o, p, TRUE) \in S => PartOf(r, o, q, TRUE) \in S

\* A replacement deletes chunks of its own row only.
Own(o) ==
    pc[o] = "commit" /\ loc[o].row # None =>
        \A c \in loc[o].snap : c.row = loc[o].row

PartsInv ==
    /\ Tied(chunks)
    /\ \A o \in Op : Tied(loc[o].snap) /\ Own(o)

LEMMA TiedUnion ==
    ASSUME NEW A, NEW B, Tied(A), Tied(B) PROVE Tied(A \cup B)
  BY DEF Tied

LEMMA TiedMinus ==
    ASSUME NEW A, NEW B, Tied(A), Tied(B) PROVE Tied(A \ B)
  BY DEF Tied

LEMMA TiedFull ==
    ASSUME NEW r, NEW o PROVE Tied(Full(r, o, TRUE))
  BY DEF Tied, Full, PartOf

LEMMA TiedPart ==
    ASSUME NEW r, NEW o, NEW n PROVE Tied({PartOf(r, o, n, FALSE)})
  BY DEF Tied, PartOf

LEMMA TiedOf ==
    ASSUME NEW r, Tied(chunks) PROVE Tied(Of(r))
  BY DEF Tied, Of, PartOf

LEMMA TiedNone == Tied({})
  BY DEF Tied

\* Tied chunks are what NoHalfReplace asks for.
LEMMA TiedIsEnough == Tied(chunks) => NoHalfReplace
  BY DEF Tied, NoHalfReplace, Full

\* What a step of an operation may do to the chunks.
LEMMA ChunksChange ==
    ASSUME Ops, Tables, NEW o \in Op, Step(o)
    PROVE  \/ chunks' = chunks
           \/ \E r \in RowId : chunks' = chunks \ Of(r) /\ videos'[r] = "gone"
           \/ \E r, n : chunks' = chunks \cup {PartOf(r, o, n, FALSE)}
           \/ \E r : chunks' = chunks \cup Full(r, o, TRUE)
           \/ /\ pc[o] = "commit" /\ loc[o].row # None
              /\ chunks' = (chunks \ loc[o].snap) \cup Full(loc[o].row, o, TRUE)
  <1>0. /\ kind[o] \in Kinds /\ pc[o] \in Label /\ loc[o] \in Local
        /\ Fits(kind[o], pc[o], loc[o])
    BY OpKnows
  <1>1. CASE db' = db
    BY <1>1 DEF db
  <1>2. CASE SyncCreates(o) \/ AddCreates(o) \/ IngestCreates(o)
    BY <1>2 DEF SyncCreates, AddCreates, IngestCreates
  <1>3. CASE SyncStores(o) \/ IngestStores(o)
    BY <1>3 DEF SyncStores, IngestStores, create_chunk
  <1>4. CASE SyncReplaces(o) \/ AdminReplaces(o) \/ LessonReplaced(o)
    BY <1>0, <1>4 DEF SyncReplaces, AdminReplaces, LessonReplaced,
         replace_chunks_for_video, At, Fits, Syncs
  <1>5. CASE LessonInserted(o)
    BY <1>5 DEF LessonInserted
  <1>6. CASE DeletesVideo(o)
    BY <1>6 DEF DeletesVideo, list_videos, delete_video_cascade, Tables
  <1>7. CASE JsonEmbedFails(o)
    <2>1. loc[o].row \in RowId
      BY <1>0, <1>7 DEF JsonEmbedFails, At, Fits, Ingests, Local
    <2> QED BY <2>1, <1>7 DEF JsonEmbedFails, delete_video_cascade, Tables
  <1> QED BY <1>1, <1>2, <1>3, <1>4, <1>5, <1>6, <1>7, Writers

LEMMA ChunksTied ==
    ASSUME Types, PartsInv, [Next]_vars
    PROVE  Tied(chunks')
  <1>1. ASSUME NEW o \in Op, Step(o)
        PROVE  Tied(chunks')
    <2>1. Tied(chunks) /\ Tied(loc[o].snap)
      BY DEF PartsInv
    <2>2. ASSUME NEW r \in RowId, chunks' = chunks \ Of(r)
          PROVE  Tied(chunks')
      BY <2>1, <2>2, TiedOf, TiedMinus
    <2>3. ASSUME NEW r, NEW n, chunks' = chunks \cup {PartOf(r, o, n, FALSE)}
          PROVE  Tied(chunks')
      BY <2>1, <2>3, TiedPart, TiedUnion
    <2>4. ASSUME NEW r, chunks' = chunks \cup Full(r, o, TRUE)
          PROVE  Tied(chunks')
      BY <2>1, <2>4, TiedFull, TiedUnion
    <2>5. CASE chunks' = (chunks \ loc[o].snap) \cup Full(loc[o].row, o, TRUE)
      <3>1. Tied(chunks \ loc[o].snap)
        BY <2>1, TiedMinus
      <3>2. Tied(Full(loc[o].row, o, TRUE))
        BY TiedFull
      <3> QED BY <2>5, <3>1, <3>2, TiedUnion
    <2> QED BY <1>1, <2>1, <2>2, <2>3, <2>4, <2>5, ChunksChange DEF Types
  <1>2. ASSUME NEW q \in Reader, GetCatalog(q)
        PROVE  chunks' = chunks
    BY <1>2 DEF GetCatalog, CatalogAsked, CatalogAnswered, CatalogKept, db
  <1>3. ProcessDies \/ UNCHANGED vars => chunks' = chunks
    BY DEF ProcessDies, vars, db
  <1> QED BY <1>1, <1>2, <1>3 DEF Next, PartsInv

\* What a step of an operation may do to what it has seen: it forgets it, or
\* sees the chunks of its row as they are, which is how it comes to "commit".
SnapMoves(o) ==
    /\ \A u \in Op : u # o => loc'[u] = loc[u] /\ pc'[u] = pc[u]
    /\ loc'[o].snap \in {loc[o].snap, {}, Of(loc[o].row)}
    /\ pc'[o] = "commit" /\ loc'[o].row # None =>
          loc'[o].snap = Of(loc[o].row) /\ loc'[o].row = loc[o].row

LEMMA SnapKept ==
    ASSUME Ops, NEW o \in Op, NEW p, p # "commit", Goto(o, p),
           NEW l, l.snap \in {loc[o].snap, {}}, Keeps(o, l)
    PROVE  SnapMoves(o)
  BY DEF Ops, Goto, Keeps, SnapMoves

LEMMA SnapSeen ==
    ASSUME Ops, NEW o \in Op, Goto(o, "commit"),
           Keeps(o, [loc[o] EXCEPT !.snap = Of(loc[o].row)])
    PROVE  SnapMoves(o)
  <1>0. loc[o] \in Local
    BY OpKnows
  <1> DEFINE l == [loc[o] EXCEPT !.snap = Of(loc[o].row)]
  <1>1. l.snap = Of(loc[o].row) /\ l.row = loc[o].row
    BY <1>0 DEF Local
  <1>2. loc'[o] = l /\ \A u \in Op : u # o => loc'[u] = loc[u] /\ pc'[u] = pc[u]
    BY DEF Keeps, Goto, Ops
  <1> QED BY <1>1, <1>2 DEF SnapMoves

LEMMA SnapSame ==
    ASSUME Ops, NEW o \in Op, NEW p, p # "commit", Goto(o, p), loc' = loc
    PROVE  SnapMoves(o)
  BY DEF Ops, Goto, SnapMoves

LEMMA FailSnap ==
    ASSUME Ops, NEW o \in Op, Fail(o)
    PROVE  SnapMoves(o)
  <1>0. loc[o] \in Local
    BY OpKnows
  <1>1. CASE kind[o] \in Syncs
    <2> DEFINE l == [loc[o] EXCEPT !.error = @ + 1, !.outcome = "error"]
    <2>1. l.snap \in {loc[o].snap, {}}
      BY <1>0 DEF Local
    <2>2. Goto(o, "mark") /\ Keeps(o, l)
      BY <1>1 DEF Fail, Syncs
    <2> HIDE DEF l
    <2> QED BY <2>1, <2>2, SnapKept
  <1>2. CASE kind[o] = "lessons"
    <2> DEFINE l == [loc[o] EXCEPT !.i = @ + 1, !.error = @ + 1]
    <2>1. l.snap \in {loc[o].snap, {}}
      BY <1>0 DEF Local
    <2>2. Goto(o, "next") /\ Keeps(o, l)
      BY <1>2 DEF Fail, Syncs
    <2> HIDE DEF l
    <2> QED BY <2>1, <2>2, SnapKept
  <1>3. CASE kind[o] \notin Syncs \cup {"lessons"}
    BY <1>3, SnapSame DEF Fail
  <1> QED BY <1>1, <1>2, <1>3

LEMMA SyncSnap ==
    ASSUME Ops, NEW o \in Op, Sync(o)
    PROVE  SnapMoves(o)
  <1>0. loc[o] \in Local
    BY OpKnows
  <1>1. CASE SyncBegins(o) \/ EnumerateFails(o) \/ Enumerates(o) \/ FindsNew(o) \/ SyncFetches(o) \/ SyncEmbeds(o) \/ LoopRaises(o) \/ LoopEnds(o) \/ ClosesRun(o)
    BY <1>1, SnapSame DEF SyncBegins, EnumerateFails, Enumerates, FindsNew, SyncFetches, SyncEmbeds, LoopRaises, LoopEnds, ClosesRun
  <1>2. CASE Fail(o)
    BY <1>2, FailSnap
  <1>3. ASSUME SyncFetchFails(o) \/ SyncCreateFails(o) \/ SyncEmbedFails(o) \/ SyncStoreFails(o)
        PROVE  Fail(o)
    BY <1>3 DEF SyncFetchFails, SyncCreateFails, SyncEmbedFails, SyncStoreFails
  <1>4. CASE NextVideo(o)
    <2> DEFINE l == [loc[o] EXCEPT !.title = Channel[loc[o].i], !.row = None,
                   !.had = FALSE, !.part = 1, !.snap = {}, !.outcome = "none"]
    <2>1. l.snap \in {loc[o].snap, {}}
      BY <1>0 DEF Local
    <2>2. Goto(o, "lookup") /\ Keeps(o, l)
      BY <1>4 DEF NextVideo
    <2> HIDE DEF l
    <2> QED BY <2>1, <2>2, SnapKept
  <1>5. CASE SkipsKnown(o)
    <2> DEFINE l == [loc[o] EXCEPT !.new = @ + 1, !.outcome = "ingested"]
    <2>1. l.snap \in {loc[o].snap, {}}
      BY <1>0 DEF Local
    <2>2. Goto(o, "mark") /\ Keeps(o, l)
      BY <1>5 DEF SkipsKnown
    <2> HIDE DEF l
    <2> QED BY <2>1, <2>2, SnapKept
  <1>6. CASE TakesKnown(o)
    <2>0. PICK r : Keeps(o, [loc[o] EXCEPT !.row = r, !.had = TRUE])
      BY <1>6 DEF TakesKnown
    <2> DEFINE l == [loc[o] EXCEPT !.row = r, !.had = TRUE]
    <2>1. l.snap \in {loc[o].snap, {}}
      BY <1>0 DEF Local
    <2>2. Goto(o, "fetch") /\ Keeps(o, l)
      BY <2>0, <1>6 DEF TakesKnown
    <2> HIDE DEF l
    <2> QED BY <2>1, <2>2, SnapKept
  <1>7. CASE SyncCreates(o)
    BY <1>0, <1>7, SnapKept DEF SyncCreates, At, Local
  <1>8. CASE SyncStores(o)
    <2> DEFINE l == IF loc[o].part < Parts
                    THEN [loc[o] EXCEPT !.part = loc[o].part + 1]
                    ELSE [loc[o] EXCEPT !.new = @ + 1, !.outcome = "ingested"]
               p == IF loc[o].part < Parts THEN "store" ELSE "mark"
    <2>1. l.snap = loc[o].snap
      BY <1>0 DEF Local
    <2>2. Goto(o, p) /\ Keeps(o, l)
      BY <1>8 DEF SyncStores, At, Goto, Ops
    <2> HIDE DEF l
    <2> QED BY <2>1, <2>2, SnapKept
  <1>9. CASE SyncReplaces(o)
    <2> DEFINE l == [loc[o] EXCEPT !.new = @ + 1, !.outcome = "ingested"]
    <2>1. l.snap \in {loc[o].snap, {}}
      BY <1>0 DEF Local
    <2>2. Goto(o, "mark") /\ Keeps(o, l)
      BY <1>9 DEF SyncReplaces
    <2> HIDE DEF l
    <2> QED BY <2>1, <2>2, SnapKept
  <1>10. CASE MarksVideo(o)
    BY <1>0, <1>10, SnapKept DEF MarksVideo, At, Local
  <1> QED BY <1>1, <1>2, <1>3, <1>4, <1>5, <1>6, <1>7, <1>8, <1>9, <1>10 DEF Sync

LEMMA AdminSnap ==
    ASSUME Ops, NEW o \in Op, Admin(o)
    PROVE  SnapMoves(o)
  <1>0. loc[o] \in Local
    BY OpKnows
  <1>1. CASE AdminFetches(o) \/ AdminFetchFails(o) \/ AdminEmbeds(o) \/ AlreadyInLibrary(o) \/ NotInLibrary(o) \/ AdminReplaces(o) \/ AdminStoreFails(o) \/ DeletesVideo(o)
    BY <1>1, SnapSame DEF AdminFetches, AdminFetchFails, AdminEmbeds, AlreadyInLibrary, NotInLibrary, AdminReplaces, AdminStoreFails, DeletesVideo
  <1>2. CASE AddBegins(o)
    BY <1>0, <1>2, SnapKept DEF AddBegins, At, Local
  <1>3. CASE ResyncBegins(o)
    <2>0. PICK r : Keeps(o, [loc[o] EXCEPT !.title = videos[r], !.row = r])
      BY <1>3 DEF ResyncBegins
    <2> DEFINE l == [loc[o] EXCEPT !.title = videos[r], !.row = r]
    <2>1. l.snap \in {loc[o].snap, {}}
      BY <1>0 DEF Local
    <2>2. Goto(o, "fetch") /\ Keeps(o, l)
      BY <2>0, <1>3 DEF ResyncBegins
    <2> HIDE DEF l
    <2> QED BY <2>1, <2>2, SnapKept
  <1>4. CASE AddCreates(o)
    BY <1>0, <1>4, SnapKept DEF AddCreates, At, Local
  <1> QED BY <1>1, <1>2, <1>3, <1>4 DEF Admin

LEMMA IngestSnap ==
    ASSUME Ops, NEW o \in Op, Ingest(o)
    PROVE  SnapMoves(o)
  <1>0. loc[o] \in Local
    BY OpKnows
  <1>1. CASE UrlFetches(o) \/ IngestHasNoChunks(o) \/ IngestEmbeds(o) \/ JsonEmbedFails(o) \/ UrlEmbedFails(o) \/ IngestStoreFails(o) \/ IngestFinally(o)
    BY <1>1, SnapSame DEF UrlFetches, IngestHasNoChunks, IngestEmbeds, JsonEmbedFails, UrlEmbedFails, IngestStoreFails, IngestFinally
  <1>2. CASE IngestBegins(o)
    BY <1>0, <1>2, SnapKept DEF IngestBegins, At, Local
  <1>3. CASE IngestCreates(o)
    BY <1>0, <1>3, SnapKept DEF IngestCreates, At, Local
  <1>4. CASE IngestStores(o)
    BY <1>0, <1>4, SnapKept DEF IngestStores, At, Local
  <1> QED BY <1>1, <1>2, <1>3, <1>4 DEF Ingest

LEMMA SweepSnap ==
    ASSUME Ops, NEW o \in Op, Sweep(o)
    PROVE  SnapMoves(o)
  <1>0. loc[o] \in Local
    BY OpKnows
  <1>1. CASE SweepEnds(o)
    BY <1>1, SnapSame DEF SweepEnds
  <1>2. CASE Fail(o)
    BY <1>2, FailSnap
  <1>3. ASSUME LessonFails(o)
        PROVE  Fail(o)
    BY <1>3 DEF LessonFails
  <1>4. CASE SweepBegins(o)
    BY <1>0, <1>4, SnapKept DEF SweepBegins, At, Local
  <1>5. CASE LessonUnchanged(o)
    <2> DEFINE l == [loc[o] EXCEPT !.i = @ + 1]
    <2>1. l.snap \in {loc[o].snap, {}}
      BY <1>0 DEF Local
    <2>2. Goto(o, "next") /\ Keeps(o, l)
      BY <1>5 DEF LessonUnchanged, At, Goto, Ops
    <2> HIDE DEF l
    <2> QED BY <2>1, <2>2, SnapKept
  <1>6. CASE LessonChanged(o)
    <2> DEFINE file == LessonFiles[loc[o].i]
    <2>0. PICK r : Keeps(o, [loc[o] EXCEPT !.title = file, !.row = r])
      BY <1>6 DEF LessonChanged
    <2> DEFINE l == [loc[o] EXCEPT !.title = file, !.row = r]
    <2>1. l.snap \in {loc[o].snap, {}}
      BY <1>0 DEF Local
    <2>2. Goto(o, "embed") /\ Keeps(o, l)
      BY <2>0, <1>6 DEF LessonChanged
    <2> HIDE DEF l
    <2> QED BY <2>1, <2>2, SnapKept
  <1>7. CASE LessonEmbeds(o)
    <2>1. CASE loc[o].row = None
      BY <2>1, <1>7 DEF LessonEmbeds, At, Goto, SnapMoves, Ops
    <2>2. CASE loc[o].row # None
      BY <2>2, <1>7, SnapSeen DEF LessonEmbeds
    <2> QED BY <2>1, <2>2
  <1>8. CASE LessonInserted(o)
    BY <1>0, <1>8, SnapKept DEF LessonInserted, At, Local
  <1>9. CASE LessonReplaced(o)
    BY <1>0, <1>9, SnapKept DEF LessonReplaced, At, Local
  <1>10. CASE LessonIsBlank(o)
    BY <1>0, <1>10, SnapKept DEF LessonIsBlank, At, Local
  <1> QED BY <1>1, <1>2, <1>3, <1>4, <1>5, <1>6, <1>7, <1>8, <1>9, <1>10 DEF Sweep

LEMMA StepSnap ==
    ASSUME Ops, NEW o \in Op, Step(o)
    PROVE  SnapMoves(o)
  <1>1. CASE ReplaceBegins(o)
    BY <1>1, SnapSeen DEF ReplaceBegins
  <1> QED BY <1>1, SyncSnap, AdminSnap, IngestSnap, SweepSnap DEF Step

\* What every operation has seen stays tied, and is of its own row when it is
\* about to be deleted.
LEMMA SeenTied ==
    ASSUME Types, PartsInv, [Next]_vars
    PROVE  \A o \in Op : Tied(loc'[o].snap) /\ Own(o)'
  <1>1. ASSUME NEW o \in Op, Step(o)
        PROVE  \A u \in Op : Tied(loc'[u].snap) /\ Own(u)'
    <2>1. SnapMoves(o)
      BY <1>1, StepSnap DEF Types
    <2>2. ASSUME NEW u \in Op, u # o
          PROVE  Tied(loc'[u].snap) /\ Own(u)'
      BY <2>1, <2>2 DEF SnapMoves, PartsInv, Own
    <2>3. Tied(loc'[o].snap)
      BY <2>1, TiedOf, TiedNone DEF SnapMoves, PartsInv
    <2>4. Own(o)'
      BY <2>1 DEF SnapMoves, Own, Of
    <2> QED BY <2>2, <2>3, <2>4
  <1>2. ASSUME NEW q \in Reader, GetCatalog(q)
        PROVE  pc' = pc /\ loc' = loc
    BY <1>2 DEF GetCatalog, CatalogAsked, CatalogAnswered, CatalogKept
  <1>3. CASE ProcessDies
    <2>1. /\ loc' = loc
          /\ \A o \in Op : pc'[o] = pc[o] \/ pc'[o] = "done"
      BY <1>3 DEF ProcessDies, Goto, Types, Ops
    <2> QED BY <2>1 DEF PartsInv, Own
  <1>4. CASE UNCHANGED vars
    BY <1>4 DEF vars, PartsInv, Own
  <1> QED BY <1>1, <1>2, <1>3, <1>4 DEF Next, PartsInv, Own

\* The transcript of one part is whole by itself.
LEMMA PartsInit == Init => PartsInv
  <1> SUFFICES ASSUME Init PROVE PartsInv
    OBVIOUS
  <1>1. Tied(chunks)
    BY TiedFull, TiedNone DEF Init
  <1>2. \A o \in Op : loc[o].snap = {} /\ pc[o] = "new"
    BY DEF Init, Blank
  <1> QED BY <1>1, <1>2, TiedNone DEF PartsInv, Own

THEOREM PartsHold == Spec => []PartsInv
  <1>1. Types /\ PartsInv /\ [Next]_vars => PartsInv'
    BY ChunksTied, SeenTied DEF PartsInv, Tied
  <1> QED BY <1>1, PartsInit, LibraryTypes, PTL DEF Spec

\* However many re-syncs of a video overlap, fail or die, the chunks of each are
\* there whole or not at all (channels.py:293).
THEOREM NeverHalfReplaced == Spec => []NoHalfReplace
  <1>1. PartsInv => NoHalfReplace
    BY TiedIsEnough DEF PartsInv
  <1> QED BY <1>1, PartsHold, PTL

\* A chunk of a video that is not deleted stays, unless a replacement has just
\* stored the whole transcript.
LEMMA ChunkStays ==
    ASSUME Types, PartsInv, NEW o \in Op, Step(o),
           NEW c \in chunks, c.row \in RowId, videos'[c.row] # "gone"
    PROVE  c \in chunks' \/ Whole(c.row)'
  <1>1. ASSUME NEW s \in RowId, chunks' = chunks \ Of(s), videos'[s] = "gone"
        PROVE  c \in chunks'
    BY <1>1 DEF Of
  <1>2. CASE /\ pc[o] = "commit" /\ loc[o].row # None
             /\ chunks' = (chunks \ loc[o].snap) \cup Full(loc[o].row, o, TRUE)
    <2>1. CASE loc[o].row = c.row
      BY <1>2, <2>1 DEF Whole, Full, PartOf
    <2>2. CASE loc[o].row # c.row
      <3>1. c \notin loc[o].snap
        BY <1>2, <2>2 DEF PartsInv, Own
      <3> QED BY <1>2, <3>1
    <2> QED BY <2>1, <2>2
  <1> QED BY <1>1, <1>2, ChunksChange DEF Types

LEMMA WholeStays ==
    ASSUME Types, PartsInv, NEW o \in Op, Step(o), NEW r \in RowId, Whole(r)
    PROVE  Whole(r)' \/ videos'[r] = "gone"
  <1>1. PICK u \in Op \cup {None}, tx \in BOOLEAN : Full(r, u, tx) \subseteq chunks
    BY DEF Whole
  <1>2. CASE Full(r, u, tx) \subseteq chunks'
    BY <1>2 DEF Whole, Full, PartOf
  <1>3. CASE \E c \in Full(r, u, tx) : c \notin chunks'
    <2>1. PICK c \in Full(r, u, tx) : c \notin chunks'
      BY <1>3
    <2>2. c \in chunks /\ c.row = r
      BY <1>1 DEF Full, PartOf
    <2> QED BY <2>1, <2>2, ChunkStays
  <1> QED BY <1>2, <1>3

\* A video that can be searched in full stays so until it is deleted, whatever
\* overlaps or fails (repository.py:384-417).
THEOREM StaysSearchable == Spec => StaysWhole
  <1>1. ASSUME Types, PartsInv, [Next]_vars, NEW r \in RowId, Whole(r)
        PROVE  Whole(r)' \/ videos'[r] = "gone"
    <2>1. CASE \E o \in Op : Step(o)
      BY <1>1, <2>1, WholeStays
    <2>2. CASE ProcessDies \/ (\E q \in Reader : GetCatalog(q)) \/ UNCHANGED vars
      <3>1. chunks' = chunks
        BY <2>2 DEF GetCatalog, CatalogAsked, CatalogAnswered, CatalogKept, ProcessDies, vars, db
      <3> QED BY <1>1, <3>1 DEF Whole, Full, PartOf
    <2> QED BY <1>1, <2>1, <2>2 DEF Next
  <1>2. Types /\ PartsInv /\ [Next]_vars =>
           [\A r \in RowId : Whole(r) => Whole(r)' \/ videos'[r] = "gone"]_vars
    BY <1>1
  <1> QED BY <1>2, LibraryTypes, PartsHold, PTL DEF Spec, StaysWhole

-----------------------------------------------------------------------------
(* Which rows an operation works on                                        *)

\* A step of an operation is its own: it changes no other operation's locals,
\* never becomes new again, and reads the edition of the files only once.
Moves(o) ==
    /\ kind' = kind
    /\ \A u \in Op : u # o => loc'[u] = loc[u] /\ pc'[u] = pc[u]
    /\ pc'[o] # "new"
    /\ pc[o] # "new" => loc'[o].edition = loc[o].edition

\* The steps that choose a video or a row.
Chooses(o) ==
    \/ NextVideo(o) \/ TakesKnown(o) \/ SyncCreates(o) \/ AddBegins(o)
    \/ ResyncBegins(o) \/ AddCreates(o) \/ IngestBegins(o) \/ IngestCreates(o)
    \/ LessonChanged(o)

SameVideo(o) == loc'[o].title = loc[o].title /\ loc'[o].row = loc[o].row

LEMMA MovesKeeping ==
    ASSUME Ops, NEW o \in Op, NEW p, p # "new", Goto(o, p), kind' = kind,
           NEW l, l.edition = loc[o].edition, Keeps(o, l)
    PROVE  Moves(o)
  BY DEF Ops, Goto, Keeps, Moves

LEMMA MovesSame ==
    ASSUME Ops, NEW o \in Op, NEW p, p # "new", Goto(o, p), kind' = kind, loc' = loc
    PROVE  Moves(o) /\ SameVideo(o)
  BY DEF Ops, Goto, Moves, SameVideo

LEMMA FailMoves ==
    ASSUME Ops, NEW o \in Op, Fail(o), kind' = kind
    PROVE  Moves(o) /\ SameVideo(o)
  <1>0. loc[o] \in Local
    BY OpKnows
  <1>1. CASE kind[o] \in Syncs
    <2>1. /\ Goto(o, "mark")
          /\ Keeps(o, [loc[o] EXCEPT !.error = @ + 1, !.outcome = "error"])
      BY <1>1 DEF Fail, Syncs
    <2> QED BY <1>0, <2>1 DEF Goto, Keeps, Ops, Moves, SameVideo, Local
  <1>2. CASE kind[o] = "lessons"
    BY ZenonT(60), <1>0, <1>2 DEF Fail, Syncs, Goto, Keeps, Ops, Moves, SameVideo, Local
  <1>3. CASE kind[o] \notin Syncs \cup {"lessons"}
    BY <1>3, MovesSame DEF Fail
  <1> QED BY <1>1, <1>2, <1>3

LEMMA SyncMoves ==
    ASSUME Ops, NEW o \in Op, Sync(o)
    PROVE  Moves(o) /\ (Chooses(o) \/ SameVideo(o))
  <1>0. loc[o] \in Local
    BY OpKnows
  <1>1. CASE SyncBegins(o) \/ EnumerateFails(o) \/ Enumerates(o) \/ FindsNew(o) \/ SyncFetches(o) \/ SyncEmbeds(o) \/ LoopRaises(o) \/ LoopEnds(o) \/ ClosesRun(o)
    BY <1>1, MovesSame DEF SyncBegins, EnumerateFails, Enumerates, FindsNew, SyncFetches, SyncEmbeds, LoopRaises, LoopEnds, ClosesRun
  <1>2. CASE SyncFetchFails(o) \/ SyncCreateFails(o) \/ SyncEmbedFails(o) \/ SyncStoreFails(o)
    BY <1>2, FailMoves DEF SyncFetchFails, SyncCreateFails, SyncEmbedFails, SyncStoreFails
  <1>3. CASE NextVideo(o)
    BY <1>0, <1>3 DEF NextVideo, Goto, Keeps, Ops, Moves, Chooses, Local
  <1>4. CASE SkipsKnown(o)
    BY <1>0, <1>4 DEF SkipsKnown, Goto, Keeps, Ops, Moves, SameVideo, Local
  <1>5. CASE TakesKnown(o)
    BY <1>0, <1>5 DEF TakesKnown, Goto, Keeps, Ops, Moves, Chooses, Local
  <1>6. CASE SyncCreates(o)
    BY <1>0, <1>6 DEF SyncCreates, Goto, Keeps, Ops, Moves, Chooses, Local
  <1>7. CASE SyncStores(o)
    BY ZenonT(60), <1>0, <1>7 DEF SyncStores, At, Goto, Keeps, Ops, Moves, SameVideo, Local
  <1>8. CASE SyncReplaces(o)
    BY <1>0, <1>8 DEF SyncReplaces, Goto, Keeps, Ops, Moves, SameVideo, Local
  <1>9. CASE MarksVideo(o)
    BY <1>0, <1>9 DEF MarksVideo, Goto, Keeps, Ops, Moves, SameVideo, Local
  <1> QED BY <1>1, <1>2, <1>3, <1>4, <1>5, <1>6, <1>7, <1>8, <1>9 DEF Sync

LEMMA AdminMoves ==
    ASSUME Ops, NEW o \in Op, Admin(o) \/ ReplaceBegins(o)
    PROVE  Moves(o) /\ (Chooses(o) \/ SameVideo(o))
  <1>0. loc[o] \in Local
    BY OpKnows
  <1>1. CASE AdminFetches(o) \/ AdminFetchFails(o) \/ AdminEmbeds(o) \/ AlreadyInLibrary(o) \/ NotInLibrary(o) \/ AdminReplaces(o) \/ AdminStoreFails(o) \/ DeletesVideo(o)
    BY <1>1, MovesSame DEF AdminFetches, AdminFetchFails, AdminEmbeds, AlreadyInLibrary, NotInLibrary, AdminReplaces, AdminStoreFails, DeletesVideo
  <1>2. CASE AddBegins(o)
    BY <1>0, <1>2 DEF AddBegins, Goto, Keeps, Ops, Moves, Chooses, Local
  <1>3. CASE ResyncBegins(o)
    BY <1>0, <1>3 DEF ResyncBegins, Goto, Keeps, Ops, Moves, Chooses, Local
  <1>4. CASE AddCreates(o)
    BY <1>0, <1>4 DEF AddCreates, Goto, Keeps, Ops, Moves, Chooses, Local
  <1>5. CASE ReplaceBegins(o)
    BY <1>0, <1>5 DEF ReplaceBegins, Goto, Keeps, Ops, Moves, SameVideo, Local
  <1> QED BY <1>1, <1>2, <1>3, <1>4, <1>5 DEF Admin

LEMMA IngestMoves ==
    ASSUME Ops, NEW o \in Op, Ingest(o)
    PROVE  Moves(o) /\ (Chooses(o) \/ SameVideo(o))
  <1>0. loc[o] \in Local
    BY OpKnows
  <1>1. CASE UrlFetches(o) \/ IngestHasNoChunks(o) \/ IngestEmbeds(o) \/ JsonEmbedFails(o) \/ UrlEmbedFails(o) \/ IngestStoreFails(o) \/ IngestFinally(o)
    BY <1>1, MovesSame DEF UrlFetches, IngestHasNoChunks, IngestEmbeds, JsonEmbedFails, UrlEmbedFails, IngestStoreFails, IngestFinally
  <1>2. CASE IngestBegins(o)
    BY <1>0, <1>2 DEF IngestBegins, Goto, Keeps, Ops, Moves, Chooses, Local
  <1>3. CASE IngestCreates(o)
    BY <1>0, <1>3 DEF IngestCreates, Goto, Keeps, Ops, Moves, Chooses, Local
  <1>4. CASE IngestStores(o)
    BY <1>0, <1>4 DEF IngestStores, Goto, Keeps, Ops, Moves, SameVideo, Local
  <1> QED BY <1>1, <1>2, <1>3, <1>4 DEF Ingest

LEMMA SweepMoves ==
    ASSUME Ops, NEW o \in Op, Sweep(o)
    PROVE  Moves(o) /\ (Chooses(o) \/ SameVideo(o))
  <1>0. loc[o] \in Local
    BY OpKnows
  <1>1. CASE SweepEnds(o)
    BY <1>1, MovesSame DEF SweepEnds
  <1>2. CASE LessonFails(o)
    BY <1>2, FailMoves DEF LessonFails
  <1>3. CASE SweepBegins(o)
    BY <1>0, <1>3 DEF SweepBegins, At, Goto, Keeps, Ops, Moves, SameVideo, Local
  <1>4. CASE LessonUnchanged(o)
    BY <1>0, <1>4 DEF LessonUnchanged, At, Keeps, Ops, Moves, SameVideo, Local
  <1>5. CASE LessonChanged(o)
    BY <1>0, <1>5 DEF LessonChanged, Goto, Keeps, Ops, Moves, Chooses, Local
  <1>6. CASE LessonEmbeds(o)
    BY <1>0, <1>6 DEF LessonEmbeds, Goto, Keeps, Ops, Moves, SameVideo, Local
  <1>7. CASE LessonInserted(o)
    BY <1>0, <1>7 DEF LessonInserted, Goto, Keeps, Ops, Moves, SameVideo, Local
  <1>8. CASE LessonReplaced(o)
    BY <1>0, <1>8 DEF LessonReplaced, Goto, Keeps, Ops, Moves, SameVideo, Local
  <1>9. CASE LessonIsBlank(o)
    BY <1>0, <1>9 DEF LessonIsBlank, Goto, Keeps, Ops, Moves, SameVideo, Local
  <1> QED BY <1>1, <1>2, <1>3, <1>4, <1>5, <1>6, <1>7, <1>8, <1>9 DEF Sweep

LEMMA StepMoves ==
    ASSUME Ops, NEW o \in Op, Step(o)
    PROVE  Moves(o) /\ (Chooses(o) \/ SameVideo(o))
  BY SyncMoves, AdminMoves, IngestMoves, SweepMoves DEF Step

\* What a step of an operation does to the tables.
Creates(o) ==
    /\ kind[o] # "lessons" /\ pc[o] = "create"
    /\ \E r \in RowId : create_video(r, loc[o].title) /\ loc'[o].row = r
    /\ UNCHANGED <<hash, chunks>>

StoresPart(o) ==
    /\ kind[o] # "lessons" /\ pc[o] = "store"
    /\ create_chunk(loc[o].row, o, loc[o].part)
    /\ UNCHANGED <<videos, hash>>

Replaces(o) ==
    /\ kind[o] # "lessons" /\ pc[o] = "commit" /\ loc[o].row # None
    /\ replace_chunks_for_video(loc[o].row, o, loc[o].snap)
    /\ UNCHANGED <<videos, hash>>

Deletes(r) == delete_video_cascade(r) /\ hash' = hash

DbStep(o) ==
    \/ UNCHANGED db
    \/ /\ pc'[o] # "commit"
       /\ \/ Creates(o) \/ StoresPart(o) \/ Replaces(o)
          \/ \E r \in RowId : Deletes(r)
          \/ LessonInserted(o) \/ LessonReplaced(o)

LEMMA StepWrites ==
    ASSUME Ops, NEW o \in Op, Step(o)
    PROVE  DbStep(o)
  <1>0. /\ loc[o] \in Local /\ pc[o] \in Label
        /\ Fits(kind[o], pc[o], loc[o])
    BY OpKnows
  <1>1. CASE SyncCreates(o) \/ AddCreates(o) \/ IngestCreates(o)
    <2>1. kind[o] # "lessons" /\ pc[o] = "create" /\ pc'[o] # "commit"
      BY <1>1 DEF SyncCreates, AddCreates, IngestCreates, At, Syncs, Ingests, Goto, Ops
    <2>2. \E r \in RowId : create_video(r, loc[o].title) /\ loc'[o].row = r
      BY <1>0, <1>1 DEF SyncCreates, AddCreates, IngestCreates, Keeps, Local, Ops
    <2> QED BY <1>1, <2>1, <2>2 DEF SyncCreates, AddCreates, IngestCreates, DbStep, Creates
  <1>2. CASE SyncStores(o)
    BY <1>2 DEF SyncStores, At, Syncs, Goto, Ops, DbStep, StoresPart
  <1>3. CASE IngestStores(o)
    BY <1>3 DEF IngestStores, At, Ingests, Goto, Ops, DbStep, StoresPart
  <1>4. CASE SyncReplaces(o)
    BY <1>0, <1>4 DEF SyncReplaces, At, Syncs, Fits, Goto, Ops, DbStep, Replaces
  <1>5. CASE AdminReplaces(o)
    BY <1>0, <1>5 DEF AdminReplaces, At, Fits, Goto, Ops, DbStep, Replaces
  <1>6. CASE LessonReplaced(o) \/ LessonInserted(o)
    BY <1>6 DEF LessonReplaced, LessonInserted, Goto, Ops, DbStep
  <1>7. CASE DeletesVideo(o)
    BY <1>7 DEF DeletesVideo, Goto, Ops, DbStep, Deletes, list_videos
  <1>8. CASE JsonEmbedFails(o)
    <2>1. loc[o].row \in RowId
      BY <1>0, <1>8 DEF JsonEmbedFails, At, Fits, Ingests, Local
    <2> QED BY <1>8, <2>1 DEF JsonEmbedFails, Goto, Ops, DbStep, Deletes
  <1>9. CASE db' = db
    BY <1>9 DEF DbStep
  <1> QED BY <1>1, <1>2, <1>3, <1>4, <1>5, <1>6, <1>7, <1>8, <1>9, Writers

\* A sweep works on lessons, every other operation on YouTube videos.
Shelf(o) == IF kind[o] = "lessons" THEN Lesson ELSE Clip

OnShelf(o) ==
    /\ loc[o].title \in Shelf(o) \cup {None}
    /\ loc[o].row # None => videos[loc[o].row] \in Shelf(o) \cup {"gone"}

\* A row has a hash only if it is or was a lesson's, and chunks only while it
\* is there.
ShelvesInv ==
    /\ \A o \in Op : OnShelf(o)
    /\ \A r \in RowId : hash[r] # None => videos[r] \in Lesson \cup {"gone"}
    /\ \A c \in chunks : c.row \in list_videos

\* What a row may become: a free one a video, any one gone.
Becomes(r, o) ==
    \/ videos'[r] = videos[r]
    \/ videos'[r] = "gone"
    \/ videos[r] = "free" /\ videos'[r] = loc[o].title

LEMMA RowsBecome ==
    ASSUME Types, NEW o \in Op, DbStep(o), NEW r \in RowId
    PROVE  Becomes(r, o)
  <1>1. videos \in [RowId -> Title \cup {"free", "gone"}]
    BY DEF Types, Tables
  <1>2. CASE Creates(o)
    BY <1>1, <1>2 DEF Creates, create_video, Becomes
  <1>3. CASE LessonInserted(o)
    BY <1>1, <1>3 DEF LessonInserted, create_video, Becomes
  <1>4. ASSUME NEW s \in RowId, Deletes(s) PROVE Becomes(r, o)
    BY <1>1, <1>4 DEF Deletes, delete_video_cascade, Becomes
  <1>5. CASE UNCHANGED db \/ StoresPart(o) \/ Replaces(o) \/ LessonReplaced(o)
    BY <1>5 DEF StoresPart, Replaces, LessonReplaced, Becomes, db
  <1> QED BY <1>2, <1>3, <1>4, <1>5 DEF DbStep

LEMMA LessonFileIsLesson ==
    ASSUME LibraryAssumption, NEW i \in 1..Len(LessonFiles)
    PROVE  LessonFiles[i] \in Lesson
  <1>1. LessonFiles \in Seq(Lesson)
    BY DEF LibraryAssumption
  <1> QED BY <1>1

\* Where a row is written the video is known.
LEMMA TitleKnown ==
    ASSUME LibraryAssumption, Types, ShelvesInv, NEW o \in Op,
           pc[o] \in {"create", "commit"}
    PROVE  loc[o].title \in Shelf(o) /\ loc[o].title \notin {"free", "gone", None}
  <1>1. loc[o].title # None /\ loc[o].title \in Shelf(o) \cup {None}
    BY OpKnows DEF Types, Fits, ShelvesInv, OnShelf
  <1> QED BY <1>1 DEF Shelf, LibraryAssumption

\* The row that an operation chooses is one of its kind's videos.
LEMMA ChoosesShelf ==
    ASSUME LibraryAssumption, Types, ShelvesInv, NEW o \in Op, Chooses(o)
    PROVE  /\ loc'[o].title \in Shelf(o) \cup {None}
           /\ loc'[o].row # None => videos'[loc'[o].row] \in Shelf(o) \cup {"gone"}
  <1>0. /\ loc \in [Op -> Local] /\ loc[o] \in Local
        /\ videos \in [RowId -> Title \cup {"free", "gone"}]
        /\ OnShelf(o) /\ Fits(kind[o], pc[o], loc[o])
    BY OpKnows DEF Types, Tables, Ops, ShelvesInv
  <1>1. CASE NextVideo(o)
    <2>1. Channel[loc[o].i] \in Clip
      BY <1>0, <1>1 DEF NextVideo, Fits, Local, LibraryAssumption
    <2> QED BY <1>0, <1>1, <2>1 DEF NextVideo, At, Syncs, Keeps, Shelf, Local
  <1>2. CASE TakesKnown(o)
    BY <1>0, <1>2 DEF TakesKnown, get_video_by_youtube_id, At, Keeps, Shelf, Local,
         OnShelf, db, Fits, LibraryAssumption
  <1>3. CASE SyncCreates(o) \/ AddCreates(o) \/ IngestCreates(o)
    <2>1. PICK r \in RowId : /\ create_video(r, loc[o].title)
                             /\ Keeps(o, [loc[o] EXCEPT !.row = r])
      BY <1>3 DEF SyncCreates, AddCreates, IngestCreates
    <2>2. loc'[o].title = loc[o].title /\ loc'[o].row = r
      BY <1>0, <2>1 DEF Keeps, Local
    <2>3. videos'[r] = loc[o].title /\ loc[o].title # None
      BY <1>0, <1>3, <2>1 DEF create_video, SyncCreates, AddCreates, IngestCreates, At, Fits
    <2> QED BY <1>0, <2>2, <2>3 DEF OnShelf
  <1>4. CASE AddBegins(o) \/ IngestBegins(o)
    <2>1. PICK c \in Wanted : Keeps(o, [loc[o] EXCEPT !.title = c])
      BY <1>4 DEF AddBegins, IngestBegins
    <2>2. loc'[o].title = c /\ loc'[o].row = loc[o].row /\ c \in Clip
      BY <1>0, <2>1 DEF Keeps, Local, LibraryAssumption
    <2>3. kind[o] # "lessons" /\ videos' = videos
      BY <1>4 DEF AddBegins, IngestBegins, At, Ingests, db
    <2> QED BY <1>0, <2>2, <2>3 DEF OnShelf, Shelf
  <1>5. CASE ResyncBegins(o)
    BY <1>0, <1>5 DEF ResyncBegins, At, Keeps, Shelf, Local, list_videos, db
  <1>6. CASE LessonChanged(o)
    <2> DEFINE file == LessonFiles[loc[o].i]
    <2>1. file \in Lesson
      <3>0. loc[o].i <= Len(LessonFiles)
        BY <1>6 DEF LessonChanged
      <3>1. loc[o].i \in 1..Len(LessonFiles)
        BY <1>0, <3>0 DEF Fits, Local, LibraryAssumption
      <3> QED BY <3>1, LessonFileIsLesson
    <2>2. PICK r \in RowId \cup {None} :
             /\ r # None => videos[r] = file
             /\ Keeps(o, [loc[o] EXCEPT !.title = file, !.row = r])
      BY <1>6 DEF LessonChanged, get_video_by_youtube_id, LibraryAssumption
    <2>3. loc'[o].title = file /\ loc'[o].row = r
      BY <1>0, <2>2 DEF Keeps, Local
    <2>4. kind[o] = "lessons" /\ videos' = videos
      BY <1>6 DEF LessonChanged, At, db
    <2> QED BY <2>1, <2>2, <2>3, <2>4 DEF Shelf
  <1> QED BY <1>1, <1>2, <1>3, <1>4, <1>5, <1>6 DEF Chooses

\* A row that goes was deleted, with its chunks.
LEMMA RowsGo ==
    ASSUME LibraryAssumption, Types, ShelvesInv, NEW o \in Op, DbStep(o),
           NEW r \in RowId, videos'[r] = "gone", videos[r] # "gone"
    PROVE  Deletes(r)
  <1>1. videos \in [RowId -> Title \cup {"free", "gone"}]
    BY DEF Types, Tables
  <1>2. CASE Creates(o)
    BY <1>1, <1>2, TitleKnown DEF Creates, create_video
  <1>3. CASE LessonInserted(o)
    BY <1>1, <1>3, TitleKnown DEF LessonInserted, At, create_video
  <1>4. ASSUME NEW s \in RowId, Deletes(s) PROVE s = r
    BY <1>1, <1>4 DEF Deletes, delete_video_cascade
  <1>5. CASE UNCHANGED db \/ StoresPart(o) \/ Replaces(o) \/ LessonReplaced(o)
    BY <1>5 DEF StoresPart, Replaces, LessonReplaced, db
  <1> QED BY <1>2, <1>3, <1>4, <1>5 DEF DbStep

\* The chunks after a step: those that were there, and those of the row that
\* the operation works on.
LEMMA ChunksOfRows ==
    ASSUME Types, NEW o \in Op, DbStep(o), NEW c \in chunks'
    PROVE  \/ c \in chunks
           \/ c.row = loc[o].row /\ loc[o].row \in list_videos
           \/ LessonInserted(o) /\ create_video(c.row, loc[o].title) /\ c.row \in RowId
  <1>1. CASE UNCHANGED db \/ Creates(o)
    BY <1>1 DEF db, Creates
  <1>2. CASE StoresPart(o)
    BY <1>2 DEF StoresPart, create_chunk, PartOf
  <1>3. CASE Replaces(o) \/ LessonReplaced(o)
    BY <1>3 DEF Replaces, LessonReplaced, replace_chunks_for_video, Full, PartOf
  <1>4. ASSUME NEW s \in RowId, Deletes(s) PROVE c \in chunks
    BY <1>4 DEF Deletes, delete_video_cascade
  <1>5. CASE LessonInserted(o)
    <2>1. PICK r \in RowId : /\ create_video(r, loc[o].title)
                             /\ chunks' = chunks \cup Full(r, o, TRUE)
      BY <1>5 DEF LessonInserted
    <2>2. c \in Full(r, o, TRUE) => c.row = r
      BY DEF Full, PartOf
    <2> QED BY <1>5, <2>1, <2>2
  <1> QED BY <1>1, <1>2, <1>3, <1>4, <1>5 DEF DbStep

LEMMA ShelvesStep ==
    ASSUME LibraryAssumption, Types, ShelvesInv, NEW o \in Op, Step(o)
    PROVE  ShelvesInv'
  <1>0. /\ DbStep(o) /\ Moves(o) /\ (Chooses(o) \/ SameVideo(o))
        /\ loc[o] \in Local
        /\ videos \in [RowId -> Title \cup {"free", "gone"}]
        /\ hash \in [RowId -> Nat \cup {None}]
    BY StepWrites, StepMoves, OpKnows DEF Types, Tables
  <1>1. {"free", "gone"} \cap (Clip \cup Lesson) = {} /\ None \notin RowId
    BY DEF LibraryAssumption
  <1>2. ASSUME NEW u \in Op, NEW r \in RowId, videos[r] \in Shelf(u) \cup {"gone"}
        PROVE  videos'[r] \in Shelf(u) \cup {"gone"}
    <2>1. "free" \notin Shelf(u) /\ "free" # "gone"
      BY <1>1 DEF Shelf
    <2> QED BY <1>0, <1>2, <2>1, RowsBecome DEF Becomes
  <1>3. ASSUME NEW u \in Op, u # o
        PROVE  OnShelf(u)'
    <2>1. loc'[u] = loc[u] /\ Shelf(u)' = Shelf(u) /\ OnShelf(u) /\ loc[u] \in Local
      BY <1>0, <1>3, OpKnows DEF Moves, Shelf, ShelvesInv, Types
    <2>2. loc[u].row \in RowId \cup {None}
      BY <2>1 DEF Local
    <2> QED BY <2>1, <2>2, <1>2 DEF OnShelf
  <1>4. OnShelf(o)'
    <2>1. Shelf(o)' = Shelf(o) /\ OnShelf(o) /\ loc[o].row \in RowId \cup {None}
      BY <1>0 DEF Moves, Shelf, ShelvesInv, Local
    <2>2. CASE SameVideo(o)
      BY <2>1, <2>2, <1>2 DEF OnShelf, SameVideo
    <2>3. CASE Chooses(o)
      BY <2>1, <2>3, ChoosesShelf DEF OnShelf
    <2> QED BY <1>0, <2>2, <2>3
  <1>5. ASSUME NEW r \in RowId, hash'[r] # None
        PROVE  videos'[r] \in Lesson \cup {"gone"}
    <2>1. CASE hash' = hash
      <3>1. videos[r] \in Lesson \cup {"gone"} /\ videos[r] # "free"
        BY <1>1, <1>5, <2>1 DEF ShelvesInv
      <3> QED BY <1>0, <3>1, RowsBecome DEF Becomes
    <2>2. CASE LessonInserted(o)
      <3>1. PICK s \in RowId : /\ create_video(s, loc[o].title)
                               /\ hash' = [hash EXCEPT ![s] = loc[o].edition]
        BY <2>2 DEF LessonInserted
      <3>2. loc[o].title \in Lesson
        BY <2>2, TitleKnown DEF LessonInserted, At, Shelf
      <3>3. videos'[s] = loc[o].title /\ \A t \in RowId : t # s => videos'[t] = videos[t]
        BY <1>0, <3>1 DEF create_video
      <3> QED BY <1>0, <1>5, <3>1, <3>2, <3>3 DEF ShelvesInv
    <2>3. CASE LessonReplaced(o)
      <3>1. /\ loc[o].row \in list_videos /\ videos' = videos
            /\ hash' = [hash EXCEPT ![loc[o].row] = loc[o].edition]
        BY <2>3 DEF LessonReplaced, replace_chunks_for_video
      <3>2. videos[loc[o].row] \in Lesson
        BY <1>1, <2>3, <3>1 DEF LessonReplaced, At, ShelvesInv, OnShelf, Shelf, list_videos
      <3> QED BY <1>0, <1>5, <3>1, <3>2 DEF ShelvesInv
    <2> QED BY <1>0, <2>1, <2>2, <2>3 DEF DbStep, db, Creates, StoresPart, Replaces, Deletes
  <1>6. ASSUME NEW c \in chunks'
        PROVE  c.row \in list_videos'
    <2>1. ASSUME c.row \in list_videos
          PROVE  c.row \in list_videos'
      <3>1. CASE videos'[c.row] = "gone"
        <4>1. PICK s \in RowId : Deletes(s) /\ videos'[s] = "gone" /\ s = c.row
          BY <1>0, <2>1, <3>1, RowsGo DEF list_videos
        <4>2. c \in chunks \ Of(s)
          BY <1>6, <4>1 DEF Deletes, delete_video_cascade
        <4> QED BY <4>1, <4>2 DEF Of
      <3>2. CASE videos'[c.row] # "gone"
        BY <1>0, <2>1, <3>2, RowsBecome DEF Becomes, list_videos
      <3> QED BY <3>1, <3>2
    <2>2. ASSUME LessonInserted(o), create_video(c.row, loc[o].title), c.row \in RowId
          PROVE  c.row \in list_videos'
      <3>1. loc[o].title \in Lesson
        BY <2>2, TitleKnown DEF LessonInserted, At, Shelf
      <3>2. videos'[c.row] = loc[o].title
        BY <1>0, <2>2 DEF create_video
      <3> QED BY <1>1, <2>2, <3>1, <3>2 DEF list_videos
    <2> QED BY <1>0, <2>1, <2>2, ChunksOfRows DEF ShelvesInv
  <1> QED BY <1>3, <1>4, <1>5, <1>6 DEF ShelvesInv

\* Every other step leaves the tables, the records and what the operations know
\* alone, and may end some of them.
Rests ==
    /\ UNCHANGED <<db, history, kind, loc>>
    /\ \A o \in Op : pc'[o] \in {pc[o], "done"}

LEMMA OtherSteps ==
    ASSUME Types, [Next]_vars
    PROVE  Rests \/ \E o \in Op : Step(o)
  <1>1. pc \in [Op -> Label]
    BY DEF Types, Ops
  <1>2. CASE ProcessDies
    BY <1>1, <1>2 DEF ProcessDies, Goto, Rests
  <1>3. ASSUME NEW q \in Reader, GetCatalog(q)
        PROVE  Rests
    BY <1>3 DEF GetCatalog, CatalogAsked, CatalogAnswered, CatalogKept, Rests
  <1>4. CASE UNCHANGED vars
    BY <1>4 DEF vars, Rests, db, history
  <1> QED BY <1>2, <1>3, <1>4 DEF Next

\* The chunks of a row among those of S, so that two states can be compared.
In(S, r) == {c \in S : c.row = r}

LEMMA RestsAreRows ==
    ASSUME Rests
    PROVE  list_videos' = list_videos /\ chunks' = chunks
  BY DEF Rests, db, list_videos

LEMMA ShelvesInit == LibraryAssumption /\ Init => ShelvesInv
  <1> SUFFICES ASSUME LibraryAssumption, Init PROVE ShelvesInv
    OBVIOUS
  <1>1. \A o \in Op : OnShelf(o)
    BY DEF Init, Blank, OnShelf
  <1>2. \A r \in RowId : hash[r] = None
    BY DEF Init
  <1>3. \A c \in chunks : c.row \in list_videos
    BY DEF Init, Full, PartOf, list_videos, LibraryAssumption
  <1> QED BY <1>1, <1>2, <1>3 DEF ShelvesInv

\* The lessons and the YouTube videos are kept apart: no request of one kind
\* writes to a row of the other (dynamous.py:150, channels.py:176).
THEOREM ShelvesHold == Spec => []ShelvesInv
  <1>1. ASSUME LibraryAssumption, Types, ShelvesInv, Rests PROVE ShelvesInv'
    BY <1>1, RestsAreRows DEF ShelvesInv, OnShelf, Shelf, Rests, db
  <1>2. Types /\ ShelvesInv /\ [Next]_vars => ShelvesInv'
    BY <1>1, ShelvesStep, OtherSteps, LibraryAssumption
  <1> QED BY <1>2, ShelvesInit, LibraryTypes, LibraryAssumption, PTL DEF Spec

-----------------------------------------------------------------------------
(* The hash of a lesson                                                    *)

\* One sweep at a time, and it replaces the chunks that it saw: no other kind of
\* operation writes to a lesson in between.
OneSweep ==
    \A o, u \in Op : kind[o] = "lessons" /\ kind[u] = "lessons" /\ Busy(o) /\ Busy(u)
                        => o = u

SawLatest(o) ==
    At(o, "commit", {"lessons"}) /\ loc[o].row \in list_videos =>
        loc[o].snap = In(chunks, loc[o].row)

Vouches(o, r) ==
    /\ kind[o] = "lessons" /\ pc[o] # "new"
    /\ loc[o].edition = hash[r]
    /\ In(chunks, r) = Full(r, o, TRUE)

HashInv ==
    /\ OneSweep
    /\ \A o \in Op : SawLatest(o)
    /\ \A r \in list_videos : hash[r] # None => \E o \in Op : Vouches(o, r)

\* The steps of a sweep.
LEMMA SweepSteps ==
    ASSUME NEW o \in Op, Step(o), kind[o] = "lessons"
    PROVE  Sweep(o) \/ ReplaceBegins(o)
  BY DEF Step, Sync, Admin, Ingest, At, Syncs, Ingests,
         SyncBegins, EnumerateFails, Enumerates, NextVideo, SkipsKnown, TakesKnown,
         FindsNew, SyncFetches, SyncFetchFails, SyncCreates, SyncCreateFails,
         SyncEmbeds, SyncEmbedFails, SyncStores, SyncReplaces, SyncStoreFails,
         MarksVideo, LoopRaises, LoopEnds, ClosesRun,
         AddBegins, ResyncBegins, AdminFetches, AdminFetchFails, AdminEmbeds,
         AlreadyInLibrary, NotInLibrary, AddCreates, AdminReplaces, AdminStoreFails,
         DeletesVideo, IngestBegins, UrlFetches, IngestCreates, IngestHasNoChunks,
         IngestEmbeds, JsonEmbedFails, UrlEmbedFails, IngestStores, IngestStoreFails,
         IngestFinally

\* Only one statement lets a sweep begin, and it asks for the others.
LEMMA BusyMoves ==
    ASSUME Types, OneSweep, NEW o \in Op, Step(o)
    PROVE  OneSweep'
  <1>0. Moves(o) /\ pc[o] \in Label
    BY StepMoves, OpKnows DEF Types
  <1>1. CASE kind[o] # "lessons" \/ Busy(o)
    BY <1>0, <1>1 DEF Moves, OneSweep, Busy
  <1>2. CASE kind[o] = "lessons" /\ pc[o] = "new"
    <2>1. SweepBegins(o)
      BY <1>2, SweepSteps DEF Sweep, ReplaceBegins, At, LessonUnchanged, LessonChanged,
         LessonEmbeds, LessonInserted, LessonReplaced, LessonFails,
         LessonIsBlank, SweepEnds
    <2>2. \A u \in Op : kind[u] = "lessons" => ~ Busy(u)
      BY <2>1 DEF SweepBegins, Busy
    <2> QED BY <1>0, <2>2 DEF Moves, OneSweep, Busy
  <1>3. CASE kind[o] = "lessons" /\ pc[o] = "done"
    BY <1>3, SweepSteps DEF Sweep, ReplaceBegins, At, SweepBegins, LessonUnchanged,
       LessonChanged, LessonEmbeds, LessonInserted, LessonReplaced, LessonFails,
         LessonIsBlank, SweepEnds
  <1> QED BY <1>1, <1>2, <1>3 DEF Busy

\* An operation that is not a sweep leaves every lesson's row as it is, or
\* deletes it.
LEMMA LessonsLeftAlone ==
    ASSUME LibraryAssumption, Types, PartsInv, ShelvesInv, NEW o \in Op, DbStep(o),
           kind[o] # "lessons",
           NEW r \in list_videos', videos[r] \in Lesson
    PROVE  r \in list_videos /\ In(chunks', r) = In(chunks, r) /\ hash' = hash
  <1>0. r \in RowId /\ r \in list_videos /\ loc[o] \in Local
    BY OpKnows DEF list_videos, LibraryAssumption, Types
  <1>1. loc[o].row \in list_videos => loc[o].row # r
    BY <1>0 DEF ShelvesInv, OnShelf, Shelf, list_videos, LibraryAssumption
  <1>2. CASE UNCHANGED db \/ Creates(o)
    BY <1>0, <1>2 DEF db, Creates, In
  <1>3. CASE StoresPart(o)
    BY <1>0, <1>1, <1>3 DEF StoresPart, create_chunk, PartOf, In
  <1>4. CASE Replaces(o)
    <2>1. \A c \in loc[o].snap : c.row = loc[o].row
      BY <1>4 DEF Replaces, PartsInv, Own
    <2>2. \A c \in Full(loc[o].row, o, TRUE) : c.row = loc[o].row
      BY DEF Full, PartOf
    <2> QED BY <1>0, <1>1, <1>4, <2>1, <2>2 DEF Replaces, replace_chunks_for_video, In
  <1>5. ASSUME NEW s \in RowId, Deletes(s)
        PROVE  In(chunks', r) = In(chunks, r) /\ hash' = hash
    <2>1. s # r
      BY <1>0, <1>5 DEF Deletes, delete_video_cascade, list_videos, Types, Tables
    <2> QED BY <1>5, <2>1 DEF Deletes, delete_video_cascade, Of, In
  <1> QED BY <1>0, <1>2, <1>3, <1>4, <1>5 DEF DbStep, LessonInserted, LessonReplaced, At

\* A lesson's row that a step leaves alone keeps what its hash means.
LEMMA VouchesStays ==
    ASSUME NEW o \in Op, Moves(o), NEW r, In(chunks', r) = In(chunks, r), hash'[r] = hash[r],
           NEW u \in Op, Vouches(u, r)
    PROVE  Vouches(u, r)'
  <1>1. kind'[u] = "lessons" /\ pc'[u] # "new" /\ loc'[u].edition = hash'[r]
    BY DEF Moves, Vouches
  <1>2. In(chunks', r) = Full(r, u, TRUE)
    BY DEF Vouches, In
  <1>3. Full(r, u, TRUE)' = Full(r, u, TRUE)
    BY DEF Full, PartOf
  <1> QED BY <1>1, <1>2, <1>3 DEF Vouches, In

\* A transaction that leaves the row r with all parts of o's transcript.
LEMMA SweepStores ==
    ASSUME NEW o \in Op, kind[o] = "lessons", Moves(o), loc[o].edition \in Nat,
           pc[o] # "new",
           NEW r \in RowId, hash \in [RowId -> Nat \cup {None}],
           hash' = [hash EXCEPT ![r] = loc[o].edition],
           chunks' = (chunks \ In(chunks, r)) \cup Full(r, o, TRUE)
    PROVE  /\ Vouches(o, r)'
           /\ \A s \in RowId : s # r => In(chunks', s) = In(chunks, s) /\ hash'[s] = hash[s]
  <1>1. \A c \in Full(r, o, TRUE) : c.row = r
    BY DEF Full, PartOf
  <1>2. In(chunks', r) = Full(r, o, TRUE)
    BY <1>1 DEF In
  <1>3. Full(r, o, TRUE)' = Full(r, o, TRUE)
    BY DEF Full, PartOf
  <1>4. kind'[o] = "lessons" /\ pc'[o] # "new" /\ loc'[o].edition = hash'[r]
    BY DEF Moves
  <1>5. Vouches(o, r)'
    BY <1>2, <1>3, <1>4 DEF Vouches, In
  <1>6. ASSUME NEW s \in RowId, s # r
        PROVE  In(chunks', s) = In(chunks, s)
    <2>1. \A c : c \in In(chunks', s) <=> c \in In(chunks, s)
      BY <1>1, <1>6 DEF In
    <2> QED BY <2>1
  <1>7. \A s \in RowId : s # r => hash'[s] = hash[s]
    OBVIOUS
  <1> QED BY <1>5, <1>6, <1>7

LEMMA HashStepOther ==
    ASSUME LibraryAssumption, Types, PartsInv, ShelvesInv, HashInv,
           NEW o \in Op, Step(o), kind[o] # "lessons"
    PROVE  /\ \A u \in Op : SawLatest(u)'
           /\ \A r \in list_videos' : hash'[r] # None => \E u \in Op : Vouches(u, r)'
  <1>0. DbStep(o) /\ Moves(o)
    BY StepWrites, StepMoves DEF Types
  <1>1. ASSUME NEW r \in list_videos', videos[r] \in Lesson \cup {"gone"}
        PROVE  videos[r] \in Lesson
    <2>1. r \in RowId /\ videos'[r] # "gone" /\ "free" # "gone"
      BY <1>1 DEF list_videos
    <2> QED BY <1>0, <1>1, <2>1, RowsBecome DEF Becomes
  <1>2. hash' = hash
    BY <1>0 DEF DbStep, db, Creates, StoresPart, Replaces, Deletes, LessonInserted,
         LessonReplaced, At
  <1>3. ASSUME NEW u \in Op
        PROVE  SawLatest(u)'
    <2>1. SUFFICES ASSUME At(u, "commit", {"lessons"})', loc'[u].row \in list_videos'
                   PROVE  loc'[u].snap = In(chunks', loc'[u].row)
      BY DEF SawLatest, At, In
    <2>2. u # o /\ loc'[u] = loc[u] /\ At(u, "commit", {"lessons"})
      BY <1>0, <2>1 DEF Moves, At
    <2>3. videos[loc[u].row] \in Lesson
      BY <1>1, <2>1, <2>2 DEF ShelvesInv, OnShelf, Shelf, At, list_videos, LibraryAssumption
    <2>4. loc[u].row \in list_videos /\ In(chunks', loc[u].row) = In(chunks, loc[u].row)
      BY <1>0, <2>1, <2>2, <2>3, LessonsLeftAlone
    <2> QED BY <2>2, <2>4 DEF HashInv, SawLatest
  <1>4. ASSUME NEW r \in list_videos', hash'[r] # None
        PROVE  \E u \in Op : Vouches(u, r)'
    <2>1. videos[r] \in Lesson
      BY <1>1, <1>2, <1>4 DEF ShelvesInv, list_videos
    <2>2. r \in list_videos /\ In(chunks', r) = In(chunks, r) /\ hash' = hash
      BY <1>0, <1>4, <2>1, LessonsLeftAlone
    <2>3. PICK u \in Op : Vouches(u, r)
      BY <1>4, <2>2 DEF HashInv
    <2> QED BY <1>0, <2>2, <2>3, VouchesStays
  <1> QED BY <1>3, <1>4

LEMMA HashStepSweep ==
    ASSUME LibraryAssumption, Types, PartsInv, ShelvesInv, HashInv,
           NEW o \in Op, Step(o), kind[o] = "lessons"
    PROVE  /\ \A u \in Op : SawLatest(u)'
           /\ \A r \in list_videos' : hash'[r] # None => \E u \in Op : Vouches(u, r)'
  <1>0. /\ DbStep(o) /\ Moves(o) /\ SnapMoves(o)
        /\ loc[o] \in Local /\ loc[o].edition \in Nat
        /\ hash \in [RowId -> Nat \cup {None}]
        /\ videos \in [RowId -> Title \cup {"free", "gone"}]
    BY StepWrites, StepMoves, StepSnap, OpKnows DEF Types, Tables, Local
  <1>1. ASSUME \A r \in list_videos' : r \in list_videos /\ In(chunks', r) = In(chunks, r) /\ hash'[r] = hash[r],
               pc'[o] = "commit" => In(chunks', loc[o].row) = In(chunks, loc[o].row)
        PROVE  /\ \A u \in Op : SawLatest(u)'
               /\ \A r \in list_videos' : hash'[r] # None => \E u \in Op : Vouches(u, r)'
    <2>1. ASSUME NEW u \in Op, u # o PROVE SawLatest(u)'
      <3>1. loc'[u] = loc[u] /\ pc'[u] = pc[u] /\ kind' = kind /\ SawLatest(u)
        BY <1>0, <2>1 DEF Moves, HashInv
      <3> QED BY <1>1, <3>1 DEF SawLatest, At
    <2>2. SawLatest(o)'
      <3>1. SUFFICES ASSUME At(o, "commit", {"lessons"})', loc'[o].row \in list_videos'
                     PROVE  loc'[o].snap = In(chunks', loc'[o].row)
        BY DEF SawLatest, At, In
      <3>2. loc'[o].row # None /\ pc'[o] = "commit"
        BY <3>1 DEF list_videos, LibraryAssumption, At
      <3>3. loc'[o].snap = In(chunks, loc[o].row) /\ loc'[o].row = loc[o].row
        BY <1>0, <3>2 DEF SnapMoves, Of, In
      <3> QED BY <1>1, <3>2, <3>3
    <2>3. ASSUME NEW r \in list_videos', hash'[r] # None
          PROVE  \E u \in Op : Vouches(u, r)'
      <3>1. PICK u \in Op : Vouches(u, r)
        BY <1>1, <2>3 DEF HashInv
      <3> QED BY <1>0, <1>1, <3>1, VouchesStays
    <2> QED BY <2>1, <2>2, <2>3
  <1>2. CASE UNCHANGED db
    <2>1. list_videos' = list_videos /\ \A r : In(chunks', r) = In(chunks, r)
      BY <1>2 DEF db, list_videos, In
    <2> QED BY <1>1, <1>2, <2>1 DEF db
  <1>3. ASSUME NEW s \in RowId, Deletes(s), pc'[o] # "commit"
        PROVE  \A r \in list_videos' : r \in list_videos /\ In(chunks', r) = In(chunks, r) /\ hash'[r] = hash[r]
    BY <1>0, <1>3 DEF Deletes, delete_video_cascade, list_videos, Of, In
  <1>4. ASSUME NEW s \in RowId, pc[o] = "commit", pc'[o] = "next",
               list_videos' \subseteq list_videos \cup {s},
               hash' = [hash EXCEPT ![s] = loc[o].edition],
               chunks' = (chunks \ In(chunks, s)) \cup Full(s, o, TRUE)
        PROVE  /\ \A u \in Op : SawLatest(u)'
               /\ \A r \in list_videos' : hash'[r] # None => \E u \in Op : Vouches(u, r)'
    <2>1. /\ Vouches(o, s)'
          /\ \A r \in RowId : r # s => In(chunks', r) = In(chunks, r) /\ hash'[r] = hash[r]
      BY <1>0, <1>4, SweepStores
    <2>2. ASSUME NEW u \in Op PROVE SawLatest(u)'
      <3>1. CASE u = o
        BY <1>4, <3>1 DEF SawLatest, At
      <3>2. CASE u # o
        <4>1. kind[u] # "lessons" \/ pc[u] # "commit"
          BY <1>4, <3>2 DEF HashInv, OneSweep, Busy
        <4> QED BY <1>0, <3>2, <4>1 DEF SawLatest, At, Moves, In
      <3> QED BY <3>1, <3>2
    <2>3. ASSUME NEW r \in list_videos', hash'[r] # None
          PROVE  \E u \in Op : Vouches(u, r)'
      <3>1. CASE r = s
        BY <2>1, <3>1
      <3>2. CASE r # s
        <4>1. r \in list_videos /\ r \in RowId
          BY <1>4, <3>2 DEF list_videos
        <4>2. PICK u \in Op : Vouches(u, r)
          BY <2>1, <2>3, <3>2, <4>1 DEF HashInv
        <4> QED BY <1>0, <2>1, <3>2, <4>1, <4>2, VouchesStays
      <3> QED BY <3>1, <3>2
    <2> QED BY <2>2, <2>3
  <1>5. CASE LessonInserted(o)
    <2>1. PICK s \in RowId : /\ create_video(s, loc[o].title)
                             /\ hash' = [hash EXCEPT ![s] = loc[o].edition]
                             /\ chunks' = chunks \cup Full(s, o, TRUE)
      BY <1>5 DEF LessonInserted
    <2>2. In(chunks, s) = {}
      BY <2>1 DEF create_video, In, ShelvesInv, list_videos
    <2>3. pc[o] = "commit" /\ pc'[o] = "next"
      BY <1>5 DEF LessonInserted, At, Goto, Types, Ops
    <2>4. list_videos' \subseteq list_videos \cup {s}
      BY <1>0, <2>1 DEF create_video, list_videos
    <2> QED BY <1>4, <2>1, <2>2, <2>3, <2>4
  <1>6. CASE LessonReplaced(o)
    <2>1. /\ loc[o].row \in list_videos /\ loc[o].row \in RowId /\ videos' = videos
          /\ hash' = [hash EXCEPT ![loc[o].row] = loc[o].edition]
          /\ chunks' = (chunks \ loc[o].snap) \cup Full(loc[o].row, o, TRUE)
      BY <1>6 DEF LessonReplaced, replace_chunks_for_video, list_videos
    <2>2. pc[o] = "commit" /\ pc'[o] = "next" /\ At(o, "commit", {"lessons"})
      BY <1>6 DEF LessonReplaced, At, Goto, Types, Ops
    <2>3. loc[o].snap = In(chunks, loc[o].row)
      BY <2>1, <2>2 DEF HashInv, SawLatest
    <2>4. list_videos' = list_videos
      BY <2>1 DEF list_videos
    <2> QED BY <1>4, <2>1, <2>2, <2>3, <2>4
  <1> QED BY <1>0, <1>1, <1>2, <1>3, <1>5, <1>6 DEF DbStep, Creates, StoresPart, Replaces

LEMMA HashInit == LibraryAssumption /\ Init => HashInv
  <1> SUFFICES ASSUME Init PROVE HashInv
    OBVIOUS
  <1>1. \A o \in Op : pc[o] = "new"
    BY DEF Init
  <1>2. \A r \in list_videos : hash[r] = None
    BY DEF Init, list_videos
  <1> QED BY <1>1, <1>2 DEF HashInv, OneSweep, Busy, SawLatest, At

LEMMA HashRests ==
    ASSUME HashInv, Rests PROVE HashInv'
  <1>1. list_videos' = list_videos /\ chunks' = chunks
    BY RestsAreRows
  <1>2. OneSweep'
    BY DEF HashInv, OneSweep, Busy, Rests
  <1>3. \A o \in Op : SawLatest(o)'
    BY <1>1 DEF HashInv, SawLatest, At, Rests
  <1>4. \A r : \A o \in Op : Vouches(o, r) => Vouches(o, r)'
    BY <1>1 DEF Vouches, Rests, Full, PartOf, db
  <1> QED BY <1>1, <1>2, <1>3, <1>4 DEF HashInv, Rests, db

THEOREM HashHolds == Spec => []HashInv
  <1>1. ASSUME Types, PartsInv, ShelvesInv, HashInv, [Next]_vars PROVE HashInv'
    <2>1. ASSUME NEW o \in Op, Step(o) PROVE HashInv'
      BY <1>1, <2>1, BusyMoves, HashStepOther, HashStepSweep, LibraryAssumption DEF HashInv
    <2> QED BY <1>1, <2>1, HashRests, OtherSteps
  <1>2. Types /\ PartsInv /\ ShelvesInv /\ HashInv /\ [Next]_vars => HashInv'
    BY <1>1
  <1> QED BY <1>2, HashInit, LibraryTypes, PartsHold, ShelvesHold, LibraryAssumption, PTL DEF Spec

\* The hash of a lesson tells which edition all of its chunks come from, however
\* many sweeps died between two statements (dynamous.py:189).
THEOREM HashNeverLies == Spec => []HashMeansStored
  <1>1. HashInv => HashMeansStored
    BY DEF HashInv, HashMeansStored, Vouches, In, Of
  <1> QED BY <1>1, HashHolds, PTL

-----------------------------------------------------------------------------
(* What the catalog has been told                                          *)

\* A list that was read without an error and may yet be kept names every row
\* that has been announced and is still there.
AnnouncedInv ==
    /\ \A r \in known : videos[r] # "free"
    /\ CatalogKnowsAnnounced
    /\ \A q \in Reader : reader[q].at = "answered" /\ reader[q].ok =>
          known \cap list_videos \subseteq reader[q].list

LEMMA AnnouncedInit == LibraryAssumption /\ Init => AnnouncedInv
  BY DEF Init, AnnouncedInv, CatalogKnowsAnnounced, NotAsking, list_videos

\* A row that was announced can go, but no row comes back.
LEMMA AnnouncedRows ==
    ASSUME LibraryAssumption, Types, ShelvesInv, AnnouncedInv, NEW o \in Op, Step(o)
    PROVE  /\ known \cap list_videos' \subseteq known \cap list_videos
           /\ \A r \in known : videos'[r] # "free"
  <1>1. known \subseteq RowId /\ DbStep(o)
    BY StepWrites DEF Types, Caches
  <1>2. \A r \in known : videos[r] # "free" /\ Becomes(r, o)
    BY <1>1, RowsBecome DEF AnnouncedInv
  <1> QED BY <1>1, <1>2 DEF Becomes, list_videos

LEMMA AnnouncedStep ==
    ASSUME LibraryAssumption, Types, ShelvesInv, AnnouncedInv, NEW o \in Op, Step(o)
    PROVE  AnnouncedInv'
  <1>1. CASE cache' = cache
    BY <1>1, AnnouncedRows DEF AnnouncedInv, CatalogKnowsAnnounced, cache
  <1>2. CASE LoopRaises(o) \/ LoopEnds(o) \/ IngestFinally(o)
    <2>1. invalidate_catalog(o) /\ reader' = reader /\ videos' = videos
      BY <1>2 DEF LoopRaises, LoopEnds, IngestFinally, db
    <2>2. list_videos' = list_videos
      BY <2>1 DEF list_videos
    <2>3. CASE known' = known
      BY <2>1, <2>2, <2>3 DEF AnnouncedInv, CatalogKnowsAnnounced, invalidate_catalog
    <2>4. CASE known' # known
      <3>1. /\ cat' = None /\ known' = list_videos
            /\ \A q \in Reader : reader[q].at # "answered"
        BY <2>1, <2>4 DEF invalidate_catalog, Announce
      <3> QED BY <2>1, <3>1 DEF AnnouncedInv, CatalogKnowsAnnounced, list_videos
    <2> QED BY <2>3, <2>4
  <1> QED BY <1>1, <1>2, CacheWriters

LEMMA AnnouncedReader ==
    ASSUME Types, AnnouncedInv, NEW q \in Reader, GetCatalog(q)
    PROVE  AnnouncedInv'
  <1>0. /\ reader \in [Reader -> [at : {"idle", "asking", "answered"},
                                  list : SUBSET RowId, ok : BOOLEAN]]
        /\ known \subseteq RowId
    BY DEF Types, Caches
  <1>1. /\ videos' = videos /\ known' = known /\ list_videos' = list_videos
    BY DEF GetCatalog, CatalogAsked, CatalogAnswered, CatalogKept, db, list_videos
  <1>2. CASE CatalogAsked(q)
    BY <1>0, <1>1, <1>2 DEF CatalogAsked, AnnouncedInv, CatalogKnowsAnnounced
  <1>3. CASE CatalogAnswered(q)
    <2>1. cat' = cat
      BY <1>3 DEF CatalogAnswered
    <2>2. reader' = [reader EXCEPT ![q] = [at |-> "answered", list |-> list_videos, ok |-> TRUE]]
          \/ reader' = [reader EXCEPT ![q] = [at |-> "answered", list |-> {}, ok |-> FALSE]]
      BY <1>3 DEF CatalogAnswered
    <2> QED BY <1>0, <1>1, <2>1, <2>2 DEF AnnouncedInv, CatalogKnowsAnnounced
  <1>4. CASE CatalogKept(q)
    <2>1. /\ reader[q].at = "answered"
          /\ cat' = [list |-> reader[q].list, ok |-> reader[q].ok]
          /\ reader' = [reader EXCEPT ![q] = NotAsking]
      BY <1>4 DEF CatalogKept
    <2> QED BY <1>0, <1>1, <2>1 DEF AnnouncedInv, CatalogKnowsAnnounced, NotAsking
  <1> QED BY <1>2, <1>3, <1>4 DEF GetCatalog

LEMMA AnnouncedDeath ==
    ASSUME AnnouncedInv, ProcessDies \/ UNCHANGED vars
    PROVE  AnnouncedInv'
  <1>1. videos' = videos /\ list_videos' = list_videos
    BY DEF ProcessDies, vars, db, list_videos
  <1>2. CASE /\ cat' = None /\ known' = list_videos
             /\ reader' = [q \in Reader |-> NotAsking]
    BY <1>1, <1>2 DEF AnnouncedInv, CatalogKnowsAnnounced, NotAsking, list_videos
  <1>3. CASE UNCHANGED cache
    BY <1>1, <1>3 DEF AnnouncedInv, CatalogKnowsAnnounced, cache
  <1> QED BY <1>2, <1>3 DEF ProcessDies, vars, cache

THEOREM AnnouncedHolds == Spec => []AnnouncedInv
  <1>1. Types /\ ShelvesInv /\ AnnouncedInv /\ [Next]_vars => AnnouncedInv'
    BY AnnouncedStep, AnnouncedReader, AnnouncedDeath, LibraryAssumption DEF Next
  <1> QED BY <1>1, AnnouncedInit, LibraryTypes, ShelvesHold, LibraryAssumption, PTL DEF Spec

\* A catalog that was read without an error names every video that an
\* invalidation announced while no answer was under way (catalog.py:3), through
\* any number of readers, writers, failures and restarts.
THEOREM CatalogComplete == Spec => []CatalogKnowsAnnounced
  BY AnnouncedHolds, PTL DEF AnnouncedInv

-----------------------------------------------------------------------------
(* The records of a run                                                    *)

\* The entries of s with a status, and how many they are.
With(s, st) == {i \in DOMAIN s : s[i].status = st}
Count(s, st) == Cardinality(With(s, st))

LEMMA WithIsFinite ==
    ASSUME NEW s \in Seq(Entry), NEW st
    PROVE  IsFiniteSet(With(s, st)) /\ Count(s, st) \in Nat
  <1>1. IsFiniteSet(1..Len(s))
    BY FS_Interval
  <1>2. With(s, st) \subseteq 1..Len(s)
    BY DEF With
  <1>3. IsFiniteSet(With(s, st))
    BY <1>1, <1>2, FS_Subset
  <1> QED BY <1>3, FS_CardinalityType DEF Count

LEMMA CountNone ==
    ASSUME NEW st
    PROVE  Count(<<>>, st) = 0
  <1>1. With(<<>>, st) = {}
    BY DEF With
  <1> QED BY <1>1, FS_EmptySet DEF Count

\* A pending entry counts for nothing.
LEMMA CountPending ==
    ASSUME NEW s \in Seq(Entry), NEW e \in Entry, e.status = "pending",
           NEW st, st # "pending"
    PROVE  Count(Append(s, e), st) = Count(s, st)
  <1>1. With(Append(s, e), st) = With(s, st)
    BY DEF With
  <1> QED BY <1>1 DEF Count

MarkedAs(s, out, r) == [s EXCEPT ![Len(s)] = [@ EXCEPT !.status = out, !.row = r]]

\* The last one counts when it is marked.
LEMMA CountMarked ==
    ASSUME NEW s \in Seq(Entry), Len(s) > 0, s[Len(s)].status = "pending",
           NEW out \in {"ingested", "error"}, NEW r,
           NEW st \in {"ingested", "error"}
    PROVE  /\ Count(MarkedAs(s, out, r), st) =
                 IF st = out THEN Count(s, st) + 1 ELSE Count(s, st)
           /\ Len(MarkedAs(s, out, r)) = Len(s)
  <1> DEFINE n == Len(s)
             t == MarkedAs(s, out, r)
  <1>0. t = [s EXCEPT ![n] = [@ EXCEPT !.status = out, !.row = r]]
    BY DEF MarkedAs
  <1> HIDE DEF t
  <1>1. /\ n \in DOMAIN s /\ DOMAIN s = 1..n /\ DOMAIN t = 1..n /\ s[n] \in Entry
    BY <1>0
  <1>2. t[n].status = out /\ \A i \in 1..n : i # n => t[i] = s[i]
    BY <1>0, <1>1 DEF Entry
  <1>3. Len(t) = Len(s)
    BY <1>0
  <1>4. CASE st = out
    <2>1. With(t, st) = With(s, st) \cup {n}
      BY <1>1, <1>2, <1>4 DEF With
    <2>2. n \notin With(s, st)
      BY <1>1 DEF With
    <2>3. Count(t, st) = Count(s, st) + 1
      BY <2>1, <2>2, WithIsFinite, FS_AddElement DEF Count
    <2> QED BY <1>4, <1>3, <2>3 DEF t
  <1>5. CASE st # out
    <2>1. With(t, st) = With(s, st)
      BY <1>1, <1>2, <1>5 DEF With
    <2> QED BY <2>1, <1>5, <1>3 DEF Count, t
  <1> QED BY <1>4, <1>5 DEF t

\* How many videos a sync has counted, and how far it is, by what it is doing:
\* between two videos, with one of them, about to mark it.
Counts(l, s) ==
    /\ Count(s, "ingested") = l.new
    /\ Count(s, "error") = l.error

Between(l, s) ==
    /\ Counts(l, s)
    /\ Len(s) = l.new + l.error
    /\ l.i = Len(s) + 1 /\ l.i <= Len(Channel) + 1

Within(l, s) ==
    /\ Counts(l, s)
    /\ Len(s) = l.new + l.error + 1
    /\ l.i = Len(s) /\ l.i <= Len(Channel)
    /\ s[Len(s)].status = "pending"

Marking(l, s) ==
    /\ l.outcome \in {"ingested", "error"}
    /\ Count(s, "ingested") + (IF l.outcome = "ingested" THEN 1 ELSE 0) = l.new
    /\ Count(s, "error") + (IF l.outcome = "error" THEN 1 ELSE 0) = l.error
    /\ Len(s) = l.new + l.error
    /\ l.i = Len(s) /\ l.i <= Len(Channel)
    /\ s[Len(s)].status = "pending"

AddsUp(r, s) ==
    /\ r.new = Count(s, "ingested") /\ r.error = Count(s, "error")
    /\ r.total = r.new + r.error /\ r.total = Len(s)

WithVideo == {"lookup", "fetch", "create", "embed", "store", "replace", "commit"}

Tally(k, p, l, r, s) ==
    /\ r.status \in {"completed", "failed"} =>
          k \in Syncs /\ p = "done" /\ AddsUp(r, s)
    /\ k \in Syncs =>
          /\ p \in {"new", "enumerate", "next", "close"} => Between(l, s)
          /\ p \in {"new", "enumerate"} => l.i = 1
          /\ p = "close" => l.i > Len(Channel)
          /\ p \in WithVideo => Within(l, s)
          /\ p = "mark" => Marking(l, s)

TallyOf(o) == Tally(kind[o], pc[o], loc[o], run[o], entry[o])
TallyInv == \A o \in Op : TallyOf(o)

\* Counters that stay as they are, and one that grows.
LEMMA WithinKept ==
    ASSUME NEW l, NEW m, NEW s, Within(l, s), m.i = l.i, m.new = l.new, m.error = l.error
    PROVE  Within(m, s)
  BY DEF Within, Counts

LEMMA WithinIngested ==
    ASSUME NEW l \in Local, NEW s \in Seq(Entry), Within(l, s),
           NEW m, m.i = l.i, m.new = l.new + 1, m.error = l.error, m.outcome = "ingested"
    PROVE  Marking(m, s)
  BY WithIsFinite DEF Within, Counts, Marking, Local

LEMMA WithinError ==
    ASSUME NEW l \in Local, NEW s \in Seq(Entry), Within(l, s),
           NEW m, m.i = l.i, m.new = l.new, m.error = l.error + 1, m.outcome = "error"
    PROVE  Marking(m, s)
  BY WithIsFinite DEF Within, Counts, Marking, Local

\* Only a sync writes records, its own ones.
LEMMA RecordsMove ==
    ASSUME Types, NEW o \in Op, Step(o)
    PROVE  /\ \A u \in Op : u # o => run'[u] = run[u] /\ entry'[u] = entry[u]
           /\ history' = history \/ Sync(o)
  <1>0. run \in [Op -> [status : RunStatus, total : Nat, new : Nat, error : Nat]]
        /\ entry \in [Op -> Seq(Entry)]
    BY DEF Types, Records
  <1>1. CASE Sync(o)
    <2>1. CASE SyncBegins(o)
      BY <1>0, <1>1, <2>1 DEF SyncBegins, create_sync_run
    <2>2. CASE EnumerateFails(o) \/ ClosesRun(o)
      BY <1>0, <1>1, <2>2 DEF EnumerateFails, ClosesRun, update_sync_run
    <2>3. CASE NextVideo(o)
      BY <1>0, <1>1, <2>3 DEF NextVideo, create_sync_video
    <2>4. CASE MarksVideo(o)
      BY <1>0, <1>1, <2>4 DEF MarksVideo, update_sync_video_status
    <2> QED
      BY <1>1, <2>1, <2>2, <2>3, <2>4 DEF Sync, Enumerates, SkipsKnown, TakesKnown, FindsNew, SyncFetches, SyncFetchFails,
         SyncCreates, SyncCreateFails, SyncEmbeds, SyncEmbedFails, SyncStores,
         SyncReplaces, SyncStoreFails, LoopRaises, LoopEnds, history
  <1>2. CASE Admin(o) \/ ReplaceBegins(o)
    BY <1>2 DEF Admin, ReplaceBegins, AddBegins, ResyncBegins, AdminFetches, AdminFetchFails, AdminEmbeds,
         AlreadyInLibrary, NotInLibrary, AddCreates, AdminReplaces, AdminStoreFails,
         DeletesVideo, history
  <1>3. CASE Ingest(o)
    BY <1>3 DEF Ingest, IngestBegins, UrlFetches, IngestCreates, IngestHasNoChunks,
         IngestEmbeds, JsonEmbedFails, UrlEmbedFails, IngestStores, IngestStoreFails,
         IngestFinally, history
  <1>4. CASE Sweep(o)
    BY <1>4 DEF Sweep, SweepBegins, LessonUnchanged, LessonChanged, LessonEmbeds,
         LessonInserted, LessonReplaced, LessonFails,
         LessonIsBlank, SweepEnds, history
  <1> QED BY <1>1, <1>2, <1>3, <1>4 DEF Step

\* What a sync at hand knows of its counters.
LEMMA TallyKnows ==
    ASSUME Types, TallyInv, NEW o \in Op
    PROVE  /\ TallyOf(o) /\ loc[o] \in Local /\ entry[o] \in Seq(Entry)
           /\ Fits(kind[o], pc[o], loc[o])
           /\ pc \in [Op -> Label] /\ loc \in [Op -> Local]
           /\ run \in [Op -> [status : RunStatus, total : Nat, new : Nat, error : Nat]]
           /\ entry \in [Op -> Seq(Entry)]
  BY OpKnows DEF Types, Records, Ops, TallyInv

\* An operation that is not done has not finished its run.
LEMMA TallyMoves ==
    ASSUME NEW o \in Op, TallyOf(o), pc[o] # "done",
           kind' = kind, UNCHANGED history
    PROVE  run'[o].status \notin {"completed", "failed"} /\ run'[o] = run[o]
           /\ entry'[o] = entry[o]
  BY DEF TallyOf, Tally, history

\* A failure is counted as an error.
LEMMA FailTally ==
    ASSUME Types, TallyInv, NEW o \in Op, Fail(o), kind' = kind, UNCHANGED history,
           kind[o] \in Syncs, pc[o] \in WithVideo
    PROVE  TallyOf(o)'
  <1>0. /\ TallyOf(o) /\ loc[o] \in Local /\ entry[o] \in Seq(Entry)
        /\ pc \in [Op -> Label] /\ loc \in [Op -> Local]
    BY TallyKnows
  <1>1. /\ Goto(o, "mark")
        /\ Keeps(o, [loc[o] EXCEPT !.error = @ + 1, !.outcome = "error"])
    BY DEF Fail, Syncs
  <1>2. /\ loc'[o].i = loc[o].i /\ loc'[o].new = loc[o].new
        /\ loc'[o].error = loc[o].error + 1 /\ loc'[o].outcome = "error"
        /\ pc'[o] = "mark"
    BY <1>0, <1>1 DEF Goto, Keeps, Local
  <1>3. Marking(loc'[o], entry[o])
    BY <1>0, <1>2, WithinError DEF TallyOf, Tally
  <1>4. run'[o].status \notin {"completed", "failed"} /\ entry'[o] = entry[o]
    BY <1>0, TallyMoves DEF WithVideo
  <1> QED BY <1>2, <1>3, <1>4 DEF TallyOf, Tally, WithVideo

\* Steps with a video at hand that count nothing.
LEMMA WithinTally ==
    ASSUME Types, TallyInv, NEW o \in Op, kind' = kind, UNCHANGED history,
           pc[o] \in WithVideo, pc'[o] \in WithVideo,
           loc'[o].i = loc[o].i, loc'[o].new = loc[o].new, loc'[o].error = loc[o].error
    PROVE  TallyOf(o)'
  <1>0. TallyOf(o)
    BY TallyKnows
  <1>1. run'[o].status \notin {"completed", "failed"} /\ entry'[o] = entry[o]
    BY <1>0, TallyMoves DEF WithVideo
  <1>2. kind[o] \in Syncs => Within(loc'[o], entry[o])
    BY <1>0, WithinKept DEF TallyOf, Tally
  <1> QED BY <1>1, <1>2 DEF TallyOf, Tally, WithVideo

\* Steps that count a video as ingested.
LEMMA IngestedTally ==
    ASSUME Types, TallyInv, NEW o \in Op, kind' = kind, UNCHANGED history,
           kind[o] \in Syncs, pc[o] \in WithVideo, Goto(o, "mark"),
           Keeps(o, [loc[o] EXCEPT !.new = @ + 1, !.outcome = "ingested"])
    PROVE  TallyOf(o)'
  <1>0. /\ TallyOf(o) /\ loc[o] \in Local /\ entry[o] \in Seq(Entry)
        /\ pc \in [Op -> Label] /\ loc \in [Op -> Local]
    BY TallyKnows
  <1>2. /\ loc'[o].i = loc[o].i /\ loc'[o].new = loc[o].new + 1
        /\ loc'[o].error = loc[o].error /\ loc'[o].outcome = "ingested"
        /\ pc'[o] = "mark"
    BY <1>0 DEF Goto, Keeps, Local
  <1>3. Marking(loc'[o], entry[o])
    BY <1>0, <1>2, WithinIngested DEF TallyOf, Tally
  <1>4. run'[o].status \notin {"completed", "failed"} /\ entry'[o] = entry[o]
    BY <1>0, TallyMoves DEF WithVideo
  <1> QED BY <1>2, <1>3, <1>4 DEF TallyOf, Tally, WithVideo

LEMMA SyncTally ==
    ASSUME LibraryAssumption, Types, TallyInv, NEW o \in Op, Sync(o)
    PROVE  TallyOf(o)'
  <1>0. /\ TallyOf(o) /\ loc[o] \in Local /\ entry[o] \in Seq(Entry)
        /\ Fits(kind[o], pc[o], loc[o])
        /\ pc \in [Op -> Label] /\ loc \in [Op -> Local]
        /\ run \in [Op -> [status : RunStatus, total : Nat, new : Nat, error : Nat]]
        /\ entry \in [Op -> Seq(Entry)]
    BY TallyKnows
  <1>a. kind[o] \in Syncs
    BY DEF Sync, At, SyncBegins, EnumerateFails, Enumerates, NextVideo, SkipsKnown,
       TakesKnown, FindsNew, SyncFetches, SyncFetchFails, SyncCreates, SyncCreateFails,
       SyncEmbeds, SyncEmbedFails, SyncStores, SyncReplaces, SyncStoreFails, MarksVideo,
       LoopRaises, LoopEnds, ClosesRun, Syncs
  <1>1. CASE SyncBegins(o)
    <2>1. /\ pc[o] = "new" /\ pc'[o] = "enumerate" /\ loc' = loc /\ entry' = entry
          /\ kind' = kind /\ run'[o].status = "running"
      BY <1>0, <1>1 DEF SyncBegins, At, Goto, create_sync_run
    <2> QED BY <1>0, <1>a, <2>1 DEF TallyOf, Tally, WithVideo
  <1>2. CASE EnumerateFails(o)
    <2>1. /\ pc[o] = "enumerate" /\ pc'[o] = "done" /\ loc' = loc /\ entry' = entry
          /\ kind' = kind
          /\ run'[o] = [status |-> "failed", total |-> 0, new |-> loc[o].new, error |-> loc[o].error]
      BY <1>0, <1>2 DEF EnumerateFails, At, Goto, update_sync_run
    <2>2. Between(loc[o], entry[o]) /\ loc[o].i = 1
      BY <1>0, <1>a, <2>1 DEF TallyOf, Tally
    <2>3. AddsUp(run'[o], entry[o])
      BY <1>0, <2>1, <2>2 DEF AddsUp, Between, Counts, Local
    <2> QED BY <1>a, <2>1, <2>3 DEF TallyOf, Tally, WithVideo
  <1>3. CASE Enumerates(o)
    <2>1. /\ pc[o] = "enumerate" /\ pc'[o] = "next" /\ loc' = loc /\ entry' = entry
          /\ kind' = kind /\ run' = run
      BY <1>0, <1>3 DEF Enumerates, At, Goto, history
    <2> QED BY <1>0, <1>a, <2>1 DEF TallyOf, Tally, WithVideo
  <1>4. CASE NextVideo(o)
    <2> DEFINE e == [title |-> Channel[loc[o].i], status |-> "pending", row |-> None]
    <2>1. /\ pc[o] = "next" /\ pc'[o] = "lookup" /\ kind' = kind /\ run' = run
          /\ entry'[o] = Append(entry[o], e)
      BY <1>0, <1>4 DEF NextVideo, At, Goto, create_sync_video
    <2>2. /\ loc'[o].i = loc[o].i /\ loc'[o].new = loc[o].new
          /\ loc'[o].error = loc[o].error
      BY <1>0, <1>4 DEF NextVideo, Keeps, Local
    <2>3. loc[o].i <= Len(Channel) /\ Channel \in Seq(Clip)
      BY <1>4 DEF NextVideo, LibraryAssumption
    <2>4. e \in Entry /\ e.status = "pending"
      BY <1>0, <2>3 DEF Entry, Fits, Local
    <2>5. Between(loc[o], entry[o])
      BY <1>0, <1>a, <2>1 DEF TallyOf, Tally
    <2> HIDE DEF e
    <2>6. Counts(loc'[o], entry'[o])
      BY <1>0, <2>1, <2>2, <2>4, <2>5, CountPending DEF Between, Counts
    <2>7. Len(entry'[o]) = Len(entry[o]) + 1 /\ entry'[o][Len(entry[o]) + 1] = e
      BY <1>0, <2>1, <2>4
    <2>8. Within(loc'[o], entry'[o])
      BY <1>0, <2>2, <2>3, <2>4, <2>5, <2>6, <2>7 DEF Between, Within, Local
    <2> QED BY <1>0, <1>a, <2>1, <2>8 DEF TallyOf, Tally, WithVideo
  <1>5. CASE SkipsKnown(o)
    BY <1>a, <1>5, IngestedTally DEF SkipsKnown, At, WithVideo
  <1>6. CASE TakesKnown(o)
    <2>1. pc[o] = "lookup" /\ pc'[o] = "fetch" /\ kind' = kind /\ UNCHANGED history
      BY <1>0, <1>6 DEF TakesKnown, At, Goto
    <2>2. loc'[o].i = loc[o].i /\ loc'[o].new = loc[o].new /\ loc'[o].error = loc[o].error
      BY <1>0, <1>6 DEF TakesKnown, Keeps, Local
    <2> QED BY <2>1, <2>2, WithinTally DEF WithVideo
  <1>7. CASE FindsNew(o) \/ SyncFetches(o) \/ SyncEmbeds(o)
    <2>1. /\ pc[o] \in WithVideo /\ pc'[o] \in WithVideo /\ kind' = kind
          /\ UNCHANGED history /\ loc' = loc
      BY <1>0, <1>7 DEF FindsNew, SyncFetches, SyncEmbeds, At, Goto, WithVideo
    <2> QED BY <2>1, WithinTally
  <1>8. CASE SyncFetchFails(o) \/ SyncCreateFails(o) \/ SyncEmbedFails(o) \/ SyncStoreFails(o)
    <2>1. Fail(o) /\ kind' = kind /\ UNCHANGED history /\ pc[o] \in WithVideo
      BY <1>8 DEF SyncFetchFails, SyncCreateFails, SyncEmbedFails, SyncStoreFails, At, WithVideo
    <2> QED BY <1>a, <2>1, FailTally
  <1>9. CASE SyncCreates(o)
    <2>1. pc[o] = "create" /\ pc'[o] = "embed" /\ kind' = kind /\ UNCHANGED history
      BY <1>0, <1>9 DEF SyncCreates, At, Goto
    <2>2. loc'[o].i = loc[o].i /\ loc'[o].new = loc[o].new /\ loc'[o].error = loc[o].error
      BY <1>0, <1>9 DEF SyncCreates, Keeps, Local
    <2> QED BY <2>1, <2>2, WithinTally DEF WithVideo
  <1>10. CASE SyncStores(o) /\ loc[o].part < Parts
    <2>1. pc[o] = "store" /\ pc'[o] = "store" /\ kind' = kind /\ UNCHANGED history
      BY <1>10 DEF SyncStores, At
    <2>2. Keeps(o, [loc[o] EXCEPT !.part = loc[o].part + 1])
      BY <1>10 DEF SyncStores
    <2>3. loc'[o].i = loc[o].i /\ loc'[o].new = loc[o].new /\ loc'[o].error = loc[o].error
      BY <1>0, <2>2 DEF Keeps, Local
    <2> QED BY <2>1, <2>3, WithinTally DEF WithVideo
  <1>11. CASE SyncStores(o) /\ ~ (loc[o].part < Parts)
    BY <1>a, <1>11, IngestedTally DEF SyncStores, At, WithVideo
  <1>12. CASE SyncReplaces(o)
    BY <1>a, <1>12, IngestedTally DEF SyncReplaces, At, WithVideo
  <1>13. CASE MarksVideo(o)
    <2> DEFINE s == entry[o]
               out == loc[o].outcome
    <2>1. /\ pc[o] = "mark" /\ pc'[o] = "next" /\ kind' = kind /\ run' = run
          /\ entry'[o] = [s EXCEPT ![Len(s)] = [@ EXCEPT !.status = out, !.row = loc[o].row]]
      BY <1>0, <1>13 DEF MarksVideo, At, Goto, update_sync_video_status
    <2>2. /\ loc'[o].i = loc[o].i + 1 /\ loc'[o].new = loc[o].new
          /\ loc'[o].error = loc[o].error
      BY <1>0, <1>13 DEF MarksVideo, Keeps, Local
    <2>3. Marking(loc[o], s)
      BY <1>0, <1>a, <2>1 DEF TallyOf, Tally
    <2>4. Len(s) > 0 /\ s[Len(s)].status = "pending" /\ out \in {"ingested", "error"}
      BY <1>0, <2>3 DEF Marking, Local, Fits
    <2>5. /\ \A st \in {"ingested", "error"} :
                Count(entry'[o], st) = IF st = out THEN Count(s, st) + 1 ELSE Count(s, st)
          /\ Len(entry'[o]) = Len(s)
      <3>1. s \in Seq(Entry)
        BY <1>0
      <3>2. entry'[o] = MarkedAs(s, out, loc[o].row)
        BY <2>1 DEF MarkedAs
      <3> QED BY <2>4, <3>1, <3>2, CountMarked
    <2>6. Count(s, "ingested") \in Nat /\ Count(s, "error") \in Nat
      BY <1>0, WithIsFinite
    <2>7. Between(loc'[o], entry'[o])
      BY SMTT(30), <1>0, <2>2, <2>3, <2>4, <2>5, <2>6 DEF Between, Counts, Marking, Local
    <2> QED BY <1>0, <1>a, <2>1, <2>7 DEF TallyOf, Tally, WithVideo
  <1>14. CASE LoopRaises(o)
    <2>1. /\ pc[o] # "done" /\ pc'[o] = "done" /\ kind' = kind /\ UNCHANGED history
      BY <1>0, <1>14 DEF LoopRaises, Goto
    <2> QED BY <1>0, <2>1, TallyMoves DEF TallyOf, Tally, WithVideo
  <1>15. CASE LoopEnds(o)
    <2>1. /\ pc[o] = "next" /\ pc'[o] = "close" /\ kind' = kind /\ run' = run
          /\ entry' = entry /\ loc' = loc /\ loc[o].i > Len(Channel)
      BY <1>0, <1>15 DEF LoopEnds, At, Goto, history
    <2> QED BY <1>0, <1>a, <2>1 DEF TallyOf, Tally, WithVideo
  <1>16. CASE ClosesRun(o)
    <2>1. /\ pc[o] = "close" /\ pc'[o] = "done" /\ loc' = loc /\ entry' = entry
          /\ kind' = kind
          /\ run'[o].total = Len(Channel) /\ run'[o].new = loc[o].new
          /\ run'[o].error = loc[o].error
      BY <1>0, <1>16 DEF ClosesRun, At, Goto, update_sync_run
    <2>2. Between(loc[o], entry[o]) /\ loc[o].i > Len(Channel)
      BY <1>0, <1>a, <2>1 DEF TallyOf, Tally
    <2>3. AddsUp(run'[o], entry[o])
      BY <1>0, <2>1, <2>2 DEF AddsUp, Between, Counts, Local, LibraryAssumption
    <2> QED BY <1>a, <2>1, <2>3 DEF TallyOf, Tally, WithVideo
  <1> QED BY <1>1, <1>2, <1>3, <1>4, <1>5, <1>6, <1>7, <1>8, <1>9, <1>10, <1>11, <1>12, <1>13, <1>14, <1>15, <1>16 DEF Sync

\* The first statement of a replacement counts nothing.
LEMMA ReplaceTally ==
    ASSUME Types, TallyInv, NEW o \in Op, Step(o), kind[o] \in Syncs, ~ Sync(o)
    PROVE  TallyOf(o)'
  <1>0. loc[o] \in Local /\ pc \in [Op -> Label] /\ loc \in [Op -> Local]
    BY TallyKnows
  <1>1. ReplaceBegins(o)
    BY DEF Step, Admin, Ingest, Sweep, At, Syncs, Ingests,
       AddBegins, ResyncBegins, AdminFetches, AdminFetchFails, AdminEmbeds,
       AlreadyInLibrary, NotInLibrary, AddCreates, AdminReplaces, AdminStoreFails,
       DeletesVideo, IngestBegins, UrlFetches, IngestCreates, IngestHasNoChunks,
       IngestEmbeds, JsonEmbedFails, UrlEmbedFails, IngestStores, IngestStoreFails,
       IngestFinally, SweepBegins, LessonUnchanged, LessonChanged, LessonEmbeds,
       LessonInserted, LessonReplaced, LessonFails,
         LessonIsBlank, SweepEnds
  <1>2. pc[o] = "replace" /\ pc'[o] = "commit" /\ kind' = kind /\ UNCHANGED history
    BY <1>0, <1>1 DEF ReplaceBegins, Goto
  <1>3. loc'[o].i = loc[o].i /\ loc'[o].new = loc[o].new /\ loc'[o].error = loc[o].error
    BY <1>0, <1>1 DEF ReplaceBegins, Keeps, Local
  <1> QED BY <1>2, <1>3, WithinTally DEF WithVideo

LEMMA TallyInit == LibraryAssumption /\ Init => TallyInv
  <1> SUFFICES ASSUME LibraryAssumption, Init, NEW o \in Op PROVE TallyOf(o)
    BY DEF TallyInv
  <1>1. /\ pc[o] = "new" /\ loc[o] = Blank /\ run[o] = NoRun /\ entry[o] = <<>>
    BY DEF Init
  <1>2. Between(Blank, <<>>)
    BY CountNone DEF Between, Counts, Blank, LibraryAssumption
  <1> QED BY <1>1, <1>2 DEF TallyOf, Tally, NoRun, Blank, WithVideo

THEOREM TallyHolds == Spec => []TallyInv
  <1>1. ASSUME LibraryAssumption, Types, TallyInv, NEW o \in Op, Step(o), NEW u \in Op
        PROVE  TallyOf(u)'
    <2>0. Moves(o)
      BY <1>1, StepMoves DEF Types
    <2>1. CASE u # o
      BY <1>1, <2>0, <2>1, RecordsMove DEF Moves, TallyInv, TallyOf
    <2>2. CASE u = o /\ Sync(o)
      BY <1>1, <2>2, SyncTally
    <2>3. CASE u = o /\ kind[o] \notin Syncs
      <3>1. history' = history \/ Sync(o)
        BY <1>1, RecordsMove
      <3>2. history' = history \/ kind[o] \in Syncs
        BY <2>2, <3>1, SyncTally, <2>3, <1>1 DEF Sync, At, SyncBegins, EnumerateFails, Enumerates, NextVideo, SkipsKnown,
       TakesKnown, FindsNew, SyncFetches, SyncFetchFails, SyncCreates, SyncCreateFails,
       SyncEmbeds, SyncEmbedFails, SyncStores, SyncReplaces, SyncStoreFails, MarksVideo,
       LoopRaises, LoopEnds, ClosesRun, Syncs
      <3>3. run'[o] = run[o] /\ kind'[o] = kind[o]
        BY <2>0, <2>3, <3>2 DEF Moves, history
      <3> QED BY <1>1, <2>3, <3>3 DEF TallyInv, TallyOf, Tally
    <2>4. CASE u = o /\ kind[o] \in Syncs /\ ~ Sync(o)
      BY <1>1, <2>4, ReplaceTally
    <2> QED BY <2>1, <2>2, <2>3, <2>4
  <1>2. ASSUME TallyInv, Rests PROVE TallyInv'
    <2>1. ASSUME NEW u \in Op PROVE TallyOf(u)'
      BY <1>2, <2>1 DEF TallyInv, TallyOf, Tally, Rests, history, WithVideo
    <2> QED BY <2>1 DEF TallyInv
  <1>3. Types /\ TallyInv /\ [Next]_vars => TallyInv'
    BY <1>1, <1>2, OtherSteps, LibraryAssumption DEF TallyInv
  <1> QED BY <1>3, TallyInit, LibraryTypes, LibraryAssumption, PTL DEF Spec

\* What a finished run reports is what its records say, none of them left
\* pending, whatever failed on the way (channels.py:147-365).
THEOREM RunsReportRecords == Spec => []RunsAddUp
  <1>1. TallyInv => RunsAddUp
    BY DEF TallyInv, TallyOf, Tally, AddsUp, RunsAddUp, Count, With
  <1> QED BY <1>1, TallyHolds, PTL

-----------------------------------------------------------------------------
(* Ingested means whole                                                    *)

\* The numbers of a transcript's chunks.
LEMMA FullCounts ==
    ASSUME LibraryAssumption, NEW r, NEW o, NEW tx
    PROVE  IsFiniteSet(Full(r, o, tx)) /\ Cardinality(Full(r, o, tx)) = Parts
  <1> DEFINE f == [p \in 1..Parts |-> PartOf(r, o, p, tx)]
  <1>0. Parts \in Nat /\ IsFiniteSet(1..Parts) /\ Cardinality(1..Parts) = Parts
    <2>1. Parts \in Nat
      BY DEF LibraryAssumption
    <2>2. IsFiniteSet(1..Parts) /\ Cardinality(1..Parts) = IF 1 > Parts THEN 0 ELSE Parts - 1 + 1
      BY <2>1, FS_Interval
    <2> QED BY <2>1, <2>2
  <1>1. f \in Surjection(1..Parts, Full(r, o, tx))
    BY DEF Surjection, Full
  <1>2. f \in Injection(1..Parts, Full(r, o, tx))
    <2>1. f \in [1..Parts -> Full(r, o, tx)]
      BY DEF Full
    <2>2. \A p \in 1..Parts : f[p].part = p
      BY DEF PartOf
    <2> QED BY <2>1, <2>2 DEF Injection, IsInjective
  <1> HIDE DEF f
  <1> QED BY <1>0, <1>1, <1>2, FS_Surjection

\* A transcript that is whole has at least its number of chunks.
LEMMA WholeCounts ==
    ASSUME LibraryAssumption, IsFiniteSet(chunks), NEW r, Whole(r)
    PROVE  chunk_count(r) >= Parts
  <1>1. PICK o \in Op \cup {None}, tx \in BOOLEAN : Full(r, o, tx) \subseteq chunks
    BY DEF Whole
  <1>2. Full(r, o, tx) \subseteq Of(r)
    BY <1>1 DEF Of, Full, PartOf
  <1>3. IsFiniteSet(Of(r))
    BY FS_Subset DEF Of
  <1>4. Cardinality(Full(r, o, tx)) <= Cardinality(Of(r)) /\ Cardinality(Of(r)) \in Nat
    BY <1>2, <1>3, FS_Subset, FS_CardinalityType
  <1>5. Cardinality(Full(r, o, tx)) = Parts /\ Parts \in Nat
    BY FullCounts DEF LibraryAssumption
  <1> QED BY <1>4, <1>5 DEF chunk_count

\* What a sync knows of the chunks of its row: the parts it has stored are there
\* unless somebody stored the whole transcript, and a video that it will mark as
\* ingested is whole.
Stored(o) ==
    kind[o] \in Syncs =>
        /\ pc[o] = "lookup" => loc[o].row = None
        /\ pc[o] = "store" /\ loc[o].row \in list_videos =>
              \/ Whole(loc[o].row)
              \/ \A p \in 1..(loc[o].part - 1) : PartOf(loc[o].row, o, p, FALSE) \in chunks
        /\ pc[o] = "mark" /\ loc[o].outcome = "ingested" /\ loc[o].row \in list_videos =>
              Whole(loc[o].row)

EntryWhole(e) ==
    /\ e.row # None => videos[e.row] # "free"
    /\ e.status = "ingested" /\ e.row \in list_videos => Whole(e.row)

StoredInv ==
    /\ IsFiniteSet(chunks)
    /\ \A o \in Op : Stored(o)
    /\ \A o \in Op : \A i \in DOMAIN entry[o] : EntryWhole(entry[o][i])

LEMMA ChunksFinite ==
    ASSUME LibraryAssumption, Types, IsFiniteSet(chunks), NEW o \in Op, Step(o)
    PROVE  IsFiniteSet(chunks')
  <1>1. \A D : IsFiniteSet(chunks \ D)
    BY FS_Subset
  <1>2. ASSUME NEW D, NEW r, chunks' = (chunks \ D) \cup Full(r, o, TRUE)
        PROVE  IsFiniteSet(chunks')
    BY <1>1, <1>2, FullCounts, FS_Union
  <1>3. ASSUME NEW r, chunks' = chunks \cup Full(r, o, TRUE)
        PROVE  IsFiniteSet(chunks')
    BY <1>3, FullCounts, FS_Union
  <1>4. ASSUME NEW r, NEW n, chunks' = chunks \cup {PartOf(r, o, n, FALSE)}
        PROVE  IsFiniteSet(chunks')
    BY <1>4, FS_AddElement
  <1> QED BY <1>1, <1>2, <1>3, <1>4, ChunksChange DEF Types

\* A row that is there after a step and was no free one was there before.
LEMMA WasListed ==
    ASSUME Types, NEW o \in Op, Step(o), NEW r \in list_videos', videos[r] # "free"
    PROVE  r \in list_videos /\ r \in RowId /\ videos'[r] # "gone"
  <1>1. r \in RowId /\ videos'[r] \notin {"free", "gone"}
    BY DEF list_videos
  <1>2. Becomes(r, o)
    BY <1>1, StepWrites, RowsBecome DEF Types
  <1> QED BY <1>1, <1>2 DEF Becomes, list_videos

\* What others store or delete leaves true what a sync knows of its row.
LEMMA StoredStays ==
    ASSUME LibraryAssumption, Types, PartsInv, ShelvesInv, NEW o \in Op, Step(o),
           NEW u \in Op, Stored(u), u # o
    PROVE  Stored(u)'
  <1>0. loc'[u] = loc[u] /\ pc'[u] = pc[u] /\ kind'[u] = kind[u] /\ loc[u] \in Local
    BY StepMoves, OpKnows DEF Moves, Types
  <1>1. SUFFICES ASSUME kind[u] \in Syncs, loc[u].row \in list_videos'
                 PROVE  Stored(u)'
    BY <1>0 DEF Stored
  <1>2. loc[u].row \in list_videos /\ loc[u].row \in RowId /\ videos'[loc[u].row] # "gone"
    <2>1. loc[u].row # None
      BY <1>1 DEF list_videos, LibraryAssumption
    <2>2. videos[loc[u].row] # "free"
      BY <2>1 DEF ShelvesInv, OnShelf, Shelf, LibraryAssumption
    <2> QED BY <1>1, <2>2, WasListed
  <1> DEFINE r0 == loc[u].row
  <1>3. PICK r \in RowId : r = r0
    BY <1>2
  <1>4. Whole(r) => Whole(r)'
    BY <1>2, <1>3, WholeStays
  <1>5. ASSUME NEW p, PartOf(r, u, p, FALSE) \in chunks
        PROVE  PartOf(r, u, p, FALSE) \in chunks' \/ Whole(r)'
    <2>1. PartOf(r, u, p, FALSE).row = r
      BY DEF PartOf
    <2> QED BY <1>2, <1>3, <1>5, <2>1, ChunkStays
  <1>6. Stored(u)' = (/\ pc[u] = "lookup" => r = None
                      /\ pc[u] = "store" /\ r \in list_videos' =>
                            \/ Whole(r)'
                            \/ \A p \in 1..(loc[u].part - 1) : PartOf(r, u, p, FALSE) \in chunks'
                      /\ pc[u] = "mark" /\ loc[u].outcome = "ingested" /\ r \in list_videos' =>
                            Whole(r)')
    BY ZenonT(60), <1>0, <1>1, <1>3 DEF Stored, PartOf, Whole, Full
  <1> QED BY <1>1, <1>2, <1>3, <1>4, <1>5, <1>6 DEF Stored

LEMMA EntryStays ==
    ASSUME LibraryAssumption, Types, PartsInv, NEW o \in Op, Step(o),
           NEW e \in Entry, EntryWhole(e)
    PROVE  EntryWhole(e)'
  <1>1. e.row \in RowId \cup {None}
    BY DEF Entry
  <1>2. e.row # None => videos'[e.row] # "free"
    BY <1>1, StepWrites, RowsBecome DEF EntryWhole, Becomes, Types
  <1>3. ASSUME e.status = "ingested", e.row \in list_videos'
        PROVE  Whole(e.row)'
    <2>1. e.row # None
      BY <1>3 DEF list_videos, LibraryAssumption
    <2>2. e.row \in list_videos /\ e.row \in RowId /\ videos'[e.row] # "gone"
      BY <1>3, <2>1, WasListed DEF EntryWhole
    <2> QED BY <1>3, <2>2, WholeStays DEF EntryWhole
  <1> QED BY <1>2, <1>3 DEF EntryWhole

\* Steps after which a sync claims nothing of its row.
LEMMA StoredElsewhere ==
    ASSUME NEW o \in Op, kind'[o] = kind[o], pc'[o] \notin {"lookup", "store", "mark"}
    PROVE  Stored(o)'
  BY DEF Stored

LEMMA FailStored ==
    ASSUME Ops, NEW o \in Op, Fail(o), kind' = kind
    PROVE  Stored(o)'
  <1>1. CASE kind[o] \in Syncs
    <2>1. /\ Goto(o, "mark")
          /\ Keeps(o, [loc[o] EXCEPT !.error = @ + 1, !.outcome = "error"])
      BY <1>1 DEF Fail, Syncs
    <2>2. pc'[o] = "mark" /\ loc'[o].outcome = "error"
      BY <2>1, OpKnows DEF Goto, Keeps, Ops, Local
    <2> QED BY <2>2 DEF Stored
  <1> QED BY <1>1 DEF Stored

LEMMA SyncStored ==
    ASSUME LibraryAssumption, Types, PartsInv, ShelvesInv, StoredInv,
           NEW o \in Op, Sync(o)
    PROVE  Stored(o)'
  <1>0. /\ loc[o] \in Local /\ Fits(kind[o], pc[o], loc[o]) /\ Stored(o)
        /\ pc \in [Op -> Label] /\ loc \in [Op -> Local] /\ Ops
        /\ Step(o) /\ kind' = kind
    BY OpKnows, StepMoves DEF Types, Ops, StoredInv, Step, Moves
  <1>1. CASE SyncBegins(o) \/ EnumerateFails(o) \/ Enumerates(o) \/ TakesKnown(o)
             \/ FindsNew(o) \/ SyncFetches(o) \/ SyncCreates(o) \/ MarksVideo(o)
             \/ LoopRaises(o) \/ LoopEnds(o) \/ ClosesRun(o)
    <2>1. pc'[o] \notin {"lookup", "store", "mark"}
      BY <1>0, <1>1 DEF SyncBegins, EnumerateFails, Enumerates, TakesKnown, FindsNew,
         SyncFetches, SyncCreates, MarksVideo, LoopRaises, LoopEnds, ClosesRun, Goto
    <2> QED BY <1>0, <2>1, StoredElsewhere
  <1>2. CASE SyncFetchFails(o) \/ SyncCreateFails(o) \/ SyncEmbedFails(o) \/ SyncStoreFails(o)
    BY <1>0, <1>2, FailStored DEF SyncFetchFails, SyncCreateFails, SyncEmbedFails, SyncStoreFails
  <1>3. CASE NextVideo(o)
    <2>1. pc'[o] = "lookup" /\ loc'[o].row = None
      BY <1>0, <1>3 DEF NextVideo, Goto, Keeps, Local
    <2> QED BY <2>1 DEF Stored
  <1>4. CASE SkipsKnown(o)
    <2>1. pc[o] = "lookup" /\ kind[o] \in Syncs /\ pc'[o] = "mark" /\ loc'[o].row = loc[o].row
      BY <1>0, <1>4 DEF SkipsKnown, At, Syncs, Goto, Keeps, Local
    <2>2. loc'[o].row \notin list_videos'
      BY <1>0, <2>1 DEF Stored, list_videos, LibraryAssumption
    <2> QED BY <2>1, <2>2 DEF Stored
  <1>5. CASE SyncEmbeds(o)
    <2>1. /\ pc[o] = "embed" /\ kind[o] # "lessons" /\ pc'[o] \in {"replace", "store"}
          /\ loc' = loc
      BY <1>0, <1>5 DEF SyncEmbeds, At, Syncs, Goto
    <2>2. loc'[o].part = 1
      BY <1>0, <2>1 DEF Fits
    <2> QED BY <2>1, <2>2 DEF Stored
  <1>6. ASSUME SyncStores(o), NEW r \in RowId, r = loc[o].row, ~ Whole(r)',
               NEW p \in 1..loc[o].part
        PROVE  PartOf(r, o, p, FALSE) \in chunks'
    <2>1. /\ r \in list_videos /\ pc[o] = "store" /\ kind[o] \in Syncs /\ videos' = videos
          /\ chunks' = chunks \cup {PartOf(r, o, loc[o].part, FALSE)}
          /\ loc[o].part \in Nat
      BY <1>0, <1>6 DEF SyncStores, create_chunk, At, Local
    <2>2. ~ Whole(r)
      BY <1>6, <2>1 DEF Whole, Full, PartOf
    <2>3. CASE p = loc[o].part
      BY <2>1, <2>3
    <2>4. CASE p # loc[o].part
      <3>1. p \in 1..(loc[o].part - 1)
        BY <2>1, <2>4
      <3> QED BY <1>0, <1>6, <2>1, <2>2, <3>1 DEF Stored
    <2> QED BY <2>3, <2>4
  <1>7. CASE SyncStores(o)
    <2>1. PICK r \in RowId : r = loc[o].row
      BY <1>7 DEF SyncStores, create_chunk, list_videos
    <2>5. loc[o].part < Parts => loc'[o].row = r
      <3> SUFFICES ASSUME loc[o].part < Parts PROVE loc'[o].row = r
        OBVIOUS
      <3>1. Keeps(o, [loc[o] EXCEPT !.part = loc[o].part + 1])
        BY <1>7 DEF SyncStores
      <3> QED BY <1>0, <2>1, <3>1 DEF Keeps, Local
    <2>6. ~ (loc[o].part < Parts) => loc'[o].row = r
      <3> SUFFICES ASSUME ~ (loc[o].part < Parts) PROVE loc'[o].row = r
        OBVIOUS
      <3>1. Keeps(o, [loc[o] EXCEPT !.new = @ + 1, !.outcome = "ingested"])
        BY <1>7 DEF SyncStores
      <3> QED BY <1>0, <2>1, <3>1 DEF Keeps, Local
    <2>2. loc'[o].row = r /\ kind'[o] = kind[o]
      <3>1. loc'[o].row = r
        BY <1>0, <2>1, <2>5, <2>6 DEF Keeps
      <3> QED BY <1>0, <3>1
    <2>3. CASE loc[o].part < Parts
      <3>1. pc'[o] = "store" /\ loc'[o].part = loc[o].part + 1
        BY <1>0, <1>7, <2>3 DEF SyncStores, Keeps, Local, At
      <3>2. ~ Whole(r)' => \A p \in 1..loc[o].part : PartOf(r, o, p, FALSE) \in chunks'
        BY <1>6, <1>7, <2>1
      <3>3. loc'[o].part - 1 = loc[o].part
        BY <1>0, <3>1 DEF Local
      <3>4. Stored(o)' = (r \in list_videos' /\ kind[o] \in Syncs =>
                            \/ Whole(r)'
                            \/ \A p \in 1..loc[o].part : PartOf(r, o, p, FALSE) \in chunks')
        BY <2>2, <3>1, <3>3 DEF Stored, PartOf, Whole, Full
      <3> QED BY <3>2, <3>4
    <2>4. CASE ~ (loc[o].part < Parts)
      <3>1. pc'[o] = "mark" /\ pc[o] = "store"
        BY <1>0, <1>7, <2>4 DEF SyncStores, Goto, At
      <3>2. loc[o].part = Parts
        BY <1>0, <2>4, <3>1 DEF Fits, Local, LibraryAssumption
      <3>3. ~ Whole(r)' => \A p \in 1..Parts : PartOf(r, o, p, FALSE) \in chunks'
        BY <1>6, <1>7, <2>1, <3>2
      <3>4. Whole(r)'
        <4>1. ~ Whole(r)' => Full(r, o, FALSE) \subseteq chunks'
          BY <3>3 DEF Full, PartOf
        <4>2. Full(r, o, FALSE) \subseteq chunks' => Whole(r)'
          BY DEF Whole, Full, PartOf
        <4> QED BY <4>1, <4>2
      <3> QED BY <2>2, <3>1, <3>4 DEF Stored, Whole, Full, PartOf
    <2> QED BY <2>3, <2>4
  <1>8. CASE SyncReplaces(o)
    <2>1. PICK r \in RowId : r = loc[o].row
      BY <1>8 DEF SyncReplaces, replace_chunks_for_video, list_videos
    <2>2. loc'[o].row = r /\ pc'[o] = "mark"
      BY <1>0, <1>8, <2>1 DEF SyncReplaces, Keeps, Goto, Local
    <2>3. Full(r, o, TRUE) \subseteq chunks'
      BY <1>8, <2>1 DEF SyncReplaces, replace_chunks_for_video
    <2>4. Whole(r)'
      BY <2>3 DEF Whole, Full, PartOf
    <2> QED BY <2>2, <2>4 DEF Stored, Whole, Full, PartOf
  <1> QED BY <1>1, <1>2, <1>3, <1>4, <1>5, <1>7, <1>8 DEF Sync

\* So does every other step of an operation.
LEMMA StoredMoves ==
    ASSUME LibraryAssumption, Types, PartsInv, ShelvesInv, StoredInv,
           NEW o \in Op, Step(o), NEW u \in Op
    PROVE  Stored(u)'
  <1>1. CASE u # o
    BY <1>1, StoredStays DEF StoredInv
  <1>2. CASE u = o /\ Sync(o)
    BY <1>2, SyncStored
  <1>3. CASE u = o /\ kind[o] \notin Syncs
    <2>1. kind'[o] = kind[o]
      BY StepMoves DEF Moves, Types
    <2> QED BY <1>3, <2>1 DEF Stored
  <1>4. CASE u = o /\ kind[o] \in Syncs /\ ~ Sync(o)
    <2>1. ReplaceBegins(o)
      BY <1>4 DEF Step, Admin, Ingest, Sweep, At, Syncs, Ingests,
         AddBegins, ResyncBegins, AdminFetches, AdminFetchFails, AdminEmbeds,
         AlreadyInLibrary, NotInLibrary, AddCreates, AdminReplaces, AdminStoreFails,
         DeletesVideo, IngestBegins, UrlFetches, IngestCreates, IngestHasNoChunks,
         IngestEmbeds, JsonEmbedFails, UrlEmbedFails, IngestStores, IngestStoreFails,
         IngestFinally, SweepBegins, LessonUnchanged, LessonChanged, LessonEmbeds,
         LessonInserted, LessonReplaced, LessonFails,
         LessonIsBlank, SweepEnds
    <2>2. pc'[o] = "commit" /\ kind'[o] = kind[o]
      BY <2>1 DEF ReplaceBegins, Goto, Types, Ops
    <2> QED BY <1>4, <2>2, StoredElsewhere
  <1> QED BY <1>1, <1>2, <1>3, <1>4

\* The records of the runs: what is marked as ingested is whole.
LEMMA EntriesMove ==
    ASSUME LibraryAssumption, Types, PartsInv, ShelvesInv, StoredInv,
           NEW o \in Op, Step(o), NEW u \in Op, NEW i \in DOMAIN entry'[u]
    PROVE  EntryWhole(entry[u][i])'
  <1>0. entry \in [Op -> Seq(Entry)]
    BY DEF Types, Records
  <1>1. ASSUME NEW e \in Entry, e = entry'[u][i], EntryWhole(e)'
        PROVE  EntryWhole(entry[u][i])'
    BY <1>1 DEF EntryWhole, Whole, Full, PartOf
  <1>2. CASE entry'[u] = entry[u]
    <2>1. PICK e \in Entry : e = entry[u][i]
      BY <1>0, <1>2
    <2>2. EntryWhole(e)'
      BY <1>2, <2>1, EntryStays DEF StoredInv
    <2> QED BY <1>1, <1>2, <2>1, <2>2
  <1>3. CASE u = o /\ NextVideo(o)
    <2> DEFINE new == [title |-> Channel[loc[o].i], status |-> "pending", row |-> None]
    <2>1. entry'[o] = Append(entry[o], new)
      BY <1>0, <1>3 DEF NextVideo, create_sync_video
    <2>2. i \in DOMAIN entry[o] \/ i = Len(entry[o]) + 1
      BY <1>0, <1>3, <2>1
    <2>3. CASE i \in DOMAIN entry[o]
      <3>1. PICK e \in Entry : e = entry[o][i]
        BY <1>0, <2>3
      <3>2. e = entry'[o][i]
        BY <1>0, <2>1, <2>3, <3>1
      <3>3. EntryWhole(e)'
        BY <2>3, <3>1, EntryStays DEF StoredInv
      <3> QED BY <1>1, <1>3, <3>2, <3>3
    <2>4. CASE i = Len(entry[o]) + 1
      <3>1. entry'[o][i] = new
        BY <1>0, <2>1, <2>4
      <3> QED BY <1>3, <3>1 DEF EntryWhole
    <2> QED BY <2>2, <2>3, <2>4
  <1>4. CASE u = o /\ MarksVideo(o)
    <2> DEFINE n == Len(entry[o])
    <2>1. /\ entry'[o] = [entry[o] EXCEPT ![n] = [@ EXCEPT !.status = loc[o].outcome,
                                                            !.row = loc[o].row]]
          /\ UNCHANGED db /\ pc[o] = "mark" /\ kind[o] \in Syncs
      BY <1>0, <1>4 DEF MarksVideo, update_sync_video_status, At
    <2>2. i \in DOMAIN entry[o] /\ i \in 1..n
      BY <1>0, <1>4, <2>1
    <2>3. CASE i # n
      <3>1. PICK e \in Entry : e = entry[o][i]
        BY <1>0, <2>2
      <3>2. e = entry'[o][i]
        BY <1>0, <2>1, <2>2, <2>3, <3>1
      <3>3. EntryWhole(e)'
        BY <2>2, <3>1, EntryStays DEF StoredInv
      <3> QED BY <1>1, <1>4, <3>2, <3>3
    <2>4. CASE i = n
      <3>1. entry[o][n] \in Entry
        BY <1>0, <2>2, <2>4
      <3>2. entry'[o][i].status = loc[o].outcome /\ entry'[o][i].row = loc[o].row
        BY <1>0, <2>1, <2>2, <2>4, <3>1 DEF Entry
      <3>3. loc[o].row # None => videos[loc[o].row] # "free"
        BY DEF ShelvesInv, OnShelf, Shelf, LibraryAssumption
      <3>4. loc[o].outcome = "ingested" /\ loc[o].row \in list_videos => Whole(loc[o].row)
        BY <2>1 DEF StoredInv, Stored
      <3> QED BY <1>4, <2>1, <3>2, <3>3, <3>4
              DEF EntryWhole, Whole, Full, PartOf, list_videos, db
    <2> QED BY <2>3, <2>4
  <1>5. CASE ~ (u = o /\ (NextVideo(o) \/ MarksVideo(o)))
    <2>1. entry'[u] = entry[u]
      <3>1. CASE u # o
        BY <3>1, RecordsMove
      <3>2. CASE history' = history
        BY <3>2 DEF history
      <3>3. CASE u = o /\ Sync(o)
        BY <1>5, <3>3 DEF Sync, SyncBegins, EnumerateFails, Enumerates, SkipsKnown,
           TakesKnown, FindsNew, SyncFetches, SyncFetchFails, SyncCreates,
           SyncCreateFails, SyncEmbeds, SyncEmbedFails, SyncStores, SyncReplaces,
           SyncStoreFails, LoopRaises, LoopEnds, ClosesRun, history
      <3> QED BY <3>1, <3>2, <3>3, RecordsMove
    <2> QED BY <1>2, <2>1
  <1> QED BY <1>3, <1>4, <1>5

LEMMA StoredInit == LibraryAssumption /\ Init => StoredInv
  <1> SUFFICES ASSUME LibraryAssumption, Init PROVE StoredInv
    OBVIOUS
  <1>1. IsFiniteSet(chunks)
    BY FullCounts, FS_EmptySet DEF Init
  <1>2. \A o \in Op : pc[o] = "new" /\ entry[o] = <<>>
    BY DEF Init
  <1>3. \A o \in Op : Stored(o)
    BY <1>2 DEF Stored
  <1>4. \A o \in Op : DOMAIN entry[o] = {}
    BY <1>2
  <1> QED BY <1>1, <1>3, <1>4 DEF StoredInv

THEOREM StoredHolds == Spec => []StoredInv
  <1>1. ASSUME StoredInv, Rests PROVE StoredInv'
    <2>1. list_videos' = list_videos /\ chunks' = chunks
      BY <1>1, RestsAreRows
    <2>2. ASSUME NEW o \in Op PROVE Stored(o)'
      BY <1>1, <2>1 DEF StoredInv, Stored, Rests, Whole, Full, PartOf
    <2>3. ASSUME NEW o \in Op, NEW i \in DOMAIN entry'[o] PROVE EntryWhole(entry[o][i])'
      BY <1>1, <2>1 DEF StoredInv, EntryWhole, Rests, Whole, Full, PartOf, db, history
    <2> QED BY <1>1, <2>1, <2>2, <2>3 DEF StoredInv
  <1>2. ASSUME LibraryAssumption, Types, PartsInv, ShelvesInv, StoredInv,
               NEW o \in Op, Step(o)
        PROVE  StoredInv'
    <2>1. IsFiniteSet(chunks')
      BY <1>2, ChunksFinite DEF StoredInv
    <2>2. \A u \in Op : Stored(u)'
      BY <1>2, StoredMoves
    <2>3. \A u \in Op : \A i \in DOMAIN entry'[u] : EntryWhole(entry[u][i])'
      BY <1>2, EntriesMove
    <2> QED BY <2>1, <2>2, <2>3 DEF StoredInv
  <1>3. Types /\ PartsInv /\ ShelvesInv /\ StoredInv /\ [Next]_vars => StoredInv'
    BY <1>1, <1>2, OtherSteps, LibraryAssumption
  <1> QED BY <1>3, StoredInit, LibraryTypes, PartsHold, ShelvesHold, LibraryAssumption, PTL DEF Spec

\* A video that a sync recorded as ingested can be searched in full until it is
\* deleted, even if a re-sync replaced what the sync had stored so far; the chunk
\* count of the admin listing says so too (channels.py:282).
THEOREM IngestedStaysWhole == Spec => []IngestedIsWhole
  <1>1. StoredInv => IngestedIsWhole
    BY WholeCounts, LibraryAssumption DEF StoredInv, IngestedIsWhole, EntryWhole
  <1> QED BY <1>1, StoredHolds, PTL

-----------------------------------------------------------------------------
(* A sweep brings its edition                                              *)

\* No lesson has two rows, and a sweep that writes a lesson knows whether it has
\* one.
OneRow ==
    \A r, s \in list_videos : videos[r] = videos[s] /\ videos[r] \in Lesson => r = s

Sweeping(o) ==
    At(o, "embed", {"lessons"}) \/ At(o, "commit", {"lessons"}) =>
        /\ loc[o].i <= Len(LessonFiles)
        /\ loc[o].title = LessonFiles[loc[o].i]
        /\ loc[o].row = None => \A r \in list_videos : videos[r] # loc[o].title
        /\ loc[o].row \in list_videos => videos[loc[o].row] = loc[o].title

\* The lessons that a sweep has been through have its edition, if none failed,
\* but for those that hold nothing in it.
Brought(o) ==
    kind[o] = "lessons" /\ pc[o] \in {"next", "embed", "commit"} /\ loc[o].error = 0 =>
        \A r \in list_videos : \A j \in 1..Len(LessonFiles) :
            /\ j < loc[o].i /\ videos[r] = LessonFiles[j]
            /\ loc[o].edition \notin Blanks[LessonFiles[j]]
            => hash[r] = loc[o].edition

LessonsInv ==
    /\ OneRow
    /\ \A o \in Op : pc[o] = "new" => loc[o].i = 1
    /\ \A o \in Op : ~ At(o, "replace", {"lessons"})
    /\ \A o \in Op : Sweeping(o)
    /\ \A o \in Op : Brought(o)

\* The rows of the lessons after a step: those that were there, and the one that
\* the step has written.
SameRow(r) == r \in list_videos /\ videos'[r] = videos[r] /\ hash'[r] = hash[r]

LEMMA LessonRows ==
    ASSUME LibraryAssumption, Types, PartsInv, ShelvesInv, NEW o \in Op, Step(o),
           NEW r \in list_videos', videos'[r] \in Lesson
    PROVE  \/ SameRow(r)
           \/ /\ At(o, "commit", {"lessons"}) /\ pc'[o] = "next"
              /\ hash'[r] = loc[o].edition
              /\ \/ LessonInserted(o) /\ videos'[r] = loc[o].title
                 \/ LessonReplaced(o) /\ r = loc[o].row /\ r \in list_videos /\ videos' = videos
  <1>0. /\ DbStep(o) /\ r \in RowId /\ videos'[r] \notin {"free", "gone"}
        /\ videos \in [RowId -> Title \cup {"free", "gone"}]
        /\ hash \in [RowId -> Nat \cup {None}] /\ pc \in [Op -> Label]
    BY StepWrites DEF list_videos, Types, Tables, Ops
  <1>1. CASE UNCHANGED db \/ StoresPart(o) \/ Replaces(o)
    BY <1>0, <1>1 DEF db, StoresPart, Replaces, SameRow, list_videos
  <1>2. CASE Creates(o)
    <2>1. PICK s \in RowId : create_video(s, loc[o].title) /\ hash' = hash
      BY <1>2 DEF Creates
    <2>2. loc[o].title \notin Lesson
      BY <1>2, TitleKnown DEF Creates, Shelf, LibraryAssumption
    <2>3. videos'[s] = loc[o].title /\ \A t \in RowId : t # s => videos'[t] = videos[t]
      BY <1>0, <2>1 DEF create_video
    <2> QED BY <1>0, <2>1, <2>2, <2>3 DEF SameRow, list_videos
  <1>3. ASSUME NEW s \in RowId, Deletes(s) PROVE SameRow(r)
    BY <1>0, <1>3 DEF Deletes, delete_video_cascade, SameRow, list_videos
  <1>4. CASE LessonInserted(o)
    <2>1. PICK s \in RowId : /\ create_video(s, loc[o].title)
                             /\ hash' = [hash EXCEPT ![s] = loc[o].edition]
      BY <1>4 DEF LessonInserted
    <2>2. At(o, "commit", {"lessons"}) /\ pc'[o] = "next"
      BY <1>0, <1>4 DEF LessonInserted, Goto
    <2>3. /\ videos'[s] = loc[o].title /\ hash'[s] = loc[o].edition
          /\ \A t \in RowId : t # s => videos'[t] = videos[t] /\ hash'[t] = hash[t]
      BY <1>0, <2>1 DEF create_video
    <2> QED BY <1>0, <1>4, <2>2, <2>3 DEF SameRow, list_videos
  <1>5. CASE LessonReplaced(o)
    <2>1. /\ loc[o].row \in list_videos /\ loc[o].row \in RowId /\ videos' = videos
          /\ hash' = [hash EXCEPT ![loc[o].row] = loc[o].edition]
      BY <1>5 DEF LessonReplaced, replace_chunks_for_video, list_videos
    <2>2. At(o, "commit", {"lessons"}) /\ pc'[o] = "next"
      BY <1>0, <1>5 DEF LessonReplaced, Goto
    <2> QED BY <1>0, <1>5, <2>1, <2>2 DEF SameRow, list_videos
  <1> QED BY <1>0, <1>1, <1>2, <1>3, <1>4, <1>5 DEF DbStep

LEMMA OneRowStep ==
    ASSUME LibraryAssumption, Types, PartsInv, ShelvesInv, LessonsInv, NEW o \in Op, Step(o)
    PROVE  OneRow'
  <1>0. videos \in [RowId -> Title \cup {"free", "gone"}] /\ loc[o] \in Local
    BY OpKnows DEF Types, Tables
  <1>1. SUFFICES ASSUME NEW r \in list_videos', NEW s \in list_videos',
                        videos'[r] = videos'[s], videos'[r] \in Lesson
                 PROVE  r = s
    BY DEF OneRow
  <1>2. CASE LessonInserted(o)
    <2>1. PICK t \in RowId : create_video(t, loc[o].title)
      BY <1>2 DEF LessonInserted
    <2>2. loc[o].row = None /\ At(o, "commit", {"lessons"})
      BY <1>2 DEF LessonInserted
    <2>3. \A q \in list_videos : videos[q] # loc[o].title
      BY <2>2 DEF LessonsInv, Sweeping
    <2>5. /\ videos'[t] = loc[o].title
          /\ \A q \in RowId : q # t => videos'[q] = videos[q]
      BY <1>0, <2>1 DEF create_video
    <2>4. \A q \in list_videos' : q = t \/ (q \in list_videos /\ videos'[q] = videos[q])
      <3> SUFFICES ASSUME NEW q \in list_videos', q # t
                   PROVE  q \in list_videos /\ videos'[q] = videos[q]
        OBVIOUS
      <3>1. q \in RowId /\ videos'[q] \notin {"free", "gone"}
        BY DEF list_videos
      <3> QED BY <2>5, <3>1 DEF list_videos
    <2> QED BY <1>1, <2>3, <2>4, <2>5 DEF LessonsInv, OneRow
  <1>3. CASE ~ LessonInserted(o)
    <2>1. \A q \in list_videos' : videos'[q] \in Lesson =>
             q \in list_videos /\ videos'[q] = videos[q]
      BY <1>3, LessonRows DEF SameRow
    <2> QED BY <1>1, <2>1 DEF LessonsInv, OneRow
  <1> QED BY <1>2, <1>3

\* A sweep that waits is not disturbed: the others write no lesson.
LEMMA OthersSweep ==
    ASSUME LibraryAssumption, Types, PartsInv, ShelvesInv, HashInv, LessonsInv,
           NEW o \in Op, Step(o), NEW u \in Op, u # o
    PROVE  Sweeping(u)' /\ Brought(u)'
  <1>0. /\ loc'[u] = loc[u] /\ pc'[u] = pc[u] /\ kind'[u] = kind[u]
        /\ loc[u] \in Local /\ Fits(kind[u], pc[u], loc[u])
    BY StepMoves, OpKnows DEF Moves, Types
  <1>1. SUFFICES ASSUME kind[u] = "lessons", pc[u] \in {"next", "embed", "commit"}
                 PROVE  Sweeping(u)' /\ Brought(u)'
    BY <1>0 DEF Sweeping, Brought, At
  <1>2. ~ At(o, "commit", {"lessons"})
    BY <1>1 DEF At, HashInv, OneSweep, Busy
  <1>3. \A r \in list_videos' : videos'[r] \in Lesson => SameRow(r)
    BY <1>2, LessonRows
  <1>4. Sweeping(u)'
    <2>1. SUFFICES ASSUME pc[u] \in {"embed", "commit"} PROVE Sweeping(u)'
      BY <1>0 DEF Sweeping, At
    <2>2. /\ loc[u].i <= Len(LessonFiles)
          /\ loc[u].title = LessonFiles[loc[u].i]
          /\ loc[u].row = None => \A r \in list_videos : videos[r] # loc[u].title
          /\ loc[u].row \in list_videos => videos[loc[u].row] = loc[u].title
      BY <1>1, <2>1 DEF LessonsInv, Sweeping, At
    <2>3. loc[u].title \in Lesson
      <3>1. loc[u].i \in 1..Len(LessonFiles)
        BY <1>0, <2>2 DEF Fits, Local, LibraryAssumption
      <3> QED BY <2>2, <3>1, LessonFileIsLesson
    <2>4. loc[u].row = None => \A r \in list_videos' : videos'[r] # loc[u].title
      BY <1>3, <2>2, <2>3 DEF SameRow
    <2>5. loc[u].row \in list_videos' => videos'[loc[u].row] = loc[u].title
      <3>1. SUFFICES ASSUME loc[u].row \in list_videos' PROVE videos'[loc[u].row] = loc[u].title
        OBVIOUS
      <3>2. loc[u].row \in RowId /\ videos'[loc[u].row] \notin {"free", "gone"}
        BY <3>1 DEF list_videos
      <3>3. videos[loc[u].row] \in Lesson \cup {"gone"}
        BY <1>1, <3>2 DEF ShelvesInv, OnShelf, Shelf, LibraryAssumption
      <3>4. videos'[loc[u].row] = videos[loc[u].row]
        BY <3>2, <3>3, StepWrites, RowsBecome DEF Becomes, Types, LibraryAssumption
      <3>5. SameRow(loc[u].row)
        BY <1>3, <3>1, <3>2, <3>3, <3>4
      <3> QED BY <2>2, <3>4, <3>5 DEF SameRow
    <2> QED BY <1>0, <2>2, <2>4, <2>5 DEF Sweeping
  <1>5. Brought(u)'
    <2>1. SUFFICES ASSUME loc[u].error = 0, NEW r \in list_videos',
                          NEW j \in 1..Len(LessonFiles), j < loc[u].i,
                          videos'[r] = LessonFiles[j],
                          loc[u].edition \notin Blanks[LessonFiles[j]]
                   PROVE  hash'[r] = loc[u].edition
      BY <1>0 DEF Brought
    <2>2. videos'[r] \in Lesson
      BY <2>1, LessonFileIsLesson
    <2> QED BY <1>1, <1>3, <2>1, <2>2 DEF SameRow, LessonsInv, Brought
  <1> QED BY <1>4, <1>5

LEMMA ItSweeps ==
    ASSUME LibraryAssumption, Types, PartsInv, ShelvesInv, LessonsInv,
           NEW o \in Op, Step(o), kind[o] = "lessons"
    PROVE  Sweeping(o)' /\ Brought(o)' /\ pc'[o] # "replace"
  <1>0. /\ loc[o] \in Local /\ Fits(kind[o], pc[o], loc[o])
        /\ pc[o] # "replace" /\ pc \in [Op -> Label] /\ loc \in [Op -> Local] /\ Ops
        /\ kind' = kind /\ Sweeping(o) /\ Brought(o)
        /\ videos \in [RowId -> Title \cup {"free", "gone"}]
    BY StepMoves, OpKnows DEF Moves, Types, Ops, LessonsInv, Tables, At
  <1>1. Sweep(o)
    BY <1>0, SweepSteps DEF ReplaceBegins
  <1>2. CASE SweepBegins(o)
    <2>1. pc[o] = "new" /\ loc[o].i = 1
      BY <1>2 DEF SweepBegins, At, LessonsInv
    <2>2. PICK e \in Editions : Keeps(o, [loc[o] EXCEPT !.edition = e])
      BY <1>2 DEF SweepBegins
    <2>3. loc'[o].i = 1 /\ pc'[o] = "next"
      BY <1>0, <1>2, <2>1, <2>2 DEF SweepBegins, Keeps, Goto, Local
    <2> QED BY <2>3 DEF Sweeping, Brought, At
  <1>3. CASE LessonUnchanged(o)
    <2>1. /\ pc'[o] = "next" /\ pc[o] = "next" /\ db' = db
          /\ loc'[o].i = loc[o].i + 1 /\ loc'[o].edition = loc[o].edition
          /\ loc'[o].error = loc[o].error /\ loc[o].i \in Nat
      BY <1>0, <1>3 DEF LessonUnchanged, Keeps, At, Local
    <2>2. PICK s \in RowId : /\ videos[s] = LessonFiles[loc[o].i]
                             /\ hash[s] = loc[o].edition
      BY <1>3 DEF LessonUnchanged, get_video_by_youtube_id
    <2>3. ASSUME NEW r \in list_videos, loc[o].i \in 1..Len(LessonFiles),
                 videos[r] = LessonFiles[loc[o].i]
          PROVE  hash[r] = loc[o].edition
      <3>1. videos[r] \in Lesson /\ videos[s] = videos[r] /\ r \in RowId
        BY <2>2, <2>3, LessonFileIsLesson DEF list_videos
      <3>2. s \in list_videos
        BY <2>2, <2>3, <3>1 DEF list_videos
      <3> QED BY <2>2, <3>1, <3>2 DEF LessonsInv, OneRow
    <2>4. ASSUME NEW r \in list_videos, NEW j \in 1..Len(LessonFiles),
                 j < loc'[o].i, videos[r] = LessonFiles[j], loc[o].error = 0,
                 loc[o].edition \notin Blanks[LessonFiles[j]]
          PROVE  hash[r] = loc[o].edition
      <3>1. j = loc[o].i \/ j < loc[o].i
        BY <2>1, <2>4 DEF LibraryAssumption
      <3> QED BY <1>0, <2>1, <2>3, <2>4, <3>1 DEF Brought
    <2>5. Sweeping(o)'
      BY <2>1 DEF Sweeping, At
    <2>6. list_videos' = list_videos
      BY <2>1 DEF list_videos, db
    <2> QED BY <2>1, <2>4, <2>5, <2>6 DEF Brought, db
  <1>4. CASE LessonChanged(o)
    <2> DEFINE file == LessonFiles[loc[o].i]
    <2>1. /\ pc'[o] = "embed" /\ pc[o] = "next" /\ db' = db
          /\ loc[o].i <= Len(LessonFiles)
      BY <1>0, <1>4 DEF LessonChanged, At, Goto
    <2>2. PICK r \in RowId \cup {None} :
             /\ r # None => videos[r] = file
             /\ r = None => get_video_by_youtube_id(file) = {}
             /\ Keeps(o, [loc[o] EXCEPT !.title = file, !.row = r])
      BY <1>4 DEF LessonChanged, get_video_by_youtube_id, LibraryAssumption
    <2>3. /\ loc'[o].i = loc[o].i /\ loc'[o].edition = loc[o].edition
          /\ loc'[o].error = loc[o].error
          /\ loc'[o].title = file /\ loc'[o].row = r
      BY <1>0, <2>2 DEF Keeps, Local
    <2>4. list_videos' = list_videos
      BY <2>1 DEF list_videos, db
    <2>5. Brought(o)'
      BY <1>0, <2>1, <2>3, <2>4 DEF Brought, db
    <2>6. r = None => \A q \in list_videos : videos[q] # file
      BY <2>2 DEF get_video_by_youtube_id, list_videos
    <2>7. r \in list_videos => videos[r] = file
      BY <2>2 DEF list_videos, LibraryAssumption
    <2> QED BY <2>1, <2>3, <2>4, <2>5, <2>6, <2>7 DEF Sweeping, db
  <1>5. CASE LessonEmbeds(o)
    <2>1. /\ pc'[o] = "commit" /\ At(o, "embed", {"lessons"}) /\ db' = db
          /\ loc' = loc \/ Keeps(o, [loc[o] EXCEPT !.snap = Of(loc[o].row)])
      BY <1>0, <1>5 DEF LessonEmbeds, Goto
    <2>2. /\ loc'[o].i = loc[o].i /\ loc'[o].edition = loc[o].edition
          /\ loc'[o].error = loc[o].error
          /\ loc'[o].title = loc[o].title /\ loc'[o].row = loc[o].row
      BY <1>0, <2>1 DEF Keeps, Local
    <2>3. list_videos' = list_videos
      BY <2>1 DEF list_videos, db
    <2> QED BY <1>0, <2>1, <2>2, <2>3 DEF Sweeping, Brought, At, db
  <1>6. CASE LessonInserted(o) \/ LessonReplaced(o)
    <2>1. /\ pc'[o] = "next" /\ At(o, "commit", {"lessons"})
          /\ Keeps(o, [loc[o] EXCEPT !.i = @ + 1])
      BY <1>0, <1>6 DEF LessonInserted, LessonReplaced, Goto
    <2>2. /\ loc'[o].i = loc[o].i + 1 /\ loc'[o].edition = loc[o].edition
          /\ loc'[o].error = loc[o].error /\ loc[o].i \in Nat
      BY <1>0, <2>1 DEF Keeps, Local
    <2>3. /\ loc[o].title = LessonFiles[loc[o].i]
          /\ loc[o].row = None => \A r \in list_videos : videos[r] # loc[o].title
          /\ loc[o].row \in list_videos => videos[loc[o].row] = loc[o].title
      BY <1>0, <2>1 DEF Sweeping
    <2>4. ASSUME NEW r \in list_videos', NEW j \in 1..Len(LessonFiles),
                 j < loc'[o].i, videos'[r] = LessonFiles[j], loc[o].error = 0,
                 loc[o].edition \notin Blanks[LessonFiles[j]]
          PROVE  hash'[r] = loc[o].edition
      <3>1. j = loc[o].i \/ j < loc[o].i
        BY <2>2, <2>4 DEF LibraryAssumption
      <3>2. videos'[r] \in Lesson
        BY <2>4, LessonFileIsLesson
      <3>3. CASE SameRow(r) /\ j < loc[o].i
        BY <1>0, <2>1, <2>4, <3>3 DEF SameRow, Brought, At
      <3>4. CASE SameRow(r) /\ j = loc[o].i
        <4>1. videos[r] = loc[o].title /\ r \in list_videos
          BY <2>3, <2>4, <3>4 DEF SameRow
        <4>2. /\ LessonReplaced(o) /\ loc[o].row \in list_videos
              /\ hash' = [hash EXCEPT ![loc[o].row] = loc[o].edition]
          BY <1>6, <2>3, <4>1 DEF LessonInserted, LessonReplaced, replace_chunks_for_video
        <4>3. loc[o].row = r
          BY <2>3, <3>2, <3>4, <4>1, <4>2 DEF LessonsInv, OneRow, SameRow
        <4> QED BY <4>1, <4>2, <4>3 DEF Types, Tables, list_videos
      <3> QED BY <3>1, <3>2, <3>3, <3>4, LessonRows
    <2> QED BY <2>1, <2>2, <2>4 DEF Sweeping, Brought, At
  <1>7. CASE LessonFails(o)
    <2>1. /\ Keeps(o, [loc[o] EXCEPT !.i = @ + 1, !.error = @ + 1])
          /\ Goto(o, "next")
      BY <1>0, <1>7 DEF LessonFails, Fail, Syncs
    <2>2. loc'[o].error = loc[o].error + 1 /\ loc[o].error \in Nat /\ pc'[o] = "next"
      BY <1>0, <2>1 DEF Keeps, Goto, Local
    <2> QED BY <2>2 DEF Sweeping, Brought, At
  <1>8. CASE SweepEnds(o)
    <2>1. pc'[o] = "done"
      BY <1>0, <1>8 DEF SweepEnds, Goto
    <2> QED BY <2>1 DEF Sweeping, Brought, At
  <1>9. CASE LessonIsBlank(o)
    <2>1. /\ pc'[o] = "next" /\ db' = db /\ At(o, "embed", {"lessons"})
          /\ loc[o].edition \in Blanks[loc[o].title]
          /\ loc'[o].i = loc[o].i + 1 /\ loc'[o].edition = loc[o].edition
          /\ loc'[o].error = loc[o].error /\ loc[o].i \in Nat
      BY <1>0, <1>9 DEF LessonIsBlank, Keeps, Goto, Local
    <2>2. loc[o].title = LessonFiles[loc[o].i]
      BY <1>0, <2>1 DEF Sweeping
    <2>3. ASSUME NEW r \in list_videos, NEW j \in 1..Len(LessonFiles),
                 j < loc'[o].i, videos[r] = LessonFiles[j], loc[o].error = 0,
                 loc[o].edition \notin Blanks[LessonFiles[j]]
          PROVE  hash[r] = loc[o].edition
      <3>1. j < loc[o].i
        BY <2>1, <2>2, <2>3 DEF LibraryAssumption
      <3> QED BY <1>0, <2>1, <2>3, <3>1 DEF Brought, At
    <2>4. list_videos' = list_videos
      BY <2>1 DEF list_videos, db
    <2> QED BY <2>1, <2>3, <2>4 DEF Sweeping, Brought, At, db
  <1> QED BY <1>1, <1>2, <1>3, <1>4, <1>5, <1>6, <1>7, <1>8, <1>9 DEF Sweep

LEMMA LessonsRest ==
    ASSUME LessonsInv, Rests PROVE LessonsInv'
  <1>1. list_videos' = list_videos
    BY RestsAreRows
  <1>2. OneRow'
    BY <1>1 DEF LessonsInv, OneRow, Rests, db
  <1>3. ASSUME NEW o \in Op
        PROVE  /\ Sweeping(o)' /\ Brought(o)'
               /\ (pc'[o] = "new" => loc'[o].i = 1) /\ ~ At(o, "replace", {"lessons"})'
    BY <1>1 DEF LessonsInv, Sweeping, Brought, At, Rests, db
  <1> QED BY <1>2, <1>3 DEF LessonsInv

LEMMA LessonsInit == LibraryAssumption /\ Init => LessonsInv
  <1> SUFFICES ASSUME LibraryAssumption, Init PROVE LessonsInv
    OBVIOUS
  <1>1. \A o \in Op : pc[o] = "new" /\ loc[o].i = 1
    BY DEF Init, Blank
  <1>2. \A r, s \in list_videos : r = s
    BY DEF Init, list_videos
  <1> QED BY <1>1, <1>2 DEF LessonsInv, OneRow, Sweeping, Brought, At

\* However the sweeps, the deletions and the failures interleave, no lesson gets
\* two rows, and a sweep that has met no error has brought its edition to every
\* lesson with content that it has been through (dynamous.py:150-248).
THEOREM LessonsHold == Spec => []LessonsInv
  <1>1. ASSUME Types, PartsInv, ShelvesInv, HashInv, LessonsInv, NEW o \in Op, Step(o)
        PROVE  LessonsInv'
    <2>1. OneRow'
      BY <1>1, OneRowStep, LibraryAssumption
    <2>2. ASSUME NEW u \in Op
          PROVE  /\ Sweeping(u)' /\ Brought(u)'
                 /\ (pc'[u] = "new" => loc'[u].i = 1) /\ ~ At(u, "replace", {"lessons"})'
      <3>1. Moves(o)
        BY <1>1, StepMoves DEF Types
      <3>2. pc'[u] = "new" => loc'[u].i = 1
        BY <1>1, <3>1 DEF Moves, LessonsInv
      <3>3. CASE u # o
        <4>1. ~ At(u, "replace", {"lessons"})'
          BY <1>1, <3>1, <3>3 DEF LessonsInv, At, Moves
        <4> QED BY <1>1, <3>2, <3>3, <4>1, OthersSweep, LibraryAssumption
      <3>4. CASE u = o /\ kind[o] = "lessons"
        BY <1>1, <3>2, <3>4, ItSweeps, LibraryAssumption DEF At
      <3>5. CASE u = o /\ kind[o] # "lessons"
        BY <3>1, <3>2, <3>5 DEF Sweeping, Brought, At, Moves
      <3> QED BY <3>3, <3>4, <3>5
    <2> QED BY <2>1, <2>2 DEF LessonsInv
  <1>2. Types /\ PartsInv /\ ShelvesInv /\ HashInv /\ LessonsInv /\ [Next]_vars => LessonsInv'
    BY <1>1, LessonsRest, OtherSteps
  <1> QED BY <1>2, LessonsInit, LibraryTypes, PartsHold, ShelvesHold, HashHolds,
             LibraryAssumption, PTL DEF Spec

\* A sweep that ends without an error leaves every lesson that has a row, and
\* content to chunk in the edition on disk, at that edition; only a lesson that
\* has become blank keeps an older one (dynamous.py:150-248).
THEOREM SweepsBringEdition == Spec => SweepBringsEdition
  <1> DEFINE Ends(o) == /\ At(o, "next", {"lessons"}) /\ pc'[o] = "done"
                        /\ failures' = failures /\ loc[o].error = 0
             Current(o) ==
                \A r \in list_videos :
                   videos[r] \in Lesson /\ loc[o].edition \notin Blanks[videos[r]] =>
                      hash[r] = loc[o].edition
  <1>1. ASSUME Types, LessonsInv, [Next]_vars, NEW o \in Op, Ends(o)
        PROVE  Current(o)
    <2>1. failures \in Nat /\ pc \in [Op -> Label] /\ pc[o] = "next" /\ kind[o] = "lessons" /\ loc[o] \in Local
      BY <1>1, OpKnows DEF Types, Ops, At, LibraryAssumption
    <2>2. ~ ProcessDies
      BY <1>1, <2>1 DEF ProcessDies, Fault
    <2>3. \A q \in Reader : ~ GetCatalog(q)
      BY <1>1, <2>1 DEF GetCatalog, CatalogAsked, CatalogAnswered, CatalogKept
    <2>4. \E u \in Op : Step(u)
      BY <1>1, <2>1, <2>2, <2>3 DEF Next, vars
    <2>5. Step(o)
      BY <1>1, <2>1, <2>4, StepMoves DEF Moves, Types
    <2>6. SweepEnds(o)
      <3>1. ~ LessonFails(o)
        BY <1>1, <2>1 DEF LessonFails, Fault, At
      <3>2. Sweep(o)
        BY <2>1, <2>5, SweepSteps DEF ReplaceBegins
      <3> QED BY <1>1, <2>1, <3>1, <3>2 DEF Sweep, At, Goto, SweepBegins, LessonUnchanged,
         LessonChanged, LessonIsBlank, LessonEmbeds, LessonInserted, LessonReplaced
    <2>7. loc[o].i > Len(LessonFiles) /\ loc[o].i \in Nat /\ Len(LessonFiles) \in Nat
      BY <2>1, <2>6 DEF SweepEnds, Local, LibraryAssumption
    <2>8. ASSUME NEW r \in list_videos, videos[r] \in Lesson,
                 loc[o].edition \notin Blanks[videos[r]]
          PROVE  hash[r] = loc[o].edition
      <3>1. PICK j \in 1..Len(LessonFiles) : videos[r] = LessonFiles[j]
        BY <2>8 DEF Lesson, LibraryAssumption
      <3>2. j < loc[o].i /\ loc[o].edition \notin Blanks[LessonFiles[j]]
        BY <2>7, <2>8, <3>1
      <3>3. Brought(o) /\ loc[o].error = 0
        BY <1>1 DEF LessonsInv
      <3> QED BY <2>1, <2>8, <3>1, <3>2, <3>3 DEF Brought
    <2> QED BY <2>8
  <1>2. Types /\ LessonsInv /\ [Next]_vars => [\A o \in Op : Ends(o) => Current(o)]_vars
    BY <1>1
  <1>3. Types /\ LessonsInv /\ [Next]_vars =>
          [\A o \in Op :
              At(o, "next", {"lessons"}) /\ pc'[o] = "done" /\ failures' = failures
                 /\ loc[o].error = 0 =>
              \A r \in list_videos :
                 videos[r] \in Lesson /\ loc[o].edition \notin Blanks[videos[r]] =>
                    hash[r] = loc[o].edition]_vars
    BY <1>2
  <1> QED BY <1>3, LessonsHold, LibraryTypes, PTL DEF Spec, SweepBringsEdition
=============================================================================
