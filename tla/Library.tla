------------------------------ MODULE Library ------------------------------
(***************************************************************************)
(* The video library: every way a video and its chunks get into the         *)
(* database or out of it, statement by statement, and the catalog that the  *)
(* API process keeps in memory.                                             *)
(*                                                                         *)
(* A request gives way to the others at every database statement.  A        *)
(* scheduled sync is the same code in a process of its own                  *)
(* (scripts/sync_channel.py).  A statement either has its effect or raises; *)
(* what a handler does with the exception is part of the model.             *)
(*                                                                         *)
(* A transcript, its chunks and embeddings are a set of numbered parts;     *)
(* which operation stored a part stands for its content.                    *)
(***************************************************************************)
EXTENDS Naturals, Sequences, FiniteSets

CONSTANTS
    Op,          \* requests and processes that write to the library, once each
    Kinds,       \* what an operation may be in this instance
    RowId,       \* ids of video rows; never used again
    Clip,        \* YouTube videos
    Wanted,      \* those of them that requests ask for
    Channel,     \* the videos that Supadata lists for the channel, in order
    LessonFiles, \* the Dynamous transcripts on disk, in order
    Editions,    \* contents the transcripts may have when a process starts
    Blanks,      \* for each lesson, the editions that yield no chunk
    Parts,       \* chunks of a video
    Reader,      \* chat requests that ask for the catalog
    None,        \* Python's None
    Faults,      \* kinds of failure this instance admits
    MaxFailures  \* bound on failures and process deaths

AllKinds == {"sync", "cron", "force", "add", "resync", "delete", "json", "url",
             "lessons"}
FaultKind == {"supadata", "fetch", "empty", "embed", "store", "db", "death"}
Lesson == {LessonFiles[i] : i \in DOMAIN LessonFiles}

ASSUME LibraryAssumption ==
    /\ Kinds \subseteq AllKinds
    /\ Wanted \subseteq Clip
    /\ Channel \in Seq(Clip)
    /\ LessonFiles \in Seq(Lesson) /\ Lesson \cap Clip = {}
    /\ Editions \subseteq Nat
    /\ Blanks \in [Lesson -> SUBSET Nat]
    /\ Parts \in Nat \ {0}
    /\ Faults \subseteq FaultKind
    /\ MaxFailures \in Nat
    /\ None \notin RowId \cup Op \cup Nat \cup Clip \cup Lesson
    /\ {"free", "gone"} \cap (Clip \cup Lesson) = {}

VARIABLES
    videos,   \* the videos table: the video of a row, "free" or "gone"
    hash,     \* content_hash of a lesson's row
    chunks,   \* the chunks table
    run,      \* channel_sync_runs
    entry,    \* channel_sync_videos of each run
    kind,     \* what each operation is
    pc,       \* its next statement or call
    loc,      \* its local variables
    cat,      \* _catalog_cache of the API process
    reader,   \* get_catalog calls in progress
    known,    \* rows that an invalidation announced while no get_catalog was
              \* in progress
    failures  \* how many there have been

db == <<videos, hash, chunks>>
history == <<run, entry>>
cache == <<cat, reader, known>>
vars == <<videos, hash, chunks, run, entry, kind, pc, loc, cat, reader, known,
          failures>>

-----------------------------------------------------------------------------
(* Types                                                                   *)

\* tx tells a part that a transaction stored together with all the others.
Chunk == [row : RowId, by : Op \cup {None}, part : 1..Parts, tx : BOOLEAN]
Title == Clip \cup Lesson
RunStatus == {"none", "running", "completed", "failed"}
Label == {"new", "enumerate", "next", "lookup", "exists", "fetch", "create",
          "embed", "store", "replace", "commit", "mark", "finally", "close",
          "done"}
Outcome == {"none", "ingested", "error"}
Local == [i : Nat, title : Title \cup {None}, row : RowId \cup {None},
          had : BOOLEAN, edition : Nat, part : Nat, snap : SUBSET Chunk,
          new : Nat, error : Nat, outcome : Outcome]
Blank == [i |-> 1, title |-> None, row |-> None, had |-> FALSE, edition |-> 0,
          part |-> 1, snap |-> {}, new |-> 0, error |-> 0, outcome |-> "none"]
NoRun == [status |-> "none", total |-> 0, new |-> 0, error |-> 0]
Entry == [title : Clip, status : {"pending", "ingested", "error"},
          row : RowId \cup {None}]
Catalog == [list : SUBSET RowId, ok : BOOLEAN]
NotAsking == [at |-> "idle", list |-> {}, ok |-> TRUE]

TypeOK ==
    /\ videos \in [RowId -> Title \cup {"free", "gone"}]
    /\ hash \in [RowId -> Nat \cup {None}]
    /\ chunks \subseteq Chunk
    /\ run \in [Op -> [status : RunStatus, total : Nat, new : Nat, error : Nat]]
    /\ entry \in [Op -> Seq(Entry)]
    /\ kind \in [Op -> Kinds]
    /\ pc \in [Op -> Label]
    /\ loc \in [Op -> Local]
    /\ \A o \in Op : pc[o] \in {"store", "replace", "commit"} =>
          loc[o].row # None \/ kind[o] = "lessons"
    /\ cat \in Catalog \cup {None}
    /\ reader \in [Reader -> [at : {"idle", "asking", "answered"},
                              list : SUBSET RowId, ok : BOOLEAN]]
    /\ known \subseteq RowId
    /\ failures \in 0..MaxFailures

-----------------------------------------------------------------------------
(* db/repository.py                                                        *)

list_videos == {r \in RowId : videos[r] \notin {"free", "gone"}}

get_video_by_youtube_id(c) == {r \in RowId : videos[r] = c}

\* list_videos_admin: a video with the number of its chunks.
Of(r) == {c \in chunks : c.row = r}
chunk_count(r) == Cardinality(Of(r))

create_video(r, title) ==
    /\ videos[r] = "free"
    /\ videos' = [videos EXCEPT ![r] = title]

\* The foreign key cascades to the chunks.
delete_video_cascade(r) ==
    /\ videos' = [videos EXCEPT ![r] = "gone"]
    /\ chunks' = chunks \ Of(r)

PartOf(r, o, p, tx) == [row |-> r, by |-> o, part |-> p, tx |-> tx]
Full(r, o, tx) == {PartOf(r, o, p, tx) : p \in 1..Parts}

\* An insert refers to a row that must still be there.
create_chunk(r, o, p) ==
    /\ r \in list_videos
    /\ chunks' = chunks \cup {PartOf(r, o, p, FALSE)}

\* Mutant of replace_chunks_for_video: each statement commits by itself.
replace_without_transaction(r, o, snap) ==
    /\ r \in list_videos
    /\ chunks' = (chunks \ snap) \cup {PartOf(r, o, 1, TRUE)}

\* One transaction.  Its DELETE sees the chunks that were committed when the
\* statement began (snap); the inserts are seen when it commits.
replace_chunks_for_video(r, o, snap) ==
    /\ r \in list_videos
    /\ chunks' = (chunks \ snap) \cup Full(r, o, TRUE)

create_sync_run(o) == run' = [run EXCEPT ![o].status = "running"]

update_sync_run(o, status, total) ==
    run' = [run EXCEPT ![o] = [status |-> status, total |-> total,
                               new |-> loc[o].new, error |-> loc[o].error]]

create_sync_video(o, c) ==
    entry' = [entry EXCEPT ![o] =
                Append(@, [title |-> c, status |-> "pending", row |-> None])]

\* (The row that was stored is kept for the properties.)
update_sync_video_status(o, status, r) ==
    entry' = [entry EXCEPT ![o][Len(entry[o])] =
                [@ EXCEPT !.status = status, !.row = r]]

-----------------------------------------------------------------------------
(* Helpers                                                                 *)

At(o, l, kinds) == pc[o] = l /\ kind[o] \in kinds
Goto(o, l) == pc' = [pc EXCEPT ![o] = l]
Keeps(o, l) == loc' = [loc EXCEPT ![o] = l]

Syncs == {"sync", "cron", "force"}

\* scripts/sync_channel.py, started by a timer in a process of its own.
Outside(o) == kind[o] = "cron"

\* What the API process has been told, for the properties.
Announce(o) ==
    known' = IF ~ Outside(o) /\ \A q \in Reader : reader[q].at # "answered"
             THEN list_videos ELSE known

\* The cache of the process that runs the operation.
invalidate_catalog(o) ==
    /\ cat' = IF Outside(o) THEN cat ELSE None
    /\ Announce(o)

\* One of these failures happens.
Fault(some) ==
    /\ some \cap Faults # {}
    /\ failures < MaxFailures
    /\ failures' = failures + 1

\* A statement about the row fails, as it must when the row is gone.
FailsOrGone(o) ==
    \/ Fault({"store"})
    \/ loc[o].row \notin list_videos /\ failures' = failures

\* What a failure means: the video of a sync is an error and the loop goes on;
\* so it does for a lesson; any other request ends.
Fail(o) ==
    \/ /\ kind[o] \in Syncs
       /\ Keeps(o, [loc[o] EXCEPT !.error = @ + 1, !.outcome = "error"])
       /\ Goto(o, "mark")
    \/ /\ kind[o] = "lessons"
       /\ Keeps(o, [loc[o] EXCEPT !.i = @ + 1, !.error = @ + 1])
       /\ Goto(o, "next")
    \/ /\ kind[o] \notin Syncs \cup {"lessons"}
       /\ Goto(o, "done")
       /\ loc' = loc

-----------------------------------------------------------------------------
(* routes/channels.py: sync_channel                                         *)

SyncBegins(o) ==
    /\ At(o, "new", Syncs)
    /\ create_sync_run(o)
    /\ Goto(o, "enumerate")
    /\ UNCHANGED <<db, entry, kind, loc, cache, failures>>

EnumerateFails(o) ==
    /\ At(o, "enumerate", Syncs)
    /\ Fault({"supadata"})
    /\ update_sync_run(o, "failed", 0)
    /\ Goto(o, "done")
    /\ UNCHANGED <<db, entry, kind, loc, cache>>

Enumerates(o) ==
    /\ At(o, "enumerate", Syncs)
    /\ Goto(o, "next")
    /\ UNCHANGED <<db, history, kind, loc, cache, failures>>

NextVideo(o) ==
    LET i == loc[o].i
    IN  /\ At(o, "next", Syncs)
        /\ i <= Len(Channel)
        /\ create_sync_video(o, Channel[i])
        /\ Keeps(o, [loc[o] EXCEPT !.title = Channel[i], !.row = None,
                                   !.had = FALSE, !.part = 1, !.snap = {}, !.outcome = "none"])
        /\ Goto(o, "lookup")
        /\ UNCHANGED <<db, run, kind, cache, failures>>

SkipsKnown(o) ==
    /\ At(o, "lookup", {"sync", "cron"})
    /\ get_video_by_youtube_id(loc[o].title) # {}
    /\ Keeps(o, [loc[o] EXCEPT !.new = @ + 1, !.outcome = "ingested"])
    /\ Goto(o, "mark")
    /\ UNCHANGED <<db, history, kind, cache, failures>>

\* A forced sync takes the row it finds; the query has no order.
TakesKnown(o) ==
    /\ At(o, "lookup", {"force"})
    /\ \E r \in get_video_by_youtube_id(loc[o].title) :
          Keeps(o, [loc[o] EXCEPT !.row = r, !.had = TRUE])
    /\ Goto(o, "fetch")
    /\ UNCHANGED <<db, history, kind, cache, failures>>

FindsNew(o) ==
    /\ At(o, "lookup", Syncs)
    /\ get_video_by_youtube_id(loc[o].title) = {}
    /\ Goto(o, "fetch")
    /\ UNCHANGED <<db, history, kind, loc, cache, failures>>

\* The title's lookup, outside of the try, does not raise (youtube_meta.py:57).
SyncFetches(o) ==
    /\ At(o, "fetch", Syncs)
    /\ Goto(o, IF loc[o].had THEN "embed" ELSE "create")
    /\ UNCHANGED <<db, history, kind, loc, cache, failures>>

\* The fetch raises, or there is no transcript.
SyncFetchFails(o) ==
    /\ At(o, "fetch", Syncs)
    /\ Fault({"fetch"})
    /\ Fail(o)
    /\ UNCHANGED <<db, history, kind, cache>>

\* The row is committed before there is a chunk.
SyncCreates(o) ==
    /\ At(o, "create", Syncs)
    /\ \E r \in RowId : /\ create_video(r, loc[o].title)
                        /\ Keeps(o, [loc[o] EXCEPT !.row = r])
    /\ Goto(o, "embed")
    /\ UNCHANGED <<hash, chunks, history, kind, cache, failures>>

SyncCreateFails(o) ==
    /\ At(o, "create", Syncs)
    /\ Fault({"store"})
    /\ Fail(o)
    /\ UNCHANGED <<db, history, kind, cache>>

SyncEmbeds(o) ==
    /\ At(o, "embed", Syncs)
    /\ Goto(o, IF loc[o].had THEN "replace" ELSE "store")
    /\ UNCHANGED <<db, history, kind, loc, cache, failures>>

\* Mutant of SyncEmbedFails: a transcript without chunks is stored as it is.
SyncGoesOnWithoutChunks(o) ==
    /\ At(o, "embed", Syncs)
    /\ Fault({"empty", "embed"})
    /\ chunks' = chunks \ Of(loc[o].row)
    /\ Keeps(o, [loc[o] EXCEPT !.new = @ + 1, !.outcome = "ingested"])
    /\ Goto(o, "mark")
    /\ UNCHANGED <<videos, hash, history, kind, cache>>

\* No chunks, or no embeddings: the row that was created stays.
SyncEmbedFails(o) ==
    /\ At(o, "embed", Syncs)
    /\ Fault({"empty", "embed"})
    /\ Fail(o)
    /\ UNCHANGED <<db, history, kind, cache>>

\* Mutant of SyncStores: the video counts from its first chunk on.
SyncStoresFirst(o) ==
    /\ At(o, "store", Syncs)
    /\ create_chunk(loc[o].row, o, loc[o].part)
    /\ Keeps(o, [loc[o] EXCEPT !.new = @ + 1, !.outcome = "ingested"])
    /\ Goto(o, "mark")
    /\ UNCHANGED <<videos, hash, history, kind, cache, failures>>

\* One statement for each chunk of a new video.
SyncStores(o) ==
    LET p == loc[o].part
    IN  /\ At(o, "store", Syncs)
        /\ create_chunk(loc[o].row, o, p)
        /\ IF p < Parts
           THEN /\ Keeps(o, [loc[o] EXCEPT !.part = p + 1])
                /\ pc' = pc
           ELSE /\ Keeps(o, [loc[o] EXCEPT !.new = @ + 1, !.outcome = "ingested"])
                /\ Goto(o, "mark")
        /\ UNCHANGED <<videos, hash, history, kind, cache, failures>>

SyncReplaces(o) ==
    /\ At(o, "commit", Syncs)
    /\ replace_chunks_for_video(loc[o].row, o, loc[o].snap)
    /\ Keeps(o, [loc[o] EXCEPT !.new = @ + 1, !.outcome = "ingested"])
    /\ Goto(o, "mark")
    /\ UNCHANGED <<videos, hash, history, kind, cache, failures>>

\* A statement fails, or the row was deleted in the meantime.
SyncStoreFails(o) ==
    /\ kind[o] \in Syncs /\ pc[o] \in {"store", "replace", "commit"}
    /\ FailsOrGone(o)
    /\ Fail(o)
    /\ UNCHANGED <<db, history, kind, cache>>

\* Mutant of MarksVideo: an error is not written to the video's record.
MarksIngestedOnly(o) ==
    /\ At(o, "mark", Syncs)
    /\ IF loc[o].outcome = "ingested"
       THEN update_sync_video_status(o, "ingested", loc[o].row)
       ELSE entry' = entry
    /\ Keeps(o, [loc[o] EXCEPT !.i = @ + 1])
    /\ Goto(o, "next")
    /\ UNCHANGED <<db, run, kind, cache, failures>>

MarksVideo(o) ==
    /\ At(o, "mark", Syncs)
    /\ update_sync_video_status(o, loc[o].outcome, loc[o].row)
    /\ Keeps(o, [loc[o] EXCEPT !.i = @ + 1])
    /\ Goto(o, "next")
    /\ UNCHANGED <<db, run, kind, cache, failures>>

\* A statement outside the handlers of one video raises: the caches are
\* invalidated, and the run stays "running".
LoopRaises(o) ==
    /\ kind[o] \in Syncs /\ pc[o] \in {"next", "lookup", "mark"}
    /\ Fault({"db"})
    /\ invalidate_catalog(o)
    /\ Goto(o, "done")
    /\ UNCHANGED <<db, history, kind, loc, reader>>

\* Mutant of LoopEnds: the finally block forgets the catalog.
LoopEndsQuietly(o) ==
    /\ At(o, "next", Syncs)
    /\ loc[o].i > Len(Channel)
    /\ cat' = cat
    /\ Announce(o)
    /\ Goto(o, "close")
    /\ UNCHANGED <<db, history, kind, loc, reader, failures>>

LoopEnds(o) ==
    /\ At(o, "next", Syncs)
    /\ loc[o].i > Len(Channel)
    /\ invalidate_catalog(o)
    /\ Goto(o, "close")
    /\ UNCHANGED <<db, history, kind, loc, reader, failures>>

ClosesRun(o) ==
    /\ At(o, "close", Syncs)
    /\ update_sync_run(o, IF loc[o].error > 0 /\ loc[o].new = 0
                          THEN "failed" ELSE "completed", Len(Channel))
    /\ Goto(o, "done")
    /\ UNCHANGED <<db, entry, kind, loc, cache, failures>>

Sync(o) ==
    \/ SyncBegins(o) \/ EnumerateFails(o) \/ Enumerates(o) \/ NextVideo(o)
    \/ SkipsKnown(o) \/ TakesKnown(o) \/ FindsNew(o) \/ SyncFetches(o)
    \/ SyncFetchFails(o) \/ SyncCreates(o) \/ SyncCreateFails(o)
    \/ SyncEmbeds(o) \/ SyncEmbedFails(o) \/ SyncStores(o) \/ SyncReplaces(o)
    \/ SyncStoreFails(o) \/ MarksVideo(o) \/ LoopRaises(o) \/ LoopEnds(o)
    \/ ClosesRun(o)

-----------------------------------------------------------------------------
(* routes/admin.py                                                         *)

AddBegins(o) ==
    /\ At(o, "new", {"add"})
    /\ \E c \in Wanted : Keeps(o, [loc[o] EXCEPT !.title = c])
    /\ Goto(o, "fetch")
    /\ UNCHANGED <<db, history, kind, cache, failures>>

ResyncBegins(o) ==
    /\ At(o, "new", {"resync"})
    /\ \E r \in list_videos :
          /\ videos[r] \in Clip   \* a lesson has no URL to fetch: 400
          /\ Keeps(o, [loc[o] EXCEPT !.title = videos[r], !.row = r])
    /\ Goto(o, "fetch")
    /\ UNCHANGED <<db, history, kind, cache, failures>>

AdminFetches(o) ==
    /\ At(o, "fetch", {"add", "resync"})
    /\ Goto(o, "embed")
    /\ UNCHANGED <<db, history, kind, loc, cache, failures>>

\* _fetch_chunks_and_embeddings writes nothing and raises on any failure.
AdminFetchFails(o) ==
    /\ \/ At(o, "fetch", {"add", "resync"}) /\ Fault({"fetch"})
       \/ At(o, "embed", {"add", "resync"}) /\ Fault({"empty", "embed"})
    /\ Goto(o, "done")
    /\ UNCHANGED <<db, history, kind, loc, cache>>

AdminEmbeds(o) ==
    /\ At(o, "embed", {"add", "resync"})
    /\ Goto(o, IF kind[o] = "add" THEN "exists" ELSE "replace")
    /\ UNCHANGED <<db, history, kind, loc, cache, failures>>

AlreadyInLibrary(o) ==
    /\ At(o, "exists", {"add"})
    /\ get_video_by_youtube_id(loc[o].title) # {}
    /\ Goto(o, "done")
    /\ UNCHANGED <<db, history, kind, loc, cache, failures>>

NotInLibrary(o) ==
    /\ At(o, "exists", {"add"})
    /\ get_video_by_youtube_id(loc[o].title) = {}
    /\ Goto(o, "create")
    /\ UNCHANGED <<db, history, kind, loc, cache, failures>>

AddCreates(o) ==
    /\ At(o, "create", {"add"})
    /\ \E r \in RowId : /\ create_video(r, loc[o].title)
                        /\ Keeps(o, [loc[o] EXCEPT !.row = r])
    /\ Goto(o, "replace")
    /\ UNCHANGED <<hash, chunks, history, kind, cache, failures>>

\* The catalog is not told of an added or deleted video.
AdminReplaces(o) ==
    /\ At(o, "commit", {"add", "resync"})
    /\ replace_chunks_for_video(loc[o].row, o, loc[o].snap)
    /\ Goto(o, "done")
    /\ UNCHANGED <<videos, hash, history, kind, loc, cache, failures>>

AdminStoreFails(o) ==
    /\ kind[o] \in {"add", "resync"} /\ pc[o] \in {"create", "replace", "commit"}
    /\ \/ Fault({"store"})
       \/ pc[o] = "commit" /\ FailsOrGone(o)
    /\ Goto(o, "done")
    /\ UNCHANGED <<db, history, kind, loc, cache>>

DeletesVideo(o) ==
    /\ At(o, "new", {"delete"})
    /\ \E r \in list_videos : delete_video_cascade(r)
    /\ Goto(o, "done")
    /\ UNCHANGED <<hash, history, kind, loc, cache, failures>>

Admin(o) ==
    \/ AddBegins(o) \/ ResyncBegins(o) \/ AdminFetches(o) \/ AdminFetchFails(o)
    \/ AdminEmbeds(o) \/ AlreadyInLibrary(o) \/ NotInLibrary(o) \/ AddCreates(o)
    \/ AdminReplaces(o) \/ AdminStoreFails(o) \/ DeletesVideo(o)

\* The DELETE of replace_chunks_for_video.
ReplaceBegins(o) ==
    /\ pc[o] = "replace"
    /\ Keeps(o, [loc[o] EXCEPT !.snap = Of(loc[o].row)])
    /\ Goto(o, "commit")
    /\ UNCHANGED <<db, history, kind, cache, failures>>

-----------------------------------------------------------------------------
(* routes/ingest.py                                                        *)

Ingests == {"json", "url"}

IngestBegins(o) ==
    /\ At(o, "new", Ingests)
    /\ \E c \in Wanted : Keeps(o, [loc[o] EXCEPT !.title = c])
    /\ Goto(o, IF kind[o] = "json" THEN "create" ELSE "fetch")
    /\ UNCHANGED <<db, history, kind, cache, failures>>

\* ingest_from_url only: parse and fetch.
UrlFetches(o) ==
    /\ At(o, "fetch", {"url"})
    /\ \/ Goto(o, "create") /\ failures' = failures
       \/ Goto(o, "done") /\ Fault({"fetch"})
    /\ UNCHANGED <<db, history, kind, loc, cache>>

\* Nobody asks whether the video is there already.
IngestCreates(o) ==
    /\ At(o, "create", Ingests)
    /\ \E r \in RowId : /\ create_video(r, loc[o].title)
                        /\ Keeps(o, [loc[o] EXCEPT !.row = r])
    /\ Goto(o, "embed")
    /\ UNCHANGED <<hash, chunks, history, kind, cache, failures>>

\* "stored_no_chunks": the row stays, nobody is told.
IngestHasNoChunks(o) ==
    /\ At(o, "embed", Ingests)
    /\ Fault({"empty"})
    /\ Goto(o, "done")
    /\ UNCHANGED <<db, history, kind, loc, cache>>

IngestEmbeds(o) ==
    /\ At(o, "embed", Ingests)
    /\ Goto(o, "store")
    /\ UNCHANGED <<db, history, kind, loc, cache, failures>>

\* Only the JSON route takes its row back.
JsonEmbedFails(o) ==
    /\ At(o, "embed", {"json"})
    /\ Fault({"embed"})
    /\ delete_video_cascade(loc[o].row)
    /\ Goto(o, "done")
    /\ UNCHANGED <<hash, history, kind, loc, cache>>

UrlEmbedFails(o) ==
    /\ At(o, "embed", {"url"})
    /\ Fault({"embed"})
    /\ Goto(o, "done")
    /\ UNCHANGED <<db, history, kind, loc, cache>>

IngestStores(o) ==
    LET p == loc[o].part
    IN  /\ At(o, "store", Ingests)
        /\ create_chunk(loc[o].row, o, p)
        /\ Keeps(o, [loc[o] EXCEPT !.part = p + 1])
        /\ Goto(o, IF p < Parts THEN "store" ELSE "finally")
        /\ UNCHANGED <<videos, hash, history, kind, cache, failures>>

IngestStoreFails(o) ==
    /\ At(o, "store", Ingests)
    /\ FailsOrGone(o)
    /\ Goto(o, "finally")
    /\ UNCHANGED <<db, history, kind, loc, cache>>

IngestFinally(o) ==
    /\ At(o, "finally", Ingests)
    /\ invalidate_catalog(o)
    /\ Goto(o, "done")
    /\ UNCHANGED <<db, history, kind, loc, reader, failures>>

Ingest(o) ==
    \/ IngestBegins(o) \/ UrlFetches(o) \/ IngestCreates(o)
    \/ IngestHasNoChunks(o) \/ IngestEmbeds(o) \/ JsonEmbedFails(o)
    \/ UrlEmbedFails(o) \/ IngestStores(o) \/ IngestStoreFails(o)
    \/ IngestFinally(o)

-----------------------------------------------------------------------------
(* ingest/dynamous.py: the sweep over the transcripts at start-up           *)

SweepBegins(o) ==
    /\ At(o, "new", {"lessons"})
    /\ \A u \in Op : kind[u] = "lessons" => pc[u] \in {"new", "done"}
    /\ \E e \in Editions : Keeps(o, [loc[o] EXCEPT !.edition = e])
    /\ Goto(o, "next")
    /\ UNCHANGED <<db, history, kind, cache, failures>>

\* Mutant of LessonUnchanged: a lesson that is there is taken for current.
LessonIsThere(o) ==
    /\ At(o, "next", {"lessons"})
    /\ loc[o].i <= Len(LessonFiles)
    /\ get_video_by_youtube_id(LessonFiles[loc[o].i]) # {}
    /\ Keeps(o, [loc[o] EXCEPT !.i = @ + 1])
    /\ UNCHANGED <<db, history, kind, pc, cache, failures>>

LessonUnchanged(o) ==
    /\ At(o, "next", {"lessons"})
    /\ loc[o].i <= Len(LessonFiles)
    /\ \E r \in get_video_by_youtube_id(LessonFiles[loc[o].i]) :
          hash[r] = loc[o].edition
    /\ Keeps(o, [loc[o] EXCEPT !.i = @ + 1])
    /\ UNCHANGED <<db, history, kind, pc, cache, failures>>

LessonChanged(o) ==
    LET file == LessonFiles[loc[o].i]
    IN  /\ At(o, "next", {"lessons"})
        /\ loc[o].i <= Len(LessonFiles)
        /\ \/ /\ get_video_by_youtube_id(file) = {}
              /\ Keeps(o, [loc[o] EXCEPT !.title = file, !.row = None])
           \/ \E r \in get_video_by_youtube_id(file) :
                 /\ hash[r] # loc[o].edition
                 /\ Keeps(o, [loc[o] EXCEPT !.title = file, !.row = r])
        /\ Goto(o, "embed")
        /\ UNCHANGED <<db, history, kind, cache, failures>>

\* What the file holds yields no segments, or no chunks: a warning, and on to
\* the next file.  It is no error, and what was stored of the lesson stays.
LessonIsBlank(o) ==
    /\ At(o, "embed", {"lessons"})
    /\ loc[o].edition \in Blanks[loc[o].title]
    /\ Keeps(o, [loc[o] EXCEPT !.i = @ + 1])
    /\ Goto(o, "next")
    /\ UNCHANGED <<db, history, kind, cache, failures>>

LessonEmbeds(o) ==
    /\ At(o, "embed", {"lessons"})
    /\ loc[o].edition \notin Blanks[loc[o].title]
    /\ IF loc[o].row = None
       THEN loc' = loc /\ Goto(o, "commit")
       ELSE Keeps(o, [loc[o] EXCEPT !.snap = Of(loc[o].row)]) /\ Goto(o, "commit")
    /\ UNCHANGED <<db, history, kind, cache, failures>>

\* One transaction for the row, its hash and its chunks.
LessonInserted(o) ==
    /\ At(o, "commit", {"lessons"})
    /\ loc[o].row = None
    /\ \E r \in RowId :
          /\ create_video(r, loc[o].title)
          /\ hash' = [hash EXCEPT ![r] = loc[o].edition]
          /\ chunks' = chunks \cup Full(r, o, TRUE)
    /\ Keeps(o, [loc[o] EXCEPT !.i = @ + 1])
    /\ Goto(o, "next")
    /\ UNCHANGED <<history, kind, cache, failures>>

\* Mutant of LessonReplaced: the old chunks stay.
LessonAdded(o) ==
    LET r == loc[o].row
    IN  /\ At(o, "commit", {"lessons"})
        /\ r # None
        /\ replace_chunks_for_video(r, o, {})
        /\ hash' = [hash EXCEPT ![r] = loc[o].edition]
        /\ Keeps(o, [loc[o] EXCEPT !.i = @ + 1])
        /\ Goto(o, "next")
        /\ UNCHANGED <<videos, history, kind, cache, failures>>

LessonReplaced(o) ==
    LET r == loc[o].row
    IN  /\ At(o, "commit", {"lessons"})
        /\ r # None
        /\ replace_chunks_for_video(r, o, loc[o].snap)
        /\ hash' = [hash EXCEPT ![r] = loc[o].edition]
        /\ Keeps(o, [loc[o] EXCEPT !.i = @ + 1])
        /\ Goto(o, "next")
        /\ UNCHANGED <<videos, history, kind, cache, failures>>

\* The lookup fails, there are no embeddings, or the transaction rolled back.
LessonFails(o) ==
    /\ \/ At(o, "next", {"lessons"}) /\ loc[o].i <= Len(LessonFiles) /\ Fault({"db"})
       \/ /\ At(o, "embed", {"lessons"})
          /\ loc[o].edition \notin Blanks[loc[o].title]
          /\ Fault({"embed"})
       \/ At(o, "commit", {"lessons"}) /\ Fault({"store"})
       \/ At(o, "commit", {"lessons"}) /\ loc[o].row # None /\ FailsOrGone(o)
    /\ Fail(o)
    /\ UNCHANGED <<db, history, kind, cache>>

SweepEnds(o) ==
    /\ At(o, "next", {"lessons"})
    /\ loc[o].i > Len(LessonFiles)
    /\ Goto(o, "done")
    /\ UNCHANGED <<db, history, kind, loc, cache, failures>>

Sweep(o) ==
    \/ SweepBegins(o) \/ LessonUnchanged(o) \/ LessonChanged(o)
    \/ LessonIsBlank(o) \/ LessonEmbeds(o) \/ LessonInserted(o)
    \/ LessonReplaced(o) \/ LessonFails(o) \/ SweepEnds(o)

-----------------------------------------------------------------------------
(* rag/catalog.py: get_catalog                                             *)

CatalogAsked(q) ==
    /\ reader[q].at = "idle"
    /\ cat = None
    /\ reader' = [reader EXCEPT ![q].at = "asking"]
    /\ UNCHANGED <<db, history, kind, pc, loc, cat, known, failures>>

CatalogAnswered(q) ==
    /\ reader[q].at = "asking"
    /\ \/ /\ reader' = [reader EXCEPT ![q] =
                          [at |-> "answered", list |-> list_videos, ok |-> TRUE]]
          /\ failures' = failures
       \/ /\ Fault({"db"})
          /\ reader' = [reader EXCEPT ![q] =
                          [at |-> "answered", list |-> {}, ok |-> FALSE]]
    /\ UNCHANGED <<db, history, kind, pc, loc, cat, known>>

\* The answer is kept whatever happened since the question; after an error an
\* empty list is kept, until the next invalidation.
CatalogKept(q) ==
    /\ reader[q].at = "answered"
    /\ cat' = [list |-> reader[q].list, ok |-> reader[q].ok]
    /\ reader' = [reader EXCEPT ![q] = NotAsking]
    /\ UNCHANGED <<db, history, kind, pc, loc, known, failures>>

GetCatalog(q) == CatalogAsked(q) \/ CatalogAnswered(q) \/ CatalogKept(q)

-----------------------------------------------------------------------------
(* Processes                                                               *)

Busy(o) == pc[o] \notin {"new", "done"}

\* The API process dies and is started again, or a scheduled sync dies.
ProcessDies ==
    /\ Fault({"death"})
    /\ \/ /\ pc' = [o \in Op |-> IF Busy(o) /\ ~ Outside(o) THEN "done" ELSE pc[o]]
          /\ cat' = None
          /\ reader' = [q \in Reader |-> NotAsking]
          /\ known' = list_videos
       \/ /\ \E o \in Op : Busy(o) /\ Outside(o) /\ Goto(o, "done")
          /\ UNCHANGED cache
    /\ UNCHANGED <<db, history, kind, loc>>

Init ==
    /\ \/ videos = [r \in RowId |-> "free"] /\ chunks = {}
       \/ \E r \in RowId, c \in Wanted :
             /\ videos = [q \in RowId |-> IF q = r THEN c ELSE "free"]
             /\ chunks = Full(r, None, TRUE)
    /\ hash = [r \in RowId |-> None]
    /\ run = [o \in Op |-> NoRun]
    /\ entry = [o \in Op |-> <<>>]
    /\ kind \in [Op -> Kinds]
    /\ pc = [o \in Op |-> "new"]
    /\ loc = [o \in Op |-> Blank]
    /\ cat = None
    /\ reader = [q \in Reader |-> NotAsking]
    /\ known = list_videos
    /\ failures = 0

Step(o) == Sync(o) \/ Admin(o) \/ ReplaceBegins(o) \/ Ingest(o) \/ Sweep(o)

Next ==
    \/ \E o \in Op : Step(o)
    \/ \E q \in Reader : GetCatalog(q)
    \/ ProcessDies

Spec == Init /\ [][Next]_vars

-----------------------------------------------------------------------------
(* Properties                                                              *)

\* The chunks of one whole transcript are there.
Whole(r) ==
    \E o \in Op \cup {None}, tx \in BOOLEAN : Full(r, o, tx) \subseteq chunks

\* A video that can be searched in full stays so until it is deleted, whatever
\* fails, failures or overlaps: a new transcript is chunked and embedded before
\* the old chunks go (routes/admin.py:246, repository.py:384).
StaysWhole ==
    [][\A r \in RowId : Whole(r) => Whole(r)' \/ videos'[r] = "gone"]_vars

\* A re-sync leaves all of its chunks or none, even when another re-sync of the
\* video overlaps (channels.py:293: no "half-old / half-new chunk set").
NoHalfReplace ==
    \A r \in RowId, o \in Op \cup {None} :
        Full(r, o, TRUE) \cap chunks \in {{}, Full(r, o, TRUE)}

\* What a finished run reports is what its records say, video by video; none
\* is left pending (channels.py:147-365).
RunsAddUp ==
    \A o \in Op : run[o].status \in {"completed", "failed"} =>
        LET count(s) == Cardinality({i \in DOMAIN entry[o] : entry[o][i].status = s})
        IN  /\ run[o].new = count("ingested")
            /\ run[o].error = count("error")
            /\ run[o].total = run[o].new + run[o].error
            /\ run[o].total = Len(entry[o])

\* A video that a sync stored and recorded as ingested can be searched in full,
\* unless it was deleted; so says also the chunk count of the admin listing.
IngestedIsWhole ==
    \A o \in Op : \A i \in DOMAIN entry[o] :
        LET e == entry[o][i]
        IN  e.status = "ingested" /\ e.row \in list_videos =>
                Whole(e.row) /\ chunk_count(e.row) >= Parts

\* The hash of a lesson tells which edition its chunks come from, all of them:
\* a sweep that trusts it after a crash skips nothing that is missing
\* (dynamous.py:189).
HashMeansStored ==
    \A r \in list_videos : hash[r] # None =>
        \E o \in Op : /\ kind[o] = "lessons" /\ loc[o].edition = hash[r]
                      /\ Of(r) = Full(r, o, TRUE)

\* A sweep that reports no error leaves every lesson at the edition on disk, if
\* that edition has anything to chunk: a lesson that became blank is passed over
\* without an error and keeps its older edition (dynamous.py:198-206).
SweepBringsEdition ==
    [][\A o \in Op :
          At(o, "next", {"lessons"}) /\ pc'[o] = "done" /\ failures' = failures
             /\ loc[o].error = 0 =>
          \A r \in list_videos :
             videos[r] \in Lesson /\ loc[o].edition \notin Blanks[videos[r]] =>
                hash[r] = loc[o].edition]_vars

\* A catalog that was read without an error names every video that an
\* invalidation has announced, if no get_catalog was waiting for its answer
\* then (catalog.py:3: "invalidated whenever new videos are ingested").
CatalogKnowsAnnounced ==
    cat # None /\ cat.ok => known \cap list_videos \subseteq cat.list
=============================================================================
