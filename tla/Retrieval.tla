----------------------------- MODULE Retrieval -----------------------------
(***************************************************************************)
(* The retrieval tools of a chat turn (rag/tools.py, retriever_hybrid.py,   *)
(* expansion.py) and what the system prompt offers, against a library that  *)
(* changes meanwhile.  A turn gives way to the others at every await: each  *)
(* query of the database and each call of the embedding service is an       *)
(* action.  What the library's own operations do is in Library; here a      *)
(* video is re-synced (all its chunks replaced at once) or deleted.         *)
(*                                                                         *)
(* The text of a chunk is the chunk; a ranking is any order.                *)
(***************************************************************************)
EXTENDS Membership, Fusion

CONSTANTS
    Video,       \* ids of videos rows
    Source,      \* source_type of each video
    Talk,        \* of each video, the numbers of chunks of its editions
    DefaultTopK, \* _clamp_top_k's default
    PerVideo,    \* RETRIEVAL_MAX_PER_VIDEO
    Window,      \* RETRIEVAL_EXPANSION_WINDOW
    MaxMatches,  \* bound on the chunks that contain a keyword
    MaxCalls,    \* bound on the tool calls of a turn
    MaxTurns     \* bound on the turns

ASSUME RetrievalAssumption ==
    /\ Source \in [Video -> {"youtube", "dynamous"}]
    /\ IsFiniteSet(Video) /\ User # {}
    /\ Talk \in [Video -> Seq(Nat) \ {<<>>}]
    /\ DefaultTopK \in 1..MaxTopK
    /\ PerVideo \in Nat /\ Window \in Nat
    /\ {MaxMatches, MaxCalls, MaxTurns} \subseteq Nat

VARIABLES
    edition,  \* of each video, the edition stored now; 0 if there is none
    dirty,    \* a change was made and the caches were not cleared since
    cache,    \* _video_cache
    turn,     \* the turn in progress
    turns

retrievalVars == <<edition, dirty, cache, turn, turns>>

-----------------------------------------------------------------------------
(* db/repository.py                                                        *)

Row1(v, i) == [video |-> v, edition |-> edition[v], index |-> i]

\* The number of chunks stored, their indices being 0, 1, ...
Chunks(v) == IF edition[v] = 0 THEN 0 ELSE Talk[v][edition[v]]

\* ORDER BY chunk_index
Between(v, from, to) ==
    LET end == IF to < Chunks(v) THEN to + 1 ELSE Chunks(v)
    IN  [n \in 1..(end - from) |-> Row1(v, from + n - 1)]

list_chunks_for_video(v) == Between(v, 0, Chunks(v))

get_chunk_neighbors(v, i) ==
    Between(v, IF i > Window THEN i - Window ELSE 0, i + Window)

Stored == {v \in Video : edition[v] > 0}

get_video(v) == IF v \in Stored THEN "known" ELSE "unknown"

\* Mutant: the filter on source_type is forgotten.
SearchableByAll(member) ==
    UNION {ToSet(list_chunks_for_video(v)) : v \in Stored}

\* AND source_type = ANY($3)
Searchable(member) ==
    UNION {ToSet(list_chunks_for_video(v)) :
             v \in {w \in Stored : member \/ Source[w] = "youtube"}}

Longer(rows, rankings) ==
    UNION {{Append(r, c) : c \in rows \ ToSet(r)} : r \in rankings}

\* The n best rows, or all if they are fewer, in any order.
Rankings(rows, n) ==
    LET size == IF n < Cardinality(rows) THEN n ELSE Cardinality(rows)
        best[k \in 0..size] == IF k = 0 THEN {<<>>} ELSE Longer(rows, best[k - 1])
    IN  best[size]

\* Any chunks may contain the words, and rank in any order.
keyword_search(member, top_k) ==
    UNION {Rankings(Searchable(member), n) :
             n \in 0..(IF top_k < MaxMatches THEN top_k ELSE MaxMatches)}

\* Every chunk has a distance.
vector_search_pg(member, top_k) == Rankings(Searchable(member), top_k)

-----------------------------------------------------------------------------
(* The turn                                                                *)

Tool == {"search_videos", "keyword_search_videos", "semantic_search_videos",
         "get_video_transcript"}

Blank(pc) ==
    [pc |-> pc, user |-> CHOOSE u \in User : TRUE, member |-> FALSE,
     catalog |-> {}, listed |-> {}, embedded |-> FALSE, calls |-> 0,
     tool |-> "none", top_k |-> 0, video |-> "none", kw |-> <<>>, hits |-> <<>>,
     meta |-> <<>>, near |-> <<>>, todo |-> {}, calm |-> TRUE, ok |-> FALSE,
     spans |-> <<>>, read |-> {}]

\* What a turn keeps from one call to the next.
Rested(t, pc) ==
    [Blank(pc) EXCEPT !.user = t.user, !.member = t.member,
        !.catalog = t.catalog, !.listed = t.listed, !.embedded = t.embedded,
        !.calls = t.calls]

Chunk == [video : Video, edition : Nat, index : Nat]
Meta == {"none", "known", "unknown"}
SpanRecord == [id : Chunk, source : {"youtube", "dynamous"},
               from : Nat, to : Nat, body : Seq(Chunk)]
TurnRecord ==
    [pc : {"idle", "ready", "embed", "keyword", "vector", "hydrate", "expand",
           "video", "list", "answered"},
     user : User, member : BOOLEAN, catalog : SUBSET Video, listed : SUBSET Video,
     embedded : BOOLEAN, calls : 0..MaxCalls, tool : Tool \cup {"none"},
     top_k : 0..MaxTopK, video : Video \cup {"none"},
     kw : Seq(Chunk), hits : Seq(Chunk), meta : Seq(Meta), near : Seq(Seq(Chunk)),
     todo : SUBSET Nat, calm : BOOLEAN, ok : BOOLEAN,
     spans : Seq(SpanRecord), read : SUBSET Chunk]

RetrievalTypeOK ==
    /\ edition \in [Video -> Nat] /\ \A v \in Video : edition[v] <= Len(Talk[v])
    /\ dirty \in BOOLEAN
    /\ cache \in [Video -> Meta]
    /\ turn \in TurnRecord
    /\ turns \in 0..MaxTurns

RetrievalInit ==
    /\ edition = [v \in Video |-> 1]
    /\ dirty = FALSE
    /\ cache = [v \in Video |-> "none"]
    /\ turn = Blank("idle")
    /\ turns = 0

\* build_system_prompt: what the model learns of the library.
build_system_prompt(member) ==
    {v \in Stored : member \/ Source[v] = "youtube"}

\* get_current_user reads the row; list_videos may fail, or find nothing:
\* then the transcript tool is not guarded (listed is empty).
TurnBegins(u) ==
    /\ turn.pc = "idle" /\ turns < MaxTurns
    /\ turns' = turns + 1
    /\ \E found \in get_current_user(u), listed \in {Stored, {}} :
          turn' = [Blank("ready") EXCEPT !.user = u,
                     !.member = found.is_member, !.listed = listed,
                     !.catalog = build_system_prompt(found.is_member)]
    /\ UNCHANGED <<edition, dirty, cache>>

TurnEnds ==
    /\ turn.pc \in {"ready", "answered"}
    /\ turn' = Blank("idle")
    /\ UNCHANGED <<edition, dirty, cache, turns>>

NextCall ==
    /\ turn.pc = "answered"
    /\ turn' = Rested(turn, "ready")
    /\ UNCHANGED <<edition, dirty, cache, turns>>

Answers(ok, spans, read) ==
    turn' = [turn EXCEPT !.pc = "answered", !.ok = ok, !.spans = spans,
                         !.read = read, !.kw = <<>>, !.near = <<>>, !.todo = {}]

Refuses == Answers(FALSE, <<>>, {})

_clamp_top_k(value) ==
    IF value < 1 THEN 1 ELSE IF value > MaxTopK THEN MaxTopK ELSE value

\* "none": the argument is missing or not a number.
TopK == {_clamp_top_k(v) : v \in {0, MaxTopK + 1, DefaultTopK}}

\* execute_tool: bad JSON, no query, no video_id, an unknown tool.
BadCall ==
    /\ turn.pc = "ready" /\ turn.calls < MaxCalls
    /\ turn' = [Rested(turn, "answered") EXCEPT !.calls = @ + 1]
    /\ UNCHANGED <<edition, dirty, cache, turns>>

CallsSearch(tool, k) ==
    /\ turn.pc = "ready" /\ turn.calls < MaxCalls
    /\ tool # "get_video_transcript"
    /\ turn' = [turn EXCEPT !.calls = @ + 1, !.tool = tool, !.top_k = k,
                  !.pc = CASE tool = "keyword_search_videos" -> "keyword"
                           [] ~turn.embedded -> "embed"
                           [] tool = "search_videos" -> "keyword"
                           [] OTHER -> "vector"]
    /\ UNCHANGED <<edition, dirty, cache, turns>>

\* Questions of one turn are alike: the embedding is kept for the next call.
Embeds ==
    /\ turn.pc = "embed"
    /\ turn' = [turn EXCEPT !.embedded = TRUE,
                  !.pc = IF turn.tool = "search_videos" THEN "keyword" ELSE "vector"]
    /\ UNCHANGED <<edition, dirty, cache, turns>>

\* The embedding service, or the database: the tool answers an error.
CallFails ==
    /\ \/ turn.pc \in {"embed", "keyword", "vector", "video", "list"}
       \/ turn.pc = "hydrate" /\ turn.tool = "search_videos"
    /\ Refuses
    /\ UNCHANGED <<edition, dirty, cache, turns>>

-----------------------------------------------------------------------------
(* After the searches: metadata, the cap, the neighbours                    *)

\* retrieve_hybrid goes through the hits in order and asks for the videos that
\* _video_cache does not have: hits are done up to the first of those.
FromCache(hits, meta, known) ==
    LET Open == {i \in DOMAIN hits : i > Len(meta) /\ known[hits[i].video] = "none"}
        upto == IF Open = {} THEN Len(hits) ELSE Min(Open) - 1
    IN  [i \in 1..upto |-> IF i <= Len(meta) THEN meta[i]
                           ELSE known[hits[i].video]]

_apply_per_video_cap(hits) ==
    {i \in DOMAIN hits :
       PerVideo = 0
         \/ Cardinality({j \in 1..i : hits[j].video = hits[i].video}) <= PerVideo}

Kept(list, kept) ==
    LET at == Ascending(kept)
    IN  [n \in DOMAIN at |-> list[at[n]]]

SourceOf(hit, meta) == IF meta = "known" THEN Source[hit.video] ELSE "youtube"

Single(c, source) ==
    [id |-> c, source |-> source, from |-> c.index, to |-> c.index, body |-> <<c>>]

BodyOf(spans) == UNION {ToSet(spans[i].body) : i \in DOMAIN spans}

\* Metadata is complete: cap, normalise, and expand unless that is off.
Hydrated(hits, meta) ==
    LET kept == _apply_per_video_cap(hits)
        h == Kept(hits, kept)
        m == Kept(meta, kept)
        single == [i \in DOMAIN h |-> Single(h[i], SourceOf(h[i], m[i]))]
    IN  IF h = <<>> \/ Window = 0
           THEN [turn EXCEPT !.pc = "answered", !.ok = TRUE, !.hits = h,
                   !.meta = m, !.kw = <<>>, !.spans = single, !.read = BodyOf(single)]
           ELSE [turn EXCEPT !.pc = "expand", !.hits = h, !.meta = m, !.kw = <<>>,
                   !.near = [i \in DOMAIN h |-> <<>>], !.todo = DOMAIN h]

ToHydrate(hits, meta) ==
    IF Len(meta) = Len(hits) THEN Hydrated(hits, meta)
    ELSE [turn EXCEPT !.pc = "hydrate", !.hits = hits, !.meta = meta, !.kw = <<>>]

KeywordAnswers ==
    /\ turn.pc = "keyword"
    /\ IF turn.tool = "search_videos"
          THEN \E found \in keyword_search(turn.member, turn.top_k * Overfetch) :
                  turn' = [turn EXCEPT !.pc = "vector", !.kw = found]
          ELSE \E found \in keyword_search(turn.member, turn.top_k) :
                  turn' = ToHydrate(found, <<>>)
    /\ UNCHANGED <<edition, dirty, cache, turns>>

VectorAnswers ==
    /\ turn.pc = "vector"
    /\ IF turn.tool = "search_videos"
          THEN \E found \in vector_search_pg(turn.member, turn.top_k * Overfetch) :
                  LET hits == _rrf_merge(turn.kw, found, turn.top_k)
                  IN  turn' = ToHydrate(hits, FromCache(hits, <<>>, cache))
          ELSE \E found \in vector_search_pg(turn.member, turn.top_k) :
                  turn' = ToHydrate(found, <<>>)
    /\ UNCHANGED <<edition, dirty, cache, turns>>

HydratesHybrid ==
    /\ turn.pc = "hydrate" /\ turn.tool = "search_videos"
    /\ LET v == turn.hits[Len(turn.meta) + 1].video
       IN  /\ cache' = [cache EXCEPT ![v] = get_video(v)]
           /\ turn' = ToHydrate(turn.hits, FromCache(turn.hits, turn.meta, cache'))
    /\ UNCHANGED <<edition, dirty, turns>>

\* _hydrate_chunks asks for all videos at once; a failure gives no metadata.
_hydrate_chunks(v, found) ==
    LET got == [i \in DOMAIN turn.hits |->
                  IF turn.hits[i].video = v THEN found
                  ELSE IF turn.meta = <<>> THEN "none" ELSE turn.meta[i]]
    IN  IF \A i \in DOMAIN got : got[i] # "none"
           THEN Hydrated(turn.hits, got)
           ELSE [turn EXCEPT !.meta = got]

Unloaded == {turn.hits[i].video : i \in {j \in DOMAIN turn.hits :
               turn.meta = <<>> \/ turn.meta[j] = "none"}}

HydratesOther ==
    /\ turn.pc = "hydrate" /\ turn.tool # "search_videos"
    /\ \E v \in Unloaded, failed \in BOOLEAN :
          turn' = [_hydrate_chunks(v, IF failed THEN "unknown" ELSE get_video(v))
                     EXCEPT !.calm = @ /\ ~failed]
    /\ UNCHANGED <<edition, dirty, cache, turns>>

-----------------------------------------------------------------------------
(* rag/expansion.py                                                        *)

FirstOf(hits, v) == Min({i \in DOMAIN hits : hits[i].video = v})

Gathered(hits, near) == ToSet(hits) \cup UNION {ToSet(near[i]) : i \in DOMAIN near}

\* When a chunk comes first: the hits, then the neighbours hit by hit.
Arrival(hits, near, c) ==
    IF c \in ToSet(hits) THEN Rank(hits, c)
    ELSE Len(hits) + Min({i \in DOMAIN near : c \in ToSet(near[i])})

\* Videos in the order in which the hits name them; a stable sort by chunk_index.
Precedes(hits, near, c, d) ==
    \/ FirstOf(hits, c.video) < FirstOf(hits, d.video)
    \/ /\ c.video = d.video
       /\ \/ c.index < d.index
          \/ /\ c.index = d.index
             /\ Arrival(hits, near, c) < Arrival(hits, near, d)

\* Every chunk once, whatever it came with.
Sorted(hits, near) ==
    LET all == Gathered(hits, near)
    IN  InOrder([c \in all |-> {d \in all : Precedes(hits, near, d, c)}])

\* Consecutive indices of one video make a run.
Starts(list) ==
    {m \in DOMAIN list : m = 1 \/ list[m].video # list[m - 1].video
                                \/ list[m].index # list[m - 1].index + 1}

Runs(list) ==
    LET start == Ascending(Starts(list))
    IN  [n \in DOMAIN start |->
           SubSeq(list, start[n],
                  IF n = Len(start) THEN Len(list) ELSE start[n + 1] - 1)]

\* Mutant: the span is anchored at its first chunk.
AnchorIsFirst(run, hits) == run[1]

\* The first chunk of the run at the place of a hit; not always that hit: after
\* a re-sync another chunk may be at its index.
Anchor(run, hits) ==
    LET At == {i \in DOMAIN run : \E h \in ToSet(hits) :
                 h.video = run[i].video /\ h.index = run[i].index}
    IN  IF At = {} THEN run[1] ELSE run[Min(At)]

\* Only hits have been hydrated; a neighbour has no source_type.
Span(run, hits, meta) ==
    LET a == Anchor(run, hits)
        Is == {i \in DOMAIN hits : hits[i] = a}
    IN  [id |-> a,
         source |-> IF Is = {} THEN "youtube" ELSE SourceOf(a, meta[Min(Is)]),
         from |-> run[1].index, to |-> Last(run).index, body |-> run]

expand_and_merge(hits, meta, near) ==
    LET runs == Runs(Sorted(hits, near))
    IN  [n \in DOMAIN runs |-> Span(runs[n], hits, meta)]

\* The hits of one video are expanded at once, one video after the other.
Expanding == {i \in turn.todo : \A j \in turn.todo :
                FirstOf(turn.hits, turn.hits[i].video)
                                    <= FirstOf(turn.hits, turn.hits[j].video)}

FetchesNeighbors ==
    /\ turn.pc = "expand"
    /\ \E i \in Expanding, failed \in BOOLEAN :
          LET hit == turn.hits[i]
              near == [turn.near EXCEPT ![i] =
                         IF failed THEN <<>>
                         ELSE get_chunk_neighbors(hit.video, hit.index)]
              calm == turn.calm /\ ~failed
              spans == expand_and_merge(turn.hits, turn.meta, near)
          IN  turn' = IF turn.todo # {i}
                      THEN [turn EXCEPT !.near = near, !.todo = @ \ {i}, !.calm = calm]
                      ELSE [turn EXCEPT !.pc = "answered", !.ok = TRUE, !.calm = calm,
                              !.near = <<>>, !.todo = {}, !.spans = spans,
                              !.read = BodyOf(spans)]
    /\ UNCHANGED <<edition, dirty, cache, turns>>

-----------------------------------------------------------------------------
(* get_video_transcript                                                    *)

Guarded(v) == turn.listed = {} \/ v \in turn.listed

CallsTranscript(v) ==
    /\ turn.pc = "ready" /\ turn.calls < MaxCalls
    /\ IF Guarded(v)
          THEN turn' = [turn EXCEPT !.calls = @ + 1, !.pc = "video", !.video = v,
                                    !.tool = "get_video_transcript"]
          ELSE turn' = [Rested(turn, "answered") EXCEPT !.calls = @ + 1]
    /\ UNCHANGED <<edition, dirty, cache, turns>>

MayRead(v) == turn.member \/ Source[v] # "dynamous"

LooksUpVideo ==
    /\ turn.pc = "video"
    /\ IF turn.video \in Stored /\ MayRead(turn.video)
          THEN turn' = [turn EXCEPT !.pc = "list"]
          ELSE Refuses
    /\ UNCHANGED <<edition, dirty, cache, turns>>

\* The text is cut after a complete chunk; the citations are not.
_format_transcript(raw) == {ToSet(SubSeq(raw, 1, n)) : n \in 0..Len(raw)}

ListsTranscript ==
    /\ turn.pc = "list"
    /\ LET raw == list_chunks_for_video(turn.video)
           all == [i \in DOMAIN raw |-> Single(raw[i], Source[turn.video])]
       IN  IF raw = <<>> THEN Refuses
           ELSE \E text \in _format_transcript(raw) : Answers(TRUE, all, text)
    /\ UNCHANGED <<edition, dirty, cache, turns>>

-----------------------------------------------------------------------------
(* The library                                                             *)

\* A call that runs, or has just answered, is no longer undisturbed.
Disturbs == turn' = [turn EXCEPT !.calm = @ /\ turn.pc \in {"idle", "ready"}]

\* replace_chunks_for_video, from admin, a forced sync or the lessons' sweep
Resyncs(v) ==
    /\ edition[v] \in 1..(Len(Talk[v]) - 1)
    /\ edition' = [edition EXCEPT ![v] = @ + 1]
    /\ dirty' = TRUE
    /\ Disturbs
    /\ UNCHANGED <<cache, turns>>

Deletes(v) ==
    /\ v \in Stored
    /\ edition' = [edition EXCEPT ![v] = 0]
    /\ dirty' = TRUE
    /\ Disturbs
    /\ UNCHANGED <<cache, turns>>

invalidate_cache ==
    /\ dirty
    /\ dirty' = FALSE
    /\ cache' = [v \in Video |-> "none"]
    /\ UNCHANGED <<edition, turn, turns>>

-----------------------------------------------------------------------------

TurnStep ==
    \/ BadCall
    \/ \E tool \in Tool, k \in TopK : CallsSearch(tool, k)
    \/ \E v \in Video : CallsTranscript(v)
    \/ Embeds \/ CallFails
    \/ KeywordAnswers \/ VectorAnswers
    \/ HydratesHybrid \/ HydratesOther
    \/ FetchesNeighbors
    \/ LooksUpVideo \/ ListsTranscript
    \/ NextCall \/ TurnEnds

LibraryStep ==
    \/ \E v \in Video : Resyncs(v) \/ Deletes(v)
    \/ invalidate_cache

vars == <<memberVars, retrievalVars>>

Init == MembershipInit /\ RetrievalInit

Next ==
    \/ MembershipNext /\ UNCHANGED retrievalVars
    \/ /\ (\E u \in User : TurnBegins(u)) \/ TurnStep \/ LibraryStep
       /\ UNCHANGED memberVars

Spec == Init /\ [][Next]_vars

-----------------------------------------------------------------------------
(***************************************************************************)
(* What only members may see, a title in the prompt, a chunk in a tool's    *)
(* answer or in its citations, reaches only the turns of users that paid at *)
(* some time, whatever the library and Circle do meanwhile.                 *)
(***************************************************************************)
LessonsForPayersOnly ==
    \A v \in turn.catalog \cup {c.video : c \in turn.read \cup BodyOf(turn.spans)} :
       Source[v] = "dynamous" => turn.user \in everPaid

(***************************************************************************)
(* A search answers spans of which none repeats another's text and one      *)
(* holds each hit.  When nothing changed or failed during the call, a span  *)
(* is a run of neighbouring chunks of one edition, no two spans touch, all  *)
(* of a hit's neighbours are in its span, and the span says truly what kind *)
(* of video it is from, which decides where its citation leads.             *)
(***************************************************************************)
Searched == turn.pc = "answered" /\ turn.ok /\ turn.tool \in Tool \ {"get_video_transcript"}

HitsInOneSpan ==
    \A h \in ToSet(turn.hits) :
       Cardinality({n \in DOMAIN turn.spans : h \in ToSet(turn.spans[n].body)}) = 1

NothingTwice ==
    \A n, m \in DOMAIN turn.spans :
       LET s == turn.spans[n].body
           t == turn.spans[m].body
       IN  \A i \in DOMAIN s, j \in DOMAIN t : s[i] = t[j] => n = m /\ i = j

CalmSpans ==
    /\ \A n \in DOMAIN turn.spans :
          LET s == turn.spans[n] IN
          /\ \A i \in DOMAIN s.body : s.body[i] = [s.id EXCEPT !.index = s.from + i - 1]
          /\ s.source = Source[s.id.video]
          /\ s.id \in ToSet(turn.hits)
    /\ \A n, m \in DOMAIN turn.spans :
          LET s == turn.spans[n]
              t == turn.spans[m]
          IN  n < m /\ s.id.video = t.id.video => s.to + 1 < t.from
    /\ \A h \in ToSet(turn.hits), s \in ToSet(turn.spans) :
          h \in ToSet(s.body) =>
             ToSet(get_chunk_neighbors(h.video, h.index)) \subseteq ToSet(s.body)

SpansTellTheVideo ==
    Searched => /\ HitsInOneSpan
                /\ NothingTwice
                /\ turn.calm => CalmSpans
=============================================================================
