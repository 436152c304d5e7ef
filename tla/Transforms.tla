----------------------------- MODULE Transforms -----------------------------
(***************************************************************************)
(* The pure functions of rag/ at work: one transcript is chunked, or one    *)
(* pair of rankings is merged, after the other.                             *)
(***************************************************************************)
EXTENDS Chunker, Fusion

CONSTANTS
    MaxText,    \* bound on the tokens of a transcript
    MaxSegments,\* bound on the segments of a transcript with timestamps
    Times,      \* when segments may begin, in multiples of Grain
    Grain,      \* units of time in one of those, for even distribution
    MaxSub,     \* bound on what HybridChunker makes of one segment
    Ranked      \* chunks of the rankings to merge

ASSUME TransformsAssumption ==
    /\ {MaxText, MaxSegments, Grain, MaxSub} \subseteq Nat /\ Times \subseteq Nat

VARIABLE job    \* what was given to a function, and what it returned

NoJob == [kind |-> "none"]

-----------------------------------------------------------------------------
\* ". " is a separator between words only: strip() takes its blank at the end of a
\* paragraph, and blanks at the ends of lines are left out.  Two line breaks in a row
\* are a paragraph's.
Transcribed(p) ==
    \A i \in DOMAIN p :
        /\ p[i] = "stop" => /\ i > 1 /\ p[i - 1] = "char"
                            /\ i < Len(p) /\ p[i + 1] = "char"
        /\ p[i] = "line" => i = Len(p) \/ p[i + 1] \notin Break

Texts == {p \in UNION {[1..n -> Kind \ {"title"}] : n \in 1..MaxText} : Transcribed(p)}
Numbered(p) == [i \in DOMAIN p |-> <<p[i], i>>]

ChunksPlain ==
    /\ job = NoJob
    /\ \E p \in Texts, raised, headed \in BOOLEAN :
       \E cuts \in SUBSET (1..(Len(Paragraphs(Numbered(p))) - 1)) :
          /\ raised => cuts = {} /\ ~headed
          /\ job' = [kind |-> "plain", text |-> Numbered(p),
                     chunks |-> chunk_video_fallback(Numbered(p),
                       chunk_video(Numbered(p), raised, cuts, headed))]

Piece == [at : {t * Grain : t \in Times}, lasts : {t * Grain : t \in Times},
          text : {"words", "none"}]
\* A transcript tells its pieces in order.
Transcripts(n) ==
    {ps \in [1..n -> Piece] : \A i \in 1..(n - 1) : ps[i].at <= ps[i + 1].at}

ChunksTimed ==
    /\ job = NoJob
    /\ \E n \in 1..MaxSegments :
       \E pieces \in Transcripts(n), subs \in [1..n -> 0..MaxSub] :
       \E source \in {"supadata", "headings"} :
          LET segments == IF source = "supadata" THEN fetch_video_for_ingest(pieces)
                          ELSE _parse_segments(pieces)
          IN  job' = [kind |-> "timed", segments |-> segments,
                      chunks |-> chunk_video_timestamped(segments, subs)]

\* No ranking has a chunk twice, and none is longer than what is fetched.
Lists == {l \in UNION {[1..n -> Ranked] : n \in 0..(MaxTopK * Overfetch)} : IsInjective(l)}

FusesRankings ==
    /\ job = NoJob
    /\ \E kw, vec \in Lists, k \in 1..MaxTopK :
          job' = [kind |-> "fused", kw |-> kw, vec |-> vec, top_k |-> k,
                  merged |-> _rrf_merge(kw, vec, k)]

HandsOver == job # NoJob /\ job' = NoJob

TransformsInit == job = NoJob
TransformsNext == ChunksPlain \/ ChunksTimed \/ FusesRankings \/ HandsOver
TransformsSpec == TransformsInit /\ [][TransformsNext]_job

-----------------------------------------------------------------------------
(* What the chunks owe to the transcript                                   *)

AllSpeech(chunks) == FlattenSeq([i \in DOMAIN chunks |-> Speech(chunks[i].content)])

PlainIsTold ==
    LET c == job.chunks
    IN  /\ AllSpeech(c) = Speech(job.text)
        /\ \A i \in DOMAIN c : /\ len(c[i].content) <= MaxChars + len(Title)
                               /\ ~blank(c[i].content)
        /\ Len(Paragraphs(job.text)) >= 3 => Len(c) >= 2
        /\ \A i \in DOMAIN c : /\ c[i].start <= c[i].end
                               /\ i < Len(c) => c[i].end = c[i + 1].start
        /\ c # <<>> => c[1].start = 0 /\ c[Len(c)].end >= 100

Orderly(segments) ==
    \A i \in DOMAIN segments :
       i < Len(segments) => segments[i].end <= segments[i + 1].start

TimedIsTold ==
    LET s == job.segments
        c == job.chunks
    IN  /\ \A i \in DOMAIN s : s[i].text # "none" =>
              \E j \in DOMAIN c : c[j].start = s[i].start
        /\ \A j \in DOMAIN c : \E i \in DOMAIN s :
              s[i].start <= c[j].start /\ c[j].end <= s[i].end
        /\ Orderly(s) => \A j \in DOMAIN c : j < Len(c) =>
              c[j].start <= c[j + 1].start

(***************************************************************************)
(* Chunking loses and repeats nothing that was said and keeps its order,    *)
(* whatever HybridChunker groups or raises; no chunk is blank (embed_batch  *)
(* refuses blank texts), none is longer than the limit and a title, three   *)
(* paragraphs give two chunks, and the times of the chunks run forward      *)
(* within the transcript, so that a citation points at what was said.       *)
(***************************************************************************)
ChunksTellTheTalk ==
    /\ job.kind = "plain" => PlainIsTold
    /\ job.kind = "timed" => TimedIsTold

(***************************************************************************)
(* The merged ranking of a hybrid search puts what both searches found      *)
(* before what one found, never turns round an order on which they agree,   *)
(* has nothing twice and leaves out nothing while there is room.            *)
(***************************************************************************)
MergeIsFair ==
    job.kind = "fused" => FairMerge(job.kw, job.vec, job.top_k, job.merged)
=============================================================================
