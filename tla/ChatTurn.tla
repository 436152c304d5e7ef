------------------------------ MODULE ChatTurn ------------------------------
(***************************************************************************)
(* A question and its streamed answer: POST /conversations/{id}/messages,   *)
(* the tool loop of stream_chat, and what is stored, while the owner        *)
(* deletes or renames the conversation, other questions are under way, the  *)
(* client goes away, and the provider or the process fails.                 *)
(*                                                                         *)
(* A turn gives way to the others at every await and at every yield: each   *)
(* statement of the database, each delta of the provider, each tool call    *)
(* and each event sent is a step.  The text is a sequence of characters     *)
(* (module Citations); a question, a prompt and a chunk's content are not   *)
(* looked into.  A row's created_at is taken as it is inserted.               *)
(* touch_conversation only orders the list of conversations; its failure,   *)
(* after the row is stored, is a step of its own.                          *)
(***************************************************************************)
EXTENDS Citations

CONSTANTS
    Turn,           \* POST requests, each of them posted at most once
    User,
    Poster,         \* users that may make each of the requests
    Conv,           \* ids of conversations; never used again
    Video,
    ChunkId,        \* ids of chunks, one character each
    VideoOf,        \* video_id of a chunk
    StartOf,        \* start_seconds of a chunk
    ToolAnswers,    \* the lists of chunks that a tool call may return
    Deltas,         \* the pieces of text that the provider may send
    MaxPerTurn,     \* LLM_TOOLS_MAX_PER_TURN, 6 in the code
    MaxSources,     \* CITATIONS_MAX_COUNT, 10 in the code
    MaxTokens,      \* bound on the deltas of each turn
    MaxCalls,       \* bound on the tool calls of a round, for each turn
    MaxFailures,    \* bound on failures, departures and deaths
    ProviderObeys,  \* the provider honours tool_choice = "none"
    None            \* Python's None

ASSUME ChatAssumption ==
    /\ Poster \in [Turn -> SUBSET User]
    /\ ChunkId \subseteq IdChar
    /\ VideoOf \in [ChunkId -> Video] /\ StartOf \in [ChunkId -> Nat]
    /\ ToolAnswers \subseteq Seq(ChunkId)
    /\ Deltas \subseteq Seq(IdChar \cup {"[", ":", "]", "w", "r"}) \ {<<>>}
    /\ MaxPerTurn \in Nat /\ MaxSources \in Nat /\ MaxFailures \in Nat
    /\ MaxTokens \in [Turn -> Nat] /\ MaxCalls \in [Turn -> Nat]
    /\ ProviderObeys \in BOOLEAN
    /\ None \notin User \cup Conv \cup Turn

VARIABLES
    conv,       \* conversations table
    msgs,       \* messages table: the rows of each conversation by created_at
    counted,    \* turns that check_and_record let pass (module MessageCap)
    turn,       \* local variables of each request
    failures    \* failures so far

vars == <<conv, msgs, counted, turn, failures>>

\* Where a turn is: before the stream, in it, after it, and how it ended.
Before    == {"posted", "owned", "counted", "asked"}
Streaming == {"round", "stream", "tools", "tail", "shown"}
After     == {"saving", "storing", "titling", "naming"}
Ended     == {"refused", "failed", "ended", "dead"}

NewTurn == [at |-> "new", user |-> None, conv |-> None, told |-> {},
            made |-> 0, noTools |-> FALSE, calls |-> 0, read |-> <<>>,
            tokens |-> 0, said |-> <<>>, from |-> 0, final |-> FALSE,
            sent |-> <<>>, held |-> <<>>, sources |-> <<>>, shown |-> FALSE,
            whole |-> FALSE, save |-> "none", kept |-> {}]

TypeOK ==
    /\ \A c \in Conv : /\ conv[c].state \in {"none", "live", "gone"}
                       /\ conv[c].owner \in User \cup {None}
                       /\ conv[c].title \in {"default", "auto", "chosen"}
                       /\ \A i \in DOMAIN msgs[c] : msgs[c][i].turn \in Turn
    /\ counted \subseteq Turn
    /\ \A t \in Turn :
          LET r == turn[t] IN
          /\ r.at \in {"new"} \cup Before \cup Streaming \cup After \cup Ended
          /\ r.user \in User \cup {None} /\ r.conv \in Conv \cup {None}
          /\ r.told \subseteq Turn \X {"user", "assistant"}
          /\ r.made \in 0 .. MaxPerTurn + 1 /\ r.calls \in 0 .. MaxCalls[t]
          /\ r.from \in 0 .. Len(r.said) /\ Len(r.held) < MaxHoldback
          /\ r.save \in {"none", "pending", "done", "failed", "lost"}
    /\ failures \in 0 .. MaxFailures

-----------------------------------------------------------------------------
(* The repository                                                          *)

\* get_conversation: the conversation, if it belongs to the user.
get_conversation(c, u) == conv[c].state = "live" /\ conv[c].owner = u

\* list_messages, as the set of <<turn, role>> that the model is told of.
list_messages(c, u) ==
    IF get_conversation(c, u) THEN {<<m.turn, m.role>> : m \in ToSet(msgs[c])} ELSE {}

\* Mutant of Inserts: the row is inserted whoever asks for it.
InsertsAnyway(row, c, u) == msgs' = [msgs EXCEPT ![c] = Append(@, row)]

\* INSERT ... WHERE EXISTS (SELECT 1 FROM conversations ...).
Inserts(row, c, u) ==
    msgs' = IF get_conversation(c, u) THEN [msgs EXCEPT ![c] = Append(@, row)] ELSE msgs

-----------------------------------------------------------------------------
(* Conversations                                                           *)

Creates(u, c) ==
    /\ conv[c].state = "none"
    /\ conv' = [conv EXCEPT ![c] = [state |-> "live", owner |-> u, title |-> "default"]]
    /\ UNCHANGED <<msgs, counted, turn, failures>>

\* The messages go with the conversation (ON DELETE CASCADE).
Deletes(u, c) ==
    /\ get_conversation(c, u)
    /\ conv' = [conv EXCEPT ![c] = [state |-> "gone", owner |-> None, title |-> "default"]]
    /\ msgs' = [msgs EXCEPT ![c] = <<>>]
    /\ UNCHANGED <<counted, turn, failures>>

Renames(u, c) ==
    /\ get_conversation(c, u)
    /\ conv' = [conv EXCEPT ![c].title = "chosen"]
    /\ UNCHANGED <<msgs, counted, turn, failures>>

-----------------------------------------------------------------------------
(* Before the stream                                                       *)

\* What a turn no longer reads is forgotten: at the end of its stream, what
\* the stream needed; at its own end, all but the text it may have stored.
Spent(r) == [r EXCEPT !.told = {}, !.made = 0, !.noTools = FALSE, !.calls = 0,
                      !.read = <<>>, !.tokens = 0, !.held = <<>>]
Over(r)  == [NewTurn EXCEPT !.at = r.at, !.user = r.user, !.conv = r.conv,
                            !.said = r.said, !.sent = r.sent, !.sources = r.sources,
                            !.shown = r.shown, !.whole = r.whole, !.kept = r.kept,
                            !.save = r.save]
Reached(r) == CASE r.at \in {"refused", "dead"} -> [NewTurn EXCEPT !.at = r.at, !.user = r.user]
                [] r.at \in {"ended", "failed"} -> Over(r)
                [] r.at = "saving"            -> Spent(r)
                [] OTHER                      -> r

Goes(t, l) == turn' = [turn EXCEPT ![t] = Reached([@ EXCEPT !.at = l])]

MayFail == failures < MaxFailures /\ failures' = failures + 1

Posts(t, u, c) ==
    /\ turn[t].at = "new"
    /\ turn' = [turn EXCEPT ![t].at = "posted", ![t].user = u, ![t].conv = c]
    /\ UNCHANGED <<conv, msgs, counted, failures>>

Owns(t) ==
    /\ turn[t].at = "posted"
    /\ get_conversation(turn[t].conv, turn[t].user)
    /\ Goes(t, "owned")
    /\ UNCHANGED <<conv, msgs, counted, failures>>

NotFound(t) ==
    /\ turn[t].at = "posted"
    /\ ~ get_conversation(turn[t].conv, turn[t].user)
    /\ Goes(t, "refused")
    /\ UNCHANGED <<conv, msgs, counted, failures>>

Counts(t) ==
    /\ turn[t].at = "owned"
    /\ counted' = counted \cup {t}
    /\ Goes(t, "counted")
    /\ UNCHANGED <<conv, msgs, failures>>

\* 429; how many sends are too many is MessageCap's matter.
OverLimit(t) ==
    /\ turn[t].at = "owned"
    /\ Goes(t, "refused")
    /\ UNCHANGED <<conv, msgs, counted, failures>>

Row(t, role) == [turn |-> t, role |-> role, text |-> turn[t].sent, sources |-> turn[t].kept]

InsertsQuestion(t) ==
    /\ turn[t].at = "counted"
    /\ Inserts(Row(t, "user"), turn[t].conv, turn[t].user)
    /\ Goes(t, IF get_conversation(turn[t].conv, turn[t].user) THEN "asked" ELSE "refused")
    /\ UNCHANGED <<conv, counted, failures>>

\* The history, the list of videos and the prompt; then the stream begins.
ReadsHistory(t) ==
    /\ turn[t].at = "asked"
    /\ turn' = [turn EXCEPT ![t].at = "round",
                            ![t].told = list_messages(turn[t].conv, turn[t].user)]
    /\ UNCHANGED <<conv, msgs, counted, failures>>

\* (For "asked", after the question is stored: touch_conversation, or a read.)
StatementFails(t) ==
    /\ turn[t].at \in Before
    /\ MayFail
    /\ Goes(t, "failed")
    /\ UNCHANGED <<conv, msgs, counted>>

-----------------------------------------------------------------------------
(* stream_chat                                                             *)

\* Mutant of AsksModel: tools stay allowed past the cap.
AsksModelFreely(t) ==
    /\ turn[t].at = "round"
    /\ turn' = [turn EXCEPT ![t].at = "stream", ![t].from = Len(turn[t].said)]
    /\ UNCHANGED <<conv, msgs, counted, failures>>

\* Past the cap tools are declared and forbidden.
AsksModel(t) ==
    /\ turn[t].at = "round"
    /\ turn' = [turn EXCEPT ![t].at = "stream", ![t].from = Len(turn[t].said),
                            ![t].noTools = turn[t].made >= MaxPerTurn]
    /\ UNCHANGED <<conv, msgs, counted, failures>>

\* A delta goes through the stripper; a whole token may be held back.
Token(t, d) ==
    /\ turn[t].at = "stream"
    /\ turn[t].tokens < MaxTokens[t]
    /\ LET fed == feed(turn[t].held, d)
       IN  turn' = [turn EXCEPT ![t].tokens = @ + 1, ![t].said = @ \o d,
                                ![t].sent = @ \o fed.out, ![t].held = fed.held]
    /\ UNCHANGED <<conv, msgs, counted, failures>>

\* finish_reason "tool_calls".
CallsTools(t, n) ==
    /\ turn[t].at = "stream"
    /\ turn[t].noTools => ~ ProviderObeys
    /\ turn' = [turn EXCEPT ![t].at = "tools", ![t].calls = n]
    /\ UNCHANGED <<conv, msgs, counted, failures>>

\* The next round begins when every call of this one has its tool message.
\* The count is only ever compared with the cap: it stops just above it.
CallDone(t, chunks) ==
    turn' = [turn EXCEPT ![t].calls = @ - 1,
                         ![t].made = IF @ > MaxPerTurn THEN @ ELSE @ + 1,
                         ![t].read = @ \o chunks,
                         ![t].at = IF turn[t].calls = 1 THEN "round" ELSE "tools"]

\* A failed tool, or one that finds nothing, returns the empty list.
RunsTool(t, chunks) ==
    /\ turn[t].at = "tools"
    /\ turn[t].made < MaxPerTurn
    /\ CallDone(t, chunks)
    /\ UNCHANGED <<conv, msgs, counted, failures>>

OverCap(t) ==
    /\ turn[t].at = "tools"
    /\ turn[t].made >= MaxPerTurn
    /\ CallDone(t, <<>>)
    /\ UNCHANGED <<conv, msgs, counted, failures>>

\* An exception: raised when no token was sent, an error event otherwise; there
\* is no [DONE] either way.
ProviderFails(t) ==
    /\ turn[t].at \in {"round", "stream"}
    /\ MayFail
    /\ Goes(t, "saving")
    /\ UNCHANGED <<conv, msgs, counted>>

-----------------------------------------------------------------------------
(* [DONE]: the tail, the sources, the end                                  *)

\* The text of the round that began at from.
FinalText(r) == SubSeq(r.said, r.from + 1, Len(r.said))

\* Phrases by which the model declines; one character stands for them all.
_is_refusal(text) == Contains(text, "r")

\* The chunks read, each of them once, in the order of the tool calls.
Distinct(s) == Picks(s, {i \in DOMAIN s : \A j \in 1 .. i - 1 : s[j] # s[i]})

\* Mutant of _collapse_by_video: the earliest chunk stands for the video,
\* cited or not.
CollapseByStart(chunks, cited) ==
    LET videos == Distinct([i \in DOMAIN chunks |-> VideoOf[chunks[i]]])
        group(v) == {i \in DOMAIN chunks : VideoOf[chunks[i]] = v}
    IN  [k \in DOMAIN videos |->
            LET g == group(videos[k])
                rep == CHOOSE i \in g : \A j \in g : \/ StartOf[chunks[i]] < StartOf[chunks[j]]
                                                     \/ /\ StartOf[chunks[i]] = StartOf[chunks[j]]
                                                        /\ i <= j
            IN  [chunk |-> chunks[rep], cited |-> chunks[rep] \in cited,
                 segments |-> Cardinality(g)]]

\* One entry for each video, in the order in which they were first read: the
\* earliest of its cited chunks, or of all of them when none is cited.
_collapse_by_video(chunks, cited) ==
    LET videos == Distinct([i \in DOMAIN chunks |-> VideoOf[chunks[i]]])
        group(v) == {i \in DOMAIN chunks : VideoOf[chunks[i]] = v}
        marked(v) == {i \in group(v) : chunks[i] \in cited}
    IN  [k \in DOMAIN videos |->
            LET g == IF marked(videos[k]) # {} THEN marked(videos[k]) ELSE group(videos[k])
                rep == CHOOSE i \in g : \A j \in g : \/ StartOf[chunks[i]] < StartOf[chunks[j]]
                                                     \/ /\ StartOf[chunks[i]] = StartOf[chunks[j]]
                                                        /\ i <= j
            IN  [chunk |-> chunks[rep], cited |-> marked(videos[k]) # {},
                 segments |-> Cardinality(group(videos[k]))]]

\* Cited sources first, all of them; of the others the first MaxSources.
Ranked(entries) ==
    LET cited == {k \in DOMAIN entries : entries[k].cited}
        rest  == Picks(entries, DOMAIN entries \ cited)
    IN  Picks(entries, cited)
            \o SubSeq(rest, 1, IF Len(rest) < MaxSources THEN Len(rest) ELSE MaxSources)

SourcesOf(r) ==
    LET cited == {id[1] : id \in {i \in extract_cited_chunk_ids(FinalText(r)) : Len(i) = 1}}
    IN  Ranked(_collapse_by_video(Distinct(r.read), cited))

\* The sources event, unless there is none to show; else the last event.
Concluded(r) ==
    LET src == SourcesOf(r)
    IN  IF src # <<>> /\ ~ _is_refusal(FinalText(r))
        THEN [r EXCEPT !.at = "shown", !.sources = src, !.shown = TRUE]
        ELSE Reached([r EXCEPT !.at = "saving", !.sources = src, !.whole = TRUE])

\* Any other finish_reason ends the final round.  What is still held back is
\* sent first, as an event of its own.
Stops(t) ==
    /\ turn[t].at = "stream"
    /\ LET tail == flush(turn[t].held)
           r    == [turn[t] EXCEPT !.final = TRUE, !.held = <<>>, !.sent = @ \o tail]
       IN  turn' = [turn EXCEPT ![t] = IF tail = <<>> THEN Concluded(r)
                                       ELSE [r EXCEPT !.at = "tail"]]
    /\ UNCHANGED <<conv, msgs, counted, failures>>

TakesSources(t) ==
    /\ turn[t].at = "tail"
    /\ turn' = [turn EXCEPT ![t] = Concluded(@)]
    /\ UNCHANGED <<conv, msgs, counted, failures>>

\* data: [DONE], the last event.
Finishes(t) ==
    /\ turn[t].at = "shown"
    /\ turn' = [turn EXCEPT ![t] = Reached([@ EXCEPT !.at = "saving", !.whole = TRUE])]
    /\ UNCHANGED <<conv, msgs, counted, failures>>

\* The client disconnects: the generator is cancelled where it waits or yields.
ClientLeaves(t) ==
    /\ turn[t].at \in {"round", "stream", "tools", "tail", "shown"}
    /\ MayFail
    /\ Goes(t, "saving")
    /\ UNCHANGED <<conv, msgs, counted>>

-----------------------------------------------------------------------------
(* finally: the answer is stored, shielded from the client's departure     *)

NothingToSave(t) ==
    /\ turn[t].at = "saving"
    /\ turn[t].sent = <<>>
    /\ Goes(t, "ended")
    /\ UNCHANGED <<conv, msgs, counted, failures>>

RefusalText(r) == IF r.final THEN FinalText(r) ELSE r.sent

\* Mutant of SourcesToPersist: a refusal keeps its sources.
PersistsEverySource(r) == IF r.sources = <<>> THEN {} ELSE {r.sources}

\* NULL, the empty set here, or one list.
SourcesToPersist(r) ==
    IF r.sources = <<>> \/ _is_refusal(RefusalText(r)) THEN {} ELSE {r.sources}

Saves(t) ==
    /\ turn[t].at = "saving"
    /\ turn[t].sent # <<>>
    /\ turn' = [turn EXCEPT ![t].at = "storing", ![t].save = "pending",
                            ![t].kept = SourcesToPersist(turn[t])]
    /\ UNCHANGED <<conv, msgs, counted, failures>>

\* The shielded create_message, a task of its own.
InsertsAnswer(t) ==
    /\ turn[t].save = "pending"
    /\ Inserts(Row(t, "assistant"), turn[t].conv, turn[t].user)
    /\ turn' = [turn EXCEPT ![t].save = "done"]
    /\ UNCHANGED <<conv, counted, failures>>

\* Its exception is raised again: no title is set.
StoreFails(t) ==
    /\ turn[t].save = "pending"
    /\ MayFail
    /\ turn' = [turn EXCEPT ![t].save = "failed",
                            ![t].at = IF @ = "storing" THEN "failed" ELSE @]
    /\ UNCHANGED <<conv, msgs, counted>>

\* The row is stored, but touch_conversation raises.
TouchFails(t) ==
    /\ turn[t].at = "storing" /\ turn[t].save = "done"
    /\ MayFail
    /\ Goes(t, "failed")
    /\ UNCHANGED <<conv, msgs, counted>>

Stored(t) ==
    /\ turn[t].at = "storing" /\ turn[t].save = "done"
    /\ Goes(t, "titling")
    /\ UNCHANGED <<conv, msgs, counted, failures>>

\* The wait is cancelled, the task is not.
LeavesWhileStoring(t) ==
    /\ turn[t].at = "storing" /\ turn[t].save = "pending"
    /\ MayFail
    /\ Goes(t, "titling")
    /\ UNCHANGED <<conv, msgs, counted>>

\* _maybe_set_conversation_title: two statements; its failure is swallowed.
KeepsTitle(t) ==
    /\ turn[t].at = "titling"
    /\ \/ ~ get_conversation(turn[t].conv, turn[t].user)
       \/ conv[turn[t].conv].title # "default"
    /\ Goes(t, "ended")
    /\ UNCHANGED <<conv, msgs, counted, failures>>

WantsTitle(t) ==
    /\ turn[t].at = "titling"
    /\ get_conversation(turn[t].conv, turn[t].user)
    /\ conv[turn[t].conv].title = "default"
    /\ Goes(t, "naming")
    /\ UNCHANGED <<conv, msgs, counted, failures>>

SetsTitle(t) ==
    /\ turn[t].at = "naming"
    /\ conv' = IF get_conversation(turn[t].conv, turn[t].user)
               THEN [conv EXCEPT ![turn[t].conv].title = "auto"] ELSE conv
    /\ Goes(t, "ended")
    /\ UNCHANGED <<msgs, counted, failures>>

TitleFails(t) ==
    /\ turn[t].at \in {"titling", "naming"}
    /\ MayFail
    /\ Goes(t, "ended")
    /\ UNCHANGED <<conv, msgs, counted>>

\* The process ends: no finally runs, and no shielded task goes on.
ProcessDies ==
    /\ MayFail
    /\ turn' = [t \in Turn |->
                  IF turn[t].at \in Before \cup Streaming \cup After \/ turn[t].save = "pending"
                  THEN [turn[t] EXCEPT !.at = "dead",
                                       !.save = IF @ = "pending" THEN "lost" ELSE @]
                  ELSE turn[t]]
    /\ UNCHANGED <<conv, msgs, counted>>

-----------------------------------------------------------------------------
Init ==
    /\ conv = [c \in Conv |-> [state |-> "none", owner |-> None, title |-> "default"]]
    /\ msgs = [c \in Conv |-> <<>>]
    /\ counted = {}
    /\ turn = [t \in Turn |-> NewTurn]
    /\ failures = 0

\* What drives a turn on once it is posted: the server, the provider, the tools.
Runs(t) ==
    \/ Owns(t) \/ NotFound(t) \/ Counts(t) \/ OverLimit(t)
    \/ InsertsQuestion(t) \/ ReadsHistory(t)
    \/ AsksModel(t) \/ \E d \in Deltas : Token(t, d)
    \/ \E n \in 1 .. MaxCalls[t] : CallsTools(t, n)
    \/ \E a \in ToolAnswers : RunsTool(t, a)
    \/ OverCap(t) \/ Stops(t)
    \/ TakesSources(t) \/ Finishes(t)
    \/ NothingToSave(t) \/ Saves(t) \/ Stored(t)
    \/ KeepsTitle(t) \/ WantsTitle(t) \/ SetsTitle(t)

Breaks(t) ==
    \/ StatementFails(t) \/ ProviderFails(t) \/ ClientLeaves(t)
    \/ StoreFails(t) \/ TouchFails(t) \/ LeavesWhileStoring(t) \/ TitleFails(t)

Next ==
    \/ \E u \in User, c \in Conv : Creates(u, c) \/ Deletes(u, c) \/ Renames(u, c)
    \/ \E t \in Turn : \E u \in Poster[t], c \in Conv : Posts(t, u, c)
    \/ \E t \in Turn : Runs(t) \/ InsertsAnswer(t) \/ Breaks(t)
    \/ ProcessDies

Spec == Init /\ [][Next]_vars

\* A turn that is posted and not over, whose next step the server, the
\* provider or a tool always can take; and its shielded task.
Active(t) == turn[t].at \in Before \cup Streaming \cup After
Advances(t) == Active(t) /\ turn'[t] # turn[t]
Completes(t) == turn[t].save = "pending" /\ turn'[t].save # "pending"

\* The event loop drives every turn and every shielded task on: the weak
\* fairness of their steps, written without ENABLED, as an active turn always
\* has a step to take.  Nobody need post, and nothing need fail.
FairSpec ==
    /\ Spec
    /\ \A t \in Turn : /\ []<>(~ Active(t)) \/ []<><<Advances(t)>>_turn
                       /\ []<>(turn[t].save # "pending") \/ []<><<Completes(t)>>_turn

-----------------------------------------------------------------------------
(* Properties                                                              *)

\* A message is in a conversation that still exists, sent by its owner, and
\* was counted against the cap; an answer comes after its question, which is
\* there too, and each is there once (messages.py:79-113, repository.py:534):
\* whatever is deleted while the model talks.
MessagesHaveAHome ==
    \A c \in Conv : \A i \in DOMAIN msgs[c] :
        LET m == msgs[c][i] IN
        /\ get_conversation(c, turn[m.turn].user)
        /\ m.turn \in counted
        /\ m.role = "assistant" =>
              \E j \in 1 .. i - 1 : msgs[c][j].turn = m.turn /\ msgs[c][j].role = "user"
        /\ \A j \in DOMAIN msgs[c] :
              msgs[c][j].turn = m.turn /\ msgs[c][j].role = m.role => j = i

AnswersStored == {m \in UNION {ToSet(msgs[c]) : c \in Conv} : m.role = "assistant"}

\* What is stored is what the model said without its markers: all of it when
\* the stream came to its end, the beginning of it when it was cut
\* (messages.py:201-205, 222-227, 257).
StoredIsWhatWasSaid ==
    \A m \in AnswersStored :
        LET said == strip_citation_markers(turn[m.turn].said)
        IN  /\ IsPrefix(m.text, said)
            /\ turn[m.turn].whole => m.text = said

\* Reloading a conversation shows the sources that the stream showed, or none
\* when it showed none (messages.py:240-249, 258-274).
StoredSourcesWereShown ==
    \A m \in AnswersStored :
        /\ m.sources # {} <=> turn[m.turn].shown
        /\ m.sources # {} => m.sources = {turn[m.turn].sources}

\* The sources shown are chunks that this turn's tools returned, at most one
\* of each video; a chunk that was read and is cited has its video among the
\* cited ones, by a cited chunk, whatever the cap on sources
\* (messages.py:206-238, 469-508).
SourcesTellWhatWasRead ==
    \A t \in Turn : turn[t].at = "shown" =>
        LET src == turn[t].sources
            cited == {x \in ToSet(turn[t].read) : <<x>> \in extract_cited_chunk_ids(FinalText(turn[t]))}
        IN  /\ \A i \in DOMAIN src : src[i].chunk \in ToSet(turn[t].read)
            /\ \A i, j \in DOMAIN src :
                  VideoOf[src[i].chunk] = VideoOf[src[j].chunk] => i = j
            /\ \A i \in DOMAIN src : src[i].cited => src[i].chunk \in cited
            /\ \A x \in cited : \E i \in DOMAIN src :
                  src[i].cited /\ VideoOf[src[i].chunk] = VideoOf[x]

\* Every question posted comes to an end, if the provider calls no tool that
\* it was told not to call (openrouter.py:276-313).
TurnEnds ==
    \A t \in Turn : turn[t].at = "posted" ~> turn[t].at \in Ended
=============================================================================
