--------------------------- MODULE ChatTurnProofs ---------------------------
(***************************************************************************)
(* Proofs about a question and its streamed answer, for every number of     *)
(* turns, users and conversations, every answer of the tools and the        *)
(* provider, and every failure, departure and death: the messages of a      *)
(* conversation have a home there, the sources that are stored are those    *)
(* that were shown, these tell what was read, and the text that is stored   *)
(* is what was said.                                                       *)
(*                                                                         *)
(* The invariant, ChatInv, is what each turn knows of itself (Knows), where *)
(* each row of a conversation stands (Placed), and that the question of a   *)
(* turn under way is there (Asked).  For the text, ToldInv adds what a turn *)
(* has sent of what was said (Says), and that a stored answer is that.      *)
(*                                                                         *)
(* The last part is about the cap that a question is counted under before   *)
(* all this, on the model of its transaction (MessageCap).                  *)
(***************************************************************************)
EXTENDS ChatTurn, MessageCap, FiniteSetTheorems, TLAPS

-----------------------------------------------------------------------------
(* What a turn knows                                                       *)

Label == {"new"} \cup Before \cup Streaming \cup After \cup Ended
Char  == IdChar \cup {"[", ":", "]", "w", "r"}
Text  == Seq(Char)

\* A record with the fields of a turn, whatever they hold.
Fields == {"at", "user", "conv", "told", "made", "noTools", "calls", "read", "tokens", "said",
           "from", "final", "sent", "held", "sources", "shown", "whole", "save", "kept"}
Shape(r) == r = [f \in Fields |-> r[f]]

\* What was said and read, until the stream is over.
Heard(r) == r.said \in Text /\ r.from \in 0 .. Len(r.said) /\ r.read \in Seq(ChunkId)

NoSources(r) == r.sources = <<>> /\ ~ r.shown

\* Sources are stored when, and only when, they were shown.
KeepsShown(r) ==
    /\ r.kept # {} <=> r.shown
    /\ r.kept # {} => r.kept = {r.sources}

Knows(r) ==
    /\ Shape(r) /\ r.at \in Label /\ r.shown \in BOOLEAN
    /\ r.at \in Before => r.conv \in Conv
    /\ r.at \in {"new"} \cup Before \cup Streaming => Heard(r)
    /\ r.at \in {"new", "saving", "refused"} \cup Before \cup Streaming => r.save = "none"
    /\ r.save = "pending" => r.at \in {"storing", "titling", "naming", "ended"}
    /\ r.at \in {"new", "round", "stream", "tools", "tail"} \cup Before => NoSources(r)
    /\ r.at \in {"tail", "shown"} => r.final = TRUE
    /\ r.at = "shown" => /\ r.shown /\ r.sources = SourcesOf(r)
                         /\ r.sources # <<>> /\ ~ _is_refusal(FinalText(r))
    /\ r.at = "saving" => (r.shown <=> r.sources # <<>> /\ ~ _is_refusal(RefusalText(r)))
    /\ r.save \in {"pending", "done"} => KeepsShown(r)

TurnsKnow == turn = [t \in Turn |-> turn[t]] /\ \A t \in Turn : Knows(turn[t])

\* What a turn forgets as it ends, and what it does not.
LEMMA ReachedKeeps ==
    ASSUME NEW r, Shape(r)
    PROVE  /\ Shape(Reached(r))
           /\ Reached(r).at = r.at /\ Reached(r).user = r.user
           /\ r.at \notin {"refused", "dead"} =>
                 /\ Reached(r).conv = r.conv /\ Reached(r).save = r.save
                 /\ Reached(r).kept = r.kept /\ Reached(r).shown = r.shown
                 /\ Reached(r).sources = r.sources
           /\ r.at \in {"refused", "dead"} =>
                 /\ Reached(r).save = "none" /\ Reached(r).kept = {}
                 /\ Reached(r).sources = <<>> /\ Reached(r).shown = FALSE
           /\ r.at = "saving" =>
                 /\ Reached(r).said = r.said /\ Reached(r).from = r.from
                 /\ Reached(r).final = r.final /\ Reached(r).sent = r.sent
           /\ r.at \notin {"refused", "dead", "ended", "failed", "saving"} => Reached(r) = r
  <1>1. CASE r.at \in {"refused", "dead"}
    <2>1. Reached(r) = [NewTurn EXCEPT !.at = r.at, !.user = r.user]
      BY <1>1 DEF Reached
    <2> QED BY <1>1, <2>1 DEF NewTurn, Shape, Fields
  <1>2. CASE r.at \in {"ended", "failed"}
    <2>1. Reached(r) = Over(r)
      BY <1>2 DEF Reached
    <2> QED BY ZenonT(60), <1>2, <2>1 DEF Over, NewTurn, Shape, Fields
  <1>3. CASE r.at = "saving"
    <2>1. Reached(r) = Spent(r)
      BY <1>3 DEF Reached
    <2> QED BY <1>3, <2>1 DEF Spent, Shape, Fields
  <1>4. CASE r.at \notin {"refused", "dead", "ended", "failed", "saving"}
    BY <1>4 DEF Reached
  <1> QED BY <1>1, <1>2, <1>3, <1>4

\* A step of one turn leaves the others as they are.
LEMMA OneKnows ==
    ASSUME TurnsKnow, NEW t \in Turn, NEW r, turn' = [turn EXCEPT ![t] = r], Knows(r)
    PROVE  TurnsKnow'
  <1>1. \A u \in Turn : turn'[u] = IF u = t THEN r ELSE turn[u]
    BY DEF TurnsKnow
  <1>2. turn' = [u \in Turn |-> turn'[u]]
    BY DEF TurnsKnow
  <1>3. SUFFICES ASSUME NEW u \in Turn PROVE Knows(turn'[u])
    BY <1>2 DEF TurnsKnow
  <1> QED BY <1>1 DEF TurnsKnow

\* A turn that goes to l: before the stream or after it.
LEMMA GoesKnows ==
    ASSUME NEW r, Knows(r), NEW l \in Label \ ({"new"} \cup Streaming),
           l \in Before => r.at \in Before,
           l \notin {"titling", "ended", "naming"} => r.save # "pending",
           l = "saving" => r.at \in Streaming
    PROVE  Knows(Reached([r EXCEPT !.at = l]))
  <1> DEFINE q == [r EXCEPT !.at = l]
             s == Reached(q)
  <1>1. /\ Shape(q) /\ q.at = l /\ q.user = r.user /\ q.conv = r.conv /\ q.save = r.save
        /\ q.kept = r.kept /\ q.shown = r.shown /\ q.sources = r.sources
        /\ q.said = r.said /\ q.from = r.from /\ q.final = r.final /\ q.sent = r.sent
        /\ q.read = r.read
    BY DEF Knows, Shape, Fields
  <1> HIDE DEF q
  <1>2. /\ Shape(s) /\ s.at = l
        /\ l \notin {"refused", "dead"} =>
              /\ s.conv = r.conv /\ s.save = r.save /\ s.kept = r.kept
              /\ s.shown = r.shown /\ s.sources = r.sources
        /\ l \in {"refused", "dead"} =>
              /\ s.save = "none" /\ s.kept = {} /\ s.sources = <<>> /\ s.shown = FALSE
        /\ l = "saving" => /\ s.said = r.said /\ s.from = r.from
                           /\ s.final = r.final /\ s.sent = r.sent
        /\ l \notin {"refused", "dead", "ended", "failed", "saving"} => s = q
    BY <1>1, ReachedKeeps
  <1> HIDE DEF s
  <1>3. Shape(s) /\ s.at \in Label /\ s.shown \in BOOLEAN
    BY <1>2 DEF Knows
  <1>4. /\ s.at \in Before => s.conv \in Conv
        /\ s.at \in {"new"} \cup Before \cup Streaming => Heard(s)
    <2>1. CASE l \in Before \cup Streaming
      <3>1. s = q /\ r.at \in Before \cup Streaming
        BY <2>1, <1>2 DEF Before, Streaming
      <3> QED BY <1>1, <1>2, <3>1 DEF Knows, Heard, Before, Streaming
    <2> QED BY <2>1, <1>2
  <1>5. /\ s.at \in {"new", "saving", "refused"} \cup Before \cup Streaming => s.save = "none"
        /\ s.save = "pending" => s.at \in {"storing", "titling", "naming", "ended"}
    BY <1>2 DEF Knows, Label, Before, Streaming, After, Ended
  <1>6. s.at \in {"new", "round", "stream", "tools", "tail"} \cup Before => NoSources(s)
    BY <1>2 DEF Knows, NoSources, Before, Streaming
  <1>7. s.at \notin {"tail", "shown"}
    BY <1>2 DEF Streaming
  <1>8. s.at = "saving" => (s.shown <=> s.sources # <<>> /\ ~ _is_refusal(RefusalText(s)))
    <2>1. SUFFICES ASSUME l = "saving"
                   PROVE  s.shown <=> s.sources # <<>> /\ ~ _is_refusal(RefusalText(s))
      BY <1>2
    <2>2. RefusalText(s) = RefusalText(r)
      BY <2>1, <1>2 DEF RefusalText, FinalText
    <2>3. CASE r.at = "shown"
      BY <2>1, <2>2, <2>3, <1>2 DEF Knows, RefusalText
    <2>4. CASE r.at # "shown"
      BY <2>1, <2>4, <1>2 DEF Knows, NoSources, Streaming
    <2> QED BY <2>3, <2>4
  <1>9. s.save \in {"pending", "done"} => KeepsShown(s)
    BY <1>2 DEF Knows, KeepsShown
  <1>10. Knows(s)
    BY <1>2, <1>3, <1>4, <1>5, <1>6, <1>7, <1>8, <1>9 DEF Knows
  <1> QED BY <1>10 DEF s, q

-----------------------------------------------------------------------------
(* Every step of a turn                                                    *)

\* What a turn was posted with.
LEMMA PostsKnows ==
    ASSUME TurnsKnow, NEW t \in Turn, NEW u, NEW c \in Conv, Posts(t, u, c)
    PROVE  TurnsKnow'
  <1> DEFINE s == [turn[t] EXCEPT !.at = "posted", !.user = u, !.conv = c]
  <1>1. turn' = [turn EXCEPT ![t] = s] /\ turn[t].at = "new" /\ Knows(turn[t])
    BY DEF Posts, TurnsKnow
  <1>2. Shape(turn[t])
    BY <1>1 DEF Knows
  <1>3. /\ Shape(s) /\ s.at = "posted" /\ s.conv = c /\ s.save = turn[t].save
        /\ s.said = turn[t].said /\ s.from = turn[t].from /\ s.read = turn[t].read
        /\ s.sources = turn[t].sources /\ s.shown = turn[t].shown
    BY <1>2 DEF Shape, Fields
  <1> HIDE DEF s
  <1>4. Knows(s)
    BY <1>1, <1>3 DEF Knows, Heard, NoSources, Label, Before, Streaming
  <1> QED BY <1>1, <1>4, OneKnows

\* The steps by which a turn only goes on.
LEMMA OnlyGoesKnows ==
    ASSUME TurnsKnow, NEW t \in Turn,
           \/ Owns(t) \/ NotFound(t) \/ Counts(t) \/ OverLimit(t) \/ InsertsQuestion(t)
           \/ StatementFails(t) \/ ProviderFails(t) \/ ClientLeaves(t) \/ NothingToSave(t)
           \/ Stored(t) \/ LeavesWhileStoring(t) \/ KeepsTitle(t) \/ WantsTitle(t)
           \/ SetsTitle(t) \/ TitleFails(t) \/ TouchFails(t)
    PROVE  TurnsKnow'
  <1>1. Knows(turn[t])
    BY DEF TurnsKnow
  <1>2. ASSUME NEW l \in Label \ ({"new"} \cup Streaming), Goes(t, l),
               l \in Before => turn[t].at \in Before,
               l \notin {"titling", "ended", "naming"} => turn[t].save # "pending",
               l = "saving" => turn[t].at \in Streaming
        PROVE  TurnsKnow'
    <2> DEFINE s == Reached([turn[t] EXCEPT !.at = l])
    <2>1. turn' = [turn EXCEPT ![t] = s]
      BY <1>2 DEF Goes
    <2>2. Knows(s)
      BY <1>1, <1>2, GoesKnows
    <2> HIDE DEF s
    <2> QED BY <2>1, <2>2, OneKnows
  <1> USE DEF Label, Before, Streaming, After, Ended
  <1>3. CASE Owns(t)
    BY <1>1, <1>2, <1>3 DEF Owns, Knows
  <1>4. CASE NotFound(t)
    BY <1>1, <1>2, <1>4 DEF NotFound, Knows
  <1>5. CASE Counts(t)
    BY <1>1, <1>2, <1>5 DEF Counts, Knows
  <1>6. CASE OverLimit(t)
    BY <1>1, <1>2, <1>6 DEF OverLimit, Knows
  <1>7. CASE InsertsQuestion(t)
    BY <1>1, <1>2, <1>7 DEF InsertsQuestion, Knows
  <1>8. CASE StatementFails(t)
    BY <1>1, <1>2, <1>8 DEF StatementFails, Knows
  <1>9. CASE ProviderFails(t)
    BY <1>1, <1>2, <1>9 DEF ProviderFails, Knows
  <1>10. CASE ClientLeaves(t)
    BY <1>1, <1>2, <1>10 DEF ClientLeaves, Knows
  <1>11. CASE NothingToSave(t)
    BY <1>1, <1>2, <1>11 DEF NothingToSave, Knows
  <1>12. CASE Stored(t)
    BY <1>1, <1>2, <1>12 DEF Stored
  <1>13. CASE LeavesWhileStoring(t)
    BY <1>1, <1>2, <1>13 DEF LeavesWhileStoring
  <1>14. CASE KeepsTitle(t) \/ WantsTitle(t) \/ SetsTitle(t) \/ TitleFails(t)
    BY <1>1, <1>2, <1>14 DEF KeepsTitle, WantsTitle, SetsTitle, TitleFails
  <1>15. CASE TouchFails(t)
    BY <1>1, <1>2, <1>15 DEF TouchFails
  <1> QED BY <1>3, <1>4, <1>5, <1>6, <1>7, <1>8, <1>9, <1>10, <1>11, <1>12, <1>13, <1>14,
             <1>15

\* The stream, up to its end.
LEMMA StreamKnows ==
    ASSUME ChatAssumption, TurnsKnow, NEW t \in Turn,
           \/ ReadsHistory(t) \/ AsksModel(t) \/ \E d \in Deltas : Token(t, d)
           \/ \E n \in 1 .. MaxCalls[t] : CallsTools(t, n)
           \/ \E a \in ToolAnswers : RunsTool(t, a)
           \/ OverCap(t)
    PROVE  TurnsKnow'
  <1>1. Knows(turn[t]) /\ Shape(turn[t])
    BY DEF TurnsKnow, Knows
  <1>2. ASSUME NEW s, turn' = [turn EXCEPT ![t] = s], Shape(s),
               turn[t].at \in {"asked", "round", "stream", "tools"},
               s.at \in {"round", "stream", "tools"}, Heard(s),
               s.sources = turn[t].sources, s.shown = turn[t].shown, s.save = turn[t].save
        PROVE  TurnsKnow'
    <2>1. Knows(s)
      BY <1>1, <1>2 DEF Knows, NoSources, Label, Before, Streaming
    <2> QED BY <2>1, <1>2, OneKnows
  <1>3. CASE ReadsHistory(t)
    <2> DEFINE h == list_messages(turn[t].conv, turn[t].user)
               s == [turn[t] EXCEPT !.at = "round", !.told = h]
    <2> HIDE DEF h
    <2>1. turn' = [turn EXCEPT ![t] = s] /\ turn[t].at = "asked"
      BY <1>3 DEF ReadsHistory, TurnsKnow, h
    <2>2. /\ Shape(s) /\ s.at = "round"
          /\ s.said = turn[t].said /\ s.from = turn[t].from /\ s.read = turn[t].read
          /\ s.sources = turn[t].sources /\ s.shown = turn[t].shown /\ s.save = turn[t].save
      BY <1>1 DEF Shape, Fields
    <2> HIDE DEF s
    <2> QED BY <1>1, <1>2, <2>1, <2>2 DEF Knows, Heard, Before
  <1>4. CASE AsksModel(t)
    <2> DEFINE n == Len(turn[t].said)
               b == turn[t].made >= MaxPerTurn
               s == [turn[t] EXCEPT !.at = "stream", !.from = n, !.noTools = b]
    <2> HIDE DEF n, b
    <2>1. turn' = [turn EXCEPT ![t] = s] /\ turn[t].at = "round"
      BY <1>4 DEF AsksModel, TurnsKnow, n, b
    <2>2. /\ Shape(s) /\ s.at = "stream"
          /\ s.said = turn[t].said /\ s.from = n /\ s.read = turn[t].read
          /\ s.sources = turn[t].sources /\ s.shown = turn[t].shown /\ s.save = turn[t].save
      BY <1>1 DEF Shape, Fields
    <2> HIDE DEF s
    <2>3. Heard(turn[t])
      BY <1>1, <2>1 DEF Knows, Streaming
    <2>4. Heard(s)
      BY <2>2, <2>3 DEF Heard, Text, n
    <2> QED BY <1>2, <2>1, <2>2, <2>4
  <1>5. ASSUME NEW d \in Deltas, Token(t, d)
        PROVE  TurnsKnow'
    <2> DEFINE fed == feed(turn[t].held, d)
               s == [turn[t] EXCEPT !.tokens = @ + 1, !.said = @ \o d,
                                    !.sent = @ \o fed.out, !.held = fed.held]
    <2> HIDE DEF fed
    <2>1. turn' = [turn EXCEPT ![t] = s] /\ turn[t].at = "stream"
      BY <1>5 DEF Token, TurnsKnow, fed
    <2>2. /\ Shape(s) /\ s.at = turn[t].at /\ s.said = turn[t].said \o d
          /\ s.from = turn[t].from /\ s.read = turn[t].read
          /\ s.sources = turn[t].sources /\ s.shown = turn[t].shown /\ s.save = turn[t].save
      <3>1. Shape(turn[t])
        BY <1>1 DEF Knows
      <3> QED BY <3>1 DEF Shape, Fields
    <2> HIDE DEF s
    <2>3. d \in Text /\ Heard(turn[t])
      BY <1>1, <2>1 DEF ChatAssumption, Text, Char, Knows, Streaming
    <2>4. Heard(s)
      BY <2>2, <2>3 DEF Heard, Text
    <2> QED BY <1>2, <2>1, <2>2, <2>4
  <1>6. ASSUME NEW n \in 1 .. MaxCalls[t], CallsTools(t, n)
        PROVE  TurnsKnow'
    <2> DEFINE s == [turn[t] EXCEPT !.at = "tools", !.calls = n]
    <2>1. turn' = [turn EXCEPT ![t] = s] /\ turn[t].at = "stream"
      BY <1>6 DEF CallsTools, TurnsKnow
    <2>2. /\ Shape(s) /\ s.at = "tools"
          /\ s.said = turn[t].said /\ s.from = turn[t].from /\ s.read = turn[t].read
          /\ s.sources = turn[t].sources /\ s.shown = turn[t].shown /\ s.save = turn[t].save
      BY <1>1 DEF Shape, Fields
    <2> HIDE DEF s
    <2> QED BY <1>1, <1>2, <2>1, <2>2 DEF Knows, Heard, Streaming
  <1>7. ASSUME NEW a \in Seq(ChunkId), CallDone(t, a), turn[t].at = "tools"
        PROVE  TurnsKnow'
    <2> DEFINE l == IF turn[t].calls = 1 THEN "round" ELSE "tools"
               n == turn[t].calls - 1
               m == IF turn[t].made > MaxPerTurn THEN turn[t].made ELSE turn[t].made + 1
               r == turn[t].read \o a
               s == [turn[t] EXCEPT !.calls = n, !.made = m, !.read = r, !.at = l]
    <2>1. l \in {"round", "tools"}
      OBVIOUS
    <2> HIDE DEF l, n, m, r
    <2>2. turn' = [turn EXCEPT ![t] = s]
      BY <1>7 DEF CallDone, TurnsKnow, l, n, m, r
    <2>3. /\ Shape(s) /\ s.at = l
          /\ s.said = turn[t].said /\ s.from = turn[t].from /\ s.read = r
          /\ s.sources = turn[t].sources /\ s.shown = turn[t].shown /\ s.save = turn[t].save
      BY <1>1 DEF Shape, Fields
    <2> HIDE DEF s
    <2>4. Heard(turn[t])
      BY <1>1, <1>7 DEF Knows, Streaming
    <2>5. Heard(s)
      BY <2>3, <2>4 DEF Heard, r
    <2> QED BY <1>2, <1>7, <2>1, <2>2, <2>3, <2>5
  <1>8. \A a \in ToolAnswers : RunsTool(t, a) => TurnsKnow'
    BY <1>7 DEF RunsTool, ChatAssumption
  <1>9. OverCap(t) => TurnsKnow'
    <2>1. <<>> \in Seq(ChunkId)
      OBVIOUS
    <2> QED BY <1>7, <2>1 DEF OverCap
  <1> QED BY <1>3, <1>4, <1>5, <1>6, <1>8, <1>9

\* The end of the last round: the sources are those of what was read and said.
LEMMA ConcludedKnows ==
    ASSUME NEW r, Shape(r), Heard(r), r.final = TRUE, r.save = "none", r.shown = FALSE
    PROVE  Knows(Concluded(r))
  <1> DEFINE src == SourcesOf(r)
  <1>1. CASE src # <<>> /\ ~ _is_refusal(FinalText(r))
    <2> DEFINE s == [r EXCEPT !.at = "shown", !.sources = src, !.shown = TRUE]
    <2>1. Concluded(r) = s
      BY <1>1 DEF Concluded
    <2> HIDE DEF src
    <2>2. /\ Shape(s) /\ s.at = "shown" /\ s.sources = src /\ s.shown = TRUE
          /\ s.said = r.said /\ s.from = r.from /\ s.read = r.read
          /\ s.final = r.final /\ s.save = r.save
      BY DEF Shape, Fields
    <2> HIDE DEF s
    <2>3. FinalText(s) = FinalText(r) /\ SourcesOf(s) = SourcesOf(r)
      BY <2>2 DEF FinalText, SourcesOf
    <2>4. Knows(s)
      BY <1>1, <2>2, <2>3 DEF Knows, Heard, Label, Before, Streaming, src
    <2> QED BY <2>1, <2>4
  <1>2. CASE ~ (src # <<>> /\ ~ _is_refusal(FinalText(r)))
    <2> DEFINE q == [r EXCEPT !.at = "saving", !.sources = src, !.whole = TRUE]
               s == Reached(q)
    <2>1. Concluded(r) = s
      BY <1>2 DEF Concluded
    <2> HIDE DEF src
    <2>2. /\ Shape(q) /\ q.at = "saving" /\ q.sources = src /\ q.shown = r.shown
          /\ q.said = r.said /\ q.from = r.from /\ q.final = r.final /\ q.save = r.save
      BY DEF Shape, Fields
    <2> HIDE DEF q
    <2>3. /\ Shape(s) /\ s.at = "saving" /\ s.sources = src /\ s.shown = r.shown
          /\ s.said = r.said /\ s.from = r.from /\ s.final = r.final /\ s.save = r.save
      BY <2>2, ReachedKeeps
    <2> HIDE DEF s
    <2>4. RefusalText(s) = FinalText(r)
      BY <2>3 DEF RefusalText, FinalText
    <2>5. Knows(s)
      BY <1>2, <2>3, <2>4 DEF Knows, Label, Before, Streaming, After
    <2> QED BY <2>1, <2>5
  <1> QED BY <1>1, <1>2

LEMMA ConclusionKnows ==
    ASSUME TurnsKnow, NEW t \in Turn, Stops(t) \/ TakesSources(t) \/ Finishes(t)
    PROVE  TurnsKnow'
  <1>1. Knows(turn[t]) /\ Shape(turn[t])
    BY DEF TurnsKnow, Knows
  <1>2. CASE Stops(t)
    <2> DEFINE tail == flush(turn[t].held)
               r == [turn[t] EXCEPT !.final = TRUE, !.held = <<>>, !.sent = @ \o tail]
               q == [r EXCEPT !.at = "tail"]
    <2> HIDE DEF tail
    <2>1. turn' = [turn EXCEPT ![t] = IF tail = <<>> THEN Concluded(r) ELSE q]
      BY <1>2 DEF Stops, tail
    <2>2. turn[t].at = "stream"
      BY <1>2 DEF Stops
    <2>3. /\ Heard(turn[t]) /\ turn[t].save = "none" /\ turn[t].sources = <<>>
          /\ turn[t].shown = FALSE
      BY <1>1, <2>2 DEF Knows, NoSources, Streaming
    <2>4. /\ Shape(r) /\ r.final = TRUE /\ r.save = turn[t].save /\ r.at = turn[t].at
          /\ r.said = turn[t].said /\ r.from = turn[t].from /\ r.read = turn[t].read
          /\ r.sources = turn[t].sources /\ r.shown = turn[t].shown
      BY <1>1 DEF Shape, Fields
    <2> HIDE DEF r
    <2>5. /\ Shape(q) /\ q.final = TRUE /\ q.save = r.save /\ q.at = "tail"
          /\ q.said = r.said /\ q.from = r.from /\ q.read = r.read
          /\ q.sources = r.sources /\ q.shown = r.shown
      BY <2>4 DEF Shape, Fields
    <2> HIDE DEF q
    <2>6. Heard(r) /\ Heard(q)
      BY <2>3, <2>4, <2>5 DEF Heard
    <2>7. Knows(Concluded(r))
      BY <2>3, <2>4, <2>6, ConcludedKnows
    <2>8. Knows(q)
      BY <2>3, <2>4, <2>5, <2>6 DEF Knows, NoSources, Label, Before, Streaming
    <2> QED BY <2>1, <2>7, <2>8, OneKnows
  <1>3. CASE TakesSources(t)
    <2>1. turn' = [turn EXCEPT ![t] = Concluded(turn[t])] /\ turn[t].at = "tail"
      BY <1>3 DEF TakesSources, TurnsKnow
    <2>2. Knows(Concluded(turn[t]))
      <3>1. /\ Heard(turn[t]) /\ turn[t].final = TRUE /\ turn[t].save = "none"
            /\ turn[t].shown = FALSE
        BY <1>1, <2>1 DEF Knows, NoSources, Streaming
      <3> QED BY <1>1, <3>1, ConcludedKnows
    <2> QED BY <2>1, <2>2, OneKnows
  <1>4. CASE Finishes(t)
    <2> DEFINE q == [turn[t] EXCEPT !.at = "saving", !.whole = TRUE]
               s == Reached(q)
    <2>1. turn' = [turn EXCEPT ![t] = s] /\ turn[t].at = "shown"
      BY <1>4 DEF Finishes, TurnsKnow
    <2>2. /\ Shape(q) /\ q.at = "saving" /\ q.sources = turn[t].sources
          /\ q.shown = turn[t].shown /\ q.said = turn[t].said /\ q.from = turn[t].from
          /\ q.final = turn[t].final /\ q.save = turn[t].save
      BY <1>1 DEF Shape, Fields
    <2> HIDE DEF q
    <2>3. /\ Shape(s) /\ s.at = "saving" /\ s.sources = turn[t].sources
          /\ s.shown = turn[t].shown /\ s.said = turn[t].said /\ s.from = turn[t].from
          /\ s.final = turn[t].final /\ s.save = turn[t].save
      BY <2>2, ReachedKeeps
    <2> HIDE DEF s
    <2>4. /\ turn[t].final = TRUE /\ turn[t].save = "none" /\ turn[t].shown = TRUE
          /\ turn[t].sources # <<>> /\ ~ _is_refusal(FinalText(turn[t]))
      BY <1>1, <2>1 DEF Knows, Streaming
    <2>5. RefusalText(s) = FinalText(turn[t])
      BY <2>3, <2>4 DEF RefusalText, FinalText
    <2>6. Knows(s)
      BY <2>3, <2>4, <2>5 DEF Knows, Label, Before, Streaming, After
    <2> QED BY <2>1, <2>6, OneKnows
  <1> QED BY <1>2, <1>3, <1>4

\* The storing of the answer, and its end with the process.
LEMMA StoringKnows ==
    ASSUME TurnsKnow, NEW t \in Turn, Saves(t) \/ InsertsAnswer(t) \/ StoreFails(t)
    PROVE  TurnsKnow'
  <1>1. Knows(turn[t]) /\ Shape(turn[t])
    BY DEF TurnsKnow, Knows
  <1>2. CASE Saves(t)
    <2> DEFINE k == SourcesToPersist(turn[t])
               s == [turn[t] EXCEPT !.at = "storing", !.save = "pending", !.kept = k]
    <2> HIDE DEF k
    <2>1. turn' = [turn EXCEPT ![t] = s] /\ turn[t].at = "saving"
      BY <1>2 DEF Saves, TurnsKnow, k
    <2>2. /\ Shape(s) /\ s.at = "storing" /\ s.save = "pending" /\ s.kept = k
          /\ s.sources = turn[t].sources /\ s.shown = turn[t].shown
      BY <1>1 DEF Shape, Fields
    <2> HIDE DEF s
    <2>3. KeepsShown(s)
      BY <1>1, <2>1, <2>2 DEF Knows, KeepsShown, SourcesToPersist, k
    <2>4. Knows(s)
      BY <1>1, <2>2, <2>3 DEF Knows, Label, Before, Streaming, After
    <2> QED BY <2>1, <2>4, OneKnows
  <1>3. CASE InsertsAnswer(t)
    <2> DEFINE s == [turn[t] EXCEPT !.save = "done"]
    <2>1. turn' = [turn EXCEPT ![t] = s] /\ turn[t].save = "pending"
      BY <1>3 DEF InsertsAnswer, TurnsKnow
    <2>2. /\ Shape(s) /\ s.at = turn[t].at /\ s.save = "done" /\ s.kept = turn[t].kept
          /\ s.sources = turn[t].sources /\ s.shown = turn[t].shown
      BY <1>1 DEF Shape, Fields
    <2> HIDE DEF s
    <2>3. Knows(s)
      BY <1>1, <2>1, <2>2 DEF Knows, KeepsShown, Label, Before, Streaming, After
    <2> QED BY <2>1, <2>3, OneKnows
  <1>4. CASE StoreFails(t)
    <2> DEFINE l == IF turn[t].at = "storing" THEN "failed" ELSE turn[t].at
               s == [turn[t] EXCEPT !.save = "failed", !.at = l]
    <2>1. l \in {"failed", turn[t].at} \ {"storing"}
      OBVIOUS
    <2> HIDE DEF l
    <2>2. turn' = [turn EXCEPT ![t] = s] /\ turn[t].save = "pending"
      BY <1>4 DEF StoreFails, TurnsKnow, l
    <2>3. Shape(s) /\ s.at = l /\ s.save = "failed" /\ s.shown = turn[t].shown
      BY <1>1 DEF Shape, Fields
    <2> HIDE DEF s
    <2>4. Knows(s)
      BY <1>1, <2>1, <2>2, <2>3 DEF Knows, Label, Before, Streaming, After, Ended
    <2> QED BY <2>2, <2>4, OneKnows
  <1> QED BY <1>2, <1>3, <1>4

LEMMA DeathKnows ==
    ASSUME TurnsKnow, ProcessDies
    PROVE  TurnsKnow'
  <1>1. SUFFICES ASSUME NEW t \in Turn PROVE Knows(turn'[t])
    BY DEF ProcessDies, TurnsKnow
  <1>2. Knows(turn[t]) /\ Shape(turn[t])
    BY DEF TurnsKnow, Knows
  <1> DEFINE v == IF turn[t].save = "pending" THEN "lost" ELSE turn[t].save
             s == [turn[t] EXCEPT !.at = "dead", !.save = v]
  <1>3. v # "pending" /\ (v = turn[t].save \/ v = "lost")
    OBVIOUS
  <1> HIDE DEF v
  <1>4. turn'[t] = s \/ turn'[t] = turn[t]
    BY DEF ProcessDies, v
  <1>5. /\ Shape(s) /\ s.at = "dead" /\ s.save = v /\ s.shown = turn[t].shown
        /\ s.kept = turn[t].kept /\ s.sources = turn[t].sources
    BY <1>2 DEF Shape, Fields
  <1> HIDE DEF s
  <1>6. Knows(s)
    BY <1>2, <1>3, <1>5 DEF Knows, KeepsShown, Label, Before, Streaming, Ended
  <1> QED BY <1>2, <1>4, <1>6

LEMMA NextKnows ==
    ASSUME ChatAssumption, TurnsKnow, [Next]_vars
    PROVE  TurnsKnow'
  <1>1. CASE UNCHANGED turn
    BY <1>1 DEF TurnsKnow
  <1>2. ASSUME NEW u \in User, NEW c \in Conv, Creates(u, c) \/ Deletes(u, c) \/ Renames(u, c)
        PROVE  TurnsKnow'
    BY <1>1, <1>2 DEF Creates, Deletes, Renames
  <1>3. ASSUME NEW t \in Turn, NEW u \in Poster[t], NEW c \in Conv, Posts(t, u, c)
        PROVE  TurnsKnow'
    BY <1>3, PostsKnows
  <1>4. ASSUME NEW t \in Turn, Runs(t)
        PROVE  TurnsKnow'
    BY <1>4, OnlyGoesKnows, StreamKnows, ConclusionKnows, StoringKnows DEF Runs
  <1>5. ASSUME NEW t \in Turn, InsertsAnswer(t) \/ Breaks(t)
        PROVE  TurnsKnow'
    BY <1>5, OnlyGoesKnows, StoringKnows DEF Breaks
  <1> QED BY <1>1, <1>2, <1>3, <1>4, <1>5, DeathKnows DEF Next, vars

LEMMA InitKnows == Init => TurnsKnow
  <1>1. /\ Shape(NewTurn) /\ NewTurn.at = "new" /\ NewTurn.save = "none"
        /\ NewTurn.sources = <<>> /\ NewTurn.shown = FALSE
        /\ NewTurn.said = <<>> /\ NewTurn.from = 0 /\ NewTurn.read = <<>>
    BY DEF Shape, Fields, NewTurn
  <1>2. Heard(NewTurn)
    BY <1>1 DEF Heard, Text
  <1>3. Knows(NewTurn)
    BY <1>1, <1>2 DEF Knows, NoSources, Label, Before, Streaming
  <1> QED BY <1>3 DEF Init, TurnsKnow

-----------------------------------------------------------------------------
(* The rows of a conversation                                              *)

Role  == {"user", "assistant"}
Early == {"new", "posted", "owned", "counted"}

\* From the moment its question is stored, until its answer is.
InAnswer(r) == r.at \in {"asked"} \cup Streaming \cup After \/ r.save = "pending"

\* The question of a turn that is being answered is there, unless the
\* conversation went.
Asked(t) ==
    LET r == turn[t] IN
    /\ r.at = "counted" => t \in counted
    /\ InAnswer(r) =>
          /\ t \in counted /\ r.conv \in Conv /\ conv[r.conv].state # "none"
          /\ get_conversation(r.conv, r.user) =>
                \E j \in DOMAIN msgs[r.conv] :
                    msgs[r.conv][j].turn = t /\ msgs[r.conv][j].role = "user"

IsSeq(s) == s \in Seq({s[i] : i \in DOMAIN s})

\* Row i of conversation c: its turn is past its question, or its answer.
Placed(c, i) ==
    LET m == msgs[c][i]
        r == turn[m.turn]
    IN  /\ m.turn \in Turn /\ m.role \in Role /\ m.turn \in counted
        /\ get_conversation(c, r.user)
        /\ r.at \notin Early
        /\ m.role = "assistant" =>
              /\ r.save = "done" /\ m.sources = r.kept
              /\ \E j \in 1 .. i - 1 : msgs[c][j].turn = m.turn /\ msgs[c][j].role = "user"
        /\ \A j \in DOMAIN msgs[c] :
              msgs[c][j].turn = m.turn /\ msgs[c][j].role = m.role => j = i

\* A table of conversations, whatever they hold.
Table(f) ==
    f = [c \in Conv |-> [state |-> f[c].state, owner |-> f[c].owner, title |-> f[c].title]]

ConvType ==
    /\ Table(conv)
    /\ msgs = [c \in Conv |-> msgs[c]]
    /\ \A c \in Conv : IsSeq(msgs[c])

RowsPlaced == \A c \in Conv : \A i \in DOMAIN msgs[c] : Placed(c, i)

ChatInv == TurnsKnow /\ ConvType /\ RowsPlaced /\ \A t \in Turn : Asked(t)

LEMMA AppendIsSeq ==
    ASSUME NEW s, IsSeq(s), NEW e
    PROVE  /\ IsSeq(Append(s, e)) /\ Len(s) \in Nat /\ DOMAIN s = 1 .. Len(s)
           /\ DOMAIN Append(s, e) = 1 .. Len(s) + 1
           /\ \A i \in 1 .. Len(s) : Append(s, e)[i] = s[i]
           /\ Append(s, e)[Len(s) + 1] = e
  <1> DEFINE S == {s[i] : i \in DOMAIN s}
             q == Append(s, e)
  <1>1. s \in Seq(S)
    BY DEF IsSeq
  <1>2. s \in Seq(S \cup {e})
    BY <1>1
  <1>3. /\ Len(s) \in Nat /\ DOMAIN s = 1 .. Len(s) /\ q \in Seq(S \cup {e})
        /\ DOMAIN q = 1 .. Len(s) + 1 /\ Len(q) = Len(s) + 1
        /\ \A i \in 1 .. Len(s) : q[i] = s[i]
        /\ q[Len(s) + 1] = e
    BY <1>2
  <1>4. q \in Seq({q[i] : i \in DOMAIN q})
    BY <1>3
  <1> QED BY <1>3, <1>4 DEF IsSeq

-----------------------------------------------------------------------------
(* What a step does to the turns                                           *)

\* A turn r that becomes s keeps its user and its answer, and does not take its
\* question up again.
Lasts(r, s) ==
    /\ r.at \notin Early => s.at \notin Early /\ s.user = r.user
    /\ r.save = "done" => s.save = "done" /\ s.kept = r.kept
Carries(r, s) == Lasts(r, s) /\ (InAnswer(s) => InAnswer(r) /\ s.conv = r.conv)

\* All the turns do, no row is written, and no conversation comes or goes.
Quiet ==
    /\ UNCHANGED msgs
    /\ counted \subseteq counted'
    /\ Table(conv')
    /\ \A c \in Conv : conv'[c].state = conv[c].state /\ conv'[c].owner = conv[c].owner
    /\ \A v \in Turn : /\ Carries(turn[v], turn'[v])
                       /\ turn'[v].at = "counted" => v \in counted'

LEMMA QuietKeeps ==
    ASSUME ChatInv, TurnsKnow', Quiet
    PROVE  ChatInv'
  <1>1. ConvType'
    BY DEF ChatInv, ConvType, Quiet, IsSeq
  <1>2. \A c \in Conv : \A u : get_conversation(c, u)' <=> get_conversation(c, u)
    BY DEF Quiet, get_conversation
  <1>3. RowsPlaced'
    <2>1. SUFFICES ASSUME NEW c \in Conv, NEW i \in DOMAIN msgs[c] PROVE Placed(c, i)'
      BY DEF RowsPlaced, Quiet
    <2>2. Placed(c, i)
      BY DEF ChatInv, RowsPlaced
    <2> DEFINE m == msgs[c][i]
    <2>3. PICK t \in Turn : t = m.turn
      BY <2>2 DEF Placed
    <2>4. Carries(turn[t], turn'[t]) /\ turn[t].at \notin Early
      BY <2>2, <2>3 DEF Quiet, Placed
    <2>5. PICK u : u = turn[t].user
      OBVIOUS
    <2>6. turn'[t].user = u /\ get_conversation(c, u)'
      BY <1>2, <2>2, <2>3, <2>4, <2>5 DEF Carries, Lasts, Placed
    <2>7. get_conversation(c, turn[t].user)'
      BY <2>6 DEF get_conversation
    <2> QED BY <2>2, <2>3, <2>4, <2>7 DEF Placed, Carries, Lasts, Quiet
  <1>4. ASSUME NEW t \in Turn PROVE Asked(t)'
    <2>1. Asked(t) /\ Carries(turn[t], turn'[t])
      BY DEF ChatInv, Quiet
    <2>2. SUFFICES ASSUME InAnswer(turn'[t])
                   PROVE  /\ t \in counted' /\ turn'[t].conv \in Conv
                          /\ conv'[turn'[t].conv].state # "none"
                          /\ get_conversation(turn[t].conv, turn[t].user)' =>
                                \E j \in DOMAIN msgs'[turn'[t].conv] :
                                    /\ msgs'[turn'[t].conv][j].turn = t
                                    /\ msgs'[turn'[t].conv][j].role = "user"
      BY DEF Asked, Quiet, InAnswer
    <2>3. InAnswer(turn[t]) /\ turn'[t].conv = turn[t].conv
      BY <2>1, <2>2 DEF Carries
    <2>4. turn[t].at \notin Early
      BY <2>3 DEF ChatInv, TurnsKnow, Knows, InAnswer, Early, Before, Streaming, After
    <2>5. PICK c, u : c \in Conv /\ c = turn[t].conv /\ u = turn[t].user
      BY <2>1, <2>3 DEF Asked
    <2>6. turn'[t].user = u
      BY <2>1, <2>4, <2>5 DEF Carries, Lasts
    <2>7. get_conversation(turn[t].conv, turn[t].user)' <=> get_conversation(c, u)
      BY <1>2, <2>3, <2>5, <2>6 DEF get_conversation
    <2> QED BY <2>1, <2>3, <2>5, <2>7 DEF Asked, Quiet
  <1> QED BY <1>1, <1>3, <1>4 DEF ChatInv

\* A row of turn t is added to a conversation that is still its user's.
AddsRow(t, c, row) ==
    /\ UNCHANGED <<conv, counted>>
    /\ msgs' = [msgs EXCEPT ![c] = Append(@, row)]
    /\ row.turn = t /\ row.role \in Role /\ t \in counted
    /\ get_conversation(c, turn'[t].user) /\ turn'[t].at \notin Early
    /\ row.role = "assistant" =>
          /\ turn'[t].save = "done" /\ row.sources = turn'[t].kept
          /\ \E j \in DOMAIN msgs[c] : msgs[c][j].turn = t /\ msgs[c][j].role = "user"
    /\ \A j \in DOMAIN msgs[c] : ~ (msgs[c][j].turn = t /\ msgs[c][j].role = row.role)
    /\ \A v \in Turn :
          /\ Lasts(turn[v], turn'[v])
          /\ turn'[v].at = "counted" => v \in counted
          /\ InAnswer(turn'[v]) =>
                \/ InAnswer(turn[v]) /\ turn'[v].conv = turn[v].conv
                \/ v = t /\ row.role = "user" /\ turn'[v].conv = c

LEMMA RowKeeps ==
    ASSUME ChatInv, TurnsKnow', NEW t \in Turn, NEW c \in Conv, NEW row, AddsRow(t, c, row)
    PROVE  ChatInv'
  <1> USE DEF AddsRow
  <1>1. PICK n \in Nat :
        /\ DOMAIN msgs[c] = 1 .. n /\ DOMAIN msgs'[c] = 1 .. n + 1
        /\ \A i \in 1 .. n : msgs'[c][i] = msgs[c][i]
        /\ msgs'[c][n + 1] = row /\ IsSeq(msgs'[c])
    <2>1. IsSeq(msgs[c]) /\ msgs'[c] = Append(msgs[c], row)
      BY DEF ChatInv, ConvType
    <2> QED BY <2>1, AppendIsSeq
  <1>2. \A d \in Conv : d # c => msgs'[d] = msgs[d]
    BY DEF ChatInv, ConvType
  <1>3. ConvType'
    <2>1. \A d \in Conv : IsSeq(msgs'[d])
      BY <1>1, <1>2 DEF ChatInv, ConvType
    <2>2. msgs' = [d \in Conv |-> msgs'[d]]
      BY DEF ChatInv, ConvType
    <2> QED BY <2>1, <2>2 DEF ChatInv, ConvType
  <1>4. \A d \in Conv : \A i \in DOMAIN msgs[d] :
            i \in DOMAIN msgs'[d] /\ msgs'[d][i] = msgs[d][i]
    BY <1>1, <1>2
  <1>5. \A d, u : get_conversation(d, u)' <=> get_conversation(d, u)
    BY DEF get_conversation
  <1>6. ASSUME NEW d \in Conv, NEW i \in DOMAIN msgs[d] PROVE Placed(d, i)'
    <2>1. Placed(d, i)
      BY DEF ChatInv, RowsPlaced
    <2> DEFINE m == msgs[d][i]
    <2>2. PICK v \in Turn : v = m.turn
      BY <2>1 DEF Placed
    <2>3. Lasts(turn[v], turn'[v]) /\ turn[v].at \notin Early /\ msgs'[d][i] = m
      BY <1>4, <2>1, <2>2 DEF Placed
    <2>4. PICK u : u = turn[v].user
      OBVIOUS
    <2>5. turn'[v].user = u /\ get_conversation(d, u)'
      BY <1>5, <2>1, <2>2, <2>3, <2>4 DEF Lasts, Placed
    <2>6. get_conversation(d, turn[v].user)'
      BY <2>5 DEF get_conversation
    <2>7. \A j \in DOMAIN msgs'[d] :
             msgs'[d][j].turn = m.turn /\ msgs'[d][j].role = m.role => j = i
      <3>1. CASE d = c
        <4>1. ~ (m.turn = t /\ m.role = row.role)
          BY <3>1
        <4>2. \A j \in DOMAIN msgs[c] :
                 msgs[c][j].turn = m.turn /\ msgs[c][j].role = m.role => j = i
          BY <2>1, <3>1 DEF Placed
        <4>3. \A j \in 1 .. n + 1 : j \in 1 .. n \/ j = n + 1
          OBVIOUS
        <4> HIDE DEF m
        <4> QED BY <1>1, <3>1, <4>1, <4>2, <4>3
      <3>2. CASE d # c
        BY <1>2, <2>1, <3>2 DEF Placed
      <3> QED BY <3>1, <3>2
    <2>8. m.role = "assistant" =>
             /\ turn'[v].save = "done" /\ m.sources = turn'[v].kept
             /\ \E j \in 1 .. i - 1 : msgs'[d][j].turn = v /\ msgs'[d][j].role = "user"
      <3>1. i \in Int /\ \A j \in 1 .. i - 1 : j \in DOMAIN msgs[d]
        <4>1. IsSeq(msgs[d])
          BY DEF ChatInv, ConvType
        <4> QED BY <4>1, AppendIsSeq
      <3> QED BY <1>4, <2>1, <2>2, <2>3, <3>1 DEF Placed, Lasts
    <2>9. m.role \in Role /\ v \in counted' /\ turn'[v].at \notin Early
      BY <2>1, <2>2, <2>3 DEF Placed, Lasts
    <2>10. msgs'[d][i] = m /\ v = m.turn
      BY <2>2, <2>3
    <2> HIDE DEF m
    <2> QED BY <2>2, <2>6, <2>7, <2>8, <2>9, <2>10 DEF Placed
  <1>7. Placed(c, n + 1)'
    <2>1. msgs'[c][n + 1] = row
      BY <1>1
    <2>2. get_conversation(c, turn[t].user)'
      BY DEF get_conversation
    <2>3. \A j \in DOMAIN msgs'[c] :
             msgs'[c][j].turn = t /\ msgs'[c][j].role = row.role => j = n + 1
      BY <1>1
    <2>4. row.role = "assistant" =>
             \E j \in 1 .. (n + 1) - 1 : msgs'[c][j].turn = t /\ msgs'[c][j].role = "user"
      BY <1>1
    <2> QED BY <2>1, <2>2, <2>3, <2>4 DEF Placed
  <1>8. RowsPlaced'
    <2>1. SUFFICES ASSUME NEW d \in Conv, NEW i \in DOMAIN msgs'[d] PROVE Placed(d, i)'
      BY DEF RowsPlaced
    <2>2. CASE i \in DOMAIN msgs[d]
      BY <2>2, <1>6
    <2>3. CASE i \notin DOMAIN msgs[d]
      <3>1. d = c /\ i = n + 1
        BY <1>1, <1>2, <2>3
      <3> QED BY <1>7, <3>1
    <2> QED BY <2>2, <2>3
  <1>9. ASSUME NEW v \in Turn PROVE Asked(v)'
    <2>1. SUFFICES ASSUME InAnswer(turn'[v])
                   PROVE  /\ v \in counted' /\ turn'[v].conv \in Conv
                          /\ conv'[turn'[v].conv].state # "none"
                          /\ get_conversation(turn[v].conv, turn[v].user)' =>
                                \E j \in DOMAIN msgs'[turn'[v].conv] :
                                    /\ msgs'[turn'[v].conv][j].turn = v
                                    /\ msgs'[turn'[v].conv][j].role = "user"
      BY DEF Asked, InAnswer
    <2>2. CASE InAnswer(turn[v]) /\ turn'[v].conv = turn[v].conv
      <3>1. turn[v].at \notin Early
        BY <2>2 DEF ChatInv, TurnsKnow, Knows, InAnswer, Early, Before, Streaming, After
      <3>2. PICK d, u : d \in Conv /\ d = turn[v].conv /\ u = turn[v].user
        BY <2>2 DEF ChatInv, Asked
      <3>3. turn'[v].user = u
        BY <3>1, <3>2 DEF Lasts
      <3>4. get_conversation(turn[v].conv, turn[v].user)' <=> get_conversation(d, u)
        BY <1>5, <2>2, <3>2, <3>3 DEF get_conversation
      <3> QED BY <1>4, <2>2, <3>2, <3>4 DEF ChatInv, Asked
    <2>3. CASE v = t /\ row.role = "user" /\ turn'[v].conv = c
      BY <1>1, <2>3 DEF get_conversation
    <2> QED BY <2>1, <2>2, <2>3
  <1> QED BY <1>3, <1>8, <1>9 DEF ChatInv

-----------------------------------------------------------------------------
(* Every step                                                              *)

\* One turn goes on, and writes no row.
LEMMA OneQuiet ==
    ASSUME ChatInv, NEW t \in Turn, NEW s, turn' = [turn EXCEPT ![t] = s],
           Carries(turn[t], s), UNCHANGED <<conv, msgs>>, counted \subseteq counted',
           s.at = "counted" => t \in counted'
    PROVE  Quiet
  <1>1. \A v \in Turn : turn'[v] = IF v = t THEN s ELSE turn[v]
    BY DEF ChatInv, TurnsKnow
  <1>2. \A v \in Turn : /\ Carries(turn[v], turn'[v])
                        /\ turn'[v].at = "counted" => v \in counted'
    BY <1>1 DEF Carries, Lasts, ChatInv, Asked
  <1>3. Table(conv')
    BY DEF ChatInv, ConvType
  <1> QED BY <1>2, <1>3 DEF Quiet

LEMMA GoesCarries ==
    ASSUME NEW r, Knows(r), NEW l \in Label \ {"new"},
           l \in Early => r.at \in Early,
           l \in {"refused", "dead"} => r.save # "done",
           l \in {"asked"} \cup Streaming \cup After => InAnswer(r)
    PROVE  /\ Carries(r, Reached([r EXCEPT !.at = l]))
           /\ Reached([r EXCEPT !.at = l]).at = l
  <1> DEFINE q == [r EXCEPT !.at = l]
             s == Reached(q)
  <1>1. /\ Shape(q) /\ q.at = l /\ q.user = r.user /\ q.conv = r.conv /\ q.save = r.save
        /\ q.kept = r.kept
    BY DEF Knows, Shape, Fields
  <1> HIDE DEF q
  <1>2. /\ s.at = l /\ s.user = r.user
        /\ l \notin {"refused", "dead"} =>
              s.conv = r.conv /\ s.save = r.save /\ s.kept = r.kept
        /\ l \in {"refused", "dead"} => s.save = "none"
    BY <1>1, ReachedKeeps
  <1> HIDE DEF s
  <1>3. Carries(r, s) /\ s.at = l
    BY <1>2 DEF Carries, Lasts, InAnswer, Streaming, After
  <1> QED BY <1>3 DEF s, q

LEMMA GoesQuiet ==
    ASSUME ChatInv, NEW t \in Turn, NEW l \in Label \ {"new"}, Goes(t, l),
           UNCHANGED <<conv, msgs>>, counted \subseteq counted',
           l \in Early => turn[t].at \in Early,
           l = "counted" => t \in counted',
           l \in {"refused", "dead"} => turn[t].save # "done",
           l \in {"asked"} \cup Streaming \cup After => InAnswer(turn[t])
    PROVE  Quiet
  <1> DEFINE s == Reached([turn[t] EXCEPT !.at = l])
  <1>1. turn' = [turn EXCEPT ![t] = s]
    BY DEF Goes
  <1>2. Carries(turn[t], s) /\ s.at = l
    BY GoesCarries DEF ChatInv, TurnsKnow
  <1> HIDE DEF s
  <1> QED BY <1>1, <1>2, OneQuiet

LEMMA OnlyGoesQuiet ==
    ASSUME ChatInv, NEW t \in Turn,
           \/ Owns(t) \/ NotFound(t) \/ Counts(t) \/ OverLimit(t)
           \/ InsertsQuestion(t) /\ ~ get_conversation(turn[t].conv, turn[t].user)
           \/ StatementFails(t) \/ ProviderFails(t) \/ ClientLeaves(t) \/ NothingToSave(t)
           \/ Stored(t) \/ LeavesWhileStoring(t) \/ KeepsTitle(t) \/ WantsTitle(t)
           \/ TitleFails(t) \/ TouchFails(t)
    PROVE  Quiet
  <1>1. Knows(turn[t])
    BY DEF ChatInv, TurnsKnow
  <1> USE DEF Label, Before, Streaming, After, Ended, Early, InAnswer
  <1>3. CASE Owns(t)
    BY <1>3, GoesQuiet DEF Owns
  <1>4. CASE NotFound(t)
    BY <1>1, <1>4, GoesQuiet DEF NotFound, Knows
  <1>5. CASE Counts(t)
    BY <1>5, GoesQuiet DEF Counts
  <1>6. CASE OverLimit(t)
    BY <1>1, <1>6, GoesQuiet DEF OverLimit, Knows
  <1>7. CASE InsertsQuestion(t) /\ ~ get_conversation(turn[t].conv, turn[t].user)
    BY <1>1, <1>7, GoesQuiet DEF InsertsQuestion, Inserts, Knows
  <1>8. CASE StatementFails(t)
    BY <1>8, GoesQuiet DEF StatementFails
  <1>9. CASE ProviderFails(t)
    BY <1>9, GoesQuiet DEF ProviderFails
  <1>10. CASE ClientLeaves(t)
    BY <1>10, GoesQuiet DEF ClientLeaves
  <1>11. CASE NothingToSave(t)
    BY <1>11, GoesQuiet DEF NothingToSave
  <1>12. CASE Stored(t)
    BY <1>12, GoesQuiet DEF Stored
  <1>13. CASE LeavesWhileStoring(t)
    BY <1>13, GoesQuiet DEF LeavesWhileStoring
  <1>14. CASE KeepsTitle(t) \/ WantsTitle(t) \/ TitleFails(t)
    BY <1>14, GoesQuiet DEF KeepsTitle, WantsTitle, TitleFails
  <1>15. CASE TouchFails(t)
    BY <1>15, GoesQuiet DEF TouchFails
  <1> QED BY <1>3, <1>4, <1>5, <1>6, <1>7, <1>8, <1>9, <1>10, <1>11, <1>12, <1>13, <1>14,
             <1>15

\* The stream: no step of it is the first after the question, or the last.
LEMMA StreamQuiet ==
    ASSUME ChatInv, NEW t \in Turn,
           \/ ReadsHistory(t) \/ AsksModel(t) \/ \E d \in Deltas : Token(t, d)
           \/ \E n \in 1 .. MaxCalls[t] : CallsTools(t, n)
           \/ \E a \in ToolAnswers : RunsTool(t, a)
           \/ OverCap(t) \/ Stops(t) \/ TakesSources(t) \/ Finishes(t)
           \/ Saves(t) \/ StoreFails(t)
    PROVE  Quiet
  <1>1. Knows(turn[t]) /\ Shape(turn[t])
    BY DEF ChatInv, TurnsKnow, Knows
  <1> DEFINE Fine(s) == /\ s.at \notin Early /\ s.user = turn[t].user
                        /\ s.conv = turn[t].conv
  <1>2. ASSUME NEW s, turn' = [turn EXCEPT ![t] = s], UNCHANGED <<conv, msgs, counted>>,
               turn[t].at \in {"asked", "saving"} \cup Streaming \/ turn[t].save = "pending",
               Fine(s)
        PROVE  Quiet
    <2>1. turn[t].at \notin Early /\ InAnswer(turn[t]) /\ turn[t].save # "done"
      BY <1>1, <1>2 DEF Knows, InAnswer, Early, Before, Streaming, After
    <2>2. Carries(turn[t], s) /\ s.at # "counted"
      BY <1>2, <2>1 DEF Carries, Lasts, Early
    <2> QED BY <1>2, <2>2, OneQuiet
  <1>3. turn = [v \in Turn |-> turn[v]]
    BY DEF ChatInv, TurnsKnow
  <1>4. ASSUME NEW r, Shape(r), r.user = turn[t].user, r.conv = turn[t].conv
        PROVE  Fine(Concluded(r))
    <2> DEFINE src == SourcesOf(r)
               a == [r EXCEPT !.at = "shown", !.sources = src, !.shown = TRUE]
               b == [r EXCEPT !.at = "saving", !.sources = src, !.whole = TRUE]
    <2>1. Concluded(r) \in {a, Reached(b)}
      BY DEF Concluded
    <2> HIDE DEF src
    <2>2. Fine(a) /\ Shape(b) /\ b.at = "saving" /\ b.user = r.user /\ b.conv = r.conv
      BY <1>4 DEF Shape, Fields, Early
    <2> HIDE DEF a, b
    <2>3. Fine(Reached(b))
      BY <1>4, <2>2, ReachedKeeps DEF Early
    <2> QED BY <2>1, <2>2, <2>3
  <1>5. CASE ReadsHistory(t) \/ AsksModel(t)
    <2>1. turn' = [turn EXCEPT ![t] = turn'[t]] /\ Fine(turn'[t])
      BY <1>1, <1>3, <1>5 DEF ReadsHistory, AsksModel, Shape, Fields, Early
    <2> QED BY <1>2, <1>5, <2>1 DEF ReadsHistory, AsksModel, Streaming
  <1>6. ASSUME NEW d \in Deltas, Token(t, d)
        PROVE  Quiet
    <2>1. turn' = [turn EXCEPT ![t] = turn'[t]] /\ Fine(turn'[t])
      BY <1>1, <1>3, <1>6 DEF Token, Shape, Fields, Early
    <2> QED BY <1>2, <1>6, <2>1 DEF Token, Streaming
  <1>7. ASSUME NEW n \in 1 .. MaxCalls[t], CallsTools(t, n)
        PROVE  Quiet
    <2>1. turn' = [turn EXCEPT ![t] = turn'[t]] /\ Fine(turn'[t])
      BY <1>1, <1>3, <1>7 DEF CallsTools, Shape, Fields, Early
    <2> QED BY <1>2, <1>7, <2>1 DEF CallsTools, Streaming
  <1>8. ASSUME NEW a, CallDone(t, a), turn[t].at = "tools", UNCHANGED <<conv, msgs, counted>>
        PROVE  Quiet
    <2>1. turn' = [turn EXCEPT ![t] = turn'[t]] /\ Fine(turn'[t])
      BY <1>1, <1>3, <1>8 DEF CallDone, Shape, Fields, Early
    <2> QED BY <1>2, <1>8, <2>1 DEF Streaming
  <1>9. CASE (\E a \in ToolAnswers : RunsTool(t, a)) \/ OverCap(t)
    BY <1>8, <1>9 DEF RunsTool, OverCap
  <1>10. CASE Stops(t)
    <2> DEFINE tail == flush(turn[t].held)
               r == [turn[t] EXCEPT !.final = TRUE, !.held = <<>>, !.sent = @ \o tail]
               q == [r EXCEPT !.at = "tail"]
    <2> HIDE DEF tail
    <2>1. turn' = [turn EXCEPT ![t] = IF tail = <<>> THEN Concluded(r) ELSE q]
      BY <1>10 DEF Stops, tail
    <2>2. Shape(r) /\ r.user = turn[t].user /\ r.conv = turn[t].conv
      BY <1>1 DEF Shape, Fields
    <2> HIDE DEF r
    <2>3. Fine(q)
      BY <2>2 DEF Shape, Fields, Early
    <2>4. Fine(Concluded(r))
      BY <1>4, <2>2
    <2> HIDE DEF q
    <2> QED BY <1>2, <1>10, <2>1, <2>3, <2>4 DEF Stops, Streaming
  <1>11. CASE TakesSources(t)
    <2>1. turn' = [turn EXCEPT ![t] = Concluded(turn[t])] /\ turn[t].at = "tail"
      BY <1>11 DEF TakesSources
    <2>2. Fine(Concluded(turn[t]))
      BY <1>1, <1>4
    <2> QED BY <1>2, <1>11, <2>1, <2>2 DEF TakesSources, Streaming
  <1>12. CASE Finishes(t)
    <2> DEFINE q == [turn[t] EXCEPT !.at = "saving", !.whole = TRUE]
    <2>1. turn' = [turn EXCEPT ![t] = Reached(q)] /\ turn[t].at = "shown"
      BY <1>12 DEF Finishes
    <2>2. Shape(q) /\ q.at = "saving" /\ q.user = turn[t].user /\ q.conv = turn[t].conv
      BY <1>1 DEF Shape, Fields
    <2> HIDE DEF q
    <2>3. Fine(Reached(q))
      BY <2>2, ReachedKeeps DEF Early
    <2> QED BY <1>2, <1>12, <2>1, <2>3 DEF Finishes, Streaming
  <1>13. CASE Saves(t)
    <2>1. turn' = [turn EXCEPT ![t] = turn'[t]] /\ Fine(turn'[t])
      BY <1>1, <1>3, <1>13 DEF Saves, Shape, Fields, Early
    <2> QED BY <1>2, <1>13, <2>1 DEF Saves
  <1>14. CASE StoreFails(t)
    <2>1. turn[t].at \notin Early
      BY <1>1, <1>14 DEF StoreFails, Knows, Early
    <2>2. turn' = [turn EXCEPT ![t] = turn'[t]] /\ Fine(turn'[t])
      BY <1>1, <1>3, <1>14, <2>1 DEF StoreFails, Shape, Fields, Early
    <2> QED BY <1>2, <1>14, <2>2 DEF StoreFails
  <1> QED BY <1>5, <1>6, <1>7, <1>9, <1>10, <1>11, <1>12, <1>13, <1>14

LEMMA PostsQuiet ==
    ASSUME ChatInv, NEW t \in Turn, NEW u, NEW c \in Conv, Posts(t, u, c)
    PROVE  Quiet
  <1> DEFINE s == [turn[t] EXCEPT !.at = "posted", !.user = u, !.conv = c]
  <1>1. /\ turn' = [turn EXCEPT ![t] = s] /\ turn[t].at = "new" /\ turn[t].save = "none"
        /\ Shape(turn[t])
    BY DEF Posts, ChatInv, TurnsKnow, Knows
  <1>2. s.at = "posted" /\ s.save = turn[t].save
    BY <1>1 DEF Shape, Fields
  <1> HIDE DEF s
  <1>3. Carries(turn[t], s)
    BY <1>1, <1>2 DEF Carries, Lasts, Early, InAnswer, Streaming, After
  <1> QED BY <1>1, <1>2, <1>3, OneQuiet DEF Posts

LEMMA DeathQuiet ==
    ASSUME ChatInv, ProcessDies
    PROVE  Quiet
  <1>1. ASSUME NEW v \in Turn
        PROVE  /\ Carries(turn[v], turn'[v])
               /\ turn'[v].at = "counted" => v \in counted'
    <2>1. Knows(turn[v]) /\ Shape(turn[v]) /\ Asked(v)
      BY DEF ChatInv, TurnsKnow, Knows
    <2>2. CASE turn'[v] = turn[v]
      BY <2>1, <2>2 DEF Carries, Lasts, Asked, ProcessDies
    <2>3. CASE turn'[v] # turn[v]
      <3>1. /\ turn'[v].at = "dead" /\ turn'[v].user = turn[v].user
            /\ turn'[v].kept = turn[v].kept /\ turn'[v].save # "pending"
            /\ turn[v].save = "done" => turn'[v].save = "done"
        BY <2>1, <2>3 DEF ProcessDies, Shape, Fields
      <3> QED BY <3>1 DEF Carries, Lasts, Early, InAnswer, Streaming, After
    <2> QED BY <2>2, <2>3
  <1> QED BY <1>1 DEF Quiet, ProcessDies, ChatInv, ConvType

\* A title is set: on its own, or by the turn.
LEMMA TitleQuiet ==
    ASSUME ChatInv, NEW c \in Conv, NEW w, conv' = [conv EXCEPT ![c].title = w]
    PROVE  /\ Table(conv')
           /\ \A d \in Conv : conv'[d].state = conv[d].state /\ conv'[d].owner = conv[d].owner
  BY DEF ChatInv, ConvType, Table

LEMMA RenamesQuiet ==
    ASSUME ChatInv, NEW u, NEW c \in Conv, Renames(u, c)
    PROVE  Quiet
  <1>1. /\ Table(conv')
        /\ \A d \in Conv : conv'[d].state = conv[d].state /\ conv'[d].owner = conv[d].owner
    BY TitleQuiet DEF Renames
  <1> QED BY <1>1 DEF Renames, Quiet, Carries, Lasts, ChatInv, Asked

LEMMA SetsTitleQuiet ==
    ASSUME ChatInv, NEW t \in Turn, SetsTitle(t)
    PROVE  Quiet
  <1>1. turn[t].conv \in Conv
    BY DEF SetsTitle, ChatInv, Asked, InAnswer, After
  <1>2. /\ Table(conv')
        /\ \A d \in Conv : conv'[d].state = conv[d].state /\ conv'[d].owner = conv[d].owner
    BY <1>1, TitleQuiet DEF SetsTitle, ChatInv, ConvType
  <1> DEFINE s == Reached([turn[t] EXCEPT !.at = "ended"])
  <1>3. turn' = [turn EXCEPT ![t] = s]
    BY DEF SetsTitle, Goes
  <1>4. Carries(turn[t], s) /\ s.at = "ended"
    BY GoesCarries DEF ChatInv, TurnsKnow, Label, Early, Streaming, After, Ended
  <1> HIDE DEF s
  <1>5. \A v \in Turn : turn'[v] = IF v = t THEN s ELSE turn[v]
    BY <1>3 DEF ChatInv, TurnsKnow
  <1>6. ASSUME NEW v \in Turn
        PROVE  /\ Carries(turn[v], turn'[v])
               /\ turn'[v].at = "counted" => v \in counted'
    BY <1>4, <1>5 DEF Carries, Lasts, ChatInv, Asked, SetsTitle
  <1> QED BY <1>2, <1>6 DEF Quiet, SetsTitle

-----------------------------------------------------------------------------
(* The steps that write, and that make or remove a conversation            *)

LEMMA QuestionKeeps ==
    ASSUME ChatInv, TurnsKnow', NEW t \in Turn, InsertsQuestion(t)
    PROVE  ChatInv'
  <1>1. CASE ~ get_conversation(turn[t].conv, turn[t].user)
    BY <1>1, OnlyGoesQuiet, QuietKeeps
  <1>2. CASE get_conversation(turn[t].conv, turn[t].user)
    <2>1. /\ Knows(turn[t]) /\ Shape(turn[t]) /\ turn[t].at = "counted"
          /\ t \in counted /\ turn[t].conv \in Conv /\ turn[t].save = "none"
      BY DEF ChatInv, TurnsKnow, Knows, Asked, InsertsQuestion, Before
    <2> DEFINE q == [turn[t] EXCEPT !.at = "asked"]
    <2>2. /\ q.at = "asked" /\ q.user = turn[t].user /\ q.conv = turn[t].conv
          /\ q.save = "none" /\ Shape(q)
      BY <2>1 DEF Shape, Fields
    <2>3. turn' = [turn EXCEPT ![t] = Reached(q)]
      BY <1>2 DEF InsertsQuestion, Goes
    <2> HIDE DEF q
    <2>4. \A v \in Turn : turn'[v] = IF v = t THEN q ELSE turn[v]
      BY <2>2, <2>3, ReachedKeeps DEF ChatInv, TurnsKnow
    <2>5. PICK c \in Conv : c = turn[t].conv
      BY <2>1
    <2> DEFINE row == Row(t, "user")
    <2>6. row.turn = t /\ row.role = "user"
      BY DEF Row
    <2>7. msgs' = [msgs EXCEPT ![c] = Append(@, row)]
      BY <1>2, <2>5 DEF InsertsQuestion, Inserts
    <2> HIDE DEF row
    <2>8. get_conversation(c, turn'[t].user) /\ turn'[t].at \notin Early
      BY <1>2, <2>2, <2>4, <2>5 DEF Early
    <2>9. \A j \in DOMAIN msgs[c] : msgs[c][j].turn # t
      BY <2>1 DEF ChatInv, RowsPlaced, Placed, Early
    <2>10. ASSUME NEW v \in Turn
           PROVE  /\ Lasts(turn[v], turn'[v])
                  /\ turn'[v].at = "counted" => v \in counted
                  /\ InAnswer(turn'[v]) =>
                        \/ InAnswer(turn[v]) /\ turn'[v].conv = turn[v].conv
                        \/ v = t /\ row.role = "user" /\ turn'[v].conv = c
      BY <2>1, <2>2, <2>4, <2>5, <2>6 DEF Lasts, Early, ChatInv, Asked
    <2>11. AddsRow(t, c, row)
      BY <2>1, <2>6, <2>7, <2>8, <2>9, <2>10 DEF AddsRow, Role, InsertsQuestion
    <2> QED BY <2>11, RowKeeps
  <1> QED BY <1>1, <1>2

LEMMA AnswerKeeps ==
    ASSUME ChatInv, TurnsKnow', NEW t \in Turn, InsertsAnswer(t)
    PROVE  ChatInv'
  <1>1. /\ Knows(turn[t]) /\ Shape(turn[t]) /\ turn[t].save = "pending" /\ Asked(t)
        /\ turn[t].conv \in Conv /\ t \in counted
    BY DEF ChatInv, TurnsKnow, Knows, Asked, InsertsAnswer, InAnswer
  <1>2. turn[t].at \notin Early
    BY <1>1 DEF Knows, Early
  <1> DEFINE s == [turn[t] EXCEPT !.save = "done"]
  <1>3. /\ s.at = turn[t].at /\ s.user = turn[t].user /\ s.conv = turn[t].conv
        /\ s.save = "done" /\ s.kept = turn[t].kept
    BY <1>1 DEF Shape, Fields
  <1>4. turn' = [turn EXCEPT ![t] = s]
    BY DEF InsertsAnswer, ChatInv, TurnsKnow
  <1> HIDE DEF s
  <1>5. \A v \in Turn : turn'[v] = IF v = t THEN s ELSE turn[v]
    BY <1>4 DEF ChatInv, TurnsKnow
  <1>6. Carries(turn[t], s)
    BY <1>1, <1>2, <1>3 DEF Carries, Lasts, InAnswer
  <1>7. CASE ~ get_conversation(turn[t].conv, turn[t].user)
    <2>1. s.at = "counted" => t \in counted'
      BY <1>2, <1>3 DEF Early
    <2>2. Quiet
      BY <1>4, <1>6, <1>7, <2>1, OneQuiet DEF InsertsAnswer, Inserts
    <2> QED BY <2>2, QuietKeeps
  <1>8. CASE get_conversation(turn[t].conv, turn[t].user)
    <2>1. PICK c \in Conv : c = turn[t].conv
      BY <1>1
    <2>9. PICK row : row = Row(t, "assistant")
      OBVIOUS
    <2>2. row.turn = t /\ row.role = "assistant" /\ row.sources = turn[t].kept
      BY <2>9 DEF Row
    <2>3. msgs' = [msgs EXCEPT ![c] = Append(@, row)]
      BY <1>8, <2>1, <2>9 DEF InsertsAnswer, Inserts
    <2>4. get_conversation(c, turn'[t].user) /\ turn'[t].at \notin Early
      BY <1>2, <1>3, <1>5, <1>8, <2>1
    <2>5. row.role = "assistant" =>
          /\ turn'[t].save = "done" /\ row.sources = turn'[t].kept
          /\ \E j \in DOMAIN msgs[c] : msgs[c][j].turn = t /\ msgs[c][j].role = "user"
      BY <1>1, <1>3, <1>5, <1>8, <2>1, <2>2 DEF Asked, InAnswer
    <2>6. \A j \in DOMAIN msgs[c] : ~ (msgs[c][j].turn = t /\ msgs[c][j].role = row.role)
      BY <1>1, <2>2 DEF ChatInv, RowsPlaced, Placed
    <2>7. ASSUME NEW v \in Turn
          PROVE  /\ Lasts(turn[v], turn'[v])
                 /\ turn'[v].at = "counted" => v \in counted
                 /\ InAnswer(turn'[v]) =>
                       \/ InAnswer(turn[v]) /\ turn'[v].conv = turn[v].conv
                       \/ v = t /\ row.role = "user" /\ turn'[v].conv = c
      BY <1>1, <1>2, <1>3, <1>5, <1>6 DEF Carries, Lasts, ChatInv, Asked, Early
    <2>8. /\ t \in counted /\ row.role \in Role /\ row.turn = t
          /\ UNCHANGED <<conv, counted>>
      BY <1>1, <2>2 DEF Role, InsertsAnswer
    <2>10. AddsRow(t, c, row)
      BY <2>3, <2>4, <2>5, <2>6, <2>7, <2>8 DEF AddsRow
    <2> QED BY <2>10, RowKeeps
  <1> QED BY <1>7, <1>8

LEMMA ConversationsKeep ==
    ASSUME ChatInv, NEW u \in User, NEW c \in Conv, Creates(u, c) \/ Deletes(u, c)
    PROVE  ChatInv'
  <1>1. UNCHANGED turn /\ TurnsKnow'
    BY DEF Creates, Deletes, ChatInv, TurnsKnow
  <1>2. /\ Table(conv') /\ conv'[c].state \in {"live", "gone"}
        /\ \A d \in Conv : d # c => conv'[d] = conv[d]
        /\ get_conversation(c, u)' => conv[c].state = "none"
    BY DEF Creates, Deletes, ChatInv, ConvType, Table, get_conversation
  <1>3. \A d \in Conv : msgs'[d] = msgs[d] \/ (d = c /\ msgs'[d] = <<>>)
    <2>1. msgs = [d \in Conv |-> msgs[d]]
      BY DEF ChatInv, ConvType
    <2>2. CASE Creates(u, c)
      BY <2>2 DEF Creates
    <2>3. CASE Deletes(u, c)
      BY <2>1, <2>3 DEF Deletes
    <2> QED BY <2>2, <2>3
  <1>4. (\E i \in DOMAIN msgs[c] : TRUE) => conv[c].state = "live"
    BY DEF ChatInv, RowsPlaced, Placed, get_conversation
  <1>5. ConvType'
    <2>1. IsSeq(<<>>)
      BY DEF IsSeq
    <2> QED BY <1>2, <1>3, <2>1 DEF ChatInv, ConvType, Creates, Deletes
  <1>6. DOMAIN msgs'[c] = {}
    BY <1>3, <1>4 DEF Creates, Deletes, get_conversation, ChatInv, ConvType, IsSeq
  <1>7. \A d \in Conv : \A v : d # c => (get_conversation(d, v)' <=> get_conversation(d, v))
    BY <1>2 DEF get_conversation
  <1>8. RowsPlaced'
    <2>1. SUFFICES ASSUME NEW d \in Conv, NEW i \in DOMAIN msgs'[d] PROVE Placed(d, i)'
      BY DEF RowsPlaced
    <2>2. d # c /\ msgs'[d] = msgs[d] /\ conv'[d] = conv[d]
      BY <1>2, <1>3, <1>6
    <2>3. Placed(d, i)
      BY <2>2 DEF ChatInv, RowsPlaced
    <2> QED BY <1>1, <2>2, <2>3 DEF Placed, Creates, Deletes, get_conversation
  <1>9. ASSUME NEW v \in Turn PROVE Asked(v)'
    <2>1. Asked(v)
      BY DEF ChatInv
    <2>2. CASE InAnswer(turn[v]) /\ turn[v].conv = c
      <3>1. conv[c].state # "none"
        BY <2>1, <2>2 DEF Asked
      <3>2. conv'[c].state = "gone"
        BY <3>1 DEF Creates, Deletes, ChatInv, ConvType, Table
      <3> QED BY <1>1, <2>1, <2>2, <3>2 DEF Asked, Creates, Deletes, get_conversation
    <2>3. CASE InAnswer(turn[v]) /\ turn[v].conv # c
      <3>1. PICK d \in Conv : d = turn[v].conv
        BY <2>1, <2>3 DEF Asked
      <3>2. msgs'[d] = msgs[d] /\ conv'[d] = conv[d]
        BY <1>2, <1>3, <2>3, <3>1
      <3> QED BY <1>1, <2>1, <3>1, <3>2 DEF Asked, Creates, Deletes, get_conversation
    <2>4. CASE ~ InAnswer(turn[v])
      BY <1>1, <2>1, <2>4 DEF Asked, Creates, Deletes, InAnswer
    <2> QED BY <2>2, <2>3, <2>4
  <1> QED BY <1>1, <1>5, <1>8, <1>9 DEF ChatInv

LEMMA ChatStep ==
    ASSUME ChatAssumption, ChatInv, [Next]_vars
    PROVE  ChatInv'
  <1>1. TurnsKnow'
    BY NextKnows DEF ChatInv
  <1>2. CASE Quiet
    BY <1>1, <1>2, QuietKeeps
  <1>3. CASE UNCHANGED vars
    BY <1>1, <1>3, QuietKeeps DEF vars, ChatInv, ConvType, Asked, Quiet, Carries, Lasts
  <1>4. ASSUME NEW u \in User, NEW c \in Conv, Creates(u, c) \/ Deletes(u, c) \/ Renames(u, c)
        PROVE  ChatInv'
    BY <1>2, <1>4, ConversationsKeep, RenamesQuiet
  <1>5. ASSUME NEW t \in Turn, NEW u \in Poster[t], NEW c \in Conv, Posts(t, u, c)
        PROVE  ChatInv'
    BY <1>2, <1>5, PostsQuiet
  <1>6. ASSUME NEW t \in Turn, Runs(t)
        PROVE  ChatInv'
    BY <1>1, <1>2, <1>6, OnlyGoesQuiet, StreamQuiet, SetsTitleQuiet, QuestionKeeps DEF Runs
  <1>7. ASSUME NEW t \in Turn, InsertsAnswer(t) \/ Breaks(t)
        PROVE  ChatInv'
    BY <1>1, <1>2, <1>7, OnlyGoesQuiet, StreamQuiet, AnswerKeeps DEF Breaks
  <1> QED BY <1>2, <1>3, <1>4, <1>5, <1>6, <1>7, DeathQuiet DEF Next

LEMMA ChatInit == Init => ChatInv
  <1>1. SUFFICES ASSUME Init PROVE ChatInv
    OBVIOUS
  <1>2. \A t \in Turn : turn[t].at = "new" /\ turn[t].save = "none"
    BY <1>1 DEF Init, NewTurn
  <1>3. \A t \in Turn : Asked(t)
    BY <1>2 DEF Asked, InAnswer, Streaming, After
  <1>4. ConvType
    BY <1>1 DEF Init, ConvType, Table, IsSeq
  <1>5. RowsPlaced
    BY <1>1 DEF Init, RowsPlaced
  <1> QED BY <1>1, <1>3, <1>4, <1>5, InitKnows DEF ChatInv

\* The invariant holds whatever the turns, the owner, the provider and the
\* database do: what a turn knows, where every row stands, and that a question
\* under answer is stored while its conversation lives.
THEOREM ChatHolds == Spec => []ChatInv
  BY ChatInit, ChatStep, ChatAssumption, PTL DEF Spec

\* Every message belongs to a turn that its owner was let make, in a conversation
\* that is still there; an answer comes after its question, and neither is there
\* twice (create_message with its WHERE EXISTS, ON DELETE CASCADE).
THEOREM MessagesAtHome == Spec => []MessagesHaveAHome
  <1>1. ChatInv => MessagesHaveAHome
    BY DEF ChatInv, RowsPlaced, Placed, MessagesHaveAHome
  <1> QED BY <1>1, ChatHolds, PTL

\* An answer that is stored carries the sources that its stream showed, and none
\* when it showed none, however the stream ended (sources_to_persist).
THEOREM ShownIsStored == Spec => []StoredSourcesWereShown
  <1>1. ASSUME ChatInv PROVE StoredSourcesWereShown
    <2>1. SUFFICES ASSUME NEW m \in AnswersStored
                   PROVE  /\ m.sources # {} <=> turn[m.turn].shown
                          /\ m.sources # {} => m.sources = {turn[m.turn].sources}
      BY DEF StoredSourcesWereShown
    <2>2. PICK c \in Conv : \E i \in DOMAIN msgs[c] : msgs[c][i] = m
      BY DEF AnswersStored, ToSet
    <2>3. PICK i \in DOMAIN msgs[c] : msgs[c][i] = m
      BY <2>2
    <2>4. /\ m.turn \in Turn /\ turn[m.turn].save = "done"
          /\ m.sources = turn[m.turn].kept
      BY <1>1, <2>1, <2>3 DEF ChatInv, RowsPlaced, Placed, AnswersStored
    <2>5. KeepsShown(turn[m.turn])
      BY <1>1, <2>4 DEF ChatInv, TurnsKnow, Knows
    <2> QED BY <2>4, <2>5 DEF KeepsShown
  <1> QED BY <1>1, ChatHolds, PTL

-----------------------------------------------------------------------------
(* The elements of a sequence at some of its places                        *)

\* There is a k-th element in a finite set of numbers, for every k.
LEMMA Places ==
    ASSUME NEW K \in SUBSET Nat, IsFiniteSet(K)
    PROVE  /\ Cardinality(K) \in Nat
           /\ \A k \in 1 .. Cardinality(K) : \E i \in K : Cardinality({j \in K : j <= i}) = k
           /\ \A i \in K : Cardinality({j \in K : j <= i}) \in 1 .. Cardinality(K)
           /\ \A i, j \in K : Cardinality({l \in K : l <= i}) = Cardinality({l \in K : l <= j})
                                => i = j
  <1> DEFINE m == Cardinality(K)
             Upto(i) == {j \in K : j <= i}
             rank == [i \in K |-> Cardinality(Upto(i))]
  <1>1. m \in Nat
    BY FS_CardinalityType
  <1>2. ASSUME NEW i \in K
        PROVE  IsFiniteSet(Upto(i)) /\ Cardinality(Upto(i)) \in 1 .. m
    <2>2. Upto(i) \in SUBSET K /\ i \in Upto(i)
      BY i \in Nat
    <2>3. IsFiniteSet(Upto(i)) /\ Cardinality(Upto(i)) <= m
      BY <2>2, FS_Subset
    <2>4. Cardinality(Upto(i)) \in Nat /\ Cardinality(Upto(i)) # 0
      BY <2>2, <2>3, FS_CardinalityType, FS_EmptySet
    <2> QED BY <1>1, <2>3, <2>4
  <1>3. ASSUME NEW i \in K, NEW j \in K, i < j, rank[i] = rank[j]
        PROVE  FALSE
    <2>1. i \in Nat /\ j \in Nat
      OBVIOUS
    <2>2. j \in Upto(j) /\ j \notin Upto(i)
      BY <1>3, <2>1
    <2>4. Upto(i) \in SUBSET Upto(j)
      <3>1. \A x \in K : x <= i => x <= j
        BY <1>3, <2>1
      <3> QED BY <3>1
    <2>3. Cardinality(Upto(i)) = Cardinality(Upto(j)) /\ IsFiniteSet(Upto(j))
      BY <1>2, <1>3
    <2> HIDE DEF Upto
    <2> QED BY <2>2, <2>3, <2>4, FS_Subset
  <1> HIDE DEF Upto
  <1>4. \A i, j \in K : rank[i] = rank[j] => i = j
    <2>1. \A i, j \in K : i < j \/ j < i \/ i = j
      OBVIOUS
    <2> HIDE DEF rank
    <2> QED BY <1>3, <2>1
  <1>5. rank \in [K -> 1 .. m]
    BY <1>2
  <1>6. rank \in Injection(K, 1 .. m)
    <2> HIDE DEF rank, m
    <2> QED BY <1>4, <1>5 DEF Injection, IsInjective
  <1>7. IsFiniteSet(1 .. m) /\ Cardinality(1 .. m) = m
    BY <1>1, FS_Interval
  <1>8. rank \in Surjection(K, 1 .. m)
    <2> HIDE DEF rank
    <2> QED BY <1>6, <1>7, FS_Injection
  <1>9. \A k \in 1 .. m : \E i \in K : rank[i] = k
    <2> HIDE DEF rank, m
    <2> QED BY <1>8 DEF Surjection
  <1>10. \A k \in 1 .. m : \E i \in K : Cardinality(Upto(i)) = k
    BY <1>9
  <1>11. \A i, j \in K : Cardinality(Upto(i)) = Cardinality(Upto(j)) => i = j
    BY <1>4
  <1> QED BY <1>1, <1>2, <1>10, <1>11 DEF Upto

LEMMA Least ==
    ASSUME NEW K \in SUBSET Nat, IsFiniteSet(K), K # {}
    PROVE  \E i \in K : \A j \in K : i <= j
  <1>1. Cardinality(K) \in Nat \ {0}
    BY FS_CardinalityType, FS_EmptySet
  <1>2. PICK i \in K : Cardinality({j \in K : j <= i}) = 1
    BY <1>1, Places
  <1>3. IsFiniteSet({j \in K : j <= i})
    BY FS_Subset
  <1>4. PICK x : {j \in K : j <= i} = {x}
    BY <1>2, <1>3, FS_Singleton
  <1>5. i \in {j \in K : j <= i}
    BY i \in Nat
  <1>6. \A j \in K : j <= i => j = i
    BY <1>4, <1>5
  <1>7. \A j \in K : j \in Nat /\ i \in Nat
    OBVIOUS
  <1> QED BY <1>6, <1>7

\* They are picked one for one.
Picked(s, K, m, f) ==
    /\ f \in [1 .. m -> K]
    /\ Picks(s, K) = [k \in 1 .. m |-> s[f[k]]]
    /\ \A k, l \in 1 .. m : f[k] = f[l] => k = l
    /\ \A i \in K : \E k \in 1 .. m : f[k] = i

LEMMA PicksAre ==
    ASSUME NEW n \in Nat, NEW K \in SUBSET (1 .. n), NEW s
    PROVE  \E m \in Nat : \E f : Picked(s, K, m, f)
  <1>1. IsFiniteSet(1 .. n)
    BY FS_Interval
  <1>2. IsFiniteSet(K) /\ K \in SUBSET Nat
    <2>1. IsFiniteSet(K)
      BY <1>1, FS_Subset
    <2>2. 1 .. n \subseteq Nat
      OBVIOUS
    <2> QED BY <2>1, <2>2
  <1>3. PICK m \in Nat : m = Cardinality(K)
    BY <1>2, Places
  <1> DEFINE Rank(i) == Cardinality({j \in K : j <= i})
             f == [k \in 1 .. m |-> CHOOSE i \in K : Rank(i) = k]
  <1>4. /\ \A k \in 1 .. m : \E i \in K : Rank(i) = k
        /\ \A i \in K : Rank(i) \in 1 .. m
        /\ \A i, j \in K : Rank(i) = Rank(j) => i = j
    BY <1>2, <1>3, Places
  <1>5. Picks(s, K) = [k \in 1 .. m |-> s[f[k]]]
    BY <1>3 DEF Picks
  <1> HIDE DEF Rank
  <1>6. \A k \in 1 .. m : f[k] \in K /\ Rank(f[k]) = k
    BY <1>4
  <1>7. f \in [1 .. m -> K]
    BY <1>6
  <1> HIDE DEF f
  <1>8. \A k, l \in 1 .. m : f[k] = f[l] => k = l
    BY <1>6
  <1>9. \A i \in K : \E k \in 1 .. m : f[k] = i
    <2>1. SUFFICES ASSUME NEW i \in K PROVE \E k \in 1 .. m : f[k] = i
      OBVIOUS
    <2> QED BY <1>4, <1>6
  <1>10. Picked(s, K, m, f)
    BY <1>5, <1>7, <1>8, <1>9 DEF Picked
  <1> QED BY <1>10

LEMMA PicksSeq ==
    ASSUME NEW n \in Nat, NEW K \in SUBSET (1 .. n), NEW s, NEW S, \A i \in K : s[i] \in S
    PROVE  Picks(s, K) \in Seq(S)
  <1>1a. PICK m \in Nat : \E f : Picked(s, K, m, f)
    BY PicksAre
  <1>1. PICK f : Picked(s, K, m, f)
    BY <1>1a
  <1>2. f \in [1 .. m -> K] /\ Picks(s, K) = [k \in 1 .. m |-> s[f[k]]]
    BY <1>1 DEF Picked
  <1>3. \A k \in 1 .. m : s[f[k]] \in S
    BY <1>2
  <1> QED BY <1>2, <1>3

-----------------------------------------------------------------------------
(* The sources of an answer                                                *)

\* Each value once, and every value.
OnceEach(s, n, d, m) ==
    /\ DOMAIN d = 1 .. m
    /\ \A k \in 1 .. m : \E i \in 1 .. n : d[k] = s[i]
    /\ \A i \in 1 .. n : \E k \in 1 .. m : d[k] = s[i]
    /\ \A k, l \in 1 .. m : d[k] = d[l] => k = l

LEMMA DistinctAre ==
    ASSUME NEW n \in Nat, NEW s, DOMAIN s = 1 .. n
    PROVE  \E m \in Nat : OnceEach(s, n, Distinct(s), m)
  <1> DEFINE K == {i \in 1 .. n : \A j \in 1 .. i - 1 : s[j] # s[i]}
  <1>1. Distinct(s) = Picks(s, K)
    BY DEF Distinct
  <1> HIDE DEF K
  <1>0. K \in SUBSET (1 .. n)
    BY DEF K
  <1>10a. PICK m \in Nat : \E f : Picked(s, K, m, f)
    BY <1>0, PicksAre
  <1>10. PICK f : Picked(s, K, m, f)
    BY <1>10a
  <1>2. /\ f \in [1 .. m -> K]
        /\ Picks(s, K) = [k \in 1 .. m |-> s[f[k]]]
        /\ \A k, l \in 1 .. m : f[k] = f[l] => k = l
        /\ \A i \in K : \E k \in 1 .. m : f[k] = i
    BY <1>10 DEF Picked
  <1>3. \A i, j \in K : s[i] = s[j] => i = j
    <2>1. SUFFICES ASSUME NEW i \in K, NEW j \in K, s[i] = s[j], i < j PROVE FALSE
      BY <1>0
    <2> QED BY <1>0, <2>1 DEF K
  <1>4. ASSUME NEW i \in 1 .. n
        PROVE  \E j \in K : s[j] = s[i]
    <2> DEFINE J == {j \in 1 .. n : s[j] = s[i]}
    <2>1. J \in SUBSET Nat /\ J # {} /\ J \in SUBSET (1 .. n)
      OBVIOUS
    <2>2. IsFiniteSet(1 .. n)
      BY FS_Interval
    <2>3. IsFiniteSet(J)
      BY <2>1, <2>2, FS_Subset
    <2>4. PICK j \in J : \A l \in J : j <= l
      BY <2>1, <2>3, Least
    <2>5. j \in K
      BY <2>4 DEF K
    <2> QED BY <2>4, <2>5
  <1> DEFINE d == Distinct(s)
  <1>6. /\ DOMAIN d = 1 .. m
        /\ \A k \in 1 .. m : f[k] \in K /\ d[k] = s[f[k]]
    BY <1>1, <1>2
  <1> HIDE DEF d
  <1>7. \A k \in 1 .. m : \E i \in 1 .. n : d[k] = s[i]
    BY <1>0, <1>6
  <1>8. \A i \in 1 .. n : \E k \in 1 .. m : d[k] = s[i]
    <2>1. SUFFICES ASSUME NEW i \in 1 .. n PROVE \E k \in 1 .. m : d[k] = s[i]
      OBVIOUS
    <2>2. PICK j \in K : s[j] = s[i]
      BY <1>4
    <2>3. PICK k \in 1 .. m : f[k] = j
      BY <1>2
    <2> QED BY <1>6, <2>2, <2>3
  <1>9. \A k, l \in 1 .. m : d[k] = d[l] => k = l
    BY <1>2, <1>3, <1>6
  <1>11. OnceEach(s, n, d, m)
    BY <1>6, <1>7, <1>8, <1>9 DEF OnceEach
  <1> QED BY <1>11 DEF d

\* The first of some places, by what is at them.
LEMMA FirstOf ==
    ASSUME NEW n \in Nat, NEW start \in [1 .. n -> Nat], NEW g \in SUBSET (1 .. n), g # {}
    PROVE  \E i \in g : \A j \in g : \/ start[i] < start[j]
                                     \/ start[i] = start[j] /\ i <= j
  <1> DEFINE T == {start[i] : i \in g}
             h == [i \in g |-> start[i]]
  <1>1. IsFiniteSet(1 .. n)
    BY FS_Interval
  <1>2. IsFiniteSet(g)
    BY <1>1, FS_Subset
  <1>3. h \in Surjection(g, T)
    BY DEF Surjection
  <1>4. IsFiniteSet(T)
    <2> HIDE DEF T, h
    <2> QED BY <1>2, <1>3, FS_Surjection
  <1>5. T \in SUBSET Nat
    OBVIOUS
  <1>6. T # {}
    OBVIOUS
  <1>7. PICK x \in T : \A y \in T : x <= y
    <2> HIDE DEF T
    <2> QED BY <1>4, <1>5, <1>6, Least
  <1>8. PICK k \in g : start[k] = x
    BY <1>7
  <1>9. \A j \in g : start[k] <= start[j]
    BY <1>7, <1>8
  <1> DEFINE G == {j \in g : start[j] = start[k]}
  <1>10. G \in SUBSET g /\ k \in G /\ G \in SUBSET Nat
    <2>1. G \in SUBSET g /\ k \in G
      OBVIOUS
    <2>2. g \subseteq Nat
      OBVIOUS
    <2> QED BY <2>1, <2>2
  <1>11. IsFiniteSet(G)
    BY <1>2, <1>10, FS_Subset
  <1>12. PICK i \in G : \A j \in G : i <= j
    <2> HIDE DEF G
    <2> QED BY <1>10, <1>11, Least
  <1>13. i \in g /\ start[i] = start[k] /\ \A j \in g : start[j] = start[k] => i <= j
    BY <1>12
  <1> HIDE DEF G, T, h
  <1>14. \A j \in g : start[j] \in Nat /\ start[k] \in Nat
    OBVIOUS
  <1> QED BY SMTT(30), <1>9, <1>13, <1>14

\* One entry for each video: a cited chunk of it if there is one.
Collapsed(chunks, n, cited, e, m) ==
    /\ DOMAIN e = 1 .. m
    /\ \A k \in 1 .. m : \E i \in 1 .. n : e[k].chunk = chunks[i]
    /\ \A k, l \in 1 .. m : VideoOf[e[k].chunk] = VideoOf[e[l].chunk] => k = l
    /\ \A k \in 1 .. m : e[k].cited => e[k].chunk \in cited
    /\ \A i \in 1 .. n : chunks[i] \in cited =>
          \E k \in 1 .. m : e[k].cited /\ VideoOf[e[k].chunk] = VideoOf[chunks[i]]

LEMMA CollapseAre ==
    ASSUME ChatAssumption, NEW n \in Nat, NEW chunks \in [1 .. n -> ChunkId], NEW cited
    PROVE  \E m \in Nat : Collapsed(chunks, n, cited, _collapse_by_video(chunks, cited), m)
  <1> DEFINE vs == [i \in DOMAIN chunks |-> VideoOf[chunks[i]]]
             videos == Distinct(vs)
             group(v) == {i \in DOMAIN chunks : VideoOf[chunks[i]] = v}
             marked(v) == {i \in group(v) : chunks[i] \in cited}
             best(v) == IF marked(v) # {} THEN marked(v) ELSE group(v)
             first(g, i) == \A j \in g : \/ StartOf[chunks[i]] < StartOf[chunks[j]]
                                         \/ /\ StartOf[chunks[i]] = StartOf[chunks[j]]
                                            /\ i <= j
             rep(v) == CHOOSE i \in best(v) : first(best(v), i)
             e == _collapse_by_video(chunks, cited)
  <1>1. DOMAIN vs = 1 .. n /\ \A i \in 1 .. n : vs[i] = VideoOf[chunks[i]]
    OBVIOUS
  <1>20. PICK m \in Nat : OnceEach(vs, n, videos, m)
    <2> HIDE DEF vs
    <2> QED BY <1>1, DistinctAre
  <1>2. /\ DOMAIN videos = 1 .. m
        /\ \A k \in 1 .. m : \E i \in 1 .. n : videos[k] = vs[i]
        /\ \A i \in 1 .. n : \E k \in 1 .. m : videos[k] = vs[i]
        /\ \A k, l \in 1 .. m : videos[k] = videos[l] => k = l
    <2> HIDE DEF vs, videos
    <2> QED BY <1>20 DEF OnceEach
  <1>3. e = [k \in 1 .. m |-> [chunk |-> chunks[rep(videos[k])],
                             cited |-> marked(videos[k]) # {},
                             segments |-> Cardinality(group(videos[k]))]]
    <2> HIDE DEF vs
    <2> QED BY <1>2 DEF _collapse_by_video, vs
  <1>4. \A v : /\ group(v) \in SUBSET (1 .. n) /\ best(v) \in SUBSET (1 .. n)
               /\ marked(v) \subseteq group(v)
               /\ best(v) = IF marked(v) # {} THEN marked(v) ELSE group(v)
               /\ \A i \in group(v) : VideoOf[chunks[i]] = v
               /\ \A i \in marked(v) : chunks[i] \in cited
               /\ \A i \in 1 .. n : VideoOf[chunks[i]] = v =>
                     i \in group(v) /\ (chunks[i] \in cited => i \in marked(v))
    OBVIOUS
  <1>5. \A g \in SUBSET (1 .. n) : g # {} => \E i \in g : first(g, i)
    <2>1. SUFFICES ASSUME NEW g \in SUBSET (1 .. n), g # {} PROVE \E i \in g : first(g, i)
      OBVIOUS
    <2> DEFINE start == [i \in 1 .. n |-> StartOf[chunks[i]]]
    <2>2. start \in [1 .. n -> Nat]
      BY DEF ChatAssumption
    <2>3. \A i \in g : start[i] = StartOf[chunks[i]]
      OBVIOUS
    <2> HIDE DEF start
    <2>4. PICK i \in g : \A j \in g : \/ start[i] < start[j]
                                      \/ start[i] = start[j] /\ i <= j
      BY <2>1, <2>2, FirstOf
    <2> QED BY <2>3, <2>4
  <1>6. \A v : (\E i \in best(v) : first(best(v), i)) => rep(v) \in best(v)
    <2> HIDE DEF first, best
    <2> QED OBVIOUS
  <1> HIDE DEF vs, videos, group, marked, best, first, rep
  <1>7. \A k \in 1 .. m : \E i \in 1 .. n : videos[k] = VideoOf[chunks[i]]
    BY <1>1, <1>2
  <1>8. \A i \in 1 .. n : \E k \in 1 .. m : videos[k] = VideoOf[chunks[i]]
    BY <1>1, <1>2
  <1>9. ASSUME NEW k \in 1 .. m
        PROVE  /\ rep(videos[k]) \in group(videos[k])
               /\ marked(videos[k]) # {} => rep(videos[k]) \in marked(videos[k])
    <2>1. group(videos[k]) # {}
      BY <1>4, <1>7
    <2>2. best(videos[k]) \in SUBSET (1 .. n) /\ best(videos[k]) # {}
      BY <1>4, <2>1
    <2>3. rep(videos[k]) \in best(videos[k])
      BY <1>5, <1>6, <2>2
    <2> QED BY <1>4, <2>3
  <1>10. DOMAIN e = 1 .. m /\ \A k \in 1 .. m :
                e[k].chunk = chunks[rep(videos[k])] /\ e[k].cited = (marked(videos[k]) # {})
    BY <1>3
  <1> HIDE DEF e
  <1>11. ASSUME NEW k \in 1 .. m
        PROVE  /\ rep(videos[k]) \in 1 .. n /\ VideoOf[e[k].chunk] = videos[k]
               /\ e[k].cited => e[k].chunk \in cited
    <2> DEFINE v == videos[k]
    <2>1. rep(v) \in group(v) /\ (marked(v) # {} => rep(v) \in marked(v))
      BY <1>9
    <2>2. rep(v) \in 1 .. n /\ VideoOf[chunks[rep(v)]] = v
      BY <1>4, <2>1
    <2>3. marked(v) # {} => chunks[rep(v)] \in cited
      BY <1>4, <2>1
    <2>4. e[k].chunk = chunks[rep(v)] /\ e[k].cited = (marked(v) # {})
      BY <1>10
    <2> HIDE DEF v
    <2>5. e[k].cited => e[k].chunk \in cited
      BY <2>3, <2>4
    <2>6. VideoOf[e[k].chunk] = v
      BY <2>2, <2>4
    <2> QED BY <2>2, <2>5, <2>6 DEF v
  <1>12. \A k, l \in 1 .. m : VideoOf[e[k].chunk] = VideoOf[e[l].chunk] => k = l
    <2>1. \A k \in 1 .. m : VideoOf[e[k].chunk] = videos[k]
      BY <1>11
    <2>2. \A k, l \in 1 .. m : videos[k] = videos[l] => k = l
      BY <1>2
    <2>3. SUFFICES ASSUME NEW k \in 1 .. m, NEW l \in 1 .. m,
                          VideoOf[e[k].chunk] = VideoOf[e[l].chunk]
                   PROVE  k = l
      OBVIOUS
    <2>4. videos[k] = videos[l]
      BY <2>1, <2>3
    <2> QED BY <2>2, <2>4
  <1>13. \A k \in 1 .. m : /\ \E i \in 1 .. n : e[k].chunk = chunks[i]
                           /\ e[k].cited => e[k].chunk \in cited
    BY <1>10, <1>11
  <1>14. \A i \in 1 .. n : chunks[i] \in cited =>
            \E k \in 1 .. m : e[k].cited /\ VideoOf[e[k].chunk] = VideoOf[chunks[i]]
    <2>1. SUFFICES ASSUME NEW i \in 1 .. n, chunks[i] \in cited
                   PROVE  \E k \in 1 .. m : /\ e[k].cited
                                            /\ VideoOf[e[k].chunk] = VideoOf[chunks[i]]
      OBVIOUS
    <2>2. PICK k \in 1 .. m : videos[k] = VideoOf[chunks[i]]
      BY <1>8
    <2>3. i \in marked(videos[k])
      BY <1>4, <2>1, <2>2
    <2>4. e[k].cited /\ VideoOf[e[k].chunk] = videos[k]
      BY <1>10, <1>11, <2>3
    <2> QED BY <2>2, <2>4
  <1>15. Collapsed(chunks, n, cited, e, m)
    BY <1>10, <1>12, <1>13, <1>14 DEF Collapsed
  <1> QED BY <1>15 DEF e

\* The capped list: entries of the collapsed one, none twice, every cited one.
LEMMA Joined ==
    ASSUME NEW S, NEW p \in Seq(S), NEW q \in Seq(S)
    PROVE  /\ p \o q \in Seq(S) /\ Len(p \o q) = Len(p) + Len(q)
           /\ DOMAIN (p \o q) = 1 .. Len(p) + Len(q)
           /\ \A k \in 1 .. Len(p) : (p \o q)[k] = p[k]
           /\ \A k \in Len(p) + 1 .. Len(p) + Len(q) : (p \o q)[k] = q[k - Len(p)]
  <1>1. Len(p) \in Nat /\ Len(q) \in Nat
    OBVIOUS
  <1>2. p \o q \in Seq(S) /\ Len(p \o q) = Len(p) + Len(q)
    OBVIOUS
  <1>3. DOMAIN (p \o q) = 1 .. Len(p) + Len(q)
    BY <1>2
  <1>4. \A k \in 1 .. Len(p) : (p \o q)[k] = p[k]
    BY <1>1
  <1>5. \A k \in Len(p) + 1 .. Len(p) + Len(q) : (p \o q)[k] = q[k - Len(p)]
    BY <1>1
  <1> QED BY <1>2, <1>3, <1>4, <1>5

Listed(e, m, src, h, g) ==
    /\ g \in [1 .. h -> 1 .. m]
    /\ src = [k \in 1 .. h |-> e[g[k]]]
    /\ \A k, l \in 1 .. h : g[k] = g[l] => k = l
    /\ \A i \in 1 .. m : e[i].cited => \E k \in 1 .. h : g[k] = i

LEMMA RankedAre ==
    ASSUME ChatAssumption, NEW m \in Nat, NEW e, DOMAIN e = 1 .. m
    PROVE  \E h \in Nat : \E g : Listed(e, m, Ranked(e), h, g)
  <1> DEFINE C == {k \in 1 .. m : e[k].cited}
             R == (1 .. m) \ C
             S == {e[k] : k \in 1 .. m}
             rest == Picks(e, R)
             cap == IF Len(rest) < MaxSources THEN Len(rest) ELSE MaxSources
  <1>1. Ranked(e) = Picks(e, C) \o SubSeq(rest, 1, cap)
    BY DEF Ranked
  <1>2. C \in SUBSET (1 .. m) /\ R \in SUBSET (1 .. m) /\ \A i \in 1 .. m : e[i] \in S
    OBVIOUS
  <1>3. \A i \in 1 .. m : e[i].cited => i \in C
    OBVIOUS
  <1>4. C \cap R = {}
    OBVIOUS
  <1> HIDE DEF C, R, S
  <1>5a. PICK a \in Nat : \E f : Picked(e, C, a, f)
    BY <1>2, PicksAre
  <1>5. PICK f : Picked(e, C, a, f)
    BY <1>5a
  <1>6a. PICK b \in Nat : \E d : Picked(e, R, b, d)
    BY <1>2, PicksAre
  <1>6. PICK d : Picked(e, R, b, d)
    BY <1>6a
  <1>7. Picks(e, C) \in Seq(S) /\ rest \in Seq(S)
    BY <1>2, PicksSeq
  <1>8. /\ f \in [1 .. a -> C] /\ Picks(e, C) = [k \in 1 .. a |-> e[f[k]]]
        /\ \A k, l \in 1 .. a : f[k] = f[l] => k = l
        /\ \A i \in C : \E k \in 1 .. a : f[k] = i
    BY <1>5 DEF Picked
  <1>9. /\ d \in [1 .. b -> R] /\ rest = [k \in 1 .. b |-> e[d[k]]]
        /\ \A k, l \in 1 .. b : d[k] = d[l] => k = l
    BY <1>6 DEF Picked
  <1>10. Len(rest) = b /\ Len(Picks(e, C)) = a
    BY <1>7, <1>8, <1>9
  <1>11. cap \in 0 .. b
    BY <1>10 DEF ChatAssumption
  <1> HIDE DEF rest, cap
  <1>12. /\ SubSeq(rest, 1, cap) \in Seq(S) /\ Len(SubSeq(rest, 1, cap)) = cap
         /\ \A k \in 1 .. cap : SubSeq(rest, 1, cap)[k] = rest[k]
    BY <1>7, <1>10, <1>11
  <1> DEFINE h == a + cap
             g == [k \in 1 .. h |-> IF k <= a THEN f[k] ELSE d[k - a]]
             src == Ranked(e)
  <1>13. /\ src \in Seq(S) /\ Len(src) = h /\ DOMAIN src = 1 .. h
         /\ \A k \in 1 .. a : src[k] = Picks(e, C)[k]
         /\ \A k \in a + 1 .. h : src[k] = SubSeq(rest, 1, cap)[k - a]
    <2>1. PICK p \in Seq(S), q \in Seq(S) : p = Picks(e, C) /\ q = SubSeq(rest, 1, cap)
      BY <1>7, <1>12
    <2>2. src = p \o q /\ Len(p) = a /\ Len(q) = cap /\ cap \in Nat
      BY <1>1, <1>10, <1>11, <1>12, <2>1
    <2> HIDE DEF src
    <2>4. /\ p \o q \in Seq(S) /\ Len(p \o q) = Len(p) + Len(q)
          /\ DOMAIN (p \o q) = 1 .. Len(p) + Len(q)
          /\ \A k \in 1 .. Len(p) : (p \o q)[k] = p[k]
          /\ \A k \in Len(p) + 1 .. Len(p) + Len(q) : (p \o q)[k] = q[k - Len(p)]
      BY Joined
    <2>3. /\ src \in Seq(S) /\ Len(src) = h /\ DOMAIN src = 1 .. h
          /\ \A k \in 1 .. a : src[k] = p[k]
          /\ \A k \in a + 1 .. h : src[k] = q[k - a]
      BY <2>2, <2>4
    <2> QED BY <2>1, <2>3
  <1> HIDE DEF src
  <1>14. \A k \in 1 .. h : \/ k \in 1 .. a
                           \/ k \in a + 1 .. h /\ k - a \in 1 .. cap /\ k - a \in 1 .. b
    BY <1>11
  <1>15. /\ \A k \in 1 .. a : k \in 1 .. h /\ g[k] = f[k]
         /\ \A k \in a + 1 .. h : g[k] = d[k - a]
    BY <1>11
  <1>16. \A k \in 1 .. h : g[k] \in 1 .. m /\ src[k] = e[g[k]]
    <2>1. SUFFICES ASSUME NEW k \in 1 .. h PROVE g[k] \in 1 .. m /\ src[k] = e[g[k]]
      OBVIOUS
    <2>2. CASE k \in 1 .. a
      <3>1. g[k] = f[k]
        BY <1>15, <2>2
      <3>2. f[k] \in C /\ Picks(e, C)[k] = e[f[k]]
        BY <1>8, <2>2
      <3>3. src[k] = Picks(e, C)[k]
        BY <1>13, <2>2
      <3> HIDE DEF g
      <3> QED BY <1>2, <3>1, <3>2, <3>3
    <2>3. CASE k \in a + 1 .. h
      <3>1. k - a \in 1 .. cap /\ k - a \in 1 .. b
        BY <1>14, <2>3
      <3>2. src[k] = rest[k - a]
        BY <1>12, <1>13, <2>3, <3>1
      <3>3. g[k] = d[k - a]
        BY <1>15, <2>3
      <3>4. rest[k - a] = e[d[k - a]] /\ d[k - a] \in R
        BY <1>9, <3>1
      <3> HIDE DEF g
      <3> QED BY <1>2, <3>2, <3>3, <3>4
    <2> QED BY <1>14, <2>2, <2>3
  <1>17. g \in [1 .. h -> 1 .. m]
    BY <1>16
  <1>18. src = [k \in 1 .. h |-> e[g[k]]]
    <2> HIDE DEF g
    <2>1. src = [k \in 1 .. h |-> src[k]]
      BY <1>13
    <2> QED BY <1>16, <2>1
  <1>19. \A k, l \in 1 .. h : g[k] = g[l] => k = l
    <2>1. SUFFICES ASSUME NEW k \in 1 .. h, NEW l \in 1 .. h, g[k] = g[l] PROVE k = l
      OBVIOUS
    <2> HIDE DEF g
    <2>2. CASE k \in 1 .. a /\ l \in 1 .. a
      BY <1>8, <1>15, <2>1, <2>2
    <2>3. CASE k \in a + 1 .. h /\ l \in a + 1 .. h
      <3>1. k - a \in 1 .. b /\ l - a \in 1 .. b
        BY <1>14, <2>3
      <3>2. k - a = l - a
        BY <1>9, <1>15, <2>1, <2>3, <3>1
      <3> QED BY <3>2
    <2>4. \A j \in 1 .. a : g[j] \in C
      BY <1>8, <1>15
    <2>5. \A j \in a + 1 .. h : g[j] \in R
      <3>1. SUFFICES ASSUME NEW j \in a + 1 .. h PROVE g[j] \in R
        OBVIOUS
      <3>2. j - a \in 1 .. b
        BY <1>11
      <3> QED BY <1>9, <1>15, <3>2
    <2> QED BY <1>4, <1>14, <2>1, <2>2, <2>3, <2>4, <2>5
  <1>20. \A i \in 1 .. m : e[i].cited => \E k \in 1 .. h : g[k] = i
    <2> HIDE DEF g, h
    <2> QED BY <1>3, <1>8, <1>15
  <1>21. h \in Nat
    BY <1>11
  <1>22. Listed(e, m, src, h, g)
    BY <1>17, <1>18, <1>19, <1>20 DEF Listed
  <1> HIDE DEF g, h
  <1> QED BY <1>21, <1>22 DEF src

\* A marker of one character is that character.
LEMMA OneCharacter ==
    ASSUME NEW text \in Text
    PROVE  LET ids == extract_cited_chunk_ids(text) IN
           \A x : x \in {id[1] : id \in {i \in ids : Len(i) = 1}} <=> <<x>> \in ids
  <1> DEFINE ids == extract_cited_chunk_ids(text)
             S == IdChar \cup {"[", ":", "]", "w", "r"}
  <1>1. ASSUME NEW id \in ids, Len(id) = 1
        PROVE  id = <<id[1]>>
    <2>1. PICK m \in Markers(text) : id = SubSeq(text, m[1] + 3, m[2] - 1)
      BY DEF extract_cited_chunk_ids
    <2>2. /\ m[1] \in 1 .. Len(text) /\ m[2] \in 1 .. Len(text) /\ m[2] >= m[1] + 4
      BY DEF Markers, Text
    <2>3. id \in Seq(S)
      <3>1. m[1] + 3 \in 1 .. Len(text) + 1 /\ m[2] - 1 \in 0 .. Len(text)
        BY <2>2
      <3> QED BY <2>1, <3>1 DEF Text, Char
    <2> HIDE DEF ids
    <2> QED BY <1>1, <2>3
  <1> HIDE DEF ids
  <1>2. SUFFICES ASSUME NEW x
                 PROVE  x \in {id[1] : id \in {i \in ids : Len(i) = 1}} <=> <<x>> \in ids
    BY DEF ids
  <1>3. ASSUME x \in {id[1] : id \in {i \in ids : Len(i) = 1}}
        PROVE  <<x>> \in ids
    <2>1. PICK id \in ids : Len(id) = 1 /\ x = id[1]
      BY <1>3
    <2> QED BY <1>1, <2>1
  <1>4. ASSUME <<x>> \in ids
        PROVE  x \in {id[1] : id \in {i \in ids : Len(i) = 1}}
    <2>1. Len(<<x>>) = 1 /\ <<x>>[1] = x
      OBVIOUS
    <2>2. <<x>> \in {i \in ids : Len(i) = 1}
      BY <1>4, <2>1
    <2> QED BY <2>1, <2>2
  <1> QED BY <1>3, <1>4

LEMMA SourcesAre ==
    ASSUME ChatAssumption, NEW r, Heard(r)
    PROVE  LET src == SourcesOf(r)
               read == ToSet(r.read)
               marked == {x \in read : <<x>> \in extract_cited_chunk_ids(FinalText(r))}
           IN  /\ \A i \in DOMAIN src : src[i].chunk \in read
               /\ \A i, j \in DOMAIN src : VideoOf[src[i].chunk] = VideoOf[src[j].chunk] => i = j
               /\ \A i \in DOMAIN src : src[i].cited => src[i].chunk \in marked
               /\ \A x \in marked : \E i \in DOMAIN src :
                     src[i].cited /\ VideoOf[src[i].chunk] = VideoOf[x]
  <1> DEFINE text == FinalText(r)
             ids == extract_cited_chunk_ids(text)
             cited == {id[1] : id \in {i \in ids : Len(i) = 1}}
             chunks == Distinct(r.read)
             e == _collapse_by_video(chunks, cited)
             src == SourcesOf(r)
             read == ToSet(r.read)
             marked == {x \in read : <<x>> \in ids}
  <1>1. src = Ranked(e)
    BY DEF SourcesOf
  <1>2. text \in Text
    <2>1. r.from + 1 \in 1 .. Len(r.said) + 1 /\ Len(r.said) \in 0 .. Len(r.said)
      BY DEF Heard, Text
    <2> QED BY <2>1 DEF Heard, Text, FinalText
  <1>3. \A x : x \in cited <=> <<x>> \in ids
    <2> HIDE DEF text
    <2> QED BY <1>2, OneCharacter
  <1> HIDE DEF text, ids, cited
  <1>4. PICK p \in Nat : DOMAIN r.read = 1 .. p /\ \A i \in 1 .. p : r.read[i] \in ChunkId
    <2>1. r.read \in Seq(ChunkId)
      BY DEF Heard
    <2>2. /\ Len(r.read) \in Nat /\ DOMAIN r.read = 1 .. Len(r.read)
          /\ \A i \in 1 .. Len(r.read) : r.read[i] \in ChunkId
      BY <2>1
    <2> QED BY <2>2
  <1>5. \A x : x \in read <=> \E i \in 1 .. p : r.read[i] = x
    BY <1>4 DEF ToSet
  <1> HIDE DEF read
  <1>20. PICK n \in Nat : OnceEach(r.read, p, chunks, n)
    BY <1>4, DistinctAre
  <1>6. /\ DOMAIN chunks = 1 .. n
        /\ \A k \in 1 .. n : \E i \in 1 .. p : chunks[k] = r.read[i]
        /\ \A i \in 1 .. p : \E k \in 1 .. n : chunks[k] = r.read[i]
    <2> HIDE DEF chunks
    <2> QED BY <1>20 DEF OnceEach
  <1>7. chunks \in [1 .. n -> ChunkId]
    <2>1. chunks = [k \in 1 .. n |-> chunks[k]]
      BY <1>6 DEF Distinct, Picks
    <2> HIDE DEF chunks
    <2> QED BY <1>4, <1>6, <2>1
  <1>8. /\ \A k \in 1 .. n : chunks[k] \in read
        /\ \A x \in read : \E k \in 1 .. n : chunks[k] = x
    <2> HIDE DEF chunks
    <2> QED BY <1>5, <1>6
  <1> HIDE DEF chunks
  <1>21. PICK m \in Nat : Collapsed(chunks, n, cited, e, m)
    BY <1>7, CollapseAre
  <1> HIDE DEF e
  <1>9. /\ DOMAIN e = 1 .. m
        /\ \A k \in 1 .. m : \E i \in 1 .. n : e[k].chunk = chunks[i]
        /\ \A k, l \in 1 .. m : VideoOf[e[k].chunk] = VideoOf[e[l].chunk] => k = l
        /\ \A k \in 1 .. m : e[k].cited => e[k].chunk \in cited
        /\ \A i \in 1 .. n : chunks[i] \in cited =>
              \E k \in 1 .. m : e[k].cited /\ VideoOf[e[k].chunk] = VideoOf[chunks[i]]
    BY <1>21 DEF Collapsed
  <1> HIDE DEF src
  <1>10a. PICK h \in Nat : \E g : Listed(e, m, src, h, g)
    BY <1>1, <1>9, RankedAre
  <1>10. PICK g : Listed(e, m, src, h, g)
    BY <1>10a
  <1>11. /\ g \in [1 .. h -> 1 .. m]
         /\ src = [k \in 1 .. h |-> e[g[k]]]
         /\ \A k, l \in 1 .. h : g[k] = g[l] => k = l
         /\ \A i \in 1 .. m : e[i].cited => \E k \in 1 .. h : g[k] = i
    BY <1>10 DEF Listed
  <1>12. DOMAIN src = 1 .. h /\ \A k \in 1 .. h : g[k] \in 1 .. m /\ src[k] = e[g[k]]
    BY <1>11
  <1>13. \A i \in DOMAIN src : src[i].chunk \in read
    <2>1. SUFFICES ASSUME NEW i \in 1 .. h PROVE src[i].chunk \in read
      BY <1>12
    <2>2. PICK j \in 1 .. n : e[g[i]].chunk = chunks[j]
      BY <1>9, <1>12
    <2> QED BY <1>8, <1>12, <2>2
  <1>14. \A i, j \in DOMAIN src : VideoOf[src[i].chunk] = VideoOf[src[j].chunk] => i = j
    <2>1. SUFFICES ASSUME NEW i \in 1 .. h, NEW j \in 1 .. h,
                          VideoOf[src[i].chunk] = VideoOf[src[j].chunk]
                   PROVE  i = j
      BY <1>12
    <2>2. g[i] = g[j]
      BY SMTT(30), <1>9, <1>12, <2>1
    <2> QED BY <1>11, <2>2
  <1>15. \A i \in DOMAIN src : src[i].cited => src[i].chunk \in marked
    BY <1>3, <1>9, <1>12, <1>13
  <1>16. ASSUME NEW x \in marked
         PROVE  \E i \in DOMAIN src : src[i].cited /\ VideoOf[src[i].chunk] = VideoOf[x]
    <2>1. PICK k \in 1 .. n : chunks[k] = x /\ x \in cited
      BY <1>3, <1>8
    <2>2. PICK l \in 1 .. m : e[l].cited /\ VideoOf[e[l].chunk] = VideoOf[x]
      BY <1>9, <2>1
    <2>3. PICK i \in 1 .. h : g[i] = l
      BY <1>11, <2>2
    <2> QED BY ZenonT(60), <1>12, <2>2, <2>3
  <1> HIDE DEF marked
  <1> QED BY <1>13, <1>14, <1>15, <1>16 DEF src, read, marked, ids, text

\* The sources event names chunks that the tools returned, one for each video, and
\* calls cited those, and only those videos, that the text marks (_collapse_by_video).
THEOREM SourcesHonest == Spec => []SourcesTellWhatWasRead
  <1>1. ASSUME ChatInv PROVE SourcesTellWhatWasRead
    <2>1. SUFFICES ASSUME NEW t \in Turn, turn[t].at = "shown"
                   PROVE  LET src == turn[t].sources
                              cited == {x \in ToSet(turn[t].read) :
                                          <<x>> \in extract_cited_chunk_ids(FinalText(turn[t]))}
                          IN  /\ \A i \in DOMAIN src : src[i].chunk \in ToSet(turn[t].read)
                              /\ \A i, j \in DOMAIN src :
                                    VideoOf[src[i].chunk] = VideoOf[src[j].chunk] => i = j
                              /\ \A i \in DOMAIN src : src[i].cited => src[i].chunk \in cited
                              /\ \A x \in cited : \E i \in DOMAIN src :
                                    src[i].cited /\ VideoOf[src[i].chunk] = VideoOf[x]
      BY DEF SourcesTellWhatWasRead
    <2>2. Heard(turn[t]) /\ turn[t].sources = SourcesOf(turn[t])
      BY <1>1, <2>1 DEF ChatInv, TurnsKnow, Knows, Streaming
    <2> QED BY <2>2, SourcesAre, ChatAssumption
  <1> QED BY <1>1, ChatHolds, PTL

-----------------------------------------------------------------------------
(* Picking in order                                                        *)

\* The places of K in their order.
Lists(K, m, f) ==
    /\ f \in [1 .. m -> K]
    /\ \A k, l \in 1 .. m : k < l => f[k] < f[l]
    /\ \A i \in K : \E k \in 1 .. m : f[k] = i

\* p holds what s has at those places.
Reads(p, s, m, f) == p = [k \in 1 .. m |-> s[f[k]]]

LEMMA ListsOnce ==
    ASSUME NEW K \in SUBSET Nat, NEW m \in Nat, NEW f, Lists(K, m, f)
    PROVE  /\ \A k, l \in 1 .. m : (f[k] <= f[l] <=> k <= l) /\ (f[k] = f[l] <=> k = l)
           /\ IsFiniteSet(K) /\ Cardinality(K) = m
  <1>1. \A k \in 1 .. m : f[k] \in K /\ f[k] \in Nat /\ k \in Nat
    <2>1. SUFFICES ASSUME NEW k \in 1 .. m PROVE f[k] \in K /\ f[k] \in Nat /\ k \in Nat
      OBVIOUS
    <2>2. f[k] \in K
      BY DEF Lists
    <2>3. \A x \in K : x \in Nat
      OBVIOUS
    <2>4. PICK x \in K : x = f[k]
      BY <2>2
    <2>5. x \in Nat /\ k \in Nat
      BY <2>3
    <2> QED BY <2>2, <2>4, <2>5
  <1>2. ASSUME NEW k \in 1 .. m, NEW l \in 1 .. m
        PROVE  (f[k] <= f[l] <=> k <= l) /\ (f[k] = f[l] <=> k = l)
    <2>1. (k < l => f[k] < f[l]) /\ (l < k => f[l] < f[k])
      BY DEF Lists
    <2>2. PICK a \in Nat : a = f[k]
      BY <1>1
    <2>3. PICK b \in Nat : b = f[l]
      BY <1>1
    <2>4. k < l \/ l < k \/ k = l
      BY <1>1
    <2>5. (k < l => a < b) /\ (l < k => b < a) /\ (k = l => a = b)
      BY <2>1, <2>2, <2>3
    <2> QED BY <1>1, <2>2, <2>3, <2>4, <2>5
  <1>3. f \in Bijection(1 .. m, K)
    BY <1>2 DEF Lists, Bijection, Injection, IsInjective, Surjection
  <1>4. IsFiniteSet(1 .. m) /\ Cardinality(1 .. m) = m
    BY FS_Interval
  <1>5. IsFiniteSet(K) /\ Cardinality(K) = m
    BY <1>3, <1>4, FS_Bijection DEF ExistsBijection
  <1> QED BY <1>2, <1>5

\* Picking follows that order.
LEMMA PicksInOrder ==
    ASSUME NEW K \in SUBSET Nat, NEW m \in Nat, NEW f, Lists(K, m, f), NEW s
    PROVE  Reads(Picks(s, K), s, m, f)
  <1>1. /\ \A k, l \in 1 .. m : (f[k] <= f[l] <=> k <= l) /\ (f[k] = f[l] <=> k = l)
        /\ Cardinality(K) = m
    BY ListsOnce
  <1> DEFINE Upto(i) == {j \in K : j <= i}
  <1>2. ASSUME NEW k \in 1 .. m
        PROVE  f[k] \in K /\ Cardinality(Upto(f[k])) = k
    <2>1. f[k] \in K /\ k \in Nat
      BY DEF Lists
    <2> DEFINE g == [l \in 1 .. k |-> f[l]]
    <2>2. \A l \in 1 .. k : l \in 1 .. m
      OBVIOUS
    <2>3. \A l \in 1 .. k : g[l] \in Upto(f[k])
      BY <1>1, <2>2 DEF Lists
    <2>4. ASSUME NEW i \in Upto(f[k]) PROVE \E l \in 1 .. k : g[l] = i
      <3>1. PICK l \in 1 .. m : f[l] = i
        BY DEF Lists
      <3>2. l <= k
        BY <1>1, <3>1
      <3> QED BY <3>1, <3>2
    <2>5. \A l, n \in 1 .. k : l < n => g[l] < g[n]
      BY <2>2 DEF Lists
    <2> HIDE DEF g
    <2>6. g \in [1 .. k -> Upto(f[k])]
      BY <2>3 DEF g
    <2> HIDE DEF Upto
    <2>7. Lists(Upto(f[k]), k, g)
      BY <2>4, <2>5, <2>6 DEF Lists
    <2>8. Upto(f[k]) \in SUBSET Nat
      BY DEF Upto
    <2> QED BY <2>1, <2>7, <2>8, ListsOnce
  <1>3. ASSUME NEW k \in 1 .. m
        PROVE  (CHOOSE i \in K : Cardinality(Upto(i)) = k) = f[k]
    <2> HIDE DEF Upto
    <2>1. ASSUME NEW i \in K, Cardinality(Upto(i)) = k PROVE i = f[k]
      <3>1. PICK l \in 1 .. m : f[l] = i
        BY DEF Lists
      <3> QED BY <1>2, <2>1, <3>1
    <2> QED BY <1>2, <2>1
  <1>4. Picks(s, K) = [k \in 1 .. m |-> s[CHOOSE i \in K : Cardinality(Upto(i)) = k]]
    BY <1>1 DEF Picks
  <1> HIDE DEF Upto
  <1> QED BY <1>3, <1>4 DEF Reads

\* The places of a finite set have an order.
LEMMA ListsExist ==
    ASSUME NEW K \in SUBSET Nat, IsFiniteSet(K)
    PROVE  \E m \in Nat : \E f : Lists(K, m, f)
  <1> DEFINE Upto(i) == {j \in K : j <= i}
             Rank(i) == Cardinality(Upto(i))
  <1>1. PICK m \in Nat : m = Cardinality(K)
    BY Places
  <1>2. /\ \A k \in 1 .. m : \E i \in K : Rank(i) = k
        /\ \A i \in K : Rank(i) \in 1 .. m
        /\ \A i, j \in K : Rank(i) = Rank(j) => i = j
    BY <1>1, Places
  <1>3. ASSUME NEW i \in K, NEW j \in K, i <= j
        PROVE  Rank(i) <= Rank(j)
    <2>1. i \in Nat /\ j \in Nat
      OBVIOUS
    <2>2. \A x \in K : x <= i => x <= j
      BY <1>3, <2>1
    <2>3. Upto(i) \in SUBSET Upto(j)
      BY <2>2
    <2>4. IsFiniteSet(Upto(j))
      BY FS_Subset
    <2> HIDE DEF Upto
    <2> QED BY <2>3, <2>4, FS_Subset
  <1> HIDE DEF Rank
  <1> DEFINE f == [k \in 1 .. m |-> CHOOSE i \in K : Rank(i) = k]
  <1>4. \A k \in 1 .. m : f[k] \in K /\ Rank(f[k]) = k
    BY <1>2
  <1>5. f \in [1 .. m -> K]
    BY <1>4
  <1> HIDE DEF f
  <1>6. \A i \in K : \E k \in 1 .. m : f[k] = i
    BY <1>2, <1>4
  <1>7. ASSUME NEW k \in 1 .. m, NEW l \in 1 .. m, k < l
        PROVE  f[k] < f[l]
    <2>1. PICK a \in Nat : a = f[k]
      BY <1>4
    <2>2. PICK b \in Nat : b = f[l]
      BY <1>4
    <2>3. b <= a => l <= k
      BY <1>3, <1>4, <2>1, <2>2
    <2> QED BY <1>7, <2>1, <2>2, <2>3
  <1> QED BY <1>5, <1>6, <1>7 DEF Lists

LEMMA ConcatIs ==
    ASSUME NEW S, NEW p \in Seq(S), NEW q \in Seq(S)
    PROVE  p \o q = [k \in 1 .. Len(p) + Len(q) |->
                        IF k <= Len(p) THEN p[k] ELSE q[k - Len(p)]]
  <1> DEFINE r == p \o q
             n == Len(p) + Len(q)
             f == [k \in 1 .. n |-> IF k <= Len(p) THEN p[k] ELSE q[k - Len(p)]]
  <1>1. /\ r \in Seq(S) /\ Len(r) = n /\ n \in Nat
        /\ \A k \in 1 .. Len(p) : r[k] = p[k]
        /\ \A k \in Len(p) + 1 .. n : r[k] = q[k - Len(p)]
        /\ Len(p) \in Nat /\ Len(q) \in Nat
    BY Joined
  <1> HIDE DEF r
  <1>2. \A k \in 1 .. n : r[k] = f[k]
    BY <1>1
  <1>3. r = [k \in 1 .. n |-> r[k]] /\ f = [k \in 1 .. n |-> f[k]]
    BY <1>1
  <1> HIDE DEF f
  <1>4. r = f
    BY <1>2, <1>3
  <1> QED BY <1>4 DEF r, f

\* The places of U are those of K and after them those of L.
Splits(U, K, L) ==
    /\ U = K \cup L /\ K \in SUBSET Nat /\ L \in SUBSET Nat
    /\ IsFiniteSet(K) /\ IsFiniteSet(L) /\ \A i \in K, j \in L : i < j

Within(s, K, S) == \A k \in K : s[k] \in S

\* What is picked at earlier places comes before what is picked at later ones.
LEMMA PicksJoin ==
    ASSUME NEW U, NEW K, NEW L, Splits(U, K, L), NEW S, NEW s, Within(s, U, S)
    PROVE  /\ Picks(s, K) \in Seq(S) /\ Picks(s, L) \in Seq(S)
           /\ Picks(s, U) = Picks(s, K) \o Picks(s, L)
  <1> SUFFICES ASSUME K \in SUBSET Nat, IsFiniteSet(K), L \in SUBSET Nat, IsFiniteSet(L),
                      \A i \in K, j \in L : i < j, \A i \in K \cup L : s[i] \in S
               PROVE  /\ Picks(s, K) \in Seq(S) /\ Picks(s, L) \in Seq(S)
                      /\ Picks(s, K \cup L) = Picks(s, K) \o Picks(s, L)
    BY DEF Splits, Within
  <1>1. PICK m \in Nat : \E f : Lists(K, m, f)
    BY ListsExist
  <1>2. PICK f : Lists(K, m, f)
    BY <1>1
  <1>3. PICK n \in Nat : \E g : Lists(L, n, g)
    BY ListsExist
  <1>4. PICK g : Lists(L, n, g)
    BY <1>3
  <1> DEFINE h == [k \in 1 .. m + n |-> IF k <= m THEN f[k] ELSE g[k - m]]
  <1>5. /\ \A k \in 1 .. m : k \in 1 .. m + n /\ h[k] = f[k] /\ f[k] \in K
        /\ \A k \in 1 .. n : m + k \in 1 .. m + n /\ h[m + k] = g[k] /\ g[k] \in L
        /\ \A k \in 1 .. m + n : k \in 1 .. m \/ (k - m \in 1 .. n /\ m + (k - m) = k)
    <2>1. (\A k \in 1 .. m : f[k] \in K) /\ (\A k \in 1 .. n : g[k] \in L)
      BY <1>2, <1>4 DEF Lists
    <2>2. \A k \in 1 .. m : k \in 1 .. m + n /\ h[k] = f[k]
      OBVIOUS
    <2>3. \A k \in 1 .. n : m + k \in 1 .. m + n /\ h[m + k] = g[k]
      OBVIOUS
    <2>4. \A k \in 1 .. m + n : k \in 1 .. m \/ (k - m \in 1 .. n /\ m + (k - m) = k)
      OBVIOUS
    <2> QED BY <2>1, <2>2, <2>3, <2>4
  <1>6. h = [k \in 1 .. m + n |-> h[k]]
    OBVIOUS
  <1> HIDE DEF h
  <1>7. \A k \in 1 .. m + n : h[k] \in K \cup L
    BY <1>5
  <1>8. h \in [1 .. m + n -> K \cup L]
    BY <1>6, <1>7
  <1>9. \A i \in K \cup L : \E k \in 1 .. m + n : h[k] = i
    <2>1. \A i \in K : \E k \in 1 .. m : f[k] = i
      BY <1>2 DEF Lists
    <2>2. \A i \in L : \E k \in 1 .. n : g[k] = i
      BY <1>4 DEF Lists
    <2> QED BY <1>5, <2>1, <2>2
  <1>10. ASSUME NEW k \in 1 .. m + n, NEW l \in 1 .. m + n, k < l
         PROVE  h[k] < h[l]
    <2>1. CASE l \in 1 .. m
      <3>1. k \in 1 .. m
        BY <1>10, <2>1
      <3> QED BY <1>2, <1>5, <1>10, <2>1, <3>1 DEF Lists
    <2>2. CASE l \notin 1 .. m
      <3>1. l - m \in 1 .. n /\ h[l] = g[l - m] /\ g[l - m] \in L
        BY <1>5, <2>2
      <3>2. CASE k \in 1 .. m
        BY <1>5, <3>1, <3>2
      <3>3. CASE k \notin 1 .. m
        <4>1. k - m \in 1 .. n /\ h[k] = g[k - m] /\ k - m < l - m
          BY <1>5, <1>10, <3>3
        <4> QED BY <1>4, <3>1, <4>1 DEF Lists
      <3> QED BY <3>2, <3>3
    <2> QED BY <2>1, <2>2
  <1>11. Lists(K \cup L, m + n, h)
    BY <1>8, <1>9, <1>10 DEF Lists
  <1>12. /\ Picks(s, K) = [k \in 1 .. m |-> s[f[k]]]
         /\ Picks(s, L) = [k \in 1 .. n |-> s[g[k]]]
         /\ Picks(s, K \cup L) = [k \in 1 .. m + n |-> s[h[k]]]
    <2>1. PICK J \in SUBSET Nat : J = K \cup L
      OBVIOUS
    <2>2. PICK t \in Nat : t = m + n
      OBVIOUS
    <2>3. Lists(J, t, h)
      BY <1>11, <2>1, <2>2
    <2>4. Reads(Picks(s, J), s, t, h) /\ Reads(Picks(s, K), s, m, f) /\ Reads(Picks(s, L), s, n, g)
      BY <1>2, <1>4, <2>3, PicksInOrder
    <2> QED BY <2>1, <2>2, <2>4 DEF Reads
  <1>13. Picks(s, K) \in Seq(S) /\ Len(Picks(s, K)) = m
    <2>1. \A k \in 1 .. m : s[f[k]] \in S
      BY <1>5
    <2> QED BY <1>12, <2>1
  <1>14. Picks(s, L) \in Seq(S) /\ Len(Picks(s, L)) = n
    <2>1. \A k \in 1 .. n : s[g[k]] \in S
      BY <1>5
    <2> QED BY <1>12, <2>1
  <1>15. \A k \in 1 .. m + n :
            s[h[k]] = IF k <= m THEN Picks(s, K)[k] ELSE Picks(s, L)[k - m]
    BY <1>5, <1>12
  <1> DEFINE p == Picks(s, K)
             q == Picks(s, L)
  <1>16. p \o q = [k \in 1 .. m + n |-> IF k <= m THEN p[k] ELSE q[k - m]]
    <2>1. p \in Seq(S) /\ q \in Seq(S) /\ Len(p) = m /\ Len(q) = n
      BY <1>13, <1>14
    <2>2. p \o q = [k \in 1 .. Len(p) + Len(q) |-> IF k <= Len(p) THEN p[k] ELSE q[k - Len(p)]]
      <3> HIDE DEF p, q
      <3> QED BY <2>1, ConcatIs
    <2> HIDE DEF p, q
    <2> QED BY <2>1, <2>2
  <1> HIDE DEF p, q
  <1>17. p \o q = [k \in 1 .. m + n |-> s[h[k]]]
    BY <1>15, <1>16 DEF p, q
  <1> QED BY <1>12, <1>13, <1>14, <1>17 DEF p, q

Moved(L, K, n) == L = {n + i : i \in K}

\* Picking at a distance.
LEMMA PicksShift ==
    ASSUME NEW K \in SUBSET Nat, IsFiniteSet(K), NEW n \in Nat, NEW s, NEW u,
           \A i \in K : u[i] = s[n + i],
           NEW L, Moved(L, K, n)
    PROVE  Picks(s, L) = Picks(u, K)
  <1>1. PICK m \in Nat : \E f : Lists(K, m, f)
    BY ListsExist
  <1>2. PICK f : Lists(K, m, f)
    BY <1>1
  <1> DEFINE g == [k \in 1 .. m |-> n + f[k]]
  <1>3. \A k \in 1 .. m : f[k] \in K /\ f[k] \in Nat
    <2>1. \A k \in 1 .. m : f[k] \in K
      BY <1>2 DEF Lists
    <2> QED BY <2>1
  <1>4. L \in SUBSET Nat
    <2>1. ASSUME NEW i \in K PROVE n + i \in Nat
      <3>1. i \in Nat
        OBVIOUS
      <3> QED BY <3>1
    <2> QED BY <2>1 DEF Moved
  <1>5. g \in [1 .. m -> L]
    BY <1>3 DEF Moved
  <1>6. \A k, l \in 1 .. m : k < l => g[k] < g[l]
    <2>1. SUFFICES ASSUME NEW k \in 1 .. m, NEW l \in 1 .. m, k < l PROVE g[k] < g[l]
      OBVIOUS
    <2>2. f[k] < f[l]
      BY <1>2, <2>1 DEF Lists
    <2> QED BY <1>3, <2>2
  <1>7. \A i \in L : \E k \in 1 .. m : g[k] = i
    <2>1. SUFFICES ASSUME NEW j \in K PROVE \E k \in 1 .. m : g[k] = n + j
      BY DEF Moved
    <2>2. PICK k \in 1 .. m : f[k] = j
      BY <1>2 DEF Lists
    <2> QED BY <2>2
  <1>8. \A k \in 1 .. m : s[g[k]] = u[f[k]]
    BY <1>3
  <1> HIDE DEF g
  <1>9. Lists(L, m, g)
    BY <1>5, <1>6, <1>7 DEF Lists
  <1>10. Reads(Picks(s, L), s, m, g) /\ Reads(Picks(u, K), u, m, f)
    BY <1>2, <1>4, <1>9, PicksInOrder
  <1>11. Picks(s, L) = Picks(u, K)
    BY <1>8, <1>10 DEF Reads
  <1> QED BY <1>11

\* Picking at neighbouring places is cutting out.
LEMMA PicksRun ==
    ASSUME NEW S, NEW s \in Seq(S), NEW a \in 1 .. Len(s) + 1, NEW b \in a - 1 .. Len(s)
    PROVE  Picks(s, a .. b) = SubSeq(s, a, b)
  <1> DEFINE m == b - a + 1
             f == [k \in 1 .. m |-> a + k - 1]
  <1>1. m \in Nat /\ (a .. b) \in SUBSET Nat /\ f \in [1 .. m -> a .. b]
    OBVIOUS
  <1>2. \A k, l \in 1 .. m : k < l => f[k] < f[l]
    OBVIOUS
  <1>3. ASSUME NEW i \in a .. b PROVE \E k \in 1 .. m : f[k] = i
    <2>1. i - a + 1 \in 1 .. m /\ f[i - a + 1] = i
      OBVIOUS
    <2> QED BY <2>1
  <1>4. SubSeq(s, a, b) = [k \in 1 .. m |-> s[a + k - 1]]
    OBVIOUS
  <1>5. \A k \in 1 .. m : f[k] = a + k - 1
    OBVIOUS
  <1> HIDE DEF m, f
  <1>6. Lists(a .. b, m, f)
    BY <1>1, <1>2, <1>3 DEF Lists
  <1>7. Picks(s, a .. b) = [k \in 1 .. m |-> s[f[k]]]
    <2>1. PICK J \in SUBSET Nat : J = a .. b
      BY <1>1
    <2>2. Lists(J, m, f) /\ m \in Nat
      BY <1>1, <1>6, <2>1
    <2>3. Reads(Picks(s, J), s, m, f)
      BY <2>2, PicksInOrder
    <2> QED BY <2>1, <2>3 DEF Reads
  <1> QED BY <1>4, <1>5, <1>7

IsMarker(s, i, j) ==
    /\ s[i] = "[" /\ s[j] = "]" /\ j >= i + 4
    /\ s[i + 1] = "c" /\ s[i + 2] = ":"
    /\ \A k \in i + 3 .. j - 1 : s[k] \in IdChar

InMarker(s, k) == \E i, j \in 1 .. Len(s) : IsMarker(s, i, j) /\ k \in i .. j
Kept(s) == {k \in 1 .. Len(s) : ~ InMarker(s, k)}

LEMMA StripsMarkers ==
    ASSUME NEW s \in Text
    PROVE  /\ strip_citation_markers(s) = Picks(s, Kept(s))
           /\ Len(s) \in Nat /\ DOMAIN s = 1 .. Len(s)
           /\ Kept(s) \in SUBSET Nat /\ IsFiniteSet(Kept(s)) /\ \A k \in Kept(s) : s[k] \in Char
           /\ strip_citation_markers(s) \in Text
           /\ \A i, j \in 1 .. Len(s) : <<i, j>> \in Markers(s) <=> IsMarker(s, i, j)
           /\ \A m \in Markers(s) : \E i, j \in 1 .. Len(s) : m = <<i, j>> /\ IsMarker(s, i, j)
  <1>1. Len(s) \in Nat /\ DOMAIN s = 1 .. Len(s) /\ \A k \in 1 .. Len(s) : s[k] \in Char
    BY DEF Text
  <1>2. \A i, j \in 1 .. Len(s) : <<i, j>> \in Markers(s) <=> IsMarker(s, i, j)
    BY <1>1 DEF Markers, IsMarker
  <1>3. \A m \in Markers(s) : \E i, j \in 1 .. Len(s) : m = <<i, j>> /\ IsMarker(s, i, j)
    <2>1. SUFFICES ASSUME NEW m \in Markers(s)
                   PROVE  \E i, j \in 1 .. Len(s) : m = <<i, j>> /\ IsMarker(s, i, j)
      OBVIOUS
    <2>2. m \in Markers(s) => m \in (1 .. Len(s)) \X (1 .. Len(s))
      BY <1>1 DEF Markers
    <2>3. PICK i, j \in 1 .. Len(s) : m = <<i, j>>
      BY <2>2
    <2> QED BY <1>2, <2>3
  <1> DEFINE marked == UNION {m[1] .. m[2] : m \in Markers(s)}
  <1>4. \A k \in 1 .. Len(s) : k \in marked <=> InMarker(s, k)
    <2>1. SUFFICES ASSUME NEW k \in 1 .. Len(s) PROVE k \in marked <=> InMarker(s, k)
      OBVIOUS
    <2>2. ASSUME k \in marked PROVE InMarker(s, k)
      <3>1. PICK m \in Markers(s) : k \in m[1] .. m[2]
        BY <2>2
      <3>2. PICK i, j \in 1 .. Len(s) : m = <<i, j>> /\ IsMarker(s, i, j)
        BY <1>3
      <3> QED BY <3>1, <3>2 DEF InMarker
    <2>3. ASSUME InMarker(s, k) PROVE k \in marked
      <3>1. PICK i, j \in 1 .. Len(s) : IsMarker(s, i, j) /\ k \in i .. j
        BY <2>3 DEF InMarker
      <3>2. <<i, j>> \in Markers(s) /\ <<i, j>>[1] = i /\ <<i, j>>[2] = j
        BY <1>2, <3>1
      <3> QED BY <3>1, <3>2
    <2> QED BY <2>2, <2>3
  <1>5. DOMAIN s \ marked = Kept(s)
    BY <1>1, <1>4 DEF Kept
  <1>6. strip_citation_markers(s) = Picks(s, Kept(s))
    BY <1>5 DEF strip_citation_markers
  <1>7. Kept(s) \in SUBSET (1 .. Len(s)) /\ \A k \in Kept(s) : s[k] \in Char
    BY <1>1 DEF Kept
  <1>8. Kept(s) \in SUBSET Nat /\ IsFiniteSet(Kept(s))
    <2>1. IsFiniteSet(1 .. Len(s))
      BY <1>1, FS_Interval
    <2>2. IsFiniteSet(Kept(s))
      BY <1>7, <2>1, FS_Subset
    <2> QED BY <1>1, <1>7, <2>2
  <1>9. Picks(s, Kept(s)) \in Text
    <2>1. Picks(s, Kept(s)) \in Seq(Char)
      BY <1>1, <1>7, PicksSeq
    <2> QED BY <2>1 DEF Text
  <1> QED BY <1>1, <1>2, <1>3, <1>6, <1>7, <1>8, <1>9

\* No marker lies on both sides.
NoneAcross(s, u) ==
    \A i \in 1 .. Len(s), j \in Len(s) + 1 .. Len(s) + Len(u) : ~ IsMarker(s \o u, i, j)

LEMMA StripsApart ==
    ASSUME NEW s \in Text, NEW u \in Text, NoneAcross(s, u)
    PROVE  strip_citation_markers(s \o u) = strip_citation_markers(s) \o strip_citation_markers(u)
  <1> DEFINE n == Len(s)
             w == s \o u
             L == {n + k : k \in Kept(u)}
  <1>1. /\ w \in Text /\ Len(w) = n + Len(u) /\ n \in Nat /\ Len(u) \in Nat
        /\ \A k \in 1 .. n : w[k] = s[k]
        /\ \A k \in n + 1 .. n + Len(u) : w[k] = u[k - n]
    BY Joined DEF Text
  <1>2. \A k \in 1 .. Len(u) : w[n + k] = u[k] /\ n + k \in 1 .. Len(w)
    <2>1. SUFFICES ASSUME NEW k \in 1 .. Len(u) PROVE w[n + k] = u[k] /\ n + k \in 1 .. Len(w)
      OBVIOUS
    <2>2. n + k \in n + 1 .. n + Len(u) /\ (n + k) - n = k
      BY <1>1
    <2> HIDE DEF w, n
    <2> QED BY <1>1, <2>2
  <1>13. \A i \in 1 .. n, j \in n + 1 .. Len(w) : ~ IsMarker(w, i, j)
    BY <1>1 DEF NoneAcross
  <1> HIDE DEF w, n
  <1>3. ASSUME NEW i \in 1 .. n, NEW j \in 1 .. n
        PROVE  IsMarker(w, i, j) <=> IsMarker(s, i, j)
    <2>1. CASE j >= i + 4
      <3>1. i + 1 \in 1 .. n /\ i + 2 \in 1 .. n /\ \A k \in i + 3 .. j - 1 : k \in 1 .. n
        BY <1>1, <2>1
      <3> QED BY <1>1, <3>1 DEF IsMarker
    <2> QED BY <2>1 DEF IsMarker
  <1>4. ASSUME NEW i \in 1 .. Len(u), NEW j \in 1 .. Len(u)
        PROVE  IsMarker(w, n + i, n + j) <=> IsMarker(u, i, j)
    <2>1. CASE j >= i + 4
      <3>1. i + 1 \in 1 .. Len(u) /\ i + 2 \in 1 .. Len(u)
            /\ \A k \in i + 3 .. j - 1 : k \in 1 .. Len(u)
        BY <1>1, <2>1
      <3>2. /\ w[n + i] = u[i] /\ w[n + j] = u[j]
            /\ w[(n + i) + 1] = u[i + 1] /\ w[(n + i) + 2] = u[i + 2]
        <4>1. (n + i) + 1 = n + (i + 1) /\ (n + i) + 2 = n + (i + 2)
          BY <1>1
        <4> QED BY <1>2, <3>1, <4>1
      <3>3. (n + j >= (n + i) + 4) <=> (j >= i + 4)
        BY <1>1
      <3>4. (\A k \in (n + i) + 3 .. (n + j) - 1 : w[k] \in IdChar)
                <=> (\A k \in i + 3 .. j - 1 : u[k] \in IdChar)
        <4>1. ASSUME NEW k \in i + 3 .. j - 1
              PROVE  n + k \in (n + i) + 3 .. (n + j) - 1 /\ w[n + k] = u[k]
          BY <1>1, <1>2, <3>1
        <4>2. ASSUME NEW k \in (n + i) + 3 .. (n + j) - 1
              PROVE  k - n \in i + 3 .. j - 1 /\ w[k] = u[k - n]
          <5>1. k - n \in i + 3 .. j - 1 /\ n + (k - n) = k
            BY <1>1
          <5> QED BY <4>1, <5>1
        <4> QED BY <4>1, <4>2
      <3> QED BY <3>2, <3>3, <3>4 DEF IsMarker
    <2>2. CASE ~ (j >= i + 4)
      <3>1. ~ (n + j >= (n + i) + 4)
        BY <1>1, <2>2
      <3> QED BY <2>2, <3>1 DEF IsMarker
    <2> QED BY <2>1, <2>2
  <1>5. \A k \in 1 .. n : InMarker(w, k) <=> InMarker(s, k)
    <2>1. SUFFICES ASSUME NEW k \in 1 .. n PROVE InMarker(w, k) <=> InMarker(s, k)
      OBVIOUS
    <2>2. ASSUME InMarker(w, k) PROVE InMarker(s, k)
      <3>1. PICK i, j \in 1 .. Len(w) : IsMarker(w, i, j) /\ k \in i .. j
        BY <2>2 DEF InMarker
      <3>2. i \in 1 .. n
        BY <1>1, <3>1
      <3>3. j \in 1 .. n
        BY <1>1, <1>13, <3>1, <3>2
      <3> QED BY <1>3, <3>1, <3>2, <3>3 DEF InMarker, n
    <2>3. ASSUME InMarker(s, k) PROVE InMarker(w, k)
      <3>1. PICK i, j \in 1 .. n : IsMarker(s, i, j) /\ k \in i .. j
        BY <2>3 DEF InMarker, n
      <3>2. i \in 1 .. Len(w) /\ j \in 1 .. Len(w)
        BY <1>1
      <3> QED BY <1>3, <3>1, <3>2 DEF InMarker
    <2> QED BY <2>2, <2>3
  <1>6. \A k \in 1 .. Len(u) : InMarker(w, n + k) <=> InMarker(u, k)
    <2>1. SUFFICES ASSUME NEW k \in 1 .. Len(u) PROVE InMarker(w, n + k) <=> InMarker(u, k)
      OBVIOUS
    <2>2. ASSUME InMarker(w, n + k) PROVE InMarker(u, k)
      <3>1. PICK i, j \in 1 .. Len(w) : IsMarker(w, i, j) /\ n + k \in i .. j
        BY <2>2 DEF InMarker
      <3>2. j \in n + 1 .. Len(w)
        BY <1>1, <3>1
      <3>3. i \in n + 1 .. Len(w)
        BY <1>1, <1>13, <3>1, <3>2
      <3>4. /\ i - n \in 1 .. Len(u) /\ j - n \in 1 .. Len(u) /\ k \in i - n .. j - n
            /\ n + (i - n) = i /\ n + (j - n) = j
        BY <1>1, <3>1, <3>2, <3>3
      <3>5. IsMarker(u, i - n, j - n)
        BY <1>4, <3>1, <3>4
      <3> QED BY <3>4, <3>5 DEF InMarker
    <2>3. ASSUME InMarker(u, k) PROVE InMarker(w, n + k)
      <3>1. PICK i, j \in 1 .. Len(u) : IsMarker(u, i, j) /\ k \in i .. j
        BY <2>3 DEF InMarker
      <3>2. n + i \in 1 .. Len(w) /\ n + j \in 1 .. Len(w) /\ n + k \in n + i .. n + j
        BY <1>1, <3>1
      <3> QED BY <1>4, <3>1, <3>2 DEF InMarker
    <2> QED BY <2>2, <2>3
  <1>7. Kept(w) = Kept(s) \cup L
    <2>1. ASSUME NEW k \in Kept(w) PROVE k \in Kept(s) \cup L
      <3>1. k \in 1 .. Len(w) /\ ~ InMarker(w, k)
        BY DEF Kept
      <3>2. CASE k \in 1 .. n
        BY <1>5, <3>1, <3>2 DEF Kept, n
      <3>3. CASE k \notin 1 .. n
        <4>1. k - n \in 1 .. Len(u) /\ n + (k - n) = k
          BY <1>1, <3>1, <3>3
        <4>2. k - n \in Kept(u)
          BY <1>6, <3>1, <4>1 DEF Kept
        <4> QED BY <4>1, <4>2
      <3> QED BY <3>2, <3>3
    <2>2. Kept(s) \subseteq Kept(w)
      <3>1. \A k \in 1 .. n : k \in 1 .. Len(w)
        BY <1>1
      <3> QED BY <1>5, <3>1 DEF Kept, n
    <2>3. L \subseteq Kept(w)
      BY <1>2, <1>6 DEF Kept
    <2> QED BY <2>1, <2>2, <2>3
  <1> HIDE DEF L
  <1>8. /\ strip_citation_markers(w) = Picks(w, Kept(w))
        /\ strip_citation_markers(s) = Picks(s, Kept(s))
        /\ strip_citation_markers(u) = Picks(u, Kept(u))
        /\ Kept(s) \in SUBSET Nat /\ IsFiniteSet(Kept(s))
        /\ Kept(u) \in SUBSET Nat /\ IsFiniteSet(Kept(u))
        /\ IsFiniteSet(Kept(w)) /\ \A k \in Kept(w) : w[k] \in Char
    BY <1>1, StripsMarkers
  <1>9. Picks(w, L) = Picks(u, Kept(u))
    <2>1. \A k \in Kept(u) : u[k] = w[n + k]
      BY <1>2 DEF Kept
    <2>2. Moved(L, Kept(u), n)
      BY DEF L, Moved
    <2>3. PICK K \in SUBSET Nat : K = Kept(u)
      BY <1>8
    <2>4. PICK d \in Nat : d = n
      BY <1>1
    <2>5. Picks(w, L) = Picks(u, K)
      BY <1>8, <2>1, <2>2, <2>3, <2>4, PicksShift
    <2> QED BY <2>3, <2>5
  <1>10. Picks(w, Kept(s)) = Picks(s, Kept(s))
    <2>1. \A k \in Kept(s) : s[k] = w[0 + k]
      BY <1>1 DEF Kept, n
    <2>2. Moved(Kept(s), Kept(s), 0)
      <3>1. \A k \in Kept(s) : 0 + k = k
        BY <1>8
      <3> QED BY <3>1 DEF Moved
    <2> QED BY <1>8, <2>1, <2>2, PicksShift
  <1>11. L \in SUBSET Nat /\ IsFiniteSet(L) /\ \A i \in Kept(s), j \in L : i < j
    <2>1. IsFiniteSet(L)
      BY <1>7, <1>8, FS_Subset
    <2>2. ASSUME NEW k \in Kept(u) PROVE n + k \in Nat /\ n + k > n
      BY <1>1 DEF Kept
    <2>3. \A j \in L : j \in Nat /\ j > n
      BY <2>2 DEF L
    <2>4. \A i \in Kept(s) : i \in Nat /\ i <= n
      BY <1>1 DEF Kept, n
    <2> QED BY <1>1, <2>1, <2>3, <2>4
  <1>12. Picks(w, Kept(s) \cup L) = Picks(w, Kept(s)) \o Picks(w, L)
    <2>1. Within(w, Kept(w), Char)
      BY <1>8 DEF Within
    <2>2. Splits(Kept(w), Kept(s), L)
      BY <1>7, <1>8, <1>11 DEF Splits
    <2>3. Picks(w, Kept(w)) = Picks(w, Kept(s)) \o Picks(w, L)
      BY <2>1, <2>2, PicksJoin
    <2> QED BY <1>7, <2>3
  <1> QED BY <1>7, <1>8, <1>9, <1>10, <1>12 DEF w

-----------------------------------------------------------------------------
(* The beginnings of markers                                               *)

LEMMA SameSeq ==
    ASSUME NEW S, NEW p \in Seq(S), NEW q \in Seq(S), Len(p) = Len(q),
           \A k \in 1 .. Len(p) : p[k] = q[k]
    PROVE  p = q
  <1>1. p = [k \in 1 .. Len(p) |-> p[k]] /\ q = [k \in 1 .. Len(q) |-> q[k]]
    OBVIOUS
  <1> QED BY <1>1

LEMMA JoinedTexts ==
    ASSUME NEW x \in Text, NEW y \in Text
    PROVE  /\ x \o y \in Text /\ Len(x \o y) = Len(x) + Len(y)
           /\ Len(x) \in Nat /\ Len(y) \in Nat
           /\ \A k \in 1 .. Len(x) : k \in 1 .. Len(x) + Len(y) /\ (x \o y)[k] = x[k]
           /\ \A k \in 1 .. Len(y) :
                 Len(x) + k \in 1 .. Len(x) + Len(y) /\ (x \o y)[Len(x) + k] = y[k]
           /\ \A k \in 1 .. Len(x) + Len(y) :
                 k \in 1 .. Len(x) \/ (k - Len(x) \in 1 .. Len(y) /\ Len(x) + (k - Len(x)) = k)
  <1> DEFINE w == x \o y
             n == Len(x)
             l == Len(y)
  <1>1. /\ w \in Text /\ Len(w) = n + l /\ n \in Nat /\ l \in Nat
        /\ \A k \in 1 .. n : w[k] = x[k]
        /\ \A k \in n + 1 .. n + l : w[k] = y[k - n]
    BY Joined DEF Text
  <1> HIDE DEF w, n, l
  <1>2. ASSUME NEW k \in 1 .. l PROVE n + k \in 1 .. n + l /\ w[n + k] = y[k]
    <2>1. n + k \in n + 1 .. n + l /\ (n + k) - n = k
      BY <1>1
    <2> QED BY <1>1, <2>1
  <1>3. \A k \in 1 .. n : k \in 1 .. n + l
    BY <1>1
  <1>4. \A k \in 1 .. n + l : k \in 1 .. n \/ (k - n \in 1 .. l /\ n + (k - n) = k)
    BY <1>1
  <1> QED BY <1>1, <1>2, <1>3, <1>4 DEF w, n, l

LEMMA CancelRight ==
    ASSUME NEW s \in Text, NEW t \in Text, NEW y \in Text, s \o y = t \o y
    PROVE  s = t
  <1>1. Len(s) = Len(t)
    <2>1. /\ Len(s \o y) = Len(s) + Len(y) /\ Len(t \o y) = Len(t) + Len(y)
          /\ Len(s) \in Nat /\ Len(t) \in Nat /\ Len(y) \in Nat
      BY JoinedTexts
    <2>2. Len(s) + Len(y) = Len(t) + Len(y)
      BY <2>1
    <2> QED BY <2>1, <2>2
  <1>2. \A k \in 1 .. Len(s) : s[k] = t[k]
    <2>1. \A k \in 1 .. Len(s) : (s \o y)[k] = s[k]
      BY JoinedTexts
    <2>2. \A k \in 1 .. Len(t) : (t \o y)[k] = t[k]
      BY JoinedTexts
    <2> QED BY <1>1, <2>1, <2>2
  <1> QED BY <1>1, <1>2, SameSeq DEF Text

\* A text cut in two.
LEMMA CutInTwo ==
    ASSUME NEW w \in Text, NEW p \in 1 .. Len(w) + 1
    PROVE  /\ SubSeq(w, 1, p - 1) \in Text /\ SubSeq(w, p, Len(w)) \in Text
           /\ Len(SubSeq(w, 1, p - 1)) = p - 1 /\ Len(SubSeq(w, p, Len(w))) = Len(w) - p + 1
           /\ w = SubSeq(w, 1, p - 1) \o SubSeq(w, p, Len(w))
           /\ \A k \in 1 .. p - 1 : SubSeq(w, 1, p - 1)[k] = w[k]
           /\ \A k \in 1 .. Len(w) - p + 1 : SubSeq(w, p, Len(w))[k] = w[p + k - 1]
  <1> DEFINE x == SubSeq(w, 1, p - 1)
             y == SubSeq(w, p, Len(w))
  <1>1. Len(w) \in Nat /\ p \in Nat /\ p - 1 \in Nat /\ p - 1 <= Len(w) /\ w \in Seq(Char)
    BY DEF Text
  <1>2. x \in Text /\ Len(x) = p - 1 /\ \A k \in 1 .. p - 1 : x[k] = w[k]
    BY <1>1 DEF Text
  <1>3. y \in Text /\ Len(y) = Len(w) - p + 1 /\ \A k \in 1 .. Len(w) - p + 1 : y[k] = w[p + k - 1]
    BY <1>1 DEF Text
  <1> HIDE DEF x, y
  <1>7. /\ x \o y \in Text /\ Len(x \o y) = Len(x) + Len(y)
        /\ \A k \in 1 .. Len(x) : (x \o y)[k] = x[k]
        /\ \A k \in 1 .. Len(y) : (x \o y)[Len(x) + k] = y[k]
    BY <1>2, <1>3, JoinedTexts
  <1>4. x \o y \in Seq(Char) /\ Len(x \o y) = Len(w)
    BY <1>1, <1>2, <1>3, <1>7 DEF Text
  <1>5. ASSUME NEW k \in 1 .. Len(w) PROVE (x \o y)[k] = w[k]
    <2>1. CASE k \in 1 .. p - 1
      BY <1>2, <1>7, <2>1
    <2>2. CASE k \notin 1 .. p - 1
      <3>1. k - (p - 1) \in 1 .. Len(w) - p + 1 /\ (p - 1) + (k - (p - 1)) = k
            /\ p + (k - (p - 1)) - 1 = k
        BY <1>1, <2>2
      <3>2. (x \o y)[(p - 1) + (k - (p - 1))] = y[k - (p - 1)]
        BY <1>2, <1>3, <1>7, <3>1
      <3>3. y[k - (p - 1)] = w[p + (k - (p - 1)) - 1]
        BY <1>3, <3>1
      <3> QED BY <3>1, <3>2, <3>3
    <2> QED BY <2>1, <2>2
  <1>6. w = x \o y
    BY <1>1, <1>4, <1>5, SameSeq
  <1> QED BY <1>2, <1>3, <1>6 DEF x, y

\* From i on, s may be the beginning of a marker.
Opens(s, i) ==
    /\ i \in 1 .. Len(s) /\ s[i] = "["
    /\ \A k \in i + 1 .. Len(s) :
          IF k = i + 1 THEN s[k] = "c" ELSE IF k = i + 2 THEN s[k] = ":" ELSE s[k] \in IdChar

LEMMA OpensIs ==
    ASSUME NEW s \in Text, NEW i
    PROVE  i \in PartialAtEnd(s) <=> Opens(s, i)
  <1>1. Len(s) \in Nat /\ DOMAIN s = 1 .. Len(s)
    BY DEF Text
  <1>2. SUFFICES ASSUME i \in 1 .. Len(s)
                 PROVE  i \in PartialAtEnd(s) <=> Opens(s, i)
    BY <1>1 DEF PartialAtEnd, Opens
  <1>3. ASSUME i \in PartialAtEnd(s) PROVE Opens(s, i)
    <2>1. /\ s[i] = "["
          /\ i + 1 <= Len(s) => s[i + 1] = "c"
          /\ i + 2 <= Len(s) => s[i + 2] = ":"
          /\ \A k \in i + 3 .. Len(s) : s[k] \in IdChar
      BY <1>3 DEF PartialAtEnd
    <2>2. \A k \in i + 1 .. Len(s) :
              \/ k = i + 1 /\ i + 1 <= Len(s)
              \/ k = i + 2 /\ i + 2 <= Len(s) /\ k # i + 1
              \/ k \in i + 3 .. Len(s) /\ k # i + 1 /\ k # i + 2
      BY <1>1, <1>2
    <2> QED BY <1>2, <2>1, <2>2 DEF Opens
  <1>4. ASSUME Opens(s, i) PROVE i \in PartialAtEnd(s)
    <2>1. i + 1 <= Len(s) => i + 1 \in i + 1 .. Len(s)
      BY <1>1, <1>2
    <2>2. i + 2 <= Len(s) => i + 2 \in i + 1 .. Len(s) /\ i + 2 # i + 1
      BY <1>1, <1>2
    <2>3. \A k \in i + 3 .. Len(s) : k \in i + 1 .. Len(s) /\ k # i + 1 /\ k # i + 2
      BY <1>1, <1>2
    <2> QED BY <1>1, <1>2, <1>4, <2>1, <2>2, <2>3 DEF Opens, PartialAtEnd
  <1> QED BY <1>3, <1>4

LEMMA Letters ==
    /\ "[" \notin IdChar /\ "]" \notin IdChar /\ ":" \notin IdChar /\ "c" \in IdChar
    /\ "[" # "]" /\ "[" # "c" /\ "[" # ":" /\ "]" # "c" /\ "]" # ":"
  BY CitationsAssumption

LEMMA OpensHolds ==
    ASSUME NEW s \in Text, NEW i, Opens(s, i)
    PROVE  \A k \in i .. Len(s) : s[k] # "]" /\ (k # i => s[k] # "[")
  <1>1. Len(s) \in Nat /\ i \in 1 .. Len(s)
    BY DEF Text, Opens
  <1>2. \A k \in i .. Len(s) : k = i \/ k \in i + 1 .. Len(s)
    BY <1>1
  <1> QED BY <1>2, Letters DEF Opens

\* What stands before does not matter.
LEMMA OpensBehind ==
    ASSUME NEW x \in Text, NEW y \in Text, NEW i \in 1 .. Len(y)
    PROVE  Opens(y, i) <=> Opens(x \o y, Len(x) + i)
  <1> DEFINE w == x \o y
             n == Len(x)
  <1>1. /\ Len(w) = n + Len(y) /\ n \in Nat /\ Len(y) \in Nat
        /\ \A k \in 1 .. Len(y) : w[n + k] = y[k]
    BY JoinedTexts
  <1> HIDE DEF w, n
  <1>2. n + i \in 1 .. Len(w) /\ w[n + i] = y[i]
    BY <1>1
  <1>3. ASSUME NEW k \in i + 1 .. Len(y)
        PROVE  /\ n + k \in (n + i) + 1 .. Len(w) /\ w[n + k] = y[k]
               /\ n + k = (n + i) + 1 <=> k = i + 1
               /\ n + k = (n + i) + 2 <=> k = i + 2
    <2>1. k \in 1 .. Len(y)
      BY <1>1
    <2> QED BY <1>1, <2>1
  <1>4. ASSUME NEW k \in (n + i) + 1 .. Len(w)
        PROVE  k - n \in i + 1 .. Len(y) /\ n + (k - n) = k
    BY <1>1
  <1>5. ASSUME Opens(y, i) PROVE Opens(w, n + i)
    BY <1>2, <1>3, <1>4, <1>5 DEF Opens
  <1>6. ASSUME Opens(w, n + i) PROVE Opens(y, i)
    BY <1>2, <1>3, <1>6 DEF Opens
  <1> QED BY <1>5, <1>6 DEF w, n

\* No marker lies across a place where one begins, or where none has begun.
LEMMA NoneAcrossBegin ==
    ASSUME NEW s \in Text, NEW u \in Text, u = <<>> \/ u[1] = "["
    PROVE  NoneAcross(s, u)
  <1> DEFINE w == s \o u
             n == Len(s)
  <1>1. n \in Nat /\ Len(u) \in Nat /\ \A k \in 1 .. Len(u) : w[n + k] = u[k]
    BY JoinedTexts
  <1> HIDE DEF w, n
  <1>2. ASSUME NEW i \in 1 .. n, NEW j \in n + 1 .. n + Len(u), IsMarker(w, i, j)
        PROVE  FALSE
    <2>1. 1 \in 1 .. Len(u) /\ u # <<>>
      BY <1>1
    <2>2. w[n + 1] = "["
      BY <1>1, <2>1
    <2>3. n + 1 = i + 1 \/ n + 1 = i + 2 \/ n + 1 \in i + 3 .. j - 1 \/ n + 1 = j
      BY <1>1
    <2> QED BY <1>2, <2>2, <2>3, Letters DEF IsMarker
  <1> QED BY <1>2 DEF NoneAcross, w, n

LEMMA NoneAcrossOpen ==
    ASSUME NEW s \in Text, NEW u \in Text, PartialAtEnd(s) = {}
    PROVE  NoneAcross(s, u)
  <1> DEFINE w == s \o u
             n == Len(s)
  <1>1. n \in Nat /\ Len(u) \in Nat /\ \A k \in 1 .. n : w[k] = s[k]
    BY JoinedTexts
  <1>3. \A i : ~ Opens(s, i)
    BY OpensIs
  <1> HIDE DEF w
  <1>2. ASSUME NEW i \in 1 .. n, NEW j \in n + 1 .. n + Len(u), IsMarker(w, i, j)
        PROVE  FALSE
    <2>1. ASSUME NEW k \in i + 1 .. n
          PROVE  IF k = i + 1 THEN s[k] = "c" ELSE IF k = i + 2 THEN s[k] = ":"
                 ELSE s[k] \in IdChar
      <3>1. k \in 1 .. n /\ w[k] = s[k] /\ (k # i + 1 /\ k # i + 2 => k \in i + 3 .. j - 1)
        BY <1>1
      <3> QED BY <1>2, <3>1 DEF IsMarker
    <2>2. s[i] = "["
      BY <1>1, <1>2 DEF IsMarker
    <2>3. Opens(s, i)
      BY <2>1, <2>2 DEF Opens
    <2> QED BY <1>3, <2>3
  <1> QED BY <1>2 DEF NoneAcross, w

\* A beginning alone holds no marker.
LEMMA OpenStays ==
    ASSUME NEW y \in Text, Opens(y, 1)
    PROVE  strip_citation_markers(y) = y
  <1>1. Len(y) \in Nat /\ \A k \in 1 .. Len(y) : y[k] # "]"
    BY OpensHolds DEF Text
  <1>2. \A k \in 1 .. Len(y) : ~ InMarker(y, k)
    BY <1>1 DEF InMarker, IsMarker
  <1>3. Kept(y) = 1 .. Len(y)
    BY <1>2 DEF Kept
  <1>4. strip_citation_markers(y) = Picks(y, Kept(y))
    BY StripsMarkers
  <1>5. Picks(y, 1 .. Len(y)) = SubSeq(y, 1, Len(y))
    BY <1>1, PicksRun DEF Text
  <1>6. SubSeq(y, 1, Len(y)) = y
    BY DEF Text
  <1> QED BY <1>3, <1>4, <1>5, <1>6

\* A beginning at the end of a text outlives the stripping.
LEMMA OpenOutlives ==
    ASSUME NEW w \in Text, PartialAtEnd(strip_citation_markers(w)) = {}
    PROVE  PartialAtEnd(w) = {}
  <1>1. SUFFICES ASSUME NEW q, Opens(w, q) PROVE FALSE
    BY OpensIs
  <1>2. q \in 1 .. Len(w) /\ Len(w) \in Nat /\ w[q] = "["
    BY <1>1 DEF Opens, Text
  <1>3. PICK x \in Text, y \in Text :
           /\ w = x \o y /\ Len(x) = q - 1 /\ Len(y) = Len(w) - q + 1 /\ y[1] = w[q]
    <2> DEFINE x == SubSeq(w, 1, q - 1)
               y == SubSeq(w, q, Len(w))
    <2>1. q \in 1 .. Len(w) + 1 /\ 1 \in 1 .. Len(w) - q + 1 /\ q + 1 - 1 = q
      BY <1>2
    <2>2. /\ x \in Text /\ y \in Text /\ w = x \o y /\ Len(x) = q - 1
          /\ Len(y) = Len(w) - q + 1 /\ y[1] = w[q + 1 - 1]
      BY <2>1, CutInTwo
    <2> HIDE DEF x, y
    <2> QED BY <2>1, <2>2
  <1>4. Opens(y, 1)
    <2>1. 1 \in 1 .. Len(y) /\ Len(x) + 1 = q
      BY <1>2, <1>3
    <2> QED BY <1>1, <1>3, <2>1, OpensBehind
  <1> DEFINE c == strip_citation_markers(x)
  <1>5. strip_citation_markers(w) = c \o y
    <2>1. NoneAcross(x, y)
      BY <1>2, <1>3, NoneAcrossBegin
    <2>2. strip_citation_markers(x \o y) = c \o strip_citation_markers(y)
      BY <2>1, StripsApart
    <2>3. strip_citation_markers(y) = y
      BY <1>4, OpenStays
    <2> QED BY <1>3, <2>2, <2>3
  <1>6. c \in Text
    BY StripsMarkers
  <1> HIDE DEF c
  <1>7. Opens(c \o y, Len(c) + 1)
    <2>1. 1 \in 1 .. Len(y)
      BY <1>2, <1>3
    <2> QED BY <1>4, <1>6, <2>1, OpensBehind
  <1>8. c \o y \in Text
    BY <1>6, JoinedTexts
  <1> QED BY <1>5, <1>7, <1>8, OpensIs

\* A text put together and cut again.
LEMMA HalvesAre ==
    ASSUME NEW x \in Text, NEW y \in Text
    PROVE  /\ SubSeq(x \o y, 1, Len(x)) = x
           /\ SubSeq(x \o y, Len(x) + 1, Len(x \o y)) = y
  <1> DEFINE w == x \o y
             a == SubSeq(w, 1, Len(x))
             b == SubSeq(w, Len(x) + 1, Len(w))
  <1>1. /\ w \in Text /\ Len(w) = Len(x) + Len(y) /\ Len(x) \in Nat /\ Len(y) \in Nat
        /\ \A k \in 1 .. Len(x) : w[k] = x[k]
        /\ \A k \in 1 .. Len(y) : w[Len(x) + k] = y[k]
    BY JoinedTexts
  <1> HIDE DEF w
  <1>2. Len(x) + 1 \in 1 .. Len(w) + 1 /\ (Len(x) + 1) - 1 = Len(x)
        /\ Len(w) - (Len(x) + 1) + 1 = Len(y)
    BY <1>1
  <1>3. PICK p \in 1 .. Len(w) + 1 : p = Len(x) + 1
    BY <1>2
  <1>4. /\ SubSeq(w, 1, p - 1) \in Text /\ SubSeq(w, p, Len(w)) \in Text
        /\ Len(SubSeq(w, 1, p - 1)) = p - 1 /\ Len(SubSeq(w, p, Len(w))) = Len(w) - p + 1
        /\ \A k \in 1 .. p - 1 : SubSeq(w, 1, p - 1)[k] = w[k]
        /\ \A k \in 1 .. Len(w) - p + 1 : SubSeq(w, p, Len(w))[k] = w[p + k - 1]
    BY <1>1, CutInTwo
  <1>5. /\ a \in Text /\ b \in Text /\ Len(a) = Len(x) /\ Len(b) = Len(y)
        /\ \A k \in 1 .. Len(x) : a[k] = w[k]
        /\ \A k \in 1 .. Len(y) : b[k] = w[p + k - 1]
    BY <1>2, <1>3, <1>4
  <1> HIDE DEF a, b
  <1>6. \A k \in 1 .. Len(y) : p + k - 1 = Len(x) + k
    BY <1>1, <1>3
  <1>7. a = x
    BY <1>1, <1>5, SameSeq DEF Text
  <1>8. \A k \in 1 .. Len(y) : b[k] = y[k]
    BY <1>1, <1>5, <1>6
  <1>9. b = y
    BY <1>5, <1>8, SameSeq DEF Text
  <1> QED BY <1>7, <1>9 DEF a, b, w

\* What comes after only narrows a beginning.
LEMMA OpensBefore ==
    ASSUME NEW x \in Text, NEW y \in Text, NEW i \in 1 .. Len(x), Opens(x \o y, i)
    PROVE  Opens(x, i)
  <1> DEFINE w == x \o y
  <1>1. /\ Len(w) = Len(x) + Len(y) /\ Len(x) \in Nat /\ Len(y) \in Nat
        /\ \A k \in 1 .. Len(x) : w[k] = x[k]
    BY JoinedTexts
  <1>2. Opens(w, i)
    OBVIOUS
  <1> HIDE DEF w
  <1>3. \A k \in i + 1 .. Len(x) : k \in i + 1 .. Len(w) /\ k \in 1 .. Len(x)
    BY <1>1
  <1> QED BY <1>1, <1>2, <1>3 DEF Opens

\* A marker that starts inside what could still become one.
Nested(w) ==
    \E k \in 1 .. Len(w), j \in 1 .. Len(w) :
        IsMarker(w, k + 1, j) /\ \E i \in 1 .. k : Opens(SubSeq(w, 1, k), i)

\* Up to a place of a beginning that outlives the stripping nothing is nested, so
\* everything from there on is kept.
LEMMA KeptFrom ==
    ASSUME NEW w \in Text, ~ Nested(w), NEW p \in Kept(w),
           NEW K2, K2 = {k \in Kept(w) : k >= p}, Opens(Picks(w, K2), 1)
    PROVE  K2 = p .. Len(w)
  <1>1. /\ Len(w) \in Nat /\ w \in Seq(Char) /\ Kept(w) \in SUBSET Nat /\ IsFiniteSet(Kept(w))
        /\ \A k \in Kept(w) : w[k] \in Char
    BY StripsMarkers DEF Text
  <1>2. p \in 1 .. Len(w) /\ \A k \in Kept(w) : k \in 1 .. Len(w)
    BY DEF Kept
  <1> DEFINE Out == {k \in p .. Len(w) : k \notin Kept(w)}
  <1>3. ASSUME Out # {} PROVE FALSE
    <2>1. Out \in SUBSET Nat
      BY <1>1, <1>2
    <2>22. IsFiniteSet(Out)
      <3>1. IsFiniteSet(p .. Len(w)) /\ Out \subseteq p .. Len(w)
        BY <1>1, <1>2, FS_Interval
      <3> HIDE DEF Out
      <3> QED BY <3>1, FS_Subset
    <2>2. PICK q \in Out : \A y \in Out : q <= y
      <3> HIDE DEF Out
      <3> QED BY <1>3, <2>1, <2>22, Least
    <2>3. q \in p + 1 .. Len(w) /\ q \in 1 .. Len(w) /\ q \notin Kept(w)
      BY <1>1, <1>2
    <2>4. \A k \in p .. q - 1 : k \in Kept(w)
      BY <1>1, <1>2, <2>2, <2>3
    <2>5. PICK i, j \in 1 .. Len(w) : IsMarker(w, i, j) /\ q \in i .. j
      BY <2>3 DEF Kept, InMarker
    <2>6. \A k \in i .. j : k \notin Kept(w)
      BY <2>5 DEF Kept, InMarker
    <2>7. i = q
      <3>1. i <= q /\ q <= j
        BY <2>5
      <3>2. ~ (i < q)
        <4>1. SUFFICES ASSUME i < q PROVE FALSE
          OBVIOUS
        <4>2. q - 1 \in i .. j /\ q - 1 \in p .. q - 1
          BY <1>1, <1>2, <2>3, <3>1, <4>1
        <4> QED BY <2>4, <2>6, <4>2
      <3> QED BY <2>3, <3>1, <3>2
    <2>8. PICK K \in SUBSET Nat : K = p .. q - 1
      BY <1>2, <2>3
    <2>9. PICK L \in SUBSET Nat : L = {k \in Kept(w) : k >= q}
      BY <1>1
    <2>10. K2 = K \cup L
      <3>1. ASSUME NEW k \in K2 PROVE k \in K \cup L
        BY <1>2, <2>3, <2>8, <2>9
      <3>2. \A k \in K : k \in K2
        BY <1>2, <2>3, <2>4, <2>8
      <3>3. \A k \in L : k \in K2
        BY <1>2, <2>3, <2>9
      <3> QED BY <3>1, <3>2, <3>3
    <2>11. IsFiniteSet(K) /\ IsFiniteSet(L) /\ (\A a \in K, b \in L : a < b)
           /\ \A a \in K \cup L : w[a] \in Char
      <3>1. K \subseteq Kept(w) /\ L \subseteq Kept(w)
        BY <2>4, <2>8, <2>9
      <3>2. IsFiniteSet(K) /\ IsFiniteSet(L)
        BY <1>1, <3>1, FS_Subset
      <3>3. \A a \in K, b \in L : a < b
        BY <1>2, <2>3, <2>8, <2>9
      <3> QED BY <1>1, <3>1, <3>2, <3>3
    <2>12. /\ Picks(w, K) \in Seq(Char) /\ Picks(w, L) \in Seq(Char)
           /\ Picks(w, K \cup L) = Picks(w, K) \o Picks(w, L)
      <3>1. PICK U : U = K \cup L
        OBVIOUS
      <3>2. Splits(U, K, L)
        BY <2>11, <3>1 DEF Splits
      <3>3. Within(w, U, Char)
        BY <2>11, <3>1 DEF Within
      <3>4. /\ Picks(w, K) \in Seq(Char) /\ Picks(w, L) \in Seq(Char)
            /\ Picks(w, U) = Picks(w, K) \o Picks(w, L)
        BY <3>2, <3>3, PicksJoin
      <3> QED BY <3>1, <3>4
    <2>13. PICK v \in Text : v = Picks(w, K)
      BY <2>12 DEF Text
    <2>14. PICK r \in Text : r = Picks(w, L)
      BY <2>12 DEF Text
    <2>15. v = SubSeq(w, p, q - 1)
      <3>1. p \in 1 .. Len(w) + 1 /\ q - 1 \in p - 1 .. Len(w)
        BY <1>1, <1>2, <2>3
      <3> QED BY <1>1, <2>8, <2>13, <3>1, PicksRun
    <2>16. Len(v) = q - p /\ \A k \in 1 .. q - p : v[k] = w[p + k - 1]
      BY <1>1, <1>2, <2>3, <2>15
    <2>17. Opens(v, 1)
      <3>1. 1 \in 1 .. Len(v)
        BY <2>3, <1>2, <2>16
      <3>2. Opens(v \o r, 1)
        BY <2>10, <2>12, <2>13, <2>14
      <3> QED BY <3>1, <3>2, OpensBefore
    <2>18. PICK u \in Text : /\ u = SubSeq(w, 1, q - 1) /\ Len(u) = q - 1
                             /\ \A k \in 1 .. q - 1 : u[k] = w[k]
      <3> DEFINE z == SubSeq(w, 1, q - 1)
      <3>1. q - 1 \in Nat /\ q - 1 <= Len(w)
        BY <1>1, <2>3
      <3>2. z \in Seq(Char) /\ Len(z) = q - 1 /\ \A k \in 1 .. q - 1 : z[k] = w[k]
        BY <1>1, <3>1
      <3> HIDE DEF z
      <3>3. z \in Text
        BY <3>2 DEF Text
      <3> QED BY <3>2, <3>3 DEF z
    <2>19. Opens(u, p)
      <3>1. p \in 1 .. q - 1 /\ p + 1 - 1 = p /\ 1 \in 1 .. q - p
        BY <1>2, <2>3
      <3>2. u[p] = "["
        BY <2>16, <2>17, <2>18, <3>1 DEF Opens
      <3>3. ASSUME NEW k \in p + 1 .. Len(u)
            PROVE  IF k = p + 1 THEN u[k] = "c" ELSE IF k = p + 2 THEN u[k] = ":"
                   ELSE u[k] \in IdChar
        <4>1. k - p + 1 \in 1 .. q - p /\ k - p + 1 \in 1 + 1 .. Len(v) /\ k \in 1 .. q - 1
              /\ p + (k - p + 1) - 1 = k
              /\ (k - p + 1 = 1 + 1 <=> k = p + 1) /\ (k - p + 1 = 1 + 2 <=> k = p + 2)
          BY <1>2, <2>3, <2>16, <2>18
        <4>2. PICK n \in 1 .. q - p : n = k - p + 1
          BY <4>1
        <4>3. v[n] = u[k]
          BY <2>16, <2>18, <4>1, <4>2
        <4> QED BY <2>17, <4>1, <4>2, <4>3 DEF Opens
      <3> QED BY <2>18, <3>1, <3>2, <3>3 DEF Opens
    <2>20. PICK k \in 1 .. Len(w) : k = q - 1
      BY <1>2, <2>3
    <2>21. k + 1 = q /\ p \in 1 .. k
      BY <1>2, <2>3, <2>20
    <2> QED BY <2>5, <2>7, <2>18, <2>19, <2>20, <2>21 DEF Nested
  <1>4. ASSUME NEW k \in p .. Len(w) PROVE k \in K2
    BY <1>2, <1>3
  <1>5. ASSUME NEW k \in K2 PROVE k \in p .. Len(w)
    BY <1>2
  <1> QED BY <1>4, <1>5

\* Where nothing is nested, a beginning at the end of the stripped text stands whole at
\* the end of the text.
LEMMA Contiguous ==
    ASSUME NEW w \in Text, ~ Nested(w), NEW c, c = strip_citation_markers(w), NEW f, Opens(c, f)
    PROVE  \E x \in Text, y \in Text :
               /\ w = x \o y /\ Opens(y, 1)
               /\ strip_citation_markers(x) = SubSeq(c, 1, f - 1) /\ y = SubSeq(c, f, Len(c))
  <1>1. /\ Len(w) \in Nat /\ w \in Seq(Char) /\ Kept(w) \in SUBSET Nat /\ IsFiniteSet(Kept(w))
        /\ \A k \in Kept(w) : w[k] \in Char
        /\ c = Picks(w, Kept(w)) /\ c \in Text
    BY StripsMarkers DEF Text
  <1>2. PICK m \in Nat : \E g : Lists(Kept(w), m, g)
    BY <1>1, ListsExist
  <1>3. PICK g : Lists(Kept(w), m, g)
    BY <1>2
  <1>4. c = [k \in 1 .. m |-> w[g[k]]]
    <2>1. PICK K \in SUBSET Nat : K = Kept(w)
      BY <1>1
    <2>2. Reads(Picks(w, K), w, m, g)
      BY <1>3, <2>1, PicksInOrder
    <2> QED BY <1>1, <2>1, <2>2 DEF Reads
  <1>5. Len(c) = m /\ f \in 1 .. m
    BY <1>1, <1>4 DEF Opens, Text
  <1>6. PICK p \in Kept(w) : p = g[f]
    BY <1>3, <1>5 DEF Lists
  <1>7. p \in Nat /\ \A k \in Kept(w) : k \in Nat
    BY <1>1
  <1>8. PICK K1 \in SUBSET Nat : K1 = {k \in Kept(w) : k < p}
    BY <1>7
  <1>9. PICK K2 \in SUBSET Nat : K2 = {k \in Kept(w) : k >= p}
    BY <1>7
  <1>10. K1 \subseteq Kept(w) /\ K2 \subseteq Kept(w) /\ IsFiniteSet(K1) /\ IsFiniteSet(K2)
    <2>1. K1 \subseteq Kept(w) /\ K2 \subseteq Kept(w)
      BY <1>8, <1>9
    <2> QED BY <1>1, <2>1, FS_Subset
  <1>11. /\ Picks(w, K1) \in Seq(Char) /\ Picks(w, K2) \in Seq(Char)
         /\ c = Picks(w, K1) \o Picks(w, K2)
    <2>1. \A k \in Kept(w) : k \in K1 \/ k \in K2
      BY <1>7, <1>8, <1>9
    <2>2. Kept(w) = K1 \cup K2
      BY <1>10, <2>1
    <2>3. \A i \in K1 : i \in Nat /\ i < p
      BY <1>7, <1>8
    <2>4. \A j \in K2 : j \in Nat /\ j >= p
      BY <1>7, <1>9
    <2>5. \A i \in K1, j \in K2 : i < j
      BY <1>7, <2>3, <2>4
    <2>6. Splits(Kept(w), K1, K2)
      BY <1>10, <2>2, <2>5 DEF Splits
    <2>7. Within(w, Kept(w), Char)
      BY <1>1 DEF Within
    <2> QED BY <1>1, <2>6, <2>7, PicksJoin
  <1>12. PICK c1 \in Text : c1 = Picks(w, K1)
    BY <1>11 DEF Text
  <1>13. PICK c2 \in Text : c2 = Picks(w, K2)
    BY <1>11 DEF Text
  <1>14. Len(c1) = f - 1
    <2> DEFINE h == [k \in 1 .. f - 1 |-> g[k]]
    <2>1. \A k \in 1 .. f - 1 : h[k] = g[k] /\ k \in 1 .. m /\ k < f
      BY <1>5
    <2>2. h = [k \in 1 .. f - 1 |-> h[k]]
      OBVIOUS
    <2> HIDE DEF h
    <2>3. ASSUME NEW k \in 1 .. f - 1 PROVE h[k] \in K1
      <3>1. g[k] \in Kept(w) /\ g[k] < p
        BY <1>3, <1>5, <1>6, <2>1 DEF Lists
      <3> QED BY <1>8, <2>1, <3>1
    <2>4. h \in [1 .. f - 1 -> K1]
      BY <2>2, <2>3
    <2>5. \A k, l \in 1 .. f - 1 : k < l => h[k] < h[l]
      BY <1>3, <2>1 DEF Lists
    <2>6. ASSUME NEW i \in K1 PROVE \E k \in 1 .. f - 1 : h[k] = i
      <3>1. PICK k \in 1 .. m : g[k] = i
        BY <1>3, <1>8 DEF Lists
      <3>2. g[k] <= g[f] <=> k <= f
        BY <1>1, <1>3, <1>5, ListsOnce
      <3>3. i < p /\ i \in Nat
        BY <1>7, <1>8
      <3>4. k <= f /\ k # f
        BY <1>6, <1>7, <3>1, <3>2, <3>3
      <3> QED BY <1>5, <2>1, <3>1, <3>4
    <2>7. Lists(K1, f - 1, h) /\ f - 1 \in Nat
      BY <1>5, <2>4, <2>5, <2>6 DEF Lists
    <2>8. c1 = [k \in 1 .. f - 1 |-> w[h[k]]]
      <3>1. PICK n \in Nat : n = f - 1
        BY <2>7
      <3>2. Lists(K1, n, h)
        BY <2>7, <3>1
      <3>3. Reads(Picks(w, K1), w, n, h)
        BY <3>2, PicksInOrder
      <3> QED BY <1>12, <3>1, <3>3 DEF Reads
    <2> QED BY <2>7, <2>8
  <1>15. c = c1 \o c2
    BY <1>11, <1>12, <1>13
  <1>16. Opens(c2, 1)
    <2>1. Len(c) = Len(c1) + Len(c2) /\ Len(c2) \in Nat
      BY <1>15, JoinedTexts
    <2>2. 1 \in 1 .. Len(c2) /\ Len(c1) + 1 = f
      BY <1>5, <1>14, <2>1
    <2> QED BY <1>15, <2>2, OpensBehind
  <1>17. SubSeq(c, 1, f - 1) = c1 /\ SubSeq(c, f, Len(c)) = c2
    <2>1. Len(c1) + 1 = f
      BY <1>5, <1>14
    <2>2. SubSeq(c, 1, Len(c1)) = c1 /\ SubSeq(c, Len(c1) + 1, Len(c)) = c2
      BY <1>15, HalvesAre
    <2> QED BY <1>14, <2>1, <2>2
  <1>18. K2 = p .. Len(w)
    BY <1>9, <1>13, <1>16, KeptFrom
  <1>19. p \in 1 .. Len(w)
    BY DEF Kept
  <1>20. c2 = SubSeq(w, p, Len(w))
    <2>1. p \in 1 .. Len(w) + 1 /\ Len(w) \in p - 1 .. Len(w)
      BY <1>1, <1>19
    <2> QED BY <1>1, <1>13, <1>18, <2>1, PicksRun
  <1>21. PICK x \in Text : w = x \o c2
    <2>1. p \in 1 .. Len(w) + 1
      BY <1>1, <1>19
    <2> QED BY <1>20, <2>1, CutInTwo
  <1>22. c = strip_citation_markers(x) \o c2
    <2>1. c2 = <<>> \/ c2[1] = "["
      BY <1>16 DEF Opens
    <2>2. NoneAcross(x, c2)
      BY <2>1, NoneAcrossBegin
    <2>3. strip_citation_markers(w) = strip_citation_markers(x) \o strip_citation_markers(c2)
      BY <1>21, <2>2, StripsApart
    <2> QED BY <1>16, <2>3, OpenStays
  <1>23. strip_citation_markers(x) = c1
    BY <1>15, <1>22, StripsMarkers, CancelRight
  <1> QED BY <1>16, <1>17, <1>21, <1>23

LEMMA OpensOnce ==
    ASSUME NEW s \in Text, NEW i, Opens(s, i), NEW j, Opens(s, j)
    PROVE  i = j
  <1>1. i \in 1 .. Len(s) /\ j \in 1 .. Len(s) /\ s[i] = "[" /\ s[j] = "["
    BY DEF Opens
  <1>2. Len(s) \in Nat
    BY DEF Text
  <1>3. \A k \in i .. Len(s) : k # i => s[k] # "["
    BY OpensHolds
  <1>4. \A k \in j .. Len(s) : k # j => s[k] # "["
    BY OpensHolds
  <1> QED BY <1>1, <1>2, <1>3, <1>4

\* A text without what the stripper cannot see through: no marker starts where another
\* one may have begun and not ended, and no beginning is as long as the hold-back.
Plain(s) ==
    \A k \in 0 .. Len(s) : \A i \in PartialAtEnd(SubSeq(s, 1, k)) :
        k - i + 1 < MaxHoldback /\ \A m \in Markers(s) : m[1] # k + 1

\* The first characters of a text.
LEMMA FirstsAre ==
    ASSUME NEW w \in Text, NEW k \in 0 .. Len(w)
    PROVE  /\ SubSeq(w, 1, k) \in Text /\ Len(SubSeq(w, 1, k)) = k
           /\ \A n \in 1 .. k : SubSeq(w, 1, k)[n] = w[n]
  <1>1. w \in Seq(Char) /\ k \in Nat /\ k <= Len(w) /\ Len(w) \in Nat
    BY DEF Text
  <1>2. SubSeq(w, 1, k) \in Seq(Char) /\ Len(SubSeq(w, 1, k)) = k
        /\ \A n \in 1 .. k : SubSeq(w, 1, k)[n] = w[n]
    BY <1>1
  <1> QED BY <1>2 DEF Text

LEMMA PlainHolds ==
    ASSUME NEW s \in Text, Plain(s)
    PROVE  /\ ~ Nested(s)
           /\ \A i \in 1 .. Len(s) : Opens(s, i) => Len(s) - i + 1 < MaxHoldback
  <1>1. Len(s) \in Nat /\ DOMAIN s = 1 .. Len(s) /\ s = SubSeq(s, 1, Len(s))
    BY DEF Text
  <1>2. ASSUME NEW k \in 1 .. Len(s), NEW i, Opens(SubSeq(s, 1, k), i)
        PROVE  i \in PartialAtEnd(SubSeq(s, 1, k)) /\ k \in 0 .. Len(s)
    <2>1. k \in 0 .. Len(s)
      BY <1>1
    <2> QED BY <1>2, <2>1, FirstsAre, OpensIs
  <1>3. ASSUME NEW k \in 1 .. Len(s), NEW j \in 1 .. Len(s), IsMarker(s, k + 1, j),
               NEW i \in 1 .. k, Opens(SubSeq(s, 1, k), i)
        PROVE  FALSE
    <2>1. k + 1 \in 1 .. Len(s)
      BY <1>1, <1>3 DEF IsMarker
    <2>2. <<k + 1, j>> \in Markers(s)
      BY <1>3, <2>1, StripsMarkers
    <2> QED BY <1>2, <1>3, <2>2 DEF Plain
  <1>4. ASSUME NEW i \in 1 .. Len(s), Opens(s, i) PROVE Len(s) - i + 1 < MaxHoldback
    <2>1. Len(s) \in 1 .. Len(s)
      BY <1>1
    <2>2. Opens(SubSeq(s, 1, Len(s)), i)
      BY <1>1, <1>4
    <2> QED BY <1>2, <2>1, <2>2 DEF Plain
  <1>5. ~ Nested(s)
    BY <1>3 DEF Nested
  <1> QED BY <1>4, <1>5

\* What was plain at the end was plain all along.
LEMMA PlainBefore ==
    ASSUME NEW a \in Text, NEW b \in Text, Plain(a \o b)
    PROVE  Plain(a)
  <1> DEFINE w == a \o b
  <1>1. /\ w \in Text /\ Len(w) = Len(a) + Len(b) /\ Len(a) \in Nat /\ Len(b) \in Nat
        /\ \A k \in 1 .. Len(a) : w[k] = a[k]
    BY JoinedTexts
  <1>2. Plain(w)
    OBVIOUS
  <1> HIDE DEF w
  <1>3. ASSUME NEW k \in 0 .. Len(a) PROVE SubSeq(a, 1, k) = SubSeq(w, 1, k) /\ k \in 0 .. Len(w)
    <2>1. k \in 0 .. Len(w) /\ \A n \in 1 .. k : n \in 1 .. Len(a)
      BY <1>1
    <2>2. /\ SubSeq(a, 1, k) \in Text /\ Len(SubSeq(a, 1, k)) = k
          /\ \A n \in 1 .. k : SubSeq(a, 1, k)[n] = a[n]
      BY FirstsAre
    <2>3. /\ SubSeq(w, 1, k) \in Text /\ Len(SubSeq(w, 1, k)) = k
          /\ \A n \in 1 .. k : SubSeq(w, 1, k)[n] = w[n]
      BY <1>1, <2>1, FirstsAre
    <2>4. \A n \in 1 .. k : SubSeq(a, 1, k)[n] = SubSeq(w, 1, k)[n]
      BY <1>1, <2>1, <2>2, <2>3
    <2> QED BY <2>1, <2>2, <2>3, <2>4, SameSeq DEF Text
  <1>4. ASSUME NEW m \in Markers(a) PROVE m \in Markers(w)
    <2>1. PICK i, j \in 1 .. Len(a) : m = <<i, j>> /\ IsMarker(a, i, j)
      BY StripsMarkers
    <2>2. i \in 1 .. Len(w) /\ j \in 1 .. Len(w)
      BY <1>1
    <2>3. i \in Nat /\ j \in Nat /\ j >= i + 4 /\ i >= 1 /\ j <= Len(a)
      BY <1>1, <2>1 DEF IsMarker
    <2>4. i + 1 \in 1 .. Len(a) /\ i + 2 \in 1 .. Len(a) /\ \A n \in i + 3 .. j - 1 : n \in 1 .. Len(a)
      BY <1>1, <2>3
    <2>5. IsMarker(w, i, j)
      BY <1>1, <2>1, <2>4 DEF IsMarker
    <2> QED BY <1>1, <2>1, <2>2, <2>5, StripsMarkers
  <1> QED BY <1>2, <1>3, <1>4 DEF Plain

\* What is nested stays so whatever stands before it.
LEMMA NestedBehind ==
    ASSUME NEW a \in Text, NEW z \in Text, Nested(z)
    PROVE  Nested(a \o z)
  <1> DEFINE w == a \o z
             n == Len(a)
  <1>1. /\ w \in Text /\ Len(w) = n + Len(z) /\ n \in Nat /\ Len(z) \in Nat
        /\ \A k \in 1 .. n : w[k] = a[k]
        /\ \A k \in 1 .. Len(z) : w[n + k] = z[k]
    BY JoinedTexts
  <1>2. PICK k \in 1 .. Len(z), j \in 1 .. Len(z) :
            IsMarker(z, k + 1, j) /\ \E i \in 1 .. k : Opens(SubSeq(z, 1, k), i)
    BY DEF Nested
  <1>3. PICK i \in 1 .. k : Opens(SubSeq(z, 1, k), i)
    BY <1>2
  <1>4. n + k \in 1 .. Len(w) /\ n + j \in 1 .. Len(w) /\ n + i \in 1 .. n + k /\ k \in 0 .. Len(z)
    BY <1>1
  <1>5. IsMarker(w, (n + k) + 1, n + j)
    <2>1. /\ k \in Nat /\ j \in Nat /\ j >= (k + 1) + 4 /\ j <= Len(z)
          /\ \A x \in (k + 1) + 3 .. j - 1 : z[x] \in IdChar
      BY <1>1, <1>2 DEF IsMarker
    <2>2. /\ k + 1 \in 1 .. Len(z) /\ (k + 1) + 1 \in 1 .. Len(z) /\ (k + 1) + 2 \in 1 .. Len(z)
          /\ n + (k + 1) = (n + k) + 1 /\ n + ((k + 1) + 1) = ((n + k) + 1) + 1
          /\ n + ((k + 1) + 2) = ((n + k) + 1) + 2 /\ n + j >= ((n + k) + 1) + 4
      BY <1>1, <2>1
    <2>3. ASSUME NEW x \in ((n + k) + 1) + 3 .. (n + j) - 1 PROVE w[x] \in IdChar
      <3>1. x - n \in (k + 1) + 3 .. j - 1 /\ x - n \in 1 .. Len(z) /\ n + (x - n) = x
        BY <1>1, <2>1
      <3> QED BY <1>1, <2>1, <3>1
    <2>4. w[(n + k) + 1] = z[k + 1] /\ w[((n + k) + 1) + 1] = z[(k + 1) + 1]
          /\ w[((n + k) + 1) + 2] = z[(k + 1) + 2] /\ w[n + j] = z[j]
      BY <1>1, <2>2
    <2> HIDE DEF w, n
    <2> QED BY <1>2, <2>2, <2>3, <2>4 DEF IsMarker
  <1>6. PICK b \in Text : /\ b = SubSeq(z, 1, k) /\ Len(b) = k /\ \A x \in 1 .. k : b[x] = z[x]
    BY <1>4, FirstsAre
  <1>7. SubSeq(w, 1, n + k) = a \o b
    <2>1. n + k \in 0 .. Len(w)
      BY <1>1, <1>4
    <2>2. PICK d \in 0 .. Len(w) : d = n + k
      BY <2>1
    <2>3. PICK v \in Text : /\ v = SubSeq(w, 1, d) /\ Len(v) = d /\ \A x \in 1 .. d : v[x] = w[x]
      BY <1>1, FirstsAre
    <2>4. /\ a \o b \in Text /\ Len(a \o b) = n + k
          /\ \A x \in 1 .. n : (a \o b)[x] = a[x]
          /\ \A x \in 1 .. k : (a \o b)[n + x] = b[x]
          /\ \A x \in 1 .. n + k : x \in 1 .. n \/ (x - n \in 1 .. k /\ n + (x - n) = x)
      <3>1. /\ a \o b \in Text /\ Len(a \o b) = Len(a) + Len(b)
            /\ \A x \in 1 .. Len(a) : (a \o b)[x] = a[x]
            /\ \A x \in 1 .. Len(b) : (a \o b)[Len(a) + x] = b[x]
            /\ \A x \in 1 .. Len(a) + Len(b) :
                   x \in 1 .. Len(a) \/ (x - Len(a) \in 1 .. Len(b) /\ Len(a) + (x - Len(a)) = x)
        <4>1. a \in Text /\ b \in Text
          BY <1>6
        <4> HIDE DEF n, w
        <4> QED BY <4>1, JoinedTexts, ZenonT(60)
      <3> QED BY <1>6, <3>1
    <2> DEFINE ab == a \o b
    <2> HIDE DEF w, n, ab
    <2>5. ASSUME NEW x \in 1 .. d PROVE v[x] = ab[x]
      <3>1. CASE x \in 1 .. n
        BY <1>1, <2>3, <2>4, <3>1 DEF ab
      <3>2. CASE x - n \in 1 .. k /\ n + (x - n) = x
        <4>1. x - n \in 1 .. Len(z)
          BY <1>1, <3>2
        <4>2. w[n + (x - n)] = z[x - n] /\ ab[n + (x - n)] = b[x - n]
          BY <1>1, <2>4, <3>2, <4>1 DEF ab
        <4> QED BY <1>6, <2>3, <3>2, <4>2
      <3> QED BY <2>2, <2>4, <3>1, <3>2
    <2>6. v = ab
      BY <2>2, <2>3, <2>4, <2>5, SameSeq DEF Text, ab
    <2> QED BY <2>2, <2>3, <2>6 DEF ab
  <1>8. Opens(a \o b, n + i)
    BY <1>3, <1>6, OpensBehind
  <1>9. Opens(SubSeq(w, 1, n + k), n + i)
    BY <1>7, <1>8
  <1> HIDE DEF w, n
  <1>10. Nested(w)
    BY <1>4, <1>5, <1>9 DEF Nested
  <1> QED BY <1>10 DEF w

-----------------------------------------------------------------------------
(* What the stripper has given out                                         *)

\* What feed has given out is the text so far without its markers, but for the end that
\* it holds back because a marker may begin there.
Cut(a, held) == IF held = <<>> THEN PartialAtEnd(a) = {} ELSE held[1] = "["

Told(said, sent, held) ==
    /\ said \in Text /\ held \in Text
    /\ \E a \in Text : said = a \o held /\ sent = strip_citation_markers(a) /\ Cut(a, held)

LEMMA CutApart ==
    ASSUME NEW a \in Text, NEW held \in Text, Cut(a, held), NEW z \in Text,
           held # <<>> => z = <<>> \/ z[1] = "["
    PROVE  NoneAcross(a, z)
  BY NoneAcrossOpen, NoneAcrossBegin DEF Cut

LEMMA TextsJoin ==
    ASSUME NEW a \in Text, NEW b \in Text, NEW c \in Text
    PROVE  (a \o b) \o c = a \o (b \o c) /\ a \o <<>> = a /\ <<>> \o a = a /\ <<>> \in Text
  BY DEF Text

LEMMA FeedTells ==
    ASSUME NEW said, NEW sent, NEW held, Told(said, sent, held), NEW d \in Text,
           Plain(said \o d)
    PROVE  LET f == feed(held, d) IN Told(said \o d, sent \o f.out, f.held)
  <1>1. PICK a \in Text : /\ said = a \o held /\ sent = strip_citation_markers(a)
                          /\ Cut(a, held) /\ said \in Text /\ held \in Text
    BY DEF Told
  <1>2. PICK z \in Text : z = held \o d
    BY <1>1, JoinedTexts
  <1>3. said \o d = a \o z /\ said \o d \in Text
    <2>1. (a \o held) \o d = a \o (held \o d)
      BY <1>1, TextsJoin
    <2>2. a \o z \in Text
      BY JoinedTexts
    <2> QED BY <1>1, <1>2, <2>1, <2>2
  <1>4. held # <<>> => z[1] = "[" /\ z # <<>>
    <2>1. SUFFICES ASSUME held # <<>> PROVE z[1] = "[" /\ z # <<>>
      OBVIOUS
    <2>2. Len(held) \in Nat \ {0}
      BY <1>1, <2>1 DEF Text
    <2>3. 1 \in 1 .. Len(held)
      BY <2>2
    <2>4. z[1] = held[1] /\ 1 \in 1 .. Len(z)
      BY <1>1, <1>2, <2>2, <2>3, JoinedTexts
    <2> QED BY <1>1, <2>1, <2>4 DEF Cut
  <1>5. NoneAcross(a, z)
    BY <1>1, <1>4, CutApart
  <1>6. PICK c \in Text : c = strip_citation_markers(z)
    BY StripsMarkers
  <1>7. strip_citation_markers(a \o z) = sent \o c /\ sent \in Text
    BY <1>1, <1>5, <1>6, StripsApart, StripsMarkers
  <1>8. ~ Nested(z)
    BY <1>3, NestedBehind, PlainHolds
  <1>9. PICK p : p = CHOOSE i \in PartialAtEnd(c) : TRUE
    OBVIOUS
  <1>10. feed(held, d) =
            IF PartialAtEnd(c) = {} \/ Len(c) - p + 1 >= MaxHoldback
            THEN [out |-> c, held |-> <<>>]
            ELSE [out |-> SubSeq(c, 1, p - 1), held |-> SubSeq(c, p, Len(c))]
    BY <1>2, <1>6, <1>9 DEF feed
  <1>11. CASE PartialAtEnd(c) = {}
    <2>1. PartialAtEnd(z) = {}
      BY <1>6, <1>11, OpenOutlives
    <2>2. /\ Len(a \o z) = Len(a) + Len(z) /\ Len(a) \in Nat /\ Len(z) \in Nat
          /\ \A k \in 1 .. Len(z) : (a \o z)[Len(a) + k] = z[k]
          /\ \A k \in 1 .. Len(a) + Len(z) :
                 k \in 1 .. Len(a) \/ (k - Len(a) \in 1 .. Len(z) /\ Len(a) + (k - Len(a)) = k)
      BY JoinedTexts
    <2>3. ASSUME NEW i, Opens(a \o z, i) PROVE FALSE
      <3>1. i \in 1 .. Len(a) + Len(z)
        BY <2>2, <2>3 DEF Opens
      <3>2. CASE i \in 1 .. Len(a)
        <4>1. CASE held = <<>>
          BY <1>1, <2>3, <3>2, <4>1, OpensBefore, OpensIs DEF Cut
        <4>2. CASE held # <<>>
          <5>1. Len(z) # 0
            BY <1>4, <4>2 DEF Text
          <5>2. 1 \in 1 .. Len(z) /\ Len(a) + 1 \in i .. Len(a \o z) /\ Len(a) + 1 # i
            BY <2>2, <3>2, <5>1
          <5>3. (a \o z)[Len(a) + 1] = "["
            BY <1>4, <2>2, <4>2, <5>2
          <5> QED BY <1>3, <2>3, <5>2, <5>3, OpensHolds
        <4> QED BY <4>1, <4>2
      <3>3. CASE i - Len(a) \in 1 .. Len(z) /\ Len(a) + (i - Len(a)) = i
        <4>1. PICK j \in 1 .. Len(z) : j = i - Len(a)
          BY <3>3
        <4>2. Opens(z, j)
          BY <2>3, <3>3, <4>1, OpensBehind
        <4> QED BY <2>1, <4>2, OpensIs
      <3> QED BY <2>2, <3>1, <3>2, <3>3
    <2>4. PartialAtEnd(a \o z) = {}
      BY <1>3, <2>3, OpensIs
    <2>5. feed(held, d).out = c /\ feed(held, d).held = <<>>
      BY <1>10, <1>11
    <2>6. Cut(a \o z, <<>>) /\ <<>> \in Text /\ a \o z = (a \o z) \o <<>>
      BY <1>3, <2>4, TextsJoin DEF Cut
    <2>7. Told(said \o d, sent \o c, <<>>)
      BY <1>3, <1>7, <2>6 DEF Told
    <2> QED BY <2>5, <2>7
  <1>12. CASE PartialAtEnd(c) # {}
    <2>1. Opens(c, p)
      BY <1>9, <1>12, OpensIs
    <2>2. PICK x \in Text, y \in Text :
             /\ z = x \o y /\ Opens(y, 1)
             /\ strip_citation_markers(x) = SubSeq(c, 1, p - 1) /\ y = SubSeq(c, p, Len(c))
      <3>1. c = strip_citation_markers(z) /\ ~ Nested(z) /\ z \in Text
        BY <1>6, <1>8
      <3> QED BY <2>1, <3>1, Contiguous, ZenonT(60)
    <2>3. said \o d = (a \o x) \o y /\ a \o x \in Text
      <3>1. x \in Text /\ y \in Text
        BY <2>2
      <3>2. (a \o x) \o y = a \o (x \o y)
        BY <3>1, TextsJoin, SMTT(30)
      <3>3. a \o x \in Text
        BY <3>1, JoinedTexts
      <3> QED BY <1>3, <2>2, <3>2, <3>3
    <2>4. y # <<>> /\ y[1] = "["
      <3>1. 1 \in 1 .. Len(y) /\ y[1] = "["
        BY <2>2 DEF Opens
      <3>2. Len(y) # 0
        BY <3>1
      <3> QED BY <3>1, <3>2
    <2>5. Len(y) < MaxHoldback
      <3>1. /\ Len((a \o x) \o y) = Len(a \o x) + Len(y) /\ Len(a \o x) \in Nat /\ Len(y) \in Nat
        BY <2>3, JoinedTexts
      <3>2. 1 \in 1 .. Len(y)
        BY <2>2 DEF Opens
      <3>3. Opens((a \o x) \o y, Len(a \o x) + 1)
        BY <2>2, <2>3, <3>2, OpensBehind
      <3>4. Len(said \o d) - (Len(a \o x) + 1) + 1 < MaxHoldback
        <4>1. PICK v \in Text : v = (a \o x) \o y /\ v = said \o d
          BY <1>3, <2>3
        <4>2. PICK n \in Nat : n = Len(a \o x) + 1
          BY <3>1
        <4>3. n \in 1 .. Len(v) /\ Opens(v, n)
          BY <3>1, <3>2, <3>3, <4>1, <4>2
        <4>4. Plain(v)
          BY <4>1
        <4>5. Len(v) - n + 1 < MaxHoldback
          BY <4>3, <4>4, PlainHolds
        <4> QED BY <4>1, <4>2, <4>5
      <3> QED BY <2>3, <3>1, <3>4
    <2>6. ~ (Len(c) - p + 1 >= MaxHoldback)
      <3>1. p \in 1 .. Len(c) /\ Len(c) \in Nat
        BY <2>1 DEF Opens, Text
      <3>2. c \in Seq(Char)
        BY DEF Text
      <3>3. Len(y) = Len(c) - p + 1
        BY <2>2, <3>1, <3>2
      <3> QED BY <2>5, <3>1, <3>3, CitationsAssumption
    <2>7. feed(held, d).out = strip_citation_markers(x) /\ feed(held, d).held = y
      <3>1. feed(held, d) = [out |-> SubSeq(c, 1, p - 1), held |-> SubSeq(c, p, Len(c))]
        BY <1>10, <1>12, <2>6
      <3>2. feed(held, d).out = SubSeq(c, 1, p - 1) /\ feed(held, d).held = SubSeq(c, p, Len(c))
        <4>1. PICK u : u = SubSeq(c, 1, p - 1)
          OBVIOUS
        <4>2. PICK v : v = SubSeq(c, p, Len(c))
          OBVIOUS
        <4>3. feed(held, d) = [out |-> u, held |-> v]
          BY <3>1, <4>1, <4>2, Zenon
        <4>4. [out |-> u, held |-> v].out = u /\ [out |-> u, held |-> v].held = v
          OBVIOUS
        <4> QED BY <4>1, <4>2, <4>3, <4>4, Zenon
      <3>3. strip_citation_markers(x) = SubSeq(c, 1, p - 1) /\ y = SubSeq(c, p, Len(c))
        BY <2>2
      <3> QED BY <3>2, <3>3
    <2>8. NoneAcross(a, x)
      <3>1. x = <<>> \/ x[1] = z[1]
        <4>1. CASE x # <<>>
          <5>1. Len(x) \in Nat \ {0}
            BY <4>1 DEF Text
          <5>2. 1 \in 1 .. Len(x)
            BY <5>1
          <5> QED BY <2>2, <5>2, JoinedTexts
        <4> QED BY <4>1
      <3> QED BY <1>1, <1>4, <3>1, CutApart
    <2>9. strip_citation_markers(a \o x) = sent \o strip_citation_markers(x)
      BY <1>1, <2>8, StripsApart
    <2>10. Told(said \o d, sent \o strip_citation_markers(x), y)
      BY <1>3, <2>3, <2>4, <2>9 DEF Told, Cut
    <2> QED BY <2>7, <2>10
  <1> QED BY <1>11, <1>12

LEMMA FlushTells ==
    ASSUME NEW said, NEW sent, NEW held, Told(said, sent, held)
    PROVE  /\ sent \in Text /\ flush(held) \in Text
           /\ sent \o flush(held) = strip_citation_markers(said)
           /\ sent \o <<>> = sent
  <1>1. PICK a \in Text : /\ said = a \o held /\ sent = strip_citation_markers(a)
                          /\ Cut(a, held) /\ said \in Text /\ held \in Text
    BY DEF Told
  <1>2. NoneAcross(a, held)
    BY <1>1, CutApart DEF Cut
  <1> QED BY <1>1, <1>2, StripsApart, StripsMarkers, TextsJoin DEF flush

-----------------------------------------------------------------------------
(* What is stored is what was said                                         *)

Opening == {"new", "round", "stream", "tools"} \cup Before

\* The text that went out is what was said without its markers, or its beginning.
Begins(r) ==
    /\ IsPrefix(r.sent, strip_citation_markers(r.said))
    /\ r.whole => r.sent = strip_citation_markers(r.said)

\* What went out of a turn that spoke plainly.
Says(r) ==
    /\ r.at \in Opening \cup {"tail", "shown"} => r.whole = FALSE
    /\ Plain(r.said) =>
          /\ r.at \in Opening => Told(r.said, r.sent, r.held)
          /\ r.at \in {"tail", "shown"} => r.sent = strip_citation_markers(r.said)
          /\ r.at = "saving" \/ r.save \in {"pending", "done"} => Begins(r)

\* An answer that is stored stays what it is.
Keeps(r, s) == r.save = "done" => s.sent = r.sent

LEMMA PrefixOf ==
    ASSUME NEW a \in Text, NEW b \in Text
    PROVE  IsPrefix(a, a \o b) /\ IsPrefix(a, a)
  <1>1. SubSeq(a \o b, 1, Len(a)) = a
    BY HalvesAre
  <1>2. Len(a \o b) = Len(a) + Len(b) /\ Len(a) \in Nat /\ Len(b) \in Nat
    BY JoinedTexts
  <1>3. SubSeq(a, 1, Len(a)) = a
    BY DEF Text
  <1>4. Len(a) <= Len(a \o b) /\ Len(a) <= Len(a)
    BY <1>2
  <1> QED BY <1>1, <1>3, <1>4 DEF IsPrefix

\* A stream that is cut short has sent the beginning.
LEMMA CutBegins ==
    ASSUME NEW r, Knows(r), Says(r), r.at \in Streaming, Plain(r.said)
    PROVE  Begins(r)
  <1>1. r.whole = FALSE
    BY DEF Says, Streaming, Opening
  <1>2. CASE r.at \in {"round", "stream", "tools"}
    <2>1. Told(r.said, r.sent, r.held)
      BY <1>2 DEF Says, Opening
    <2>2. /\ r.sent \in Text /\ flush(r.held) \in Text
          /\ r.sent \o flush(r.held) = strip_citation_markers(r.said)
      BY <2>1, FlushTells
    <2>3. IsPrefix(r.sent, r.sent \o flush(r.held))
      BY <2>2, PrefixOf
    <2> QED BY <1>1, <2>2, <2>3 DEF Begins
  <1>3. CASE r.at \in {"tail", "shown"}
    <2>1. r.said \in Text
      BY <1>3 DEF Knows, Heard, Streaming
    <2>2. r.sent = strip_citation_markers(r.said) /\ r.sent \in Text
      BY <1>3, <2>1, StripsMarkers DEF Says
    <2> QED BY <1>1, <2>2, PrefixOf DEF Begins
  <1> QED BY <1>2, <1>3 DEF Streaming

\* What was said and sent is not forgotten while it matters.
LEMMA ReachedSays ==
    ASSUME NEW r, Shape(r), r.at \notin {"refused", "dead"}
    PROVE  /\ Reached(r).said = r.said /\ Reached(r).sent = r.sent /\ Reached(r).whole = r.whole
           /\ Reached(r).save = r.save /\ Reached(r).at = r.at
  <1>1. CASE r.at \in {"ended", "failed"}
    <2>1. Reached(r) = Over(r)
      BY <1>1 DEF Reached
    <2> QED BY <2>1, ReachedKeeps DEF Over, NewTurn
  <1>2. CASE r.at = "saving"
    <2>1. Reached(r) = Spent(r)
      BY <1>2 DEF Reached
    <2> QED BY <1>2, <2>1, ReachedKeeps DEF Spent, Shape, Fields
  <1>3. CASE r.at \notin {"refused", "dead", "ended", "failed", "saving"}
    BY <1>3 DEF Reached
  <1> QED BY <1>1, <1>2, <1>3

LEMMA GoesSays ==
    ASSUME NEW r, Knows(r), Says(r), NEW l \in Label \ ({"new"} \cup Streaming),
           l \in Before => r.at \in Before,
           l = "saving" => r.at \in Streaming,
           l \in {"refused", "dead"} => r.save # "done"
    PROVE  LET s == Reached([r EXCEPT !.at = l]) IN Says(s) /\ Keeps(r, s)
  <1> DEFINE q == [r EXCEPT !.at = l]
             s == Reached(q)
  <1>1. /\ Shape(q) /\ q.at = l /\ q.save = r.save /\ q.said = r.said /\ q.sent = r.sent
        /\ q.whole = r.whole /\ q.held = r.held
    BY DEF Knows, Shape, Fields
  <1> HIDE DEF q
  <1>2. /\ s.at = l
        /\ l \notin {"refused", "dead"} =>
              /\ s.save = r.save /\ s.said = r.said /\ s.sent = r.sent /\ s.whole = r.whole
        /\ l \in {"refused", "dead"} => s.save = "none"
        /\ l \in Before => s.held = r.held
    BY <1>1, ReachedKeeps, ReachedSays DEF Before
  <1> HIDE DEF s
  <1>3. Keeps(r, s)
    BY <1>2 DEF Keeps
  <1>4. l \in Opening => l \in Before /\ r.at \in Before /\ r.at \in Opening
    BY DEF Opening, Before, Streaming
  <1>5. l \notin {"tail", "shown"}
    BY DEF Streaming
  <1>6. s.at \in Opening \cup {"tail", "shown"} => s.whole = FALSE
    BY <1>2, <1>4, <1>5 DEF Says, Before
  <1>7. ASSUME Plain(s.said), l \in Opening PROVE Told(s.said, s.sent, s.held)
    BY <1>2, <1>4, <1>7 DEF Says, Before
  <1>8. ASSUME Plain(s.said), l = "saving" \/ s.save \in {"pending", "done"} PROVE Begins(s)
    <2>1. l \notin {"refused", "dead"} /\ Plain(r.said)
      BY <1>2, <1>8
    <2>2. Begins(r)
      BY <1>2, <1>8, <2>1, CutBegins DEF Says
    <2> QED BY <1>2, <2>1, <2>2 DEF Begins
  <1>9. Says(s)
    BY <1>2, <1>5, <1>6, <1>7, <1>8 DEF Says
  <1> QED BY <1>3, <1>9 DEF s, q

TurnsSay == \A t \in Turn : Says(turn[t])
TurnsKeep == \A t \in Turn : Keeps(turn[t], turn'[t])

LEMMA OneSays ==
    ASSUME TurnsKnow, TurnsSay, NEW t \in Turn, NEW s, turn' = [turn EXCEPT ![t] = s],
           Says(s), Keeps(turn[t], s)
    PROVE  TurnsSay' /\ TurnsKeep
  <1>1. \A u \in Turn : turn'[u] = IF u = t THEN s ELSE turn[u]
    BY DEF TurnsKnow
  <1> QED BY <1>1 DEF TurnsSay, TurnsKeep, Keeps

LEMMA OnlyGoesSays ==
    ASSUME TurnsKnow, TurnsSay, NEW t \in Turn,
           \/ Owns(t) \/ NotFound(t) \/ Counts(t) \/ OverLimit(t) \/ InsertsQuestion(t)
           \/ StatementFails(t) \/ ProviderFails(t) \/ ClientLeaves(t) \/ NothingToSave(t)
           \/ Stored(t) \/ LeavesWhileStoring(t) \/ KeepsTitle(t) \/ WantsTitle(t)
           \/ SetsTitle(t) \/ TitleFails(t) \/ TouchFails(t)
    PROVE  TurnsSay' /\ TurnsKeep
  <1>1. Knows(turn[t]) /\ Says(turn[t])
    BY DEF TurnsKnow, TurnsSay
  <1>2. ASSUME NEW l \in Label \ ({"new"} \cup Streaming), Goes(t, l),
               l \in Before => turn[t].at \in Before,
               l = "saving" => turn[t].at \in Streaming,
               l \in {"refused", "dead"} => turn[t].save # "done"
        PROVE  TurnsSay' /\ TurnsKeep
    <2> DEFINE s == Reached([turn[t] EXCEPT !.at = l])
    <2>1. turn' = [turn EXCEPT ![t] = s]
      BY <1>2 DEF Goes
    <2>2. Says(s) /\ Keeps(turn[t], s)
      BY <1>1, <1>2, GoesSays
    <2> HIDE DEF s
    <2> QED BY <2>1, <2>2, OneSays
  <1> USE DEF Label, Before, Streaming, After, Ended
  <1>3. CASE Owns(t)
    BY <1>1, <1>2, <1>3 DEF Owns, Knows
  <1>4. CASE NotFound(t)
    BY <1>1, <1>2, <1>4 DEF NotFound, Knows
  <1>5. CASE Counts(t)
    BY <1>1, <1>2, <1>5 DEF Counts, Knows
  <1>6. CASE OverLimit(t)
    BY <1>1, <1>2, <1>6 DEF OverLimit, Knows
  <1>7. CASE InsertsQuestion(t)
    BY <1>1, <1>2, <1>7 DEF InsertsQuestion, Knows
  <1>8. CASE StatementFails(t)
    BY <1>1, <1>2, <1>8 DEF StatementFails, Knows
  <1>9. CASE ProviderFails(t)
    BY <1>1, <1>2, <1>9 DEF ProviderFails, Knows
  <1>10. CASE ClientLeaves(t)
    BY <1>1, <1>2, <1>10 DEF ClientLeaves, Knows
  <1>11. CASE NothingToSave(t)
    BY <1>1, <1>2, <1>11 DEF NothingToSave, Knows
  <1>12. CASE Stored(t)
    BY <1>1, <1>2, <1>12 DEF Stored
  <1>13. CASE LeavesWhileStoring(t)
    BY <1>1, <1>2, <1>13 DEF LeavesWhileStoring
  <1>14. CASE KeepsTitle(t) \/ WantsTitle(t) \/ SetsTitle(t) \/ TitleFails(t)
    BY <1>1, <1>2, <1>14 DEF KeepsTitle, WantsTitle, SetsTitle, TitleFails
  <1>15. CASE TouchFails(t)
    BY <1>1, <1>2, <1>15 DEF TouchFails
  <1> QED BY <1>3, <1>4, <1>5, <1>6, <1>7, <1>8, <1>9, <1>10, <1>11, <1>12, <1>13, <1>14,
             <1>15

\* Before and in the stream, a step that sends nothing.
LEMMA SilentSays ==
    ASSUME NEW r, Knows(r), Says(r), r.at \in Opening, NEW s, s.at \in Opening,
           s.said = r.said, s.sent = r.sent, s.held = r.held, s.whole = r.whole, s.save = r.save
    PROVE  Says(s) /\ Keeps(r, s)
  <1>1. r.save = "none" /\ s.at \notin {"tail", "shown", "saving"}
    BY DEF Knows, Opening, Before, Streaming
  <1> QED BY <1>1 DEF Says, Keeps

LEMMA StreamSays ==
    ASSUME ChatAssumption, TurnsKnow, TurnsSay, NEW t \in Turn,
           \/ \E u, c : Posts(t, u, c)
           \/ ReadsHistory(t) \/ AsksModel(t) \/ \E d \in Deltas : Token(t, d)
           \/ \E n \in 1 .. MaxCalls[t] : CallsTools(t, n)
           \/ \E a \in ToolAnswers : RunsTool(t, a)
           \/ OverCap(t)
    PROVE  TurnsSay' /\ TurnsKeep
  <1>1. Knows(turn[t]) /\ Shape(turn[t]) /\ Says(turn[t])
    BY DEF TurnsKnow, Knows, TurnsSay
  <1>2. ASSUME NEW s, turn' = [turn EXCEPT ![t] = s],
               turn[t].at \in Opening, s.at \in Opening,
               s.said = turn[t].said, s.sent = turn[t].sent, s.held = turn[t].held,
               s.whole = turn[t].whole, s.save = turn[t].save
        PROVE  TurnsSay' /\ TurnsKeep
    <2>1. Says(s) /\ Keeps(turn[t], s)
      BY <1>1, <1>2, SilentSays
    <2> QED BY <2>1, <1>2, OneSays
  <1>3. ASSUME NEW u, NEW c, Posts(t, u, c)
        PROVE  TurnsSay' /\ TurnsKeep
    <2> DEFINE s == [turn[t] EXCEPT !.at = "posted", !.user = u, !.conv = c]
    <2>1. turn' = [turn EXCEPT ![t] = s] /\ turn[t].at = "new"
      BY <1>3 DEF Posts, TurnsKnow
    <2>2. /\ s.at = "posted" /\ s.said = turn[t].said /\ s.sent = turn[t].sent
          /\ s.held = turn[t].held /\ s.whole = turn[t].whole /\ s.save = turn[t].save
      BY <1>1 DEF Shape, Fields
    <2> HIDE DEF s
    <2> QED BY <1>2, <2>1, <2>2 DEF Opening, Before
  <1>4. CASE ReadsHistory(t)
    <2> DEFINE h == list_messages(turn[t].conv, turn[t].user)
               s == [turn[t] EXCEPT !.at = "round", !.told = h]
    <2> HIDE DEF h
    <2>1. turn' = [turn EXCEPT ![t] = s] /\ turn[t].at = "asked"
      BY <1>4 DEF ReadsHistory, TurnsKnow, h
    <2>2. /\ s.at = "round" /\ s.said = turn[t].said /\ s.sent = turn[t].sent
          /\ s.held = turn[t].held /\ s.whole = turn[t].whole /\ s.save = turn[t].save
      BY <1>1 DEF Shape, Fields
    <2> HIDE DEF s
    <2> QED BY <1>2, <2>1, <2>2 DEF Opening, Before
  <1>5. CASE AsksModel(t)
    <2> DEFINE n == Len(turn[t].said)
               b == turn[t].made >= MaxPerTurn
               s == [turn[t] EXCEPT !.at = "stream", !.from = n, !.noTools = b]
    <2> HIDE DEF n, b
    <2>1. turn' = [turn EXCEPT ![t] = s] /\ turn[t].at = "round"
      BY <1>5 DEF AsksModel, TurnsKnow, n, b
    <2>2. /\ s.at = "stream" /\ s.said = turn[t].said /\ s.sent = turn[t].sent
          /\ s.held = turn[t].held /\ s.whole = turn[t].whole /\ s.save = turn[t].save
      BY <1>1 DEF Shape, Fields
    <2> HIDE DEF s
    <2> QED BY <1>2, <2>1, <2>2 DEF Opening
  <1>6. ASSUME NEW n \in 1 .. MaxCalls[t], CallsTools(t, n)
        PROVE  TurnsSay' /\ TurnsKeep
    <2> DEFINE s == [turn[t] EXCEPT !.at = "tools", !.calls = n]
    <2>1. turn' = [turn EXCEPT ![t] = s] /\ turn[t].at = "stream"
      BY <1>6 DEF CallsTools, TurnsKnow
    <2>2. /\ s.at = "tools" /\ s.said = turn[t].said /\ s.sent = turn[t].sent
          /\ s.held = turn[t].held /\ s.whole = turn[t].whole /\ s.save = turn[t].save
      BY <1>1 DEF Shape, Fields
    <2> HIDE DEF s
    <2> QED BY <1>2, <2>1, <2>2 DEF Opening
  <1>7. ASSUME NEW a, CallDone(t, a), turn[t].at = "tools"
        PROVE  TurnsSay' /\ TurnsKeep
    <2> DEFINE l == IF turn[t].calls = 1 THEN "round" ELSE "tools"
               n == turn[t].calls - 1
               m == IF turn[t].made > MaxPerTurn THEN turn[t].made ELSE turn[t].made + 1
               r == turn[t].read \o a
               s == [turn[t] EXCEPT !.calls = n, !.made = m, !.read = r, !.at = l]
    <2>1. l \in Opening
      BY DEF Opening
    <2> HIDE DEF l, n, m, r
    <2>2. turn' = [turn EXCEPT ![t] = s]
      BY <1>7 DEF CallDone, TurnsKnow, l, n, m, r
    <2>3. /\ s.at = l /\ s.said = turn[t].said /\ s.sent = turn[t].sent
          /\ s.held = turn[t].held /\ s.whole = turn[t].whole /\ s.save = turn[t].save
      BY <1>1 DEF Shape, Fields
    <2> HIDE DEF s
    <2> QED BY <1>2, <1>7, <2>1, <2>2, <2>3 DEF Opening
  <1>8. CASE (\E a \in ToolAnswers : RunsTool(t, a)) \/ OverCap(t)
    BY <1>7, <1>8 DEF RunsTool, OverCap
  <1>9. ASSUME NEW d \in Deltas, Token(t, d)
        PROVE  TurnsSay' /\ TurnsKeep
    <2> DEFINE fed == feed(turn[t].held, d)
               s == [turn[t] EXCEPT !.tokens = @ + 1, !.said = @ \o d,
                                    !.sent = @ \o fed.out, !.held = fed.held]
    <2> HIDE DEF fed
    <2>1. turn' = [turn EXCEPT ![t] = s] /\ turn[t].at = "stream"
      BY <1>9 DEF Token, TurnsKnow, fed
    <2>2. /\ s.at = turn[t].at /\ s.said = turn[t].said \o d /\ s.sent = turn[t].sent \o fed.out
          /\ s.held = fed.held /\ s.whole = turn[t].whole /\ s.save = turn[t].save
      BY <1>1 DEF Shape, Fields
    <2> HIDE DEF s
    <2>3. d \in Text /\ turn[t].said \in Text /\ turn[t].save = "none"
      BY <1>1, <2>1 DEF ChatAssumption, Text, Char, Knows, Heard, Streaming
    <2>4. ASSUME Plain(s.said) PROVE Told(s.said, s.sent, s.held)
      <3>1. Plain(turn[t].said)
        BY <2>2, <2>3, <2>4, PlainBefore
      <3>2. Told(turn[t].said, turn[t].sent, turn[t].held)
        BY <1>1, <2>1, <3>1 DEF Says, Opening
      <3>3. PICK x, y, z : x = turn[t].said /\ y = turn[t].sent /\ z = turn[t].held
        OBVIOUS
      <3>4. Told(x \o d, y \o feed(z, d).out, feed(z, d).held)
        BY <2>2, <2>3, <2>4, <3>2, <3>3, FeedTells
      <3> QED BY <2>2, <3>3, <3>4 DEF fed
    <2>5. Says(s) /\ Keeps(turn[t], s)
      BY <1>1, <2>1, <2>2, <2>3, <2>4 DEF Says, Keeps, Opening
    <2> QED BY <2>1, <2>5, OneSays
  <1> QED BY <1>3, <1>4, <1>5, <1>6, <1>8, <1>9

\* The end of the stream: all has been said and sent.
LEMMA ConcludedSays ==
    ASSUME NEW r, Shape(r), r.whole = FALSE, r.save = "none",
           Plain(r.said) => r.said \in Text /\ r.sent = strip_citation_markers(r.said)
    PROVE  Says(Concluded(r))
  <1> DEFINE src == SourcesOf(r)
  <1>1. CASE src # <<>> /\ ~ _is_refusal(FinalText(r))
    <2> DEFINE s == [r EXCEPT !.at = "shown", !.sources = src, !.shown = TRUE]
    <2>1. Concluded(r) = s
      BY <1>1 DEF Concluded
    <2> HIDE DEF src
    <2>2. /\ s.at = "shown" /\ s.said = r.said /\ s.sent = r.sent /\ s.whole = r.whole
          /\ s.save = r.save
      BY DEF Shape, Fields
    <2> HIDE DEF s
    <2>3. Says(s)
      BY <2>2 DEF Says, Opening, Before
    <2> QED BY <2>1, <2>3
  <1>2. CASE ~ (src # <<>> /\ ~ _is_refusal(FinalText(r)))
    <2> DEFINE q == [r EXCEPT !.at = "saving", !.sources = src, !.whole = TRUE]
               s == Reached(q)
    <2>1. Concluded(r) = s
      BY <1>2 DEF Concluded
    <2> HIDE DEF src
    <2>2. Shape(q) /\ q.at = "saving" /\ q.said = r.said /\ q.sent = r.sent /\ q.save = r.save
      BY DEF Shape, Fields
    <2> HIDE DEF q
    <2>3. s.at = "saving" /\ s.said = r.said /\ s.sent = r.sent
      BY <2>2, ReachedSays
    <2> HIDE DEF s
    <2>4. ASSUME Plain(s.said) PROVE Begins(s)
      <3>1. s.sent = strip_citation_markers(s.said) /\ s.sent \in Text
        BY <2>3, <2>4, StripsMarkers
      <3> QED BY <3>1, PrefixOf DEF Begins
    <2>5. Says(s)
      BY <2>3, <2>4 DEF Says, Opening, Before
    <2> QED BY <2>1, <2>5
  <1> QED BY <1>1, <1>2

LEMMA ConclusionSays ==
    ASSUME TurnsKnow, TurnsSay, NEW t \in Turn, Stops(t) \/ TakesSources(t) \/ Finishes(t)
    PROVE  TurnsSay' /\ TurnsKeep
  <1>1. Knows(turn[t]) /\ Shape(turn[t]) /\ Says(turn[t])
    BY DEF TurnsKnow, Knows, TurnsSay
  <1>2. turn[t].save = "none" /\ turn[t].said \in Text /\ turn[t].whole = FALSE
    BY <1>1 DEF Knows, Says, Heard, Opening, Streaming, Stops, TakesSources, Finishes
  <1>3. CASE Stops(t)
    <2> DEFINE tail == flush(turn[t].held)
               r == [turn[t] EXCEPT !.final = TRUE, !.held = <<>>, !.sent = @ \o tail]
               q == [r EXCEPT !.at = "tail"]
    <2> HIDE DEF tail
    <2>1. turn' = [turn EXCEPT ![t] = IF tail = <<>> THEN Concluded(r) ELSE q]
      BY <1>3 DEF Stops, tail
    <2>2. turn[t].at = "stream"
      BY <1>3 DEF Stops
    <2>3. /\ Shape(r) /\ r.save = turn[t].save /\ r.said = turn[t].said
          /\ r.sent = turn[t].sent \o tail /\ r.whole = turn[t].whole
      BY <1>1 DEF Shape, Fields
    <2> HIDE DEF r
    <2>4. q.save = r.save /\ q.at = "tail" /\ q.said = r.said /\ q.sent = r.sent /\ q.whole = r.whole
      BY <2>3 DEF Shape, Fields
    <2> HIDE DEF q
    <2>5. ASSUME Plain(r.said) PROVE r.said \in Text /\ r.sent = strip_citation_markers(r.said)
      <3>1. Told(turn[t].said, turn[t].sent, turn[t].held)
        BY <1>1, <2>2, <2>3, <2>5 DEF Says, Opening
      <3>2. turn[t].sent \o tail = strip_citation_markers(turn[t].said)
        BY <3>1, FlushTells DEF tail
      <3> QED BY <1>2, <2>3, <3>2
    <2>6. Says(Concluded(r))
      BY <1>2, <2>3, <2>5, ConcludedSays
    <2>7. Says(q)
      BY <1>2, <2>3, <2>4, <2>5 DEF Says, Opening, Before
    <2>8. \A s : Keeps(turn[t], s)
      BY <1>2 DEF Keeps
    <2> QED BY <2>1, <2>6, <2>7, <2>8, OneSays
  <1>4. CASE TakesSources(t)
    <2>1. turn' = [turn EXCEPT ![t] = Concluded(turn[t])] /\ turn[t].at = "tail"
      BY <1>4 DEF TakesSources, TurnsKnow
    <2>2. Plain(turn[t].said) => turn[t].sent = strip_citation_markers(turn[t].said)
      BY <1>1, <2>1 DEF Says
    <2>3. Says(Concluded(turn[t]))
      BY <1>1, <1>2, <2>2, ConcludedSays
    <2>4. \A s : Keeps(turn[t], s)
      BY <1>2 DEF Keeps
    <2> QED BY <2>1, <2>3, <2>4, OneSays
  <1>5. CASE Finishes(t)
    <2> DEFINE q == [turn[t] EXCEPT !.at = "saving", !.whole = TRUE]
               s == Reached(q)
    <2>1. turn' = [turn EXCEPT ![t] = s] /\ turn[t].at = "shown"
      BY <1>5 DEF Finishes, TurnsKnow
    <2>2. /\ Shape(q) /\ q.at = "saving" /\ q.said = turn[t].said /\ q.sent = turn[t].sent
      BY <1>1 DEF Shape, Fields
    <2> HIDE DEF q
    <2>3. s.at = "saving" /\ s.said = turn[t].said /\ s.sent = turn[t].sent
      BY <2>2, ReachedSays
    <2> HIDE DEF s
    <2>4. ASSUME Plain(s.said) PROVE Begins(s)
      <3>1. s.sent = strip_citation_markers(s.said)
        BY <1>1, <2>1, <2>3, <2>4 DEF Says
      <3>2. s.sent \in Text
        BY <1>2, <2>3, <3>1, StripsMarkers
      <3> QED BY <3>1, <3>2, PrefixOf DEF Begins
    <2>5. Says(s) /\ Keeps(turn[t], s)
      BY <1>2, <2>3, <2>4 DEF Says, Opening, Before, Keeps
    <2> QED BY <2>1, <2>5, OneSays
  <1> QED BY <1>3, <1>4, <1>5

LEMMA StoringSays ==
    ASSUME TurnsKnow, TurnsSay, NEW t \in Turn, Saves(t) \/ InsertsAnswer(t) \/ StoreFails(t)
    PROVE  TurnsSay' /\ TurnsKeep /\ (InsertsAnswer(t) => turn'[t].sent = turn[t].sent)
  <1>1. Knows(turn[t]) /\ Shape(turn[t]) /\ Says(turn[t])
    BY DEF TurnsKnow, Knows, TurnsSay
  <1>2. ASSUME NEW s, turn' = [turn EXCEPT ![t] = s], s.at \notin Opening \cup {"tail", "shown", "saving"},
               turn[t].at = "saving" \/ turn[t].save = "pending",
               s.said = turn[t].said, s.sent = turn[t].sent, s.whole = turn[t].whole
        PROVE  TurnsSay' /\ TurnsKeep /\ turn'[t].sent = turn[t].sent
    <2>1. Plain(s.said) => Begins(s)
      BY <1>1, <1>2 DEF Says, Begins
    <2>2. Says(s) /\ Keeps(turn[t], s)
      BY <1>2, <2>1 DEF Says, Keeps
    <2>3. turn'[t] = s
      BY <1>2 DEF TurnsKnow
    <2> QED BY <1>2, <2>2, <2>3, OneSays
  <1>3. CASE Saves(t)
    <2> DEFINE k == SourcesToPersist(turn[t])
               s == [turn[t] EXCEPT !.at = "storing", !.save = "pending", !.kept = k]
    <2> HIDE DEF k
    <2>1. turn' = [turn EXCEPT ![t] = s] /\ turn[t].at = "saving"
      BY <1>3 DEF Saves, TurnsKnow, k
    <2>2. s.at = "storing" /\ s.said = turn[t].said /\ s.sent = turn[t].sent
          /\ s.whole = turn[t].whole
      BY <1>1 DEF Shape, Fields
    <2> HIDE DEF s
    <2> QED BY <1>2, <2>1, <2>2 DEF Opening, Before
  <1>4. CASE InsertsAnswer(t)
    <2> DEFINE s == [turn[t] EXCEPT !.save = "done"]
    <2>1. turn' = [turn EXCEPT ![t] = s] /\ turn[t].save = "pending"
      BY <1>4 DEF InsertsAnswer, TurnsKnow
    <2>2. s.at = turn[t].at /\ s.said = turn[t].said /\ s.sent = turn[t].sent
          /\ s.whole = turn[t].whole
      BY <1>1 DEF Shape, Fields
    <2> HIDE DEF s
    <2>3. s.at \notin Opening \cup {"tail", "shown", "saving"}
      BY <1>1, <2>1, <2>2 DEF Knows, Opening, Before
    <2> QED BY <1>2, <2>1, <2>2, <2>3
  <1>5. CASE StoreFails(t)
    <2> DEFINE l == IF turn[t].at = "storing" THEN "failed" ELSE turn[t].at
               s == [turn[t] EXCEPT !.save = "failed", !.at = l]
    <2>1. l \in {"failed", turn[t].at}
      OBVIOUS
    <2> HIDE DEF l
    <2>2. turn' = [turn EXCEPT ![t] = s] /\ turn[t].save = "pending"
      BY <1>5 DEF StoreFails, TurnsKnow, l
    <2>3. s.at = l /\ s.said = turn[t].said /\ s.sent = turn[t].sent /\ s.whole = turn[t].whole
      BY <1>1 DEF Shape, Fields
    <2> HIDE DEF s
    <2>4. s.at \notin Opening \cup {"tail", "shown", "saving"}
      BY <1>1, <2>1, <2>2, <2>3 DEF Knows, Opening, Before
    <2> QED BY <1>2, <2>2, <2>3, <2>4
  <1> QED BY <1>3, <1>4, <1>5

LEMMA DeathSays ==
    ASSUME TurnsKnow, TurnsSay, ProcessDies
    PROVE  TurnsSay' /\ TurnsKeep
  <1>1. SUFFICES ASSUME NEW t \in Turn PROVE Says(turn'[t]) /\ Keeps(turn[t], turn'[t])
    BY DEF TurnsSay, TurnsKeep
  <1>2. Knows(turn[t]) /\ Shape(turn[t]) /\ Says(turn[t])
    BY DEF TurnsKnow, Knows, TurnsSay
  <1> DEFINE v == IF turn[t].save = "pending" THEN "lost" ELSE turn[t].save
             s == [turn[t] EXCEPT !.at = "dead", !.save = v]
  <1>3. v # "pending" /\ (v = turn[t].save \/ v = "lost")
    OBVIOUS
  <1> HIDE DEF v
  <1>4. turn'[t] = s \/ turn'[t] = turn[t]
    BY DEF ProcessDies, v
  <1>5. /\ s.at = "dead" /\ s.save = v /\ s.said = turn[t].said /\ s.sent = turn[t].sent
        /\ s.whole = turn[t].whole
    BY <1>2 DEF Shape, Fields
  <1> HIDE DEF s
  <1>6. Says(s) /\ Keeps(turn[t], s)
    BY <1>2, <1>3, <1>5 DEF Says, Keeps, Begins, Opening, Before
  <1> QED BY <1>2, <1>4, <1>6 DEF Keeps

-----------------------------------------------------------------------------
(* What is stored                                                          *)

\* An answer that is stored is what its turn sent.
RowsTold ==
    \A c \in Conv : \A i \in DOMAIN msgs[c] :
        msgs[c][i].role = "assistant" => msgs[c][i].text = turn[msgs[c][i].turn].sent

\* Every row was there, or is a question, or is what its turn has sent.
RowsGrow ==
    \A c \in Conv : \A i \in DOMAIN msgs'[c] :
        \/ i \in DOMAIN msgs[c] /\ msgs'[c][i] = msgs[c][i]
        \/ msgs'[c][i].role = "user"
        \/ msgs'[c][i].text = turn'[msgs'[c][i].turn].sent

LEMMA RowsStayTold ==
    ASSUME ChatInv, RowsTold, RowsGrow, TurnsKeep
    PROVE  RowsTold'
  <1>1. SUFFICES ASSUME NEW c \in Conv, NEW i \in DOMAIN msgs'[c], msgs'[c][i].role = "assistant"
                 PROVE  msgs'[c][i].text = turn'[msgs'[c][i].turn].sent
    BY DEF RowsTold
  <1>2. CASE i \in DOMAIN msgs[c] /\ msgs'[c][i] = msgs[c][i]
    <2>1. Placed(c, i)
      BY <1>2 DEF ChatInv, RowsPlaced
    <2>2. PICK t \in Turn : t = msgs[c][i].turn
      BY <2>1 DEF Placed
    <2>3. turn[t].save = "done"
      BY <1>1, <1>2, <2>1, <2>2 DEF Placed
    <2>4. turn'[t].sent = turn[t].sent
      BY <2>3 DEF TurnsKeep, Keeps
    <2> QED BY <1>1, <1>2, <2>2, <2>4 DEF RowsTold
  <1> QED BY <1>1, <1>2 DEF RowsGrow

LEMMA InsertsGrow ==
    ASSUME ChatInv, NEW row, NEW c \in Conv, NEW u, Inserts(row, c, u),
           row.role = "user" \/ row.text = turn'[row.turn].sent
    PROVE  RowsGrow
  <1>1. CASE UNCHANGED msgs
    BY <1>1 DEF RowsGrow
  <1>2. CASE msgs' = [msgs EXCEPT ![c] = Append(@, row)]
    <2>1. IsSeq(msgs[c]) /\ msgs'[c] = Append(msgs[c], row)
      BY <1>2 DEF ChatInv, ConvType
    <2>2. PICK n \in Nat :
          /\ DOMAIN msgs[c] = 1 .. n /\ DOMAIN msgs'[c] = 1 .. n + 1
          /\ \A i \in 1 .. n : msgs'[c][i] = msgs[c][i]
          /\ msgs'[c][n + 1] = row
      BY <2>1, AppendIsSeq
    <2>3. \A d \in Conv : d # c => msgs'[d] = msgs[d]
      BY <1>2 DEF ChatInv, ConvType
    <2>4. \A i \in 1 .. n + 1 : i \in 1 .. n \/ i = n + 1
      OBVIOUS
    <2> QED BY <2>2, <2>3, <2>4 DEF RowsGrow
  <1> QED BY <1>1, <1>2 DEF Inserts

ToldInv == ChatInv /\ TurnsSay /\ RowsTold

LEMMA ToldStep ==
    ASSUME ChatAssumption, ToldInv, [Next]_vars
    PROVE  ToldInv'
  <1> USE DEF ToldInv
  <1>1. ChatInv' /\ TurnsKnow
    BY ChatStep DEF ChatInv
  <1>2. ASSUME RowsGrow, TurnsSay', TurnsKeep PROVE ToldInv'
    BY <1>1, <1>2, RowsStayTold
  <1>3. ASSUME UNCHANGED msgs, TurnsSay', TurnsKeep PROVE ToldInv'
    BY <1>2, <1>3 DEF RowsGrow
  <1>4. CASE UNCHANGED vars
    BY <1>3, <1>4 DEF vars, TurnsSay, TurnsKeep, Keeps
  <1>5. ASSUME NEW u \in User, NEW c \in Conv, Creates(u, c) \/ Deletes(u, c) \/ Renames(u, c)
        PROVE  ToldInv'
    <2>1. TurnsSay' /\ TurnsKeep
      BY <1>5 DEF Creates, Deletes, Renames, TurnsSay, TurnsKeep, Keeps
    <2>2. UNCHANGED msgs \/ Deletes(u, c)
      BY <1>5 DEF Creates, Renames
    <2>3. CASE Deletes(u, c)
      <3>1. \A d \in Conv : msgs'[d] = IF d = c THEN <<>> ELSE msgs[d]
        BY <2>3 DEF Deletes, ChatInv, ConvType
      <3>2. RowsGrow
        BY <3>1 DEF RowsGrow
      <3> QED BY <1>2, <2>1, <3>2
    <2> QED BY <1>3, <2>1, <2>2, <2>3
  <1>6. ASSUME NEW t \in Turn, NEW u, NEW c, Posts(t, u, c)
        PROVE  ToldInv'
    BY <1>1, <1>3, <1>6, StreamSays DEF Posts
  <1>7. ASSUME NEW t \in Turn, InsertsQuestion(t)
        PROVE  ToldInv'
    <2>1. turn[t].conv \in Conv
      BY <1>1, <1>7 DEF TurnsKnow, Knows, Before, InsertsQuestion
    <2>2. PICK row : row = Row(t, "user")
      OBVIOUS
    <2>3. row.role = "user" /\ Inserts(row, turn[t].conv, turn[t].user)
      BY <1>7, <2>2 DEF Row, InsertsQuestion
    <2>4. RowsGrow
      BY <2>1, <2>3, InsertsGrow
    <2> QED BY <1>1, <1>2, <1>7, <2>4, OnlyGoesSays
  <1>8. ASSUME NEW t \in Turn, InsertsAnswer(t)
        PROVE  ToldInv'
    <2>1. turn[t].conv \in Conv
      BY <1>8 DEF ChatInv, Asked, InAnswer, InsertsAnswer
    <2>2. TurnsSay' /\ TurnsKeep /\ turn'[t].sent = turn[t].sent
      BY <1>1, <1>8, StoringSays
    <2>3. PICK row : row = Row(t, "assistant")
      OBVIOUS
    <2>4. row.turn = t /\ row.text = turn[t].sent /\ Inserts(row, turn[t].conv, turn[t].user)
      BY <1>8, <2>3 DEF Row, InsertsAnswer
    <2>5. RowsGrow
      BY <2>1, <2>2, <2>4, InsertsGrow
    <2> QED BY <1>2, <2>2, <2>5
  <1>9. ASSUME NEW t \in Turn, Runs(t) \/ Breaks(t)
        PROVE  ToldInv'
    <2>1. CASE \/ Owns(t) \/ NotFound(t) \/ Counts(t) \/ OverLimit(t)
               \/ StatementFails(t) \/ ProviderFails(t) \/ ClientLeaves(t) \/ NothingToSave(t)
               \/ Stored(t) \/ LeavesWhileStoring(t) \/ KeepsTitle(t) \/ WantsTitle(t)
               \/ SetsTitle(t) \/ TitleFails(t) \/ TouchFails(t)
      <3>1. UNCHANGED msgs
        BY <2>1 DEF Owns, NotFound, Counts, OverLimit, StatementFails, ProviderFails, ClientLeaves,
                    NothingToSave, Stored, LeavesWhileStoring, KeepsTitle, WantsTitle, SetsTitle,
                    TitleFails, TouchFails
      <3> QED BY <1>1, <1>3, <2>1, <3>1, OnlyGoesSays
    <2>2. CASE \/ ReadsHistory(t) \/ AsksModel(t) \/ \E d \in Deltas : Token(t, d)
               \/ \E n \in 1 .. MaxCalls[t] : CallsTools(t, n)
               \/ \E a \in ToolAnswers : RunsTool(t, a)
               \/ OverCap(t)
      <3>1. UNCHANGED msgs
        BY <2>2 DEF ReadsHistory, AsksModel, Token, CallsTools, RunsTool, OverCap
      <3> QED BY <1>1, <1>3, <2>2, <3>1, StreamSays
    <2>3. CASE Stops(t) \/ TakesSources(t) \/ Finishes(t)
      <3>1. UNCHANGED msgs
        BY <2>3 DEF Stops, TakesSources, Finishes
      <3> QED BY <1>1, <1>3, <2>3, <3>1, ConclusionSays
    <2>4. CASE Saves(t) \/ StoreFails(t)
      <3>1. UNCHANGED msgs
        BY <2>4 DEF Saves, StoreFails
      <3> QED BY <1>1, <1>3, <2>4, <3>1, StoringSays
    <2> QED BY <1>7, <1>9, <2>1, <2>2, <2>3, <2>4 DEF Runs, Breaks
  <1>10. CASE ProcessDies
    BY <1>1, <1>3, <1>10, DeathSays DEF ProcessDies
  <1> QED BY <1>4, <1>5, <1>6, <1>8, <1>9, <1>10 DEF Next

LEMMA ToldInit == Init => ToldInv
  <1>1. SUFFICES ASSUME Init PROVE TurnsSay /\ RowsTold
    BY ChatInit DEF ToldInv
  <1>2. RowsTold
    BY <1>1 DEF Init, RowsTold
  <1>3. /\ NewTurn.at = "new" /\ NewTurn.whole = FALSE /\ NewTurn.save = "none"
        /\ NewTurn.said = <<>> /\ NewTurn.sent = <<>> /\ NewTurn.held = <<>>
    BY DEF NewTurn
  <1>4. Told(<<>>, <<>>, <<>>)
    <2>1. <<>> \in Text /\ <<>> \o <<>> = <<>>
      BY DEF Text
    <2>2. \A i : i \notin PartialAtEnd(<<>>)
      BY DEF PartialAtEnd
    <2>3. Kept(<<>>) = {}
      BY DEF Kept
    <2>4. Lists({}, 0, <<>>)
      BY DEF Lists
    <2>5. Picks(<<>>, {}) = <<>>
      <3>1. PICK K \in SUBSET Nat : K = {}
        OBVIOUS
      <3>2. PICK n \in Nat : n = 0
        OBVIOUS
      <3>3. Lists(K, n, <<>>)
        BY <2>4, <3>1, <3>2
      <3>4. Reads(Picks(<<>>, K), <<>>, n, <<>>)
        BY <3>3, PicksInOrder
      <3> QED BY <3>1, <3>2, <3>4 DEF Reads
    <2>6. strip_citation_markers(<<>>) = <<>>
      BY <2>1, <2>3, <2>5, StripsMarkers
    <2> QED BY <2>1, <2>2, <2>6 DEF Told, Cut
  <1>5. Says(NewTurn)
    BY <1>3, <1>4 DEF Says
  <1> QED BY <1>1, <1>2, <1>5 DEF Init, TurnsSay

\* What is stored of an answer is what the model said without its markers, all of it
\* when the stream came to its end and the beginning of it when it was cut, however the
\* deltas cut the markers (CitationMarkerStripper, sent_tokens): as long as no marker
\* stands inside the beginning of another, and no beginning fills the hold-back.
THEOREM StoredIsSaid ==
    Spec => []((\A t \in Turn : Plain(turn[t].said)) => StoredIsWhatWasSaid)
  <1>1. ASSUME ToldInv, \A t \in Turn : Plain(turn[t].said) PROVE StoredIsWhatWasSaid
    <2>1. SUFFICES ASSUME NEW m \in AnswersStored
                   PROVE  LET said == strip_citation_markers(turn[m.turn].said)
                          IN  /\ IsPrefix(m.text, said)
                              /\ turn[m.turn].whole => m.text = said
      BY DEF StoredIsWhatWasSaid
    <2>2. PICK c \in Conv : \E i \in DOMAIN msgs[c] : msgs[c][i] = m
      BY DEF AnswersStored, ToSet
    <2>3. PICK i \in DOMAIN msgs[c] : msgs[c][i] = m
      BY <2>2
    <2>4. m.turn \in Turn /\ turn[m.turn].save = "done" /\ m.text = turn[m.turn].sent
      BY <1>1, <2>1, <2>3 DEF ToldInv, ChatInv, RowsPlaced, Placed, AnswersStored, RowsTold
    <2>5. Begins(turn[m.turn])
      BY <1>1, <2>4 DEF ToldInv, TurnsSay, Says
    <2> QED BY <2>4, <2>5 DEF Begins
  <1>2. ToldInv => ((\A t \in Turn : Plain(turn[t].said)) => StoredIsWhatWasSaid)
    BY <1>1
  <1>3. Spec => []ToldInv
    BY ToldInit, ToldStep, ChatAssumption, PTL DEF Spec
  <1> QED BY <1>2, <1>3, PTL

-----------------------------------------------------------------------------
(***************************************************************************)
(* The cap that a question is counted under (MessageCap), for any number of *)
(* users, sends and hours.                                                 *)
(*                                                                         *)
(* CapHolds is not inductive: that a count is still right when its row is   *)
(* committed takes the lock (Locked, Fresh), and that a row is in no        *)
(* window that its own count did not see takes the shape of the query,      *)
(* which has no upper end.  Full says the same of a refusal.               *)
(***************************************************************************)

InWindow(u, t) ==
    {q \in recorded : Owner[q] = u /\ now[q] <= t /\ t < now[q] + Hours}

\* A send inside its transaction has its user's lock.
Locked == \A r \in Request : pc[r] \in Holding => holder[Owner[r]] = r

\* No row is younger than the clock, and only accepted sends have rows.
Past == /\ \A r \in Request : now[r] <= clock
        /\ \A r \in recorded : pc[r] = "accepted"

\* A count that was taken is the count still.
Fresh ==
    \A r \in Request :
        /\ pc[r] \in {"counted", "inserted"} =>
              seen[r] = count_messages_in_window(Owner[r], now[r])
        /\ pc[r] = "inserted" => seen[r] < Cap

\* As many rows as the cap admits keep counting until reset_at.
Until(r) == {q \in recorded : Owner[q] = Owner[r] /\ reset[r] <= now[q] + Hours}
Full ==
    \A r \in Request : pc[r] = "refused" =>
        Cardinality(Until(r)) >= Cap /\ now[r] < reset[r]

CapInv == CapTypeOK /\ Locked /\ Past /\ Fresh /\ Full /\ CapHolds

-----------------------------------------------------------------------------
(* Sets of rows                                                            *)

LEMMA RowsAreFinite ==
    ASSUME CapTypeOK, NEW S \in SUBSET recorded
    PROVE  IsFiniteSet(S) /\ Cardinality(S) \in Nat
  <1>1. S \subseteq Request
    BY DEF CapTypeOK
  <1> QED BY <1>1, CapAssumption, FS_Subset, FS_CardinalityType DEF CapAssumption

LEMMA SmallerCount ==
    ASSUME CapTypeOK, NEW S \in SUBSET recorded, NEW R \in SUBSET S
    PROVE  /\ Cardinality(R) \in Nat /\ Cardinality(S) \in Nat
           /\ Cardinality(R) <= Cardinality(S)
  BY RowsAreFinite, FS_Subset

LEMMA CapTypeStep == CapTypeOK /\ [CapNext]_capVars => CapTypeOK'
  <1> SUFFICES ASSUME CapTypeOK, [CapNext]_capVars PROVE CapTypeOK'
    OBVIOUS
  <1> USE CapAssumption DEF CapTypeOK, CapAssumption, Goto, Release, Holding, Answered
  <1>1. CASE UNCHANGED capVars
    BY <1>1 DEF capVars
  <1>2. CASE Tick
    BY <1>2 DEF Tick
  <1>3. ASSUME NEW r \in Request, Begin(r) PROVE CapTypeOK'
    BY <1>3 DEF Begin
  <1>4. ASSUME NEW r \in Request, Lock(r) PROVE CapTypeOK'
    BY <1>4 DEF Lock
  <1>5. ASSUME NEW r \in Request, Count(r) PROVE CapTypeOK'
    <2>1. count_messages_in_window(Owner[r], now[r]) \in Nat
      BY RowsAreFinite DEF count_messages_in_window, Newer
    <2> QED BY <1>5, <2>1 DEF Count
  <1>6. ASSUME NEW r \in Request, Refuse(r) PROVE CapTypeOK'
    BY <1>6 DEF Refuse, Newer
  <1>7. ASSUME NEW r \in Request, Insert(r) PROVE CapTypeOK'
    BY <1>7 DEF Insert
  <1>8. ASSUME NEW r \in Request, Commit(r) PROVE CapTypeOK'
    BY <1>8 DEF Commit
  <1>9. ASSUME NEW r \in Request, Abort(r) PROVE CapTypeOK'
    BY <1>9 DEF Abort
  <1> QED BY <1>1, <1>2, <1>3, <1>4, <1>5, <1>6, <1>7, <1>8, <1>9
          DEF CapNext, Send

-----------------------------------------------------------------------------
(* Steps that record nothing                                               *)

\* Rows, and the times that windows and refusals are about, stay as they are.
Still ==
    /\ recorded' = recorded /\ clock' = clock
    /\ \A q \in recorded : now'[q] = now[q]

LEMMA WindowsStill ==
    ASSUME CapTypeOK, CapHolds, Still PROVE CapHolds'
  <1>1. \A u \in Sender, t \in 0 .. clock :
           {q \in recorded' : Owner[q] = u /\ now'[q] <= t /\ t < now'[q] + Hours}
              = InWindow(u, t)
    BY DEF Still, InWindow
  <1> QED BY <1>1 DEF CapHolds, InWindow, Still

\* What a step says of a send that it leaves alone.
Same(r) == pc'[r] = pc[r] /\ now'[r] = now[r] /\ seen'[r] = seen[r]
           /\ reset'[r] = reset[r]

LEMMA QueriesStill ==
    ASSUME Still, NEW u, NEW at
    PROVE  count_messages_in_window(u, at)' = count_messages_in_window(u, at)
  <1>1. Newer(u, at)' = Newer(u, at)
    BY DEF Still, Newer
  <1> QED BY <1>1 DEF count_messages_in_window

LEMMA FreshKept ==
    ASSUME Fresh, Still, NEW r \in Request, Same(r)
    PROVE  /\ pc'[r] \in {"counted", "inserted"} =>
                seen'[r] = count_messages_in_window(Owner[r], now[r])'
           /\ pc'[r] = "inserted" => seen'[r] < Cap
  <1>1. count_messages_in_window(Owner[r], now[r])'
           = count_messages_in_window(Owner[r], now[r])
    <2>1. Newer(Owner[r], now[r])' = Newer(Owner[r], now[r])
      BY DEF Still, Same, Newer
    <2> QED BY <2>1 DEF count_messages_in_window
  <1> QED BY <1>1 DEF Fresh, Same

LEMMA FullKept ==
    ASSUME Full, Still, NEW r \in Request, Same(r), pc'[r] = "refused"
    PROVE  (Cardinality(Until(r)) >= Cap /\ now[r] < reset[r])'
  <1>1. Until(r)' = Until(r)
    BY DEF Still, Same, Until
  <1> QED BY <1>1 DEF Full, Same

\* A step of one send that records nothing: what is left to show is what it
\* says of that send.
LEMMA QuietStep ==
    ASSUME CapInv, CapTypeOK', Still, NEW r \in Request,
           \A q \in Request \ {r} : Same(q),
           \A q \in Request \ {r} : pc[q] \in Holding =>
                                        holder'[Owner[q]] = holder[Owner[q]],
           pc'[r] \in Holding => holder'[Owner[r]] = r,
           now'[r] <= clock, r \notin recorded,
           pc'[r] \in {"counted", "inserted"} =>
              seen'[r] = count_messages_in_window(Owner[r], now[r])',
           pc'[r] = "inserted" => seen'[r] < Cap,
           pc'[r] = "refused" =>
              (Cardinality(Until(r)) >= Cap /\ now[r] < reset[r])'
    PROVE  CapInv'
  <1>1. Locked'
    BY DEF CapInv, Locked, Same
  <1>2. Past'
    BY DEF CapInv, Past, Same, Still, CapTypeOK
  <1>3. Fresh'
    <2> SUFFICES ASSUME NEW q \in Request
                 PROVE  /\ pc'[q] \in {"counted", "inserted"} =>
                              seen'[q] = count_messages_in_window(Owner[q], now[q])'
                        /\ pc'[q] = "inserted" => seen'[q] < Cap
      BY DEF Fresh
    <2> QED BY FreshKept DEF CapInv
  <1>4. Full'
    <2> SUFFICES ASSUME NEW q \in Request, pc'[q] = "refused"
                 PROVE  (Cardinality(Until(q)) >= Cap /\ now[q] < reset[q])'
      BY DEF Full
    <2> QED BY FullKept DEF CapInv
  <1> QED BY <1>1, <1>2, <1>3, <1>4, WindowsStill DEF CapInv

LEMMA BeginStep ==
    ASSUME CapInv, CapTypeOK', NEW r \in Request, Begin(r) PROVE CapInv'
  <1>1. r \notin recorded
    BY DEF Begin, CapInv, Past
  <1>2. Still /\ \A q \in Request \ {r} : Same(q)
    BY <1>1 DEF Begin, Still, Same, Goto, CapInv, CapTypeOK
  <1>3. pc'[r] = "begun" /\ now'[r] = clock /\ clock \in Nat
    BY DEF Begin, Goto, CapInv, CapTypeOK
  <1> QED BY <1>1, <1>2, <1>3, QuietStep DEF Holding, Begin

LEMMA LockStep ==
    ASSUME CapInv, CapTypeOK', NEW r \in Request, Lock(r) PROVE CapInv'
  <1>1. r \notin recorded
    BY DEF Lock, CapInv, Past
  <1>2. Still /\ \A q \in Request \ {r} : Same(q)
    BY DEF Lock, Still, Same, Goto, CapInv, CapTypeOK
  <1>3. pc'[r] = "locked" /\ now'[r] = now[r] /\ now[r] <= clock
    BY DEF Lock, Goto, CapInv, CapTypeOK, Past
  <1>4. holder'[Owner[r]] = r
    BY CapAssumption DEF Lock, CapInv, CapTypeOK, CapAssumption
  <1>5. \A q \in Request \ {r} : pc[q] \in Holding =>
                                    holder'[Owner[q]] = holder[Owner[q]]
    BY CapAssumption DEF Lock, CapInv, CapTypeOK, CapAssumption, Locked
  <1> QED BY <1>1, <1>2, <1>3, <1>4, <1>5, QuietStep

LEMMA CountStep ==
    ASSUME CapInv, CapTypeOK', NEW r \in Request, Count(r) PROVE CapInv'
  <1>1. r \notin recorded
    BY DEF Count, CapInv, Past
  <1>2. Still /\ \A q \in Request \ {r} : Same(q)
    BY DEF Count, Still, Same, Goto, CapInv, CapTypeOK
  <1>3. /\ pc'[r] = "counted" /\ now'[r] = now[r] /\ now[r] <= clock
        /\ holder' = holder /\ holder[Owner[r]] = r
    BY DEF Count, Goto, CapInv, CapTypeOK, Past, Locked, Holding
  <1>4. seen'[r] = count_messages_in_window(Owner[r], now[r])
    BY DEF Count, CapInv, CapTypeOK
  <1>5. count_messages_in_window(Owner[r], now[r])'
           = count_messages_in_window(Owner[r], now[r])
    BY DEF Count, count_messages_in_window, Newer
  <1> QED BY <1>1, <1>2, <1>3, <1>4, <1>5, QuietStep

\* A refusal names the time at which the oldest row that it counted leaves.
LEMMA RefuseStep ==
    ASSUME CapInv, CapTypeOK', NEW r \in Request, Refuse(r) PROVE CapInv'
  <1>1. r \notin recorded
    BY DEF Refuse, CapInv, Past
  <1>2. Still /\ \A q \in Request \ {r} : Same(q)
    <2>1. PICK t : reset' = [reset EXCEPT ![r] = t]
      BY DEF Refuse
    <2> QED BY <2>1 DEF Refuse, Still, Same, Goto, CapInv, CapTypeOK
  <1>3. pc'[r] = "refused" /\ now'[r] = now[r] /\ now[r] <= clock
    BY DEF Refuse, Goto, CapInv, CapTypeOK, Past
  <1>4. \A q \in Request \ {r} : pc[q] \in Holding =>
                                    holder'[Owner[q]] = holder[Owner[q]]
    BY CapAssumption
       DEF Refuse, Release, CapInv, CapTypeOK, CapAssumption, Locked, Holding
  <1>5. PICK p \in Newer(Owner[r], now[r]) :
           /\ IsOldest(Owner[r], now[r], now[p])
           /\ reset'[r] = now[p] + Hours
    BY DEF Refuse, CapInv, CapTypeOK
  <1>6. Newer(Owner[r], now[r]) \subseteq Until(r)'
    BY <1>2, <1>5, CapAssumption
       DEF Newer, Until, IsOldest, Still, CapInv, CapTypeOK, CapAssumption
  <1>7. now[r] < reset'[r]
    BY <1>5 DEF Newer
  <1>8. Cardinality(Newer(Owner[r], now[r])) >= Cap
    BY DEF Refuse, CapInv, Fresh, count_messages_in_window
  <1>9. (Cardinality(Until(r)) >= Cap)'
    <2> DEFINE S == Until(r)'
    <2>1. S \in SUBSET recorded
      BY <1>2 DEF Until, Still
    <2>2. Cardinality(S) \in Nat /\ Cardinality(Newer(Owner[r], now[r])) \in Nat
          /\ Cardinality(Newer(Owner[r], now[r])) <= Cardinality(S)
      BY <1>6, <2>1, SmallerCount DEF CapInv
    <2> QED BY <1>8, <2>2, CapAssumption DEF CapAssumption
  <1> QED BY <1>1, <1>2, <1>3, <1>4, <1>7, <1>9, QuietStep DEF Holding

LEMMA InsertStep ==
    ASSUME CapInv, CapTypeOK', NEW r \in Request, Insert(r) PROVE CapInv'
  <1>1. r \notin recorded
    BY DEF Insert, CapInv, Past
  <1>2. Still /\ \A q \in Request \ {r} : Same(q)
    BY DEF Insert, Still, Same, Goto, CapInv, CapTypeOK
  <1>3. /\ pc'[r] = "inserted" /\ now'[r] = now[r] /\ now[r] <= clock
        /\ holder' = holder /\ holder[Owner[r]] = r
    BY DEF Insert, Goto, CapInv, CapTypeOK, Past, Locked, Holding
  <1>4. /\ seen'[r] = count_messages_in_window(Owner[r], now[r])
        /\ seen'[r] < Cap
    BY DEF Insert, CapInv, Fresh
  <1>5. count_messages_in_window(Owner[r], now[r])'
           = count_messages_in_window(Owner[r], now[r])
    BY DEF Insert, count_messages_in_window, Newer
  <1> QED BY <1>1, <1>2, <1>3, <1>4, <1>5, QuietStep

LEMMA AbortStep ==
    ASSUME CapInv, CapTypeOK', NEW r \in Request, Abort(r) PROVE CapInv'
  <1>1. r \notin recorded
    BY DEF Abort, CapInv, Past, Holding
  <1>2. Still /\ \A q \in Request \ {r} : Same(q)
    BY DEF Abort, Still, Same, Goto, CapInv, CapTypeOK
  <1>3. pc'[r] = "failed" /\ now'[r] = now[r] /\ now[r] <= clock
    BY DEF Abort, Goto, CapInv, CapTypeOK, Past
  <1>4. \A q \in Request \ {r} : pc[q] \in Holding =>
                                    holder'[Owner[q]] = holder[Owner[q]]
    BY CapAssumption
       DEF Abort, Release, CapInv, CapTypeOK, CapAssumption, Locked, Holding
  <1> QED BY <1>1, <1>2, <1>3, <1>4, QuietStep DEF Holding

-----------------------------------------------------------------------------
(* The step that records, and time                                         *)

\* The row of r enters only windows whose rows its count has seen.
LEMMA CommitStep ==
    ASSUME CapInv, CapTypeOK', NEW r \in Request, Commit(r) PROVE CapInv'
  <1>1. /\ pc[r] = "inserted" /\ pc' = [pc EXCEPT ![r] = "accepted"]
        /\ recorded' = recorded \cup {r} /\ r \notin recorded
        /\ UNCHANGED <<clock, now, seen, reset>>
        /\ holder' = [holder EXCEPT ![Owner[r]] = Nobody]
    BY DEF Commit, Goto, Release, CapInv, Past
  <1>2. /\ seen[r] = Cardinality(Newer(Owner[r], now[r]))
        /\ seen[r] < Cap /\ seen[r] \in Nat /\ Cap \in Nat
    BY <1>1, CapAssumption
       DEF CapInv, Fresh, count_messages_in_window, CapTypeOK, CapAssumption
  <1>3. \A q \in Request \ {r} : pc[q] \in Holding => Owner[q] # Owner[r]
    BY <1>1, CapAssumption DEF CapInv, Locked, Holding, CapTypeOK, CapAssumption
  <1>4. Locked'
    BY <1>1, <1>3, CapAssumption
       DEF CapInv, Locked, Holding, CapTypeOK, CapAssumption
  <1>5. Past'
    BY <1>1 DEF CapInv, Past, CapTypeOK
  <1>6. Fresh'
    <2> SUFFICES ASSUME NEW q \in Request \ {r},
                        pc[q] \in {"counted", "inserted"}
                 PROVE  Newer(Owner[q], now[q])' = Newer(Owner[q], now[q])
      BY <1>1 DEF CapInv, Fresh, count_messages_in_window, CapTypeOK
    <2>1. Owner[q] # Owner[r]
      BY <1>3 DEF Holding
    <2> QED BY <1>1, <2>1 DEF Newer
  <1>7. Full'
    <2> SUFFICES ASSUME NEW q \in Request, pc[q] = "refused"
                 PROVE  Cardinality(Until(q)') >= Cap
      BY <1>1 DEF CapInv, Full, CapTypeOK
    <2>1. Until(q) \subseteq Until(q)' /\ Until(q)' \in SUBSET recorded'
      BY <1>1 DEF Until
    <2>2. \A S \in SUBSET recorded' : IsFiniteSet(S)
      BY CapAssumption, FS_Subset DEF CapTypeOK, CapAssumption
    <2>3. /\ Cardinality(Until(q)) \in Nat /\ Cardinality(Until(q)') \in Nat
          /\ Cardinality(Until(q)) <= Cardinality(Until(q)')
      BY <2>1, <2>2, FS_Subset, FS_CardinalityType
    <2> QED BY <1>2, <2>3 DEF CapInv, Full
  <1>8. CapHolds'
    <2> SUFFICES ASSUME NEW u \in Sender, NEW t \in 0 .. clock
                 PROVE  Cardinality(InWindow(u, t)') <= Cap
      BY <1>1 DEF CapHolds, InWindow
    <2>1. Cardinality(InWindow(u, t)) <= Cap
      BY DEF CapInv, CapHolds, InWindow
    <2>2. CASE InWindow(u, t)' = InWindow(u, t)
      BY <2>1, <2>2
    <2>3. CASE /\ Owner[r] = u /\ now[r] <= t
               /\ InWindow(u, t)' = InWindow(u, t) \cup {r}
      <3>1. InWindow(u, t) \in SUBSET Newer(Owner[r], now[r])
        BY <2>3, CapAssumption DEF InWindow, Newer, CapInv, CapTypeOK, CapAssumption
      <3>2. /\ Cardinality(InWindow(u, t)) \in Nat
            /\ Cardinality(InWindow(u, t)) <= seen[r]
        BY <1>2, <3>1, SmallerCount DEF Newer, CapInv
      <3>3. Cardinality(InWindow(u, t) \cup {r}) = Cardinality(InWindow(u, t)) + 1
        BY <1>1, RowsAreFinite, FS_AddElement DEF InWindow, CapInv
      <3> QED BY <1>2, <2>3, <3>2, <3>3
    <2> QED BY <1>1, <2>2, <2>3 DEF InWindow
  <1> QED BY <1>4, <1>5, <1>6, <1>7, <1>8 DEF CapInv

\* The window that ends an hour later has no row that is not in the last one.
LEMMA TickStep ==
    ASSUME CapInv, CapTypeOK', Tick PROVE CapInv'
  <1>1. clock' = clock + 1 /\ UNCHANGED <<pc, now, seen, reset, holder, recorded>>
    BY DEF Tick
  <1>2. Locked' /\ Fresh' /\ Full'
    BY <1>1 DEF CapInv, Locked, Fresh, Full, Until, count_messages_in_window, Newer
  <1>3. Past'
    BY <1>1 DEF CapInv, Past, CapTypeOK
  <1>4. CapHolds'
    <2> SUFFICES ASSUME NEW u \in Sender, NEW t \in 0 .. clock + 1
                 PROVE  Cardinality(InWindow(u, t)) <= Cap
      BY <1>1 DEF CapHolds, InWindow
    <2>1. CASE t \in 0 .. clock
      BY <2>1 DEF CapInv, CapHolds, InWindow
    <2>2. CASE t = clock + 1
      <3>1. InWindow(u, t) \in SUBSET InWindow(u, clock)
        BY <2>2, CapAssumption DEF InWindow, CapInv, Past, CapTypeOK, CapAssumption
      <3>2. /\ Cardinality(InWindow(u, t)) \in Nat
            /\ Cardinality(InWindow(u, clock)) \in Nat
            /\ Cardinality(InWindow(u, t)) <= Cardinality(InWindow(u, clock))
        BY <3>1, SmallerCount DEF InWindow, CapInv
      <3>3. Cardinality(InWindow(u, clock)) <= Cap
        BY DEF CapInv, CapHolds, InWindow, CapTypeOK
      <3> QED BY <3>2, <3>3, CapAssumption DEF CapAssumption
    <2> QED BY <2>1, <2>2 DEF CapInv, CapTypeOK
  <1> QED BY <1>2, <1>3, <1>4 DEF CapInv

-----------------------------------------------------------------------------
(* The theorems                                                            *)

LEMMA CapInvStep == CapInv /\ [CapNext]_capVars => CapInv'
  <1> SUFFICES ASSUME CapInv, [CapNext]_capVars PROVE CapInv'
    OBVIOUS
  <1>1. CapTypeOK'
    BY CapTypeStep DEF CapInv
  <1>2. CASE UNCHANGED <<clock, pc, now, seen, reset, holder, recorded>>
    BY <1>1, <1>2 DEF CapInv, Locked, Past, Fresh, Full, Until, CapHolds,
                      count_messages_in_window, Newer
  <1> QED BY <1>1, <1>2, BeginStep, LockStep, CountStep, RefuseStep, InsertStep,
             CommitStep, AbortStep, TickStep
          DEF CapNext, Send, capVars

LEMMA CapInvInit == CapInit => CapInv
  <1> SUFFICES ASSUME CapInit PROVE CapInv
    OBVIOUS
  <1>1. CapTypeOK /\ Locked /\ Past /\ Fresh /\ Full
    BY CapAssumption
       DEF CapInit, CapTypeOK, Locked, Past, Fresh, Full, CapAssumption, Holding
  <1>2. CapHolds
    <2>1. \A u \in Sender, t \in 0 .. clock : InWindow(u, t) = {}
      BY DEF CapInit, InWindow
    <2> QED BY <2>1, FS_EmptySet, CapAssumption
            DEF CapHolds, InWindow, CapAssumption
  <1> QED BY <1>1, <1>2 DEF CapInv

LEMMA CapInvHolds == CapSpec => []CapInv
  BY CapInvInit, CapInvStep, PTL DEF CapSpec

\* Every reachable state is well typed, for any users, sends, cap and hours.
THEOREM CapTypes == CapSpec => []CapTypeOK
  <1>1. CapInv => CapTypeOK
    BY DEF CapInv
  <1> QED BY <1>1, CapInvHolds, PTL

\* At most Cap messages per user in every window: check_and_record, with its
\* advisory lock and its transaction-start clock (rate_limit.py:75-96).
THEOREM CapNeverExceeded == CapSpec => []CapHolds
  <1>1. CapInv => CapHolds
    BY DEF CapInv
  <1> QED BY <1>1, CapInvHolds, PTL

\* After a refusal, a send that is about to be recorded began at reset_at or
\* later: it would have counted what the refusal counts on.
LEMMA RecordedLater ==
    ASSUME CapInv, NEW r \in Request, NEW q \in Request,
           pc[r] = "refused", Owner[q] = Owner[r], pc[q] = "inserted"
    PROVE  reset[r] <= now[q]
  <1> SUFFICES ASSUME ~ (reset[r] <= now[q]) PROVE FALSE
    OBVIOUS
  <1>1. Until(r) \in SUBSET Newer(Owner[q], now[q])
    BY CapAssumption DEF Until, Newer, CapInv, CapTypeOK, CapAssumption
  <1>2. /\ Cardinality(Until(r)) \in Nat
        /\ Cardinality(Newer(Owner[q], now[q])) \in Nat
        /\ Cardinality(Until(r)) <= Cardinality(Newer(Owner[q], now[q]))
    BY <1>1, SmallerCount DEF Newer, CapInv
  <1>3. /\ Cardinality(Until(r)) >= Cap
        /\ Cardinality(Newer(Owner[q], now[q])) < Cap
    BY DEF CapInv, Full, Fresh, count_messages_in_window
  <1> QED BY <1>2, <1>3, CapAssumption DEF CapAssumption

\* A refused user is refused until reset_at, also by transactions that are
\* older than the refusal (rate_limit.py:88-95).
THEOREM RefusalsStand == CapSpec => RefusalStands
  <1>1. CapInv /\ [CapNext]_capVars =>
           [\A r, q \in Request :
               /\ pc[r] = "refused" /\ Owner[q] = Owner[r]
               /\ pc[q] = "inserted" /\ pc'[q] = "accepted"
               => reset[r] <= now[q]]_capVars
    BY RecordedLater
  <1> QED BY <1>1, CapInvHolds, PTL DEF CapSpec, RefusalStands

-----------------------------------------------------------------------------
(* reset_at is worth waiting for                                           *)

\* The rows of a refused send's user that still count at its reset_at.
Left(r) == {q \in recorded : /\ Owner[q] = Owner[r]
                             /\ now[q] <= now[r]
                             /\ reset[r] < now[q] + Hours}

\* When the refusal is given, its oldest row is in the window but not left.
LEMMA FreedByRefusal ==
    ASSUME CapInv, CapTypeOK', NEW r \in Request, Refuse(r)
    PROVE  Cardinality(Left(r)') < Cap
  <1>1. PICK p \in Newer(Owner[r], now[r]) :
           /\ IsOldest(Owner[r], now[r], now[p])
           /\ reset'[r] = now[p] + Hours
    BY DEF Refuse, CapInv, CapTypeOK
  <1>2. UNCHANGED <<recorded, now, clock>>
    BY DEF Refuse
  <1> DEFINE S == {q \in recorded : /\ Owner[q] = Owner[r] /\ now[q] <= now[r]
                                    /\ now[p] < now[q]}
  <1>3. Left(r)' = S
    BY <1>1, <1>2, CapAssumption DEF Left, Newer, CapInv, CapTypeOK, CapAssumption
  <1>4. p \in recorded /\ p \notin S /\ Cap \in Nat \ {0}
    BY <1>1, CapAssumption DEF Newer, CapAssumption, CapInv, CapTypeOK
  <1>5. CASE now[p] <= now[r]
    <2>1. S \cup {p} \in SUBSET InWindow(Owner[r], now[r])
      BY <1>1, <1>5, CapAssumption
         DEF InWindow, Newer, CapInv, CapTypeOK, CapAssumption
    <2>2. /\ Cardinality(S \cup {p}) <= Cardinality(InWindow(Owner[r], now[r]))
          /\ Cardinality(InWindow(Owner[r], now[r])) \in Nat
      BY <2>1, SmallerCount DEF InWindow, CapInv
    <2>3. Cardinality(InWindow(Owner[r], now[r])) <= Cap
      BY CapAssumption
         DEF InWindow, CapInv, CapHolds, Past, CapTypeOK, CapAssumption
    <2>4. IsFiniteSet(S) /\ Cardinality(S) \in Nat
      BY RowsAreFinite DEF CapInv
    <2>5. Cardinality(S \cup {p}) = Cardinality(S) + 1
      BY <1>4, <2>4, FS_AddElement
    <2> HIDE DEF S
    <2> QED BY <1>3, <1>4, <2>2, <2>3, <2>4, <2>5
  <1>6. CASE ~ (now[p] <= now[r])
    <2>1. S = {}
      BY <1>4, <1>6 DEF CapInv, CapTypeOK
    <2> HIDE DEF S
    <2> QED BY <1>3, <1>4, <2>1, FS_EmptySet
  <1> QED BY <1>5, <1>6

\* ... and nothing that counts at reset_at is recorded later.
LEMMA FreedStep ==
    CapInv /\ CapTypeOK' /\ ResetFreesASlot /\ [CapNext]_capVars => ResetFreesASlot'
  <1> SUFFICES ASSUME CapInv, CapTypeOK', ResetFreesASlot, [CapNext]_capVars,
                      NEW r \in Request, pc'[r] = "refused"
               PROVE  Cardinality(Left(r)') < Cap
    BY DEF ResetFreesASlot, Left
  <1>1. CASE Refuse(r)
    BY <1>1, FreedByRefusal
  <1>2. CASE pc[r] = "refused" /\ Left(r)' = Left(r)
    BY <1>2 DEF ResetFreesASlot, Left
  <1>3. CASE UNCHANGED <<pc, now, reset, recorded>>
    BY <1>2, <1>3 DEF Left
  <1>4. ASSUME NEW q \in Request,
               Begin(q) \/ Lock(q) \/ Count(q) \/ Insert(q) \/ Abort(q)
        PROVE  pc[r] = "refused" /\ Left(r)' = Left(r)
    <2>1. /\ pc[r] = "refused" /\ recorded' = recorded
          /\ q \notin recorded /\ q # r /\ reset' = reset
      BY <1>4 DEF Begin, Lock, Count, Insert, Abort, Goto, CapInv, Past, CapTypeOK, Holding
    <2>2. \A p \in Request \ {q} : now'[p] = now[p]
      BY <1>4 DEF Begin, Lock, Count, Insert, Abort, CapInv, CapTypeOK
    <2> QED BY <2>1, <2>2 DEF Left, CapInv, CapTypeOK
  <1>5. ASSUME NEW q \in Request \ {r}, Refuse(q)
        PROVE  pc[r] = "refused" /\ Left(r)' = Left(r)
    <2>1. PICK t : reset' = [reset EXCEPT ![q] = t]
      BY <1>5 DEF Refuse
    <2>2. pc[r] = "refused" /\ reset'[r] = reset[r] /\ UNCHANGED <<now, recorded>>
      BY <1>5, <2>1 DEF Refuse, Goto, CapInv, CapTypeOK
    <2> QED BY <2>2 DEF Left
  <1>6. ASSUME NEW q \in Request, Commit(q)
        PROVE  pc[r] = "refused" /\ Left(r)' = Left(r)
    <2>1. /\ pc[r] = "refused" /\ pc[q] = "inserted"
          /\ recorded' = recorded \cup {q} /\ UNCHANGED <<now, reset>>
      BY <1>6 DEF Commit, Goto, CapInv, CapTypeOK
    <2>2. Owner[q] = Owner[r] => ~ (now[q] <= now[r])
      <3>1. now[r] < reset[r]
        BY <2>1 DEF CapInv, Full
      <3> QED BY <2>1, <3>1, RecordedLater DEF CapInv, CapTypeOK
    <2> QED BY <2>1, <2>2 DEF Left
  <1> QED BY <1>1, <1>2, <1>3, <1>4, <1>5, <1>6
          DEF CapNext, Send, Tick, capVars

\* At reset_at fewer than Cap of the rows that the refusal saw still count, so
\* that a user who waits as told is served (rate_limit.py:89-95).
THEOREM ResetWorthWaiting == CapSpec => []ResetFreesASlot
  <1>1. CapInit => ResetFreesASlot
    BY DEF CapInit, ResetFreesASlot
  <1>2. CapInv => CapTypeOK
    BY DEF CapInv
  <1> QED BY <1>1, <1>2, FreedStep, CapInvHolds, PTL DEF CapSpec

\* Both together: a refusal names the right time.
THEOREM RefusalsRight == CapSpec => RefusalsAreRight
  BY RefusalsStand, ResetWorthWaiting DEF RefusalsAreRight

=============================================================================
