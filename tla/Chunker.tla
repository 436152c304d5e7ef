------------------------------ MODULE Chunker ------------------------------
(***************************************************************************)
(* rag/chunker.py: how a transcript becomes chunks.  A text is a sequence   *)
(* of tokens: characters of speech, numbered so that their order can be     *)
(* told, and the separators at which the code cuts.  HybridChunker          *)
(* (docling) is external: any grouping of neighbouring paragraphs, with or  *)
(* without the title as heading, or an exception.                           *)
(***************************************************************************)
EXTENDS Integers, Sequences, FiniteSets, SequencesExt

CONSTANTS
    MaxChars,   \* _MAX_CHUNK_CHARS
    TitleLen,   \* length of the title
    WPM         \* words that make up one unit of time: 150

ASSUME ChunkerAssumption ==
    MaxChars \in Nat \ {0} /\ TitleLen \in Nat \ {0} /\ WPM \in Nat \ {0}

-----------------------------------------------------------------------------
(* Texts                                                                   *)

Kind  == {"char", "title", "para", "line", "stop"}
Token == Kind \X Nat
Text  == Seq(Token)

\* s from left to right, with a function of what there is and the next element.
Fold(step, base, s) == FoldLeft(LAMBDA g, x : step[g][x], base, s)

\* The elements of s that are in X.
Only(s, X) == FlattenSeq([i \in DOMAIN s |-> IF s[i] \in X THEN <<s[i]>> ELSE <<>>])

Width == [char |-> 1, title |-> TitleLen, para |-> 2, line |-> 1, stop |-> 2]
len(text) == Fold([n \in Nat |-> [t \in Token |-> n + Width[t[1]]]], 0, text)

Break == {"para", "line"}
blank(text) == \A i \in DOMAIN text : text[i][1] \in Break
Speech(text) == Only(text, {"char"} \X Nat)

split(text, sep) ==
    Fold([parts \in Seq(Text) \ {<<>>} |-> [t \in Token |->
             IF t[1] = sep THEN Append(parts, <<>>)
             ELSE Append(Front(parts), Append(Last(parts), t))]],
         << <<>> >>, text)

join(parts, sep) ==
    Fold([text \in Text |-> [p \in Text |->
             IF text = <<>> THEN p ELSE text \o << <<sep, 0>> >> \o p]],
         <<>>, parts)

\* strip() takes line breaks from both ends.
strip(text) ==
    LET kept  == {i \in DOMAIN text : text[i][1] \notin Break}
        First == CHOOSE i \in kept : \A j \in kept : i <= j
        Final == CHOOSE i \in kept : \A j \in kept : j <= i
    IN  IF kept = {} THEN <<>> ELSE SubSeq(text, First, Final)

Paragraphs(text) ==
    LET parts == split(text, "para")
    IN  Only([i \in DOMAIN parts |-> strip(parts[i])], Text \ {<<>>})

-----------------------------------------------------------------------------
(* Splitting                                                               *)

\* text[:max_chars], text[max_chars:] and so on; the last one unless it is blank.
HardCut(text) ==
    LET n == (Len(text) + MaxChars - 1) \div MaxChars
        pieces == [i \in 1..n |-> SubSeq(text, (i - 1) * MaxChars + 1,
                                         IF i < n THEN i * MaxChars ELSE Len(text))]
    IN  IF blank(pieces[n]) THEN Front(pieces) ELSE pieces

Group == [result : Seq(Text), current : Text]
NoGroup == [result |-> <<>>, current |-> <<>>]
Closed(g) == IF g.current = <<>> THEN g.result ELSE Append(g.result, g.current)
Candidate(g, part, sep) ==
    IF g.current = <<>> THEN part ELSE g.current \o << <<sep, 0>> >> \o part

\* Mutant: the group in hand is dropped when a part has to be split itself.
AddDropsCurrent(g, part, sep, finer) ==
    IF len(Candidate(g, part, sep)) <= MaxChars
       THEN [g EXCEPT !.current = Candidate(g, part, sep)]
    ELSE IF len(part) <= MaxChars
       THEN [result |-> Closed(g), current |-> part]
    ELSE IF finer[part] = <<>>
       THEN [result |-> g.result, current |-> <<>>]
    ELSE [result |-> g.result \o Front(finer[part]), current |-> Last(finer[part])]

\* A part that is too long itself is split, and its last piece goes on as the group
\* in hand.
Add(g, part, sep, finer) ==
    IF len(Candidate(g, part, sep)) <= MaxChars
       THEN [g EXCEPT !.current = Candidate(g, part, sep)]
    ELSE IF len(part) <= MaxChars
       THEN [result |-> Closed(g), current |-> part]
    ELSE IF finer[part] = <<>>
       THEN [result |-> Closed(g), current |-> <<>>]
    ELSE [result |-> Closed(g) \o Front(finer[part]), current |-> Last(finer[part])]

_group_parts(parts, sep, finer) ==
    LET g == Fold([g \in Group |-> [part \in Text |-> Add(g, part, sep, finer)]], NoGroup, parts)
    IN  IF blank(g.current) THEN g.result ELSE Closed(g)

Fitting(grouped) ==
    \/ Len(grouped) > 1
    \/ Len(grouped) = 1 /\ len(grouped[1]) <= MaxChars

\* One separator of the loop: finer splits where it does not help.
SplitAt(sep, finer) ==
    [text \in Text |->
       LET parts   == split(text, sep)
           grouped == _group_parts(parts, sep, finer)
       IN  IF len(text) <= MaxChars THEN IF blank(text) THEN <<>> ELSE <<text>>
           ELSE IF Len(parts) > 1 /\ Fitting(grouped) THEN grouped
           ELSE finer[text]]

\* The code calls itself on a part that is too long.  The part holds no more of the
\* separator it was cut at, so that call is for the finer ones.
_split_text(text) ==
    LET AtStops == SplitAt("stop", [t \in Text |-> HardCut(t)])
        AtLines == SplitAt("line", AtStops)
        AtParas == SplitAt("para", AtLines)
    IN  AtParas[text]

_enforce_max_chars(chunks) ==
    Only(FlattenSeq([i \in DOMAIN chunks |->
            IF len(chunks[i]) <= MaxChars THEN <<chunks[i]>> ELSE _split_text(chunks[i])]),
         {c \in Text : ~blank(c)})

Title == << <<"title", 0>>, <<"line", 0>> >>

_force_paragraph_split(paragraphs) ==
    LET Titled(ps) == Title \o join(ps, "para")
        step == [g \in [result : Seq(Text), parts : Seq(Text), n : Nat] |-> [para \in Text |->
                   IF g.n + len(para) + 2 > MaxChars /\ g.parts # <<>>
                      THEN [result |-> Append(g.result, Titled(g.parts)),
                            parts |-> <<para>>, n |-> len(Title) + len(para)]
                      ELSE [g EXCEPT !.parts = Append(@, para), !.n = @ + len(para) + 2]]]
        g == Fold(step, [result |-> <<>>, parts |-> <<>>, n |-> len(Title)], paragraphs)
        all == IF g.parts = <<>> THEN g.result ELSE Append(g.result, Titled(g.parts))
        mid == IF Len(paragraphs) \div 2 > 1 THEN Len(paragraphs) \div 2 ELSE 1
    IN  IF Len(all) < 2 /\ Len(paragraphs) >= 2
           THEN <<Titled(SubSeq(paragraphs, 1, mid)),
                  Titled(SubSeq(paragraphs, mid + 1, Len(paragraphs)))>>
           ELSE all

-----------------------------------------------------------------------------
(* Whole transcripts                                                       *)

\* cuts: after which paragraphs HybridChunker begins a new chunk.
HybridChunks(paragraphs, cuts, headed) ==
    LET step == [g \in Seq(Seq(Text)) |-> [i \in DOMAIN paragraphs |->
                   IF g = <<>> \/ i - 1 \in cuts THEN Append(g, <<paragraphs[i]>>)
                   ELSE Append(Front(g), Append(Last(g), paragraphs[i]))]]
        groups == Fold(step, <<>>, [i \in DOMAIN paragraphs |-> i])
    IN  [i \in DOMAIN groups |->
           (IF headed THEN Title ELSE <<>>) \o join(groups[i], "line")]

chunk_video(transcript, raised, cuts, headed) ==
    LET paragraphs == Paragraphs(transcript)
        raw == IF ~raised THEN HybridChunks(paragraphs, cuts, headed)
               ELSE IF blank(transcript) THEN <<>> ELSE <<strip(transcript)>>
        results == _enforce_max_chars(raw)
    IN  IF Len(paragraphs) >= 3 /\ Len(results) < 2
           THEN _force_paragraph_split(paragraphs) ELSE results

\* round(a / b, 2) in hundredths
Hundredths(a, b) == (200 * a + b) \div (2 * b)

Passage(content, start, end) == [content |-> content, start |-> start, end |-> end]

\* total_words: characters that no other character precedes
Words(transcript) ==
    {i \in DOMAIN transcript : /\ transcript[i][1] = "char"
                               /\ i > 1 => transcript[i - 1][1] # "char"}

chunk_video_fallback(transcript, texts) ==
    LET words == Cardinality(Words(transcript))
        duration == IF words > WPM THEN words ELSE WPM    \* times 1 / WPM
        At(i) == Hundredths(i * duration, WPM * Len(texts))
    IN  [i \in DOMAIN texts |-> Passage(texts[i], At(i - 1), At(i))]

-----------------------------------------------------------------------------
(* Transcripts with timestamps                                             *)

Segment == [start : Nat, end : Nat, text : {"words", "none"}]

\* Supadata's chunks: a text, an offset and a duration
fetch_video_for_ingest(pieces) ==
    [i \in DOMAIN pieces |->
       [start |-> pieces[i].at, end |-> pieces[i].at + pieces[i].lasts,
        text |-> pieces[i].text]]

\* Headings with a time: a segment ends where the next begins, the last one
\* where it begins; those without text are left out.
_parse_segments(marks) ==
    LET All == [i \in DOMAIN marks |->
                  [start |-> marks[i].at,
                   end |-> marks[IF i < Len(marks) THEN i + 1 ELSE i].at,
                   text |-> marks[i].text]]
    IN  Only(All, {s \in Segment : s.text # "none"})

\* What n, the chunks HybridChunker makes of segment s, come to; 0 if it raises
Timed(s, n) ==
    LET step == (s.end - s.start) \div n
    IN  IF s.text = "none" THEN <<>>
        ELSE IF n <= 1 THEN <<Passage(s.text, s.start, s.end)>>
        ELSE [k \in 1..n |-> Passage(s.text, s.start + (k - 1) * step, s.start + k * step)]

chunk_video_timestamped(segments, subs) ==
    FlattenSeq([i \in DOMAIN segments |-> Timed(segments[i], subs[i])])
=============================================================================
