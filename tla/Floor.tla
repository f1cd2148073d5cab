------------------------------- MODULE Floor -------------------------------
(***************************************************************************)
(* From a labelled input to the chunks that are stored: what the ingest of *)
(* internal/api/ingest.go does between the labels and the scores.  A log   *)
(* or a document goes through module LineChunker, a dialogue through       *)
(* Dialogue and split of internal/chunker/chunker.go; the candidates go    *)
(* through Apply and questionContexts of internal/floor/floor.go, of whose *)
(* loop one step is one iteration.                                         *)
(*                                                                         *)
(* The text of a candidate is the sequence of its lines, or of its         *)
(* paragraphs in a dialogue, each a word.  The content id of a text, a     *)
(* hash, stands for the text itself.  Turn ids are numbers: k is the id    *)
(* "t<k>", 0 is none.                                                      *)
(***************************************************************************)
EXTENDS LineChunker, ItemParser

CONSTANTS
  MaxParagraphs,   \* a turn of more paragraphs is over the size limit
  Separators,      \* the words that the separator pattern matches
  Heartbeats,      \* the lines that match the heartbeat pattern and not its exclusion
  HeartbeatTypes,  \* the types of input that are checked for heartbeats
  DedupTypes       \* the types of input that are checked for repeats

ASSUME FloorAssumption == MaxParagraphs \in Nat

VARIABLES
  turns,   \* the turns of a dialogue
  stage,   \* "request", "refused", "chunking" or "floor"
  cands,   \* the candidates that the chunker made
  next,    \* the candidate that the floor looks at next
  seen,    \* the keys of the candidates that passed the last rule
  kept,    \* the positions of the candidates that are kept
  counts   \* the discard counts

floorVars == << turns, stage, cands, next, seen, kept, counts >>

ItemFormats == {"csv", "xml", "json", "pdf"}

Type == IF format \in {"md", "txt"} \cup ItemFormats THEN "document" ELSE format

\* A text of which nothing but white space is left.
Blank(t) == \A i \in 1 .. Len(t) : t[i] = ""

-----------------------------------------------------------------------------
(* The candidates *)

\* Where a candidate comes from is kept for the properties only.
Unit(t, speaker, id, i) ==
  [text |-> t, speaker |-> speaker, turn |-> id, parent |-> << >>,
   part |-> 0, parts |-> 0, from |-> i]

NonBlank(t) == FlattenSeq([j \in 1 .. Len(t) |-> IF t[j] = "" THEN << >> ELSE << t[j] >>])

\* A unit over the limit becomes its paragraphs; blank ones are dropped.
Split(unit) ==
  IF Len(unit.text) <= MaxParagraphs THEN << unit >>
  ELSE LET pieces == NonBlank(unit.text)
       IN  [i \in 1 .. Len(pieces) |->
              [unit EXCEPT !.text = << pieces[i] >>, !.parent = unit.text,
                           !.part = i, !.parts = Len(pieces)]]

\* A turn without an id gets "t<N>".
TurnId(i) == IF turns[i].id = 0 THEN i ELSE turns[i].id

Dialogue ==
  FlattenSeq([i \in 1 .. Len(turns) |->
                Split(Unit(turns[i].text, turns[i].speaker, TurnId(i), i))])

\* The texts of a log or a document, here all within the limit.
Units(texts) == [i \in 1 .. Len(texts) |-> Unit(texts[i], "", 0, i)]

LinesOf(chunk) == [j \in 1 .. Len(chunk.lines) |-> lines[chunk.lines[j]].word]

\* The labels are part of the text of an item.
ItemText(item) ==
  FlattenSeq([j \in 1 .. Len(item) |->
                (IF item[j].label = "" THEN << >> ELSE << item[j].label >>) \o item[j].words])

ChunkDialogue ==
  /\ stage = "chunking" /\ format = "dialogue"
  /\ cands' = Dialogue
  /\ stage' = "floor"
  /\ UNCHANGED << chunkerVars, parserVars, turns, next, seen, kept, counts >>

ChunkLine ==
  /\ stage = "chunking" /\ format \in {"log", "md", "txt"}
  /\ ChunkerNext
  /\ cands' = IF Done' THEN Units([i \in 1 .. Len(out') |-> LinesOf(out'[i])]) ELSE << >>
  /\ stage' = IF Done' THEN "floor" ELSE "chunking"
  /\ UNCHANGED << parserVars, turns, next, seen, kept, counts >>

\* A step of the parser of a format whose items become the candidates.
ChunkItems ==
  /\ stage = "chunking"
  /\ \/ format = "csv" /\ CsvNext
     \/ format = "xml" /\ XmlNext
     \/ format = "json" /\ JsonNext
     \/ format = "pdf" /\ PdfNext
  /\ cands' = IF Returned' THEN Units([i \in 1 .. Len(items') |-> ItemText(items'[i])]) ELSE << >>
  /\ stage' = IF Returned' THEN "floor" ELSE "chunking"
  /\ UNCHANGED << chunkerVars, turns, next, seen, kept, counts >>

-----------------------------------------------------------------------------
(* The question that a candidate answers *)

\* questionContexts takes adjacent candidates with one turn id for one turn.
IsHead(i) == i = 1 \/ cands[i].turn # cands[i - 1].turn

HeadOf(i) == Max({h \in 1 .. i : IsHead(h)})

\* A split turn is identified by its unsplit text.
Identity(h) == IF cands[h].parent # << >> THEN cands[h].parent ELSE cands[h].text

\* (mutant) the question is the last turn, whoever spoke it.
Question_AnySpeaker(i) ==
  LET earlier == {h \in 1 .. HeadOf(i) - 1 : IsHead(h) /\ ~Blank(cands[h].text)}
  IN  IF earlier = {} THEN << >> ELSE Identity(Max(earlier))

\* The last non-blank turn before it by a different speaker; << >> if there is none.
Question(i) ==
  LET earlier == {h \in 1 .. HeadOf(i) - 1 : /\ IsHead(h)
                                            /\ ~Blank(cands[h].text)
                                            /\ cands[h].speaker # cands[HeadOf(i)].speaker}
  IN  IF earlier = {} THEN << >> ELSE Identity(Max(earlier))

-----------------------------------------------------------------------------
(* The rules *)

Key(i) ==
  IF format = "dialogue" THEN << cands[i].speaker, Question(i), cands[i].text >>
                       ELSE << cands[i].text >>

IsBlank(i) == Blank(cands[i].text)

IsSeparator(i) == Len(cands[i].text) = 1 /\ cands[i].text[1] \in Separators

\* Every line is a heartbeat, the blank ones between paragraphs included.
IsHeartbeat(i) ==
  /\ Type \in HeartbeatTypes
  /\ format = "dialogue" /\ Len(cands[i].text) > 1 => "" \in Heartbeats
  /\ \A j \in 1 .. Len(cands[i].text) : cands[i].text[j] \in Heartbeats

IsRepeat(i) == Type \in DedupTypes /\ Key(i) \in seen

Drop(reason) ==
  /\ counts' = [counts EXCEPT ![reason] = @ + 1]
  /\ next' = next + 1
  /\ UNCHANGED << chunkerVars, parserVars, turns, stage, cands, seen, kept >>

Examining == stage = "floor" /\ next <= Len(cands)

DropBlank == Examining /\ IsBlank(next) /\ Drop("blank")

DropSeparator == Examining /\ ~IsBlank(next) /\ IsSeparator(next) /\ Drop("separator")

DropHeartbeat ==
  /\ Examining
  /\ ~IsBlank(next) /\ ~IsSeparator(next) /\ IsHeartbeat(next)
  /\ Drop("heartbeat")

DropDuplicate ==
  /\ Examining
  /\ ~IsBlank(next) /\ ~IsSeparator(next) /\ ~IsHeartbeat(next) /\ IsRepeat(next)
  /\ Drop("duplicate")

Keep ==
  /\ Examining
  /\ ~IsBlank(next) /\ ~IsSeparator(next) /\ ~IsHeartbeat(next) /\ ~IsRepeat(next)
  /\ seen' = IF Type \in DedupTypes THEN seen \cup {Key(next)} ELSE seen
  /\ kept' = Append(kept, next)
  /\ next' = next + 1
  /\ UNCHANGED << chunkerVars, parserVars, turns, stage, cands, counts >>

FloorInit ==
  /\ BeforeFirstLine
  /\ ParserInit
  /\ cands = << >>
  /\ next = 1
  /\ seen = {}
  /\ kept = << >>
  /\ counts = [r \in {"blank", "separator", "heartbeat", "duplicate"} |-> 0]

FloorNext ==
  \/ ChunkDialogue \/ ChunkLine \/ ChunkItems
  \/ DropBlank \/ DropSeparator \/ DropHeartbeat \/ DropDuplicate \/ Keep

-----------------------------------------------------------------------------
(* What the floor may and must do *)

Kept == {kept[i] : i \in 1 .. Len(kept)}

\* The reference: the question that a turn of the input answers, by the README
\* "the most recent earlier non-blank turn by a different speaker, matched by
\* its text".
Answered(t) ==
  LET earlier == {u \in 1 .. t - 1 : /\ ~Blank(turns[u].text)
                                    /\ turns[u].speaker # turns[t].speaker}
  IN  IF earlier = {} THEN << >> ELSE turns[Max(earlier)].text

\* Two candidates are one memory.
SameMemory(i, j) ==
  /\ cands[i].text = cands[j].text
  /\ format = "dialogue" =>
       /\ cands[i].speaker = cands[j].speaker
       /\ Answered(cands[i].from) = Answered(cands[j].from)

Noise(i) ==
  LET text    == cands[i].text
      words   == {text[j] : j \in 1 .. Len(text)}
      between == IF format = "dialogue" /\ Len(text) > 1 THEN {""} ELSE {}
  IN  \/ words \subseteq {""}
      \/ Len(text) = 1 /\ words \subseteq Separators
      \/ Type \in HeartbeatTypes /\ words \cup between \subseteq Heartbeats

\* The floor keeps exactly what is new: a candidate is dropped if and only if it
\* is noise, or the same memory was kept earlier in the request.  It takes a
\* dialogue of several turns, some of them split or blank, to make the floor
\* confuse the question of one answer with that of another.
KeepsExactlyTheNew ==
  \A i \in 1 .. next - 1 :
    i \in Kept <=>
      /\ ~Noise(i)
      /\ Type \in DedupTypes => ~\E j \in Kept : j < i /\ SameMemory(i, j)

\* README, of the duplicate rule: the key has "the question it answers (the most
\* recent earlier non-blank turn by a different speaker, matched by its text)", and
\* answers to different questions "are both kept".
AnswersKeptByQuestion ==
  format = "dialogue" =>
    \A i \in 1 .. next - 1 : Noise(i) \/ \E j \in Kept : j <= i /\ SameMemory(i, j)

=============================================================================
