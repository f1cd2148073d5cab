----------------------------- MODULE ItemParser -----------------------------
(***************************************************************************)
(* The items of a csv, xml, json or pdf document: ParseCSV, ParseXML,      *)
(* ParseJSON and ParsePDF of internal/parser, which Document of the chunker*)
(* makes a candidate of each.                                              *)
(*                                                                         *)
(* A document is the sequence of the tokens that the parser of its format  *)
(* reads, [is, op, words]:                                                 *)
(*   xml   "start" and "end" of an element (op: its name), "text",         *)
(*         "malformed" where the decoder gives up                          *)
(*   csv   "row" (words: its cells, "" if blank), "bad row"                *)
(*   json  first "array", "object" (of an array called items and what is   *)
(*         "beside" it) or "lines"; then the values, a "string" (without   *)
(*         words if blank) or an "other"; lines are "other", "blank",      *)
(*         "long" (a value of 64 KiB or more) or "bad"                     *)
(*   pdf   first "header", or not; "stream" (op: "plain", "flate",         *)
(*         "corrupt"), "endstream", "BT", "ET", "string" and "array" with  *)
(*         the operator that follows them, "op" for any other operator     *)
(* A word stands for a piece of text; how pieces are joined is left out.   *)
(* One step is one iteration of the loops of ParseXML, of the lines of     *)
(* ParseJSON and of extractTextFromStream.  What ParseTXT makes of a       *)
(* document that is given to it after all is taken as one item.            *)
(***************************************************************************)
EXTENDS Naturals, FiniteSets, SequencesExt

CONSTANT RecordTags  \* the names that isRecordBoundary knows

VARIABLES
  content,  \* the tokens
  at,       \* the token that is read next; past the end + 1: the parser has returned
  open,     \* xml: elementStack; pdf: whether a text object is open, << "BT" >> if so
  tag,      \* xml: currentTag; pdf: "direct" in the pass over the raw file
  chars,    \* xml: currentText; pdf: the text of the stream so far
  fields,   \* xml: itemFields; json: the lines so far
  items     \* the chunks so far, each a sequence of [label, words]

parserVars == << content, at, open, tag, chars, fields, items >>

Token(is, op, words) == [is |-> is, op |-> op, words |-> words]

Field(label, words) == [label |-> label, words |-> words]

AllRead  == at = Len(content) + 1
Returned == at = Len(content) + 2
Here     == content[at]

WordsOf(tokens) == FlattenSeq([i \in 1 .. Len(tokens) |-> tokens[i].words])

\* The document as it is, in one item.
Whole == << << Field("", WordsOf(content)) >> >>

ParserReturns(result) ==
  /\ items' = result
  /\ at' = Len(content) + 2

-----------------------------------------------------------------------------
(* ParseXML *)

XmlStart ==
  /\ ~AllRead /\ Here.is = "start"
  /\ open' = Append(open, Here.op)
  /\ tag' = Here.op
  /\ chars' = << >>
  /\ at' = at + 1
  /\ UNCHANGED << content, fields, items >>

XmlText ==
  /\ ~AllRead /\ Here.is = "text"
  /\ chars' = chars \o Here.words
  /\ at' = at + 1
  /\ UNCHANGED << content, open, tag, fields, items >>

\* The fields after the end of an element: what was read last gets the tag that
\* was opened last.
Closed == IF chars # << >> /\ tag # "" THEN Append(fields, Field(tag, chars)) ELSE fields

\* (mutant) only the names that isRecordBoundary knows end a record.
EndsRecord_KnownTagsOnly == Last(open) \in RecordTags

\* The end of a record: of an element that is called like one, or of a child of
\* the root.
EndsRecord == Last(open) \in RecordTags \/ Len(open) = 2

XmlEnd ==
  /\ ~AllRead /\ Here.is = "end"
  /\ IF EndsRecord /\ Closed # << >>
       THEN items' = Append(items, Closed) /\ fields' = << >>
       ELSE fields' = Closed /\ UNCHANGED items
  /\ open' = Front(open)
  /\ chars' = << >>
  /\ at' = at + 1
  /\ UNCHANGED << content, tag >>

XmlMalformed ==
  /\ ~AllRead /\ Here.is = "malformed"
  /\ ParserReturns(Whole)
  /\ UNCHANGED << content, open, tag, chars, fields >>

XmlReturn ==
  /\ AllRead
  /\ LET all == IF fields # << >> THEN Append(items, fields) ELSE items
     IN  ParserReturns(IF all = << >> THEN Whole ELSE all)
  /\ UNCHANGED << content, open, tag, chars, fields >>

XmlNext == XmlStart \/ XmlText \/ XmlEnd \/ XmlMalformed \/ XmlReturn

-----------------------------------------------------------------------------
(* ParseCSV *)

Rows == content

\* The non-blank cells of a row, under the headers of their columns.
LabelledRow(row) ==
  LET header(i) == IF i <= Len(Rows[1].words) /\ Rows[1].words[i] # "" THEN Rows[1].words[i] ELSE "col"
      cells == [i \in 1 .. Len(row.words) |-> Field(header(i), << row.words[i] >>)]
  IN  SelectSeq(cells, LAMBDA c : c.words # << "" >>)

\* The first row is the header, unless it is the only one; a row that the reader
\* rejects makes lines of all of them.
CsvItems ==
  LET broken == \E i \in 1 .. Len(Rows) : Rows[i].is = "bad row"
      whole  == [i \in 1 .. Len(Rows) |-> << Field("", Rows[i].words) >>]
  IN  IF broken THEN whole
      ELSE IF Len(Rows) = 1 THEN SelectSeq(whole, LAMBDA item : item[1].words # << "" >>)
      ELSE SelectSeq([i \in 1 .. Len(Rows) - 1 |-> LabelledRow(Rows[i + 1])],
                     LAMBDA item : item # << >>)

CsvNext ==
  /\ at = 1
  /\ ParserReturns(CsvItems)
  /\ UNCHANGED << content, open, tag, chars, fields >>

-----------------------------------------------------------------------------
(* ParseJSON *)

ItemOf(token) == << Field("", token.words) >>

\* An array, or the array called items of an object: each value but blank strings.
JsonValues ==
  LET values == SelectSeq(Tail(content), LAMBDA t : t.is = "other" \/ (t.is = "string" /\ t.words # << >>))
  IN  /\ at = 1 /\ Here.is \in {"array", "object"}
      /\ ParserReturns(IF values = << >> THEN Whole
                       ELSE [i \in 1 .. Len(values) |-> ItemOf(values[i])])
      /\ UNCHANGED << content, open, tag, chars, fields >>

JsonLines ==
  /\ at = 1 /\ Here.is = "lines"
  /\ at' = 2
  /\ UNCHANGED << content, open, tag, chars, fields, items >>

JsonLine ==
  /\ at > 1 /\ ~AllRead /\ Here.is \in {"other", "blank"}
  /\ fields' = IF Here.is = "blank" THEN fields ELSE Append(fields, ItemOf(Here))
  /\ at' = at + 1
  /\ UNCHANGED << content, open, tag, chars, items >>

\* A line that is no JSON: the text is no sequence of lines after all.
JsonBadLine ==
  /\ at > 1 /\ ~AllRead /\ Here.is = "bad"
  /\ ParserReturns(Whole)
  /\ UNCHANGED << content, open, tag, chars, fields >>

\* The scanner has no more lines, or stops without an error that anybody looks at
\* in front of one that exceeds its buffer.
JsonReturn ==
  /\ at > 1
  /\ AllRead \/ (at <= Len(content) /\ Here.is = "long")
  /\ ParserReturns(IF fields = << >> THEN Whole ELSE fields)
  /\ UNCHANGED << content, open, tag, chars, fields >>

JsonNext == JsonValues \/ JsonLines \/ JsonLine \/ JsonBadLine \/ JsonReturn

-----------------------------------------------------------------------------
(* ParsePDF *)

InStream == \E i \in 1 .. at - 1 : /\ content[i].is = "stream"
                                   /\ \A j \in i .. at - 1 : content[j].is # "endstream"

\* The file is cut at its last "endstream": a stream that has none is not read.
Complete == \E i \in at .. Len(content) : content[i].is = "endstream"

\* The pass over the raw file, when no stream had any text, sees every token that
\* is not compressed; the first pass those in a complete stream that decompresses.
Visible ==
  LET streams == {i \in 1 .. at - 1 : content[i].is = "stream"}
      op      == IF streams = {} THEN "plain" ELSE content[Max(streams)].op
  IN  IF tag = "direct" THEN ~InStream \/ op = "plain"
                        ELSE InStream /\ Complete /\ op # "corrupt"

PdfNoHeader ==
  /\ at = 1 /\ Here.is # "header"
  /\ ParserReturns(Whole)
  /\ UNCHANGED << content, open, tag, chars, fields >>

PdfHeader ==
  /\ at = 1 /\ Here.is = "header"
  /\ at' = 2
  /\ UNCHANGED << content, open, tag, chars, fields, items >>

\* A text object begins or ends.
PdfText ==
  /\ at > 1 /\ ~AllRead /\ Here.is \in {"BT", "ET"}
  /\ open' = IF ~Visible THEN open ELSE IF Here.is = "BT" THEN << "BT" >> ELSE << >>
  /\ at' = at + 1
  /\ UNCHANGED << content, tag, chars, fields, items >>

Shows(token) ==
  \/ token.is = "string" /\ token.op \in {"Tj", "'", "\""}
  \/ token.is = "array" /\ token.op = "TJ"

\* A string or an array is text if it is in a text object and its operator shows it.
PdfOperand ==
  /\ at > 1 /\ ~AllRead /\ Here.is \in {"string", "array", "op"}
  /\ chars' = IF Visible /\ open # << >> /\ Shows(Here) THEN chars \o Here.words ELSE chars
  /\ at' = at + 1
  /\ UNCHANGED << content, open, tag, fields, items >>

\* Streams are read one by one, each from a fresh state, and give a section each.
PdfStream ==
  /\ at > 1 /\ ~AllRead /\ Here.is \in {"stream", "endstream"}
  /\ IF tag = "direct"
       THEN UNCHANGED << open, chars, items >>
       ELSE /\ open' = << >>
            /\ chars' = << >>
            /\ items' = IF chars = << >> THEN items ELSE Append(items, << Field("", chars) >>)
  /\ at' = at + 1
  /\ UNCHANGED << content, tag, fields >>

\* No stream had any text: the raw file is read, and if there is none in it
\* either, the only item says so.
PdfDirect ==
  /\ at > 1 /\ AllRead /\ tag # "direct" /\ items = << >>
  /\ tag' = "direct"
  /\ open' = << >>
  /\ at' = 2
  /\ UNCHANGED << content, chars, fields, items >>

PdfReturn ==
  /\ at > 1 /\ AllRead
  /\ tag = "direct" \/ items # << >>
  /\ ParserReturns(IF tag # "direct" THEN items
                   ELSE << << Field("", IF chars = << >> THEN << "no text" >> ELSE chars) >> >>)
  /\ UNCHANGED << content, open, tag, chars, fields >>

PdfNext ==
  PdfNoHeader \/ PdfHeader \/ PdfText \/ PdfOperand \/ PdfStream \/ PdfDirect \/ PdfReturn

-----------------------------------------------------------------------------
(* What makes the items right, against definitions that look at the whole  *)
(* document and not at the state of a loop                                 *)

ParserInit ==
  /\ at = 1
  /\ tag = ""
  /\ open = << >> /\ chars = << >> /\ fields = << >> /\ items = << >>

Is(i, kinds) == content[i].is \in kinds

Positions(kinds) == {i \in 1 .. Len(content) : Is(i, kinds)}

\* The parser of the format gives up.
Rejected ==
  \/ Positions({"malformed", "bad row", "bad"}) # {}
  \/ Positions({"BT", "stream"}) # {} /\ ~Is(1, {"header"})

\* A token that holds text of the document; the first of several rows is a header.
IsText(i) ==
  \/ Is(i, {"text", "beside", "long"})
  \/ Is(i, {"string", "other"}) /\ content[i].op = "" /\ content[i].words # << >>
  \/ Shows(content[i])
  \/ Is(i, {"row"}) /\ ToSet(content[i].words) # {""} /\ (i = 1 => Len(content) = 1)

\* The stream that position i is in; 0 if none.
StreamAt(i) ==
  LET last == Max({0} \cup {s \in Positions({"stream"}) : s < i})
  IN  IF \E e \in Positions({"endstream"}) : last < e /\ e < i THEN 0 ELSE last

\* The texts that the formats are made for: the only content of an element; a
\* value of reasonable length, with nothing but such values around; a string that
\* is shown in a text object of a stream that can be read.
Plain(i) ==
  /\ ~Is(i, {"beside", "long"})
  /\ Is(i, {"text"}) => Is(i - 1, {"start"}) /\ Is(i + 1, {"end"})
  /\ Shows(content[i]) =>
       /\ StreamAt(i) # 0 /\ content[StreamAt(i)].op # "corrupt"
       /\ \E e \in Positions({"endstream"}) : e > i
       /\ \E b \in StreamAt(i) .. i : Is(b, {"BT"}) /\ ~\E e \in b .. i : Is(e, {"ET"})

\* The elements that are open in front of a position.
Depth(i) ==
  Cardinality({j \in Positions({"start"}) : j < i}) - Cardinality({j \in Positions({"end"}) : j < i})

\* An element ends that is called like a record, or is a child of the root.
RecordEnd(e) ==
  /\ Is(e, {"end"})
  /\ LET begin == Max({s \in Positions({"start"}) : s < e /\ Depth(s) = Depth(e) - 1})
     IN  content[begin].op \in RecordTags \/ Depth(e) = 2

\* Two texts belong to different records, values, rows or streams.
Apart(i, j) ==
  \/ ~Is(i, {"text"}) /\ ~Shows(content[i])
  \/ \E e \in i .. j : Is(e, {"endstream"}) \/ RecordEnd(e)

Texts == SetToSortSeq({i \in 1 .. Len(content) : IsText(i)}, <)

\* The texts, one sequence for each item that there should be.
TextsByItem ==
  LET first(k) == k = 1 \/ Apart(Texts[k - 1], Texts[k])
      starts   == SetToSortSeq({k \in 1 .. Len(Texts) : first(k)}, <)
      end(n)   == IF n = Len(starts) THEN Len(Texts) ELSE starts[n + 1] - 1
  IN  [n \in 1 .. Len(starts) |-> SubSeq(Texts, starts[n], end(n))]

\* The text of some positions, without the blank cells.
TextOf(positions) ==
  SelectSeq(WordsOf([k \in 1 .. Len(positions) |-> content[positions[k]]]), LAMBDA w : w # "")

ItemWords == FlattenSeq([k \in 1 .. Len(items) |-> WordsOf(items[k])])

\* Every text of a document becomes part of exactly one item, in its order, each
\* item is one record, value, row or stream and not a mixture of two, and a text
\* of an element has its name; when the parser gives up, nothing is lost.  This
\* is for documents of the kind that a format is made for (Plain): it depends on
\* state that the parsers carry across elements and records of any nesting.
ItemsFaithful ==
  Returned /\ (\A i \in 1 .. Len(content) : IsText(i) => Plain(i)) =>
    IF Rejected \/ Texts = << >> THEN ToSet(TextOf(Texts)) \subseteq ToSet(ItemWords)
    ELSE /\ [k \in 1 .. Len(items) |-> SelectSeq(WordsOf(items[k]), LAMBDA w : w # "")]
              = [n \in 1 .. Len(TextsByItem) |-> TextOf(TextsByItem[n])]
         /\ \A k \in 1 .. Len(items) : \A j \in 1 .. Len(items[k]) :
              \A i \in Positions({"text"}) :
                content[i].words = items[k][j].words => items[k][j].label = content[i - 1].op

\* chunker.go: "the chunker itself never drops anything".
ChunkerDropsNothing == Returned => ToSet(TextOf(Texts)) \subseteq ToSet(ItemWords)

=============================================================================
