--------------------------- MODULE MCIngestInput ---------------------------
(***************************************************************************)
(* Every document of up to five lines over blank and plain lines, fences   *)
(* of both kinds and headings of three ranks: five lines hold two nested   *)
(* sections and a return to the outer rank, or a fenced block with a blank *)
(* line and a heading in it.  Every log of up to four lines.  Dialogues of *)
(* up to four turns by two speakers, who say nothing, "yes", a question, a *)
(* rule of dashes or something too long: four turns are what it takes to   *)
(* give one answer to two questions.  And short requests with every        *)
(* combination of good and bad labels.                                     *)
(*                                                                         *)
(* Every xml document of up to nine tokens, well-formed or cut short, over *)
(* a name that is known for a record and one that is not: records in       *)
(* records, four levels deep, and text on both sides of a child.  Every    *)
(* csv document of up to three rows of two cells, array or object of three *)
(* values, and text of four JSON lines; pdf documents of two streams.      *)
(***************************************************************************)
EXTENDS IngestInput

UpTo(n, S) == UNION {[1 .. m -> S] : m \in 1 .. n}

Line(kind, depth, word) == [kind |-> kind, depth |-> depth, word |-> word]

Blanks == << Line("blank", 0, "") >>
Text   == << Line("plain", 0, "text") >>

Documents ==
  UpTo(5, {Line("blank", 0, ""), Line("plain", 0, "text"),
           Line("backticks", 0, "bb"), Line("tildes", 0, "tt"),
           Line("heading", 1, "h1"), Line("heading", 2, "h2"), Line("heading", 3, "h3")})

PlainTexts == UpTo(4, {Line("blank", 0, ""), Line("plain", 0, "text"), Line("plain", 0, "---")})

Logs ==
  UpTo(4, {Line("blank", 0, ""), Line("plain", 0, "---"), Line("plain", 0, "ping"),
           Line("plain", 0, "error"), Line("indented", 0, "at"), Line("indented", 0, "ping")})

Turns(texts, ids) == [text : texts, speaker : {"user", "assistant"}, id : ids]

Words == {<< "" >>, << "yes" >>, << "sure?" >>, << "---" >>, << "yes", "sure?" >>}

Dialogues == UpTo(4, Turns(Words, {0}))

-----------------------------------------------------------------------------

\* The n-th word, so that no two texts of a document are the same.
Nth == << "a", "b", "c", "d", "e", "f", "g", "h", "i", "j", "k", "l", "m", "n" >>

\* Kinds of tokens as a document: texts get a word that is their own.
Tokens(kinds) ==
  [i \in 1 .. Len(kinds) |->
     Token(kinds[i][1], kinds[i][2], IF kinds[i][3] = 1 THEN << Nth[i] >> ELSE << >>)]

XmlKinds == {<< "start", "item", 0 >>, << "start", "x", 0 >>, << "text", "", 1 >>, << "end", "", 0 >>}

DepthAfter == [start |-> 1, text |-> 0, end |-> -1]

\* One more token in an xml document whose root stays open, and no text after another.
Longer(doc) ==
  {[kinds |-> Append(doc.kinds, k), depth |-> doc.depth + DepthAfter[k[1]]] :
     k \in {k \in XmlKinds : /\ doc.depth + DepthAfter[k[1]] > 0
                             /\ k[1] = "text" => Last(doc.kinds)[1] # "text"}}

Unfinished[n \in 1 .. 8] ==
  IF n = 1 THEN {[kinds |-> << << "start", "x", 0 >> >>, depth |-> 1]}
           ELSE UNION {Longer(doc) : doc \in Unfinished[n - 1]}

XmlDocuments ==
  UNION {{Tokens(Append(doc.kinds, << "end", "", 0 >>)) : doc \in {d \in Unfinished[n] : d.depth = 1}} :
           n \in 1 .. 8}
    \cup {Tokens(Append(doc.kinds, << "malformed", "", 0 >>)) : doc \in Unfinished[5]}

CsvDocuments ==
  UpTo(3, {Token("row", "", cells) : cells \in UpTo(2, {"", "a", "b"})} \cup {Token("bad row", "", << "a" >>)})

Headed(head, kinds) == {Tokens(<< << head, "", 0 >> >> \o k) : k \in kinds}

JsonDocuments ==
  LET values == {<< "string", "", 0 >>, << "string", "", 1 >>, << "other", "", 1 >>}
  IN  Headed("array", UpTo(3, values))
        \cup Headed("object", UpTo(3, values \cup {<< "beside", "", 1 >>}))

JsonLineDocuments ==
  LET kinds == {<< "other", "", 1 >>, << "blank", "", 0 >>, << "long", "", 1 >>, << "bad", "", 1 >>}
  IN  Headed("lines", {k \in UpTo(4, kinds) : Cardinality({i \in 1 .. Len(k) : k[i][1] # "blank"}) > 1})

\* Two streams, the second of which may be cut off, with a text between them.
PdfDocuments ==
  LET shown    == << "string", "Tj", 1 >>
      bodies   == {<< >>} \cup UpTo(2, {<< "BT", "", 0 >>, << "ET", "", 0 >>, shown})
                    \cup {<< << "BT", "", 0 >>, << "array", "TJ", 1 >>, << "string", "Do", 1 >> >>}
      stream   == {<< "stream", op, 0 >> : op \in {"plain", "flate", "corrupt"}}
      end      == << "endstream", "", 0 >>
      first    == {<< << "header", "", 0 >> >>, << << "op", "", 0 >> >>}
  IN  {Tokens(f \o << s >> \o b \o << end >> \o between \o << t >> \o c \o last) :
         f \in first, s \in stream, b \in bodies, between \in {<< >>, << shown >>},
         t \in {<< "stream", "plain", 0 >>}, c \in bodies, last \in {<< >>, << end >>}}

-----------------------------------------------------------------------------

\* Well-formed requests, with some lines, turns or tokens.
WellFormed(encoding, type, declared, bodies, dialogues, contents) ==
  [encoding : {encoding}, body : {"ok"}, file : {TRUE}, type : {type}, format : {declared},
   source : {TRUE}, session : {TRUE}, name : {""}, media : {""}, sniffed : {"txt"},
   turns : dialogues, speaker : {""}, lines : bodies, content : contents]

None == {<< >>}

Structured(declared, contents) == WellFormed("multipart", "document", declared, None, None, contents)

Labelled ==
  WellFormed("multipart", "document", "md", Documents, None, None)
    \cup WellFormed("json", "document", "txt", PlainTexts, None, None)
    \cup WellFormed("raw", "log", "", Logs, None, None)
    \cup WellFormed("json", "dialogue", "", None, Dialogues, None)
    \cup Structured("xml", XmlDocuments) \cup Structured("csv", CsvDocuments)
    \cup Structured("json", JsonDocuments \cup JsonLineDocuments) \cup Structured("pdf", PdfDocuments)

\* Some turns share their id, some have no speaker.
FewTurns == {<< >>} \cup UpTo(2, [text : {<< "yes" >>}, speaker : {"user", " "}, id : {0, 1}])

Unlabelled ==
  {r \in [encoding : {"json", "multipart", "raw"}, body : {"ok", "too large", "undecodable"},
          file : BOOLEAN, type : {"", "dialogue", "document", "log", "memo"},
          format : {"", "pdf", "md", "doc"}, source : BOOLEAN, session : BOOLEAN,
          name : {"", "md"}, media : {"", "txt"}, sniffed : {"md"},
          turns : {<< >>}, speaker : {""}, lines : {Blanks, Text}, content : {<< >>}] :
     ~(r.type = "document" /\ r.format = "pdf" /\ r.encoding # "json")}
    \cup
  [encoding : {"json"}, body : {"ok"}, file : {TRUE}, type : {"dialogue", "log"}, format : {""},
   source : {TRUE}, session : {TRUE}, name : {""}, media : {""}, sniffed : {"txt"},
   turns : FewTurns, speaker : {"", " ", "user"}, lines : {<< >>, Blanks, Text}, content : None]

MCRequests == Labelled \cup Unlabelled

\* JSON, by lines, that a scanner reads.
MCJsonLines == Structured("json", JsonLineDocuments)

\* Turns that the caller called "t2" or "t4", or gave no id.
MCNamedTurns ==
  WellFormed("json", "dialogue", "", None,
             UpTo(4, Turns({<< "yes" >>, << "sure?" >>, << "really?" >>}, {0, 2, 4})), None)

MCRecordTags     == {"item"}
MCSeparators     == {"---"}
MCHeartbeats     == {"ping"}
MCHeartbeatTypes == {"log"}
MCDedupTypes     == {"dialogue", "document", "log"}

=============================================================================
