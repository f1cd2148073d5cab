---------------------------- MODULE IngestInput ----------------------------
(***************************************************************************)
(* The way of one request from its labels to the chunks that are kept:     *)
(* readIngest and validateLabels of internal/api/ingest.go, and            *)
(* DetectFormat of internal/parser/parser.go, in front of module Floor.    *)
(*                                                                         *)
(* A request is                                                            *)
(*   encoding          "json", "multipart" or "raw"                        *)
(*   body              "ok", "too large" or "undecodable"                  *)
(*   file              whether a multipart request has its file            *)
(*   type, format      the labels, "" for none                             *)
(*   source, session   whether the label is there and not blank            *)
(*   name, media, sniffed  the format that the file name, the media type   *)
(*                     and the content suggest, "" for none                *)
(*   turns, speaker, lines  what a dialogue, and every other input, is     *)
(*                     made of; a speaker is "" for none, " " if blank     *)
(*   content           the tokens of a document of one of the other formats*)
(***************************************************************************)
EXTENDS Floor

CONSTANT Requests

VARIABLES
  request,  \* the request
  reply     \* the status of a refusal; 0: not refused

vars == << chunkerVars, parserVars, floorVars, request, reply >>

Types   == {"dialogue", "document", "log"}
Formats == {"txt", "md", "csv", "xml", "json", "pdf"}

IsBlankText(text) == \A i \in 1 .. Len(text) : text[i].kind = "blank"

-----------------------------------------------------------------------------
(* The labels *)

\* File name before media type before content.
DetectFormat(name, media, sniffed) ==
  IF name # "" THEN name ELSE IF media # "" THEN media ELSE sniffed

\* JSON has neither a file name nor a media type of its own, a raw body no name.
FormatOf(r) ==
  IF r.format # "" THEN r.format
  ELSE DetectFormat(IF r.encoding = "multipart" THEN r.name ELSE "",
                    IF r.encoding = "json" THEN "" ELSE r.media,
                    r.sniffed)

\* What readIngest refuses before it looks at the labels.
Undecodable(r) ==
  \/ r.body = "undecodable"
  \/ r.encoding = "json" /\ r.type = "document" /\ r.format = "pdf"
  \/ r.encoding = "multipart" /\ ~r.file

\* A missing or unknown label of the request.
BadLabels(r) ==
  \/ r.type \notin Types
  \/ ~r.source \/ ~r.session
  \/ r.type # "dialogue" /\ (r.turns # << >> \/ r.speaker # "")
  \/ r.type = "document" /\ FormatOf(r) \notin Formats
  \/ r.type # "dialogue" /\ IsBlankText(r.lines) /\ r.content = << >>

\* A dialogue is sent as turns, or as one speaker and one text.
BadDialogue(r) ==
  /\ r.type = "dialogue"
  /\ \/ r.encoding # "json"
     \/ r.turns # << >> /\ (r.lines # << >> \/ r.speaker # "")
     \/ r.turns = << >> /\ r.speaker \in {"", " "}

\* A turn without a speaker, or with the id of an earlier turn.
BadTurn(r) ==
  /\ r.type = "dialogue"
  /\ \E i \in 1 .. Len(r.turns) :
       \/ r.turns[i].speaker \in {"", " "}
       \/ r.turns[i].id # 0 /\ \E j \in 1 .. i - 1 : r.turns[j].id = r.turns[i].id

TurnsOf(r) ==
  IF r.type # "dialogue" THEN << >>
  ELSE IF r.turns # << >> THEN r.turns
  ELSE << [text |-> [i \in 1 .. Len(r.lines) |-> r.lines[i].word],
           speaker |-> r.speaker, id |-> 0] >>

-----------------------------------------------------------------------------

RefuseRequest ==
  /\ stage = "request"
  /\ \/ request.body = "too large" /\ reply' = 413
     \/ /\ request.body # "too large"
        /\ Undecodable(request) \/ BadLabels(request) \/ BadDialogue(request) \/ BadTurn(request)
        /\ reply' = 400
  /\ stage' = "refused"
  /\ UNCHANGED << chunkerVars, parserVars, turns, cands, next, seen, kept, counts, request >>

AcceptRequest ==
  /\ stage = "request"
  /\ request.body = "ok"
  /\ ~Undecodable(request) /\ ~BadLabels(request) /\ ~BadDialogue(request) /\ ~BadTurn(request)
  /\ stage' = "chunking"
  /\ format' = IF request.type = "document" THEN FormatOf(request) ELSE request.type
  /\ lines' = IF request.type = "dialogue" THEN << >> ELSE request.lines
  /\ content' = request.content
  /\ turns' = TurnsOf(request)
  /\ UNCHANGED << pos, cur, fence, stack, out, at, open, tag, chars, fields, items,
                  cands, next, seen, kept, counts, request, reply >>

IngestInit ==
  /\ FloorInit
  /\ request \in Requests
  /\ reply = 0
  /\ stage = "request"
  /\ format = "" /\ lines = << >> /\ content = << >> /\ turns = << >>

IngestNext ==
  \/ RefuseRequest
  \/ AcceptRequest
  \/ FloorNext /\ UNCHANGED << request, reply >>

IngestSpec == IngestInit /\ [][IngestNext]_vars

-----------------------------------------------------------------------------

\* What the requests are: a document that is accepted has lines if it is Markdown
\* or plain text, and else tokens.
ASSUME RequestsAssumption ==
  \A r \in Requests :
    /\ r.encoding \in {"json", "multipart", "raw"}
    /\ r.body \in {"ok", "too large", "undecodable"}
    /\ r.file \in BOOLEAN /\ r.source \in BOOLEAN /\ r.session \in BOOLEAN
    /\ r.sniffed \in Formats
    /\ {r.name, r.media} \subseteq Formats \cup {""}
    /\ r.lines \in Seq(Lines) /\ r.speaker \in STRING
    /\ r.turns \in Seq([text : Seq(STRING), speaker : STRING, id : Nat])
    /\ r.encoding # "json" => r.turns = << >> /\ r.speaker = ""
    /\ r.content # << >> => r.type = "document" /\ FormatOf(r) \in ItemFormats
    /\ r.type = "document" /\ FormatOf(r) \in ItemFormats => r.lines = << >> \/ Undecodable(r)

=============================================================================
