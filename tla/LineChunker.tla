---------------------------- MODULE LineChunker ----------------------------
(***************************************************************************)
(* Chunking line by line: Log, markdown and paragraphs of                  *)
(* internal/chunker/chunker.go.                                            *)
(*                                                                         *)
(* A line is what the two loops tell apart, [kind, depth], where depth is  *)
(* that of a heading, and a word that stands for its text.  A chunk is the *)
(* sequence of the numbers of its lines, with the numbers of the headings  *)
(* in its path; a chunk that is too large is split by Split of module      *)
(* Floor.  One step is one iteration of the loops of Log and markdown.     *)
(* Modules Floor and IngestInput compose this one with what the ingest     *)
(* does after it and before it.                                            *)
(***************************************************************************)
EXTENDS Naturals, FiniteSets, SequencesExt

Kinds == {"blank", "plain", "indented", "heading", "backticks", "tildes"}
Lines == [kind : Kinds, depth : 0 .. 6, word : STRING]

VARIABLES
  format,  \* "md", "txt" or "log"
  lines,   \* the argument
  pos,     \* the line that is looked at next
  cur,     \* the lines of the chunk that is being collected
  fence,   \* Markdown: the fence that is open, "" if none is
  stack,   \* Markdown: the headings that enclose the next line
  out      \* the chunks emitted so far

chunkerVars == << format, lines, pos, cur, fence, stack, out >>

Reading == pos <= Len(lines)
Kind    == lines[pos].kind

Chunk(numbers, path) == [lines |-> numbers, path |-> path]

\* (mutant) the collected lines are not emitted.
Flushed_Forgets == out

Flushed == IF cur = << >> THEN out ELSE Append(out, Chunk(cur, stack))

Collect ==
  /\ cur' = Append(cur, pos)
  /\ pos' = pos + 1

-----------------------------------------------------------------------------
(* Log *)

LogBlank ==
  /\ format = "log" /\ Reading /\ Kind = "blank"
  /\ out' = Append(Flushed, Chunk(<< pos >>, << >>))
  /\ cur' = << >>
  /\ pos' = pos + 1
  /\ UNCHANGED << format, lines, fence, stack >>

\* An indented line stays with the entry above it, if there is one.
LogContinuation ==
  /\ format = "log" /\ Reading /\ Kind = "indented" /\ cur # << >>
  /\ Collect
  /\ UNCHANGED << format, lines, fence, stack, out >>

LogEntry ==
  /\ format = "log" /\ Reading
  /\ Kind # "blank"
  /\ Kind = "indented" => cur = << >>
  /\ out' = Flushed
  /\ cur' = << pos >>
  /\ pos' = pos + 1
  /\ UNCHANGED << format, lines, fence, stack >>

-----------------------------------------------------------------------------
(* markdown *)

\* (mutant) any fence closes the one that is open.
Fenced_AnyFenceCloses ==
  /\ format = "md" /\ Reading /\ fence # ""
  /\ Collect
  /\ fence' = IF Kind \in {"backticks", "tildes"} THEN "" ELSE fence
  /\ UNCHANGED << format, lines, stack, out >>

\* Inside a fence every line is collected; a line that starts like the fence closes it.
Fenced ==
  /\ format = "md" /\ Reading /\ fence # ""
  /\ Collect
  /\ fence' = IF Kind = fence THEN "" ELSE fence
  /\ UNCHANGED << format, lines, stack, out >>

OpenFence ==
  /\ format = "md" /\ Reading /\ fence = "" /\ Kind \in {"backticks", "tildes"}
  /\ Collect
  /\ fence' = Kind
  /\ UNCHANGED << format, lines, stack, out >>

EndParagraph ==
  /\ format = "md" /\ Reading /\ fence = "" /\ Kind = "blank"
  /\ out' = Flushed
  /\ cur' = << >>
  /\ pos' = pos + 1
  /\ UNCHANGED << format, lines, fence, stack >>

\* (mutant) only the innermost heading is closed.
Enclosing_PopsOne(depth) ==
  IF stack # << >> /\ lines[Last(stack)].depth >= depth THEN Front(stack) ELSE stack

\* The headings left when those of this depth or deeper have been closed: the
\* loop pops from the end and stops at the first that is less deep.
Enclosing(depth) ==
  SubSeq(stack, 1, Max({0} \cup {i \in 1 .. Len(stack) : lines[stack[i]].depth < depth}))

\* A heading is a chunk of its own, under the headings around it.
Heading ==
  /\ format = "md" /\ Reading /\ fence = "" /\ Kind = "heading"
  /\ out' = Append(Flushed, Chunk(<< pos >>, Enclosing(lines[pos].depth)))
  /\ stack' = Append(Enclosing(lines[pos].depth), pos)
  /\ cur' = << >>
  /\ pos' = pos + 1
  /\ UNCHANGED << format, lines, fence >>

Paragraph ==
  /\ format = "md" /\ Reading /\ fence = "" /\ Kind \in {"plain", "indented"}
  /\ Collect
  /\ UNCHANGED << format, lines, fence, stack, out >>

-----------------------------------------------------------------------------
(* txt *)

Solid(n)   == lines[n].kind # "blank"
FirstOf(n) == Solid(n) /\ (n > 1 => ~Solid(n - 1))
LastOf(n)  == Max({m \in n .. Len(lines) : \A k \in n .. m : Solid(k)})

\* The paragraph that begins at a line, if one does.
ParagraphAt(n) ==
  IF FirstOf(n) THEN << Chunk([j \in 1 .. LastOf(n) - n + 1 |-> n + j - 1], << >>) >>
                ELSE << >>

\* A plain text is split on its blank lines, all at once.
Paragraphs == FlattenSeq([n \in 1 .. Len(lines) |-> ParagraphAt(n)])

SplitParagraphs ==
  /\ format = "txt" /\ pos = 1
  /\ out' = Paragraphs
  /\ pos' = Len(lines) + 2
  /\ UNCHANGED << format, lines, cur, fence, stack >>

-----------------------------------------------------------------------------

\* The last flush of the two loops.
Finish ==
  /\ format \in {"md", "log"} /\ pos = Len(lines) + 1
  /\ out' = Flushed
  /\ cur' = << >>
  /\ pos' = pos + 1
  /\ UNCHANGED << format, lines, fence, stack >>

BeforeFirstLine ==
  /\ pos = 1
  /\ cur = << >>
  /\ fence = ""
  /\ stack = << >>
  /\ out = << >>

ChunkerNext ==
  \/ LogBlank \/ LogContinuation \/ LogEntry
  \/ Fenced \/ OpenFence \/ EndParagraph \/ Heading \/ Paragraph
  \/ SplitParagraphs
  \/ Finish

-----------------------------------------------------------------------------
(* What makes the chunks right, against definitions that do not depend on  *)
(* the state of the loop                                                   *)

Done == pos = Len(lines) + 2

\* The fence that is open after each of the first lines.
FenceAfter[n \in 0 .. Len(lines)] ==
  IF n = 0 \/ format # "md" THEN ""
  ELSE IF FenceAfter[n - 1] # ""
         THEN IF lines[n].kind = FenceAfter[n - 1] THEN "" ELSE FenceAfter[n - 1]
         ELSE IF lines[n].kind \in {"backticks", "tildes"} THEN lines[n].kind ELSE ""

\* A line that belongs to a fenced block, but does not begin it.
InFence(n) == FenceAfter[n - 1] # ""

IsHeading(n) == format = "md" /\ lines[n].kind = "heading" /\ ~InFence(n)

\* The lines that must be in a chunk.
Content ==
  {n \in 1 .. Len(lines) : format = "log" \/ lines[n].kind # "blank" \/ InFence(n)}

\* Every line of content is in exactly one chunk, and lines keep their order,
\* across all the ways in which a chunk may be begun and ended.
LinesOnceInOrder ==
  Done =>
    LET all == FlattenSeq([i \in 1 .. Len(out) |-> out[i].lines]) IN
    /\ ToSet(all) = Content
    /\ \A i \in 1 .. Len(all) - 1 : all[i] < all[i + 1]

\* A new chunk begins exactly where the README has it begin: in a log at a blank
\* line, after one, and at a line that is not indented; in a document after a
\* blank line, in Markdown also at and after a heading, but never inside a fenced
\* block.
Begins(n) ==
  \/ n = 1
  \/ /\ format = "log"
     /\ \/ lines[n].kind # "indented"
        \/ lines[n - 1].kind = "blank"
  \/ /\ format \in {"md", "txt"}
     /\ ~InFence(n)
     /\ IsHeading(n) \/ IsHeading(n - 1) \/ (lines[n - 1].kind = "blank" /\ ~InFence(n - 1))

ChunksBeginRight ==
  Done => {out[i].lines[1] : i \in 1 .. Len(out)} = {n \in Content : Begins(n)}

\* The headings around line n: those before it that no later heading of the
\* same or a higher rank has closed, nor n itself, if it is one.
Around(n) ==
  {h \in 1 .. n - 1 :
     /\ IsHeading(h)
     /\ \A g \in h + 1 .. n : IsHeading(g) => lines[g].depth > lines[h].depth}

\* The heading path of a chunk names the sections it is in, outermost first,
\* for any jumps between the ranks of the headings before it.
PathIsEnclosing ==
  format = "md" =>
    \A i \in 1 .. Len(out) :
      LET path == out[i].path IN
      /\ ToSet(path) = Around(out[i].lines[1])
      /\ \A j \in 1 .. Len(path) - 1 : path[j] < path[j + 1]

=============================================================================
