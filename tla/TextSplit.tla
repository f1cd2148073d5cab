----------------------------- MODULE TextSplit -----------------------------
(***************************************************************************)
(* Splitting an oversized paragraph: splitAtSemanticBoundaries of          *)
(* internal/parser/txt.go, which the chunker calls as SplitAtBoundaries.   *)
(*                                                                         *)
(* A text is a sequence of bytes, and a byte is what the function tells    *)
(* apart: a space or tab " ", a line break "n", sentence punctuation ".",  *)
(* other delimiters ",", the first byte of a rune of several bytes "r",    *)
(* one of its further bytes "c", and "a" for everything else.  One step is *)
(* one iteration of the loop.                                              *)
(***************************************************************************)
EXTENDS Naturals, SequencesExt

CONSTANTS
  Texts,    \* the paragraphs that may be split; callers trim them first
  Limits    \* the values of maxBytes

Bytes  == {" ", "n", ".", ",", "r", "c", "a"}
Spaces == {" ", "n"}

ASSUME TextAssumption ==
  /\ \A text \in Texts :
       /\ text \in Seq(Bytes)
       /\ text # << >> => text[1] \notin Spaces /\ text[Len(text)] \notin Spaces
  /\ Limits \subseteq Nat \ {0}

VARIABLES
  text,       \* the argument
  maxBytes,   \* the argument
  remaining,  \* what is not split yet
  chunks,     \* the pieces so far
  done        \* the function has returned

splitVars == << text, maxBytes, remaining, chunks, done >>

-----------------------------------------------------------------------------

TrimSpace(s) ==
  LET solid == {i \in 1 .. Len(s) : s[i] \notin Spaces}
  IN  IF solid = {} THEN << >> ELSE SubSeq(s, Min(solid), Max(solid))

\* Every rule below gives the number of bytes before the cut; 0: it finds none.

\* Before the last byte of these kinds within the limit.
BeforeLast(kinds) == Max({0} \cup {i \in 0 .. maxBytes - 1 : remaining[i + 1] \in kinds})

\* After the last sentence punctuation that a space follows within the limit.
SentenceEnd ==
  Max({0} \cup {i \in 1 .. maxBytes - 1 : remaining[i] = "." /\ remaining[i + 1] = " "})

\* Before the first space up to a fifth past the limit.
LookAhead ==
  LET limit == maxBytes + maxBytes \div 5
      last  == IF limit < Len(remaining) THEN limit ELSE Len(remaining)
      found == {i \in maxBytes .. last - 1 : remaining[i + 1] \in Spaces}
  IN  IF found = {} THEN 0 ELSE Min(found)

\* (mutant) the text is cut at the limit, wherever that is.
HardCut_AnyByte == maxBytes

\* (mutant) without the fallback for a limit shorter than the rune.
HardCut_NoFallback == Max({i \in 0 .. maxBytes : remaining[i + 1] # "c"})

\* At the limit, or before the rune that crosses it, if that is not the first.
HardCut ==
  LET starts == {i \in 1 .. maxBytes : remaining[i + 1] # "c"}
  IN  IF starts = {} THEN maxBytes ELSE Max(starts)

\* (mutant) the byte at the cut is taken for a separator and skipped.
Rest_SkipsSeparator(k) == TrimSpace(SubSeq(remaining, k + 2, Len(remaining)))

\* What is left after a cut.
Rest(k) == TrimSpace(SubSeq(remaining, k + 1, Len(remaining)))

\* The first rule that finds a cut decides.
CutAt ==
  LET rules == << BeforeLast({"n"}), SentenceEnd, BeforeLast({" "}), BeforeLast({","}),
                  LookAhead, HardCut >>
  IN  rules[Min({i \in 1 .. 6 : rules[i] > 0} \cup {6})]

WithPiece(piece) == IF piece = << >> THEN chunks ELSE Append(chunks, piece)

-----------------------------------------------------------------------------

SplitInit ==
  /\ text \in Texts
  /\ maxBytes \in Limits
  /\ remaining = text
  /\ chunks = << >>
  /\ done = FALSE

SplitOnce ==
  /\ ~done
  /\ Len(remaining) > maxBytes
  /\ \E cut \in {CutAt} :
       /\ chunks' = WithPiece(TrimSpace(SubSeq(remaining, 1, cut)))
       /\ remaining' = Rest(cut)
  /\ UNCHANGED << text, maxBytes, done >>

Return ==
  /\ ~done
  /\ Len(remaining) <= maxBytes
  /\ chunks' = WithPiece(remaining)
  /\ remaining' = << >>
  /\ done' = TRUE
  /\ UNCHANGED << text, maxBytes >>

SplitNext == SplitOnce \/ Return

SplitSpec == SplitInit /\ [][SplitNext]_splitVars

-----------------------------------------------------------------------------
(* What makes a split correct *)

\* Nothing but white space at the cuts is lost, and nothing is reordered or
\* repeated, whichever rules the cuts came from: an iteration adds at most one
\* piece, and what remained is that piece, white space, and what remains.
NothingLost ==
  [][~done =>
     LET added == SubSeq(chunks', Len(chunks) + 1, Len(chunks'))
         piece == IF added = << >> THEN << >> ELSE added[1]
         rest  == Len(remaining) - Len(remaining')
     IN  /\ Len(added) <= 1
         /\ chunks' = chunks \o added
         /\ piece = SubSeq(remaining, 1, Len(piece))
         /\ remaining' = SubSeq(remaining, rest + 1, Len(remaining))
         /\ \A i \in 1 .. rest : i > Len(piece) => remaining[i] \in Spaces]_splitVars

\* The text is UTF-8: a rune has up to three further bytes behind its first.
WholeRunes(s) ==
  /\ s # << >> => s[1] # "c"
  /\ \A i \in 2 .. Len(s) : s[i] = "c" => s[i - 1] \in {"r", "c"}
  /\ \A i \in 1 .. Len(s) - 3 : \E j \in i .. i + 3 : s[j] # "c"

\* A word that the look-ahead takes to its end: there was no cut before the limit.
TakenWhole(piece) ==
  /\ Len(piece) < maxBytes + maxBytes \div 5
  /\ \A k \in 1 .. Len(piece) : piece[k] \notin Spaces
  /\ \A k \in 2 .. maxBytes : piece[k] # ","

\* Whichever rule made the cut, a piece is not blank, has no more bytes than the
\* limit unless it is a single word that nothing else could cut, and begins with a
\* whole rune, unless the limit is shorter than a rune.  That the limit holds
\* without such an exception is what txt.go:206, chunker.go:48 and README:237 say,
\* and chunker_test.go:79 fails on a longer piece; but the look-ahead of txt.go:54
\* cuts at a space behind the limit before the text is cut at the limit.
PieceSound(piece) ==
  /\ \E k \in 1 .. Len(piece) : piece[k] \notin Spaces
  /\ Len(piece) > maxBytes => TakenWhole(piece)
  /\ maxBytes >= 4 /\ WholeRunes(text) => piece[1] # "c"

PiecesSound == \A i \in 1 .. Len(chunks) : PieceSound(chunks[i])

=============================================================================
