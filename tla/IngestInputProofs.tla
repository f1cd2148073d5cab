-------------------------- MODULE IngestInputProofs --------------------------
(***************************************************************************)
(* Proofs about the way of a request to the chunks that are kept, for every*)
(* sequence of lines or turns, whatever the rules of the floor match.      *)
(*                                                                         *)
(* The chunker carries its state from line to line.  What it has emitted   *)
(* are intervals of lines, the lines it is collecting are the interval up  *)
(* to the next line, and together they hold the content of the lines that  *)
(* were read; whether it is collecting, which fence is open and which      *)
(* headings enclose the next line are functions of the lines read.         *)
(*                                                                         *)
(* The floor carries the keys of what it has kept.  That two keys are equal*)
(* exactly if the candidates are one memory needs the turns of a dialogue  *)
(* to have ids of their own.                                               *)
(***************************************************************************)
EXTENDS IngestInput, SequenceFacts, SequenceTheorems, FiniteSetTheorems

N == Len(lines)

Chunks == [lines : Seq(Nat), path : Seq(Nat)]

FirstLine(chunk) == chunk.lines[1]
LastLine(chunk)  == chunk.lines[1] + Len(chunk.lines) - 1

Holds(chunk, m) == FirstLine(chunk) <= m /\ m <= LastLine(chunk)

Increasing(s) == \A i, j \in 1 .. Len(s) : i < j => s[i] < s[j]

\* Chunks of consecutive ones of the first n lines, in their order, in front of line c.
Intervals(chunks, c, n) ==
  /\ chunks \in Seq(Chunks)
  /\ \A i \in 1 .. Len(chunks) :
       /\ chunks[i].lines # << >>
       /\ \A j \in 1 .. Len(chunks[i].lines) : chunks[i].lines[j] = FirstLine(chunks[i]) + j - 1
       /\ FirstLine(chunks[i]) \in 1 .. n /\ LastLine(chunks[i]) \in 1 .. n
       /\ LastLine(chunks[i]) < c
  /\ \A i, j \in 1 .. Len(chunks) : i < j => LastLine(chunks[i]) < FirstLine(chunks[j])

\* Of the lines in front of line p, those from c on are being collected.
Layout(chunks, c, p, n, wanted, firsts) ==
  /\ Intervals(chunks, c, n)
  /\ \A m \in 1 .. n :
       m < p => /\ m \in wanted <=> c <= m \/ \E i \in 1 .. Len(chunks) : Holds(chunks[i], m)
                /\ m \in firsts <=> m = c \/ \E i \in 1 .. Len(chunks) : m = FirstLine(chunks[i])

\* The lines that were collected for a chunk, the last of them in front of line p.
Stretch(ns, p) ==
  /\ ns \in Seq(Nat) /\ Len(ns) < p
  /\ \A i \in 1 .. Len(ns) : ns[i] = p - Len(ns) + i - 1

Firsts   == {m \in Content : Begins(m)}
Headings == {m \in 1 .. N : IsHeading(m)}

\* The headings that enclose a line in front of which the first p - 1 lines are.
Open(p) ==
  {h \in Headings : /\ h < p
                    /\ \A g \in Headings : h < g /\ g < p => lines[g].depth > lines[h].depth}

\* A chunk ends with line m, whatever follows.
EndsAt(m) ==
  CASE format = "log" -> lines[m].kind = "blank"
    [] format = "md"  -> m \in Headings \/ m \notin Content
    [] OTHER          -> TRUE

CurInv ==
  /\ Stretch(cur, pos)
  /\ pos <= N + 1 => (cur = << >> <=> pos = 1 \/ EndsAt(pos - 1))
  /\ pos = N + 2 => cur = << >>

MarkdownInv ==
  format = "md" /\ pos <= N + 1 =>
    /\ fence = FenceAfter[pos - 1]
    /\ \A m \in pos - Len(cur) .. pos - 1 : m \notin Headings
    /\ ToSet(stack) = Open(pos) /\ Increasing(stack)

ChunkerInv ==
  /\ lines \in Seq(Lines) /\ pos \in 1 .. N + 2 /\ stack \in Seq(Nat)
  /\ CurInv
  /\ MarkdownInv
  /\ Layout(out, pos - Len(cur), pos, N, Content, Firsts)
  /\ PathIsEnclosing

-----------------------------------------------------------------------------
(* Fences *)

Fences == {"", "backticks", "tildes"}

\* The fence that is open after a line, given the one that is open in front of it.
NextFence(fmt, line, before) ==
  IF fmt # "md" THEN ""
  ELSE IF before # "" THEN IF line.kind = before THEN "" ELSE before
       ELSE IF line.kind \in {"backticks", "tildes"} THEN line.kind ELSE ""

\* FenceAfter, as a function of the format and the lines.
FenceOf(fmt, ls) ==
  LET open_[n \in 0 .. Len(ls)] ==
        IF n = 0 \/ fmt # "md" THEN ""
        ELSE IF open_[n - 1] # ""
               THEN IF ls[n].kind = open_[n - 1] THEN "" ELSE open_[n - 1]
               ELSE IF ls[n].kind \in {"backticks", "tildes"} THEN ls[n].kind ELSE ""
  IN  open_

\* The recursive definition has the value it denotes.
LEMMA FenceUnfolds ==
  ASSUME NEW fmt, NEW ls \in Seq(Lines)
  PROVE  /\ FenceOf(fmt, ls) \in [0 .. Len(ls) -> Fences]
         /\ FenceOf(fmt, ls)[0] = ""
         /\ \A n \in 1 .. Len(ls) :
              FenceOf(fmt, ls)[n] = NextFence(fmt, ls[n], FenceOf(fmt, ls)[n - 1])
<1> DEFINE n == Len(ls)
           After(i, before) == NextFence(fmt, ls[i], before)
           none == ""
           Run(m, g) == /\ g \in [0 .. m -> Fences]
                        /\ g[0] = none
                        /\ \A i \in 1 .. m : i <= n => g[i] = After(i, g[i - 1])
           S == {m \in Nat : \E g : Run(m, g)}
<1>0. n \in Nat /\ \A i \in 1 .. n : \A before \in Fences : After(i, before) \in Fences
  <2>1. n \in Nat
    OBVIOUS
  <2>2. ASSUME NEW i \in 1 .. n, NEW before \in Fences PROVE After(i, before) \in Fences
    <3>1. After(i, before) = "" \/ After(i, before) = before
            \/ After(i, before) \in {"backticks", "tildes"}
      BY Zenon DEF NextFence
    <3> QED
      BY <3>1 DEF Fences
  <2> QED
    BY <2>1, <2>2
<1>00. none \in Fences
  BY DEF Fences
<1> HIDE DEF n, After, none
<1>1. 0 \in S
  <2>1. Run(0, [i \in 0 .. 0 |-> none])
    BY <1>00
  <2> QED
    BY <2>1
<1>2. ASSUME NEW m \in S PROVE m + 1 \in S
  <2>1. PICK g : Run(m, g)
    OBVIOUS
  <2> DEFINE step == IF m + 1 <= n THEN After(m + 1, g[m]) ELSE none
             h == [i \in 0 .. m + 1 |-> IF i = m + 1 THEN step ELSE g[i]]
  <2>2. m \in Nat /\ g[m] \in Fences
    BY <2>1
  <2>22. step \in Fences
    BY <1>0, <1>00, <2>2
  <2>3. h \in [0 .. m + 1 -> Fences] /\ h[0] = none
    <3> HIDE DEF step
    <3> QED BY <2>1, <2>2, <2>22
  <2>4. ASSUME NEW i \in 1 .. m + 1, i <= n PROVE h[i] = After(i, h[i - 1])
    <3>1. CASE i = m + 1
      BY <2>1, <2>2, <2>4, <3>1, <1>0
    <3>2. CASE i \in 1 .. m
      BY <2>1, <2>2, <2>4, <3>2
    <3> QED BY <2>2, <3>1, <3>2
  <2>5. Run(m + 1, h)
    <3> HIDE DEF h
    <3> QED BY <2>3, <2>4
  <2>6. \E gg : Run(m + 1, gg)
    <3> HIDE DEF h, Run
    <3> QED BY <2>5
  <2> QED
    <3> HIDE DEF Run
    <3> QED BY <2>2, <2>6
<1>3. S = Nat
  <2> HIDE DEF S
  <2>1. S \in SUBSET Nat
    BY DEF S
  <2> QED
    BY <1>1, <1>2, <2>1, SetInduction
<1>4. PICK g : Run(n, g)
  BY <1>0, <1>3
<1> DEFINE Value(f, i) ==
             IF i = 0 \/ fmt # "md" THEN ""
             ELSE IF f[i - 1] # ""
                    THEN IF ls[i].kind = f[i - 1] THEN "" ELSE f[i - 1]
                    ELSE IF ls[i].kind \in {"backticks", "tildes"} THEN ls[i].kind ELSE ""
<1>41. \A f : \A i \in 0 .. n : Value(f, i) = IF i = 0 THEN none ELSE After(i, f[i - 1])
  BY Zenon DEF NextFence, After, none
<1>5. \A i \in 0 .. n : g[i] = Value(g, i)
  <2> HIDE DEF Value
  <2> QED
    BY <1>0, <1>4, <1>41
<1>6. g = [i \in 0 .. Len(ls) |-> Value(g, i)]
  <2> HIDE DEF Value
  <2> QED
    BY <1>4, <1>5 DEF n
<1>7. FenceOf(fmt, ls) = [i \in 0 .. Len(ls) |-> Value(FenceOf(fmt, ls), i)]
  BY <1>6, ZenonT(30) DEF FenceOf
<1> DEFINE c == FenceOf(fmt, ls)
<1> HIDE DEF c, Value
<1>8. c = [i \in 0 .. n |-> Value(c, i)]
  BY <1>7 DEF c, n
<1>9. c[0] = none /\ \A i \in 1 .. n : c[i] = After(i, c[i - 1])
  BY <1>0, <1>8, <1>41
<1>10. \A i \in 0 .. n : c[i] \in Fences
  <2> DEFINE D == {i \in Nat : i <= n => c[i] \in Fences}
  <2>1. 0 \in D
    BY <1>9, <1>00
  <2>2. ASSUME NEW i \in D PROVE i + 1 \in D
    BY <1>0, <1>9
  <2>3. D = Nat
    <3> HIDE DEF D
    <3>1. D \in SUBSET Nat
      BY DEF D
    <3> QED BY <2>1, <2>2, <3>1, SetInduction
  <2> QED
    BY <1>0, <2>3
<1>11. c \in [0 .. n -> Fences]
  BY <1>8, <1>10
<1> QED
  BY <1>9, <1>11 DEF c, n, After, none

LEMMA FenceAfterFacts ==
  ASSUME lines \in Seq(Lines)
  PROVE  /\ FenceAfter \in [0 .. N -> Fences]
         /\ FenceAfter[0] = ""
         /\ \A n \in 1 .. N : FenceAfter[n] = NextFence(format, lines[n], FenceAfter[n - 1])
<1>1. FenceAfter = FenceOf(format, lines)
  BY Zenon DEF FenceAfter, FenceOf
<1> QED
  BY <1>1, FenceUnfolds DEF N

\* As long as the input stays, all that is said of it does.
LEMMA InputStays ==
  ASSUME lines' = lines, format' = format
  PROVE  /\ N' = N /\ FenceAfter' = FenceAfter
         /\ Content' = Content /\ Firsts' = Firsts /\ Headings' = Headings
         /\ \A n : Open(n)' = Open(n) /\ Around(n)' = Around(n) /\ EndsAt(n)' = EndsAt(n)
<1>1. N' = N
  BY DEF N
<1>2. FenceAfter = FenceOf(format, lines)
  BY Zenon DEF FenceAfter, FenceOf
<1>3. FenceAfter' = FenceOf(format', lines')
  BY Zenon DEF FenceAfter, FenceOf
<1>4. FenceAfter' = FenceAfter
  BY <1>2, <1>3
<1>5. Content' = Content
  BY <1>4, Zenon DEF Content, InFence
<1>6. \A n : IsHeading(n)' = IsHeading(n)
  BY <1>4, Zenon DEF IsHeading, InFence
<1>7. \A n : Begins(n)' = Begins(n)
  BY <1>4, <1>6, Zenon DEF Begins, InFence
<1>8. Firsts' = Firsts
  BY <1>5, <1>7, Zenon DEF Firsts
<1>9. Headings' = Headings
  BY <1>1, <1>6, Zenon DEF Headings
<1>10. \A n : Open(n)' = Open(n)
  BY <1>9, Zenon DEF Open
<1>11. \A n : Around(n)' = Around(n)
  BY <1>6, Zenon DEF Around
<1>12. \A n : EndsAt(n)' = EndsAt(n)
  BY <1>5, <1>9, Zenon DEF EndsAt
<1> QED
  BY <1>1, <1>4, <1>5, <1>8, <1>9, <1>10, <1>11, <1>12

-----------------------------------------------------------------------------
(* The layout of the chunks, line by line *)

LEMMA IntervalsFacts ==
  ASSUME NEW chunks, NEW c \in Nat, NEW n \in Nat, Intervals(chunks, c, n)
  PROVE  /\ chunks \in Seq(Chunks)
         /\ \A i \in 1 .. Len(chunks) :
              /\ chunks[i].lines \in Seq(Nat) /\ Len(chunks[i].lines) > 0
              /\ FirstLine(chunks[i]) \in 1 .. n /\ LastLine(chunks[i]) \in 1 .. n
              /\ FirstLine(chunks[i]) <= LastLine(chunks[i])
              /\ LastLine(chunks[i]) < c
<1>1. chunks \in Seq(Chunks)
  BY DEF Intervals
<1>2. ASSUME NEW i \in 1 .. Len(chunks)
      PROVE  /\ chunks[i].lines \in Seq(Nat) /\ Len(chunks[i].lines) > 0
             /\ FirstLine(chunks[i]) \in 1 .. n /\ LastLine(chunks[i]) \in 1 .. n
             /\ FirstLine(chunks[i]) <= LastLine(chunks[i])
             /\ LastLine(chunks[i]) < c
  <2>1. chunks[i] \in Chunks
    BY <1>1
  <2>2. chunks[i].lines \in Seq(Nat)
    BY <2>1 DEF Chunks
  <2>3. /\ chunks[i].lines # << >>
        /\ FirstLine(chunks[i]) \in 1 .. n /\ LastLine(chunks[i]) \in 1 .. n
        /\ LastLine(chunks[i]) < c
    BY DEF Intervals
  <2>4. Len(chunks[i].lines) > 0 /\ Len(chunks[i].lines) \in Nat
    BY <2>2, <2>3
  <2>5. FirstLine(chunks[i]) <= LastLine(chunks[i])
    BY <2>3, <2>4 DEF FirstLine, LastLine
  <2> QED
    BY <2>2, <2>3, <2>4, <2>5
<1> QED
  BY <1>1, <1>2

\* The next line is collected.
LEMMA LayoutCollect ==
  ASSUME NEW chunks, NEW n \in Nat, NEW p \in 1 .. n, NEW c \in 1 .. p, NEW wanted, NEW firsts,
         Layout(chunks, c, p, n, wanted, firsts),
         p \in wanted, p \in firsts <=> p = c
  PROVE  Layout(chunks, c, p + 1, n, wanted, firsts)
<1>1. Intervals(chunks, c, n)
  BY DEF Layout
<1>2. \A i \in 1 .. Len(chunks) : FirstLine(chunks[i]) \in Nat /\ FirstLine(chunks[i]) < p
  BY <1>1, IntervalsFacts
<1>3. ASSUME NEW m \in 1 .. n, m < p + 1
      PROVE  /\ m \in wanted <=> c <= m \/ \E i \in 1 .. Len(chunks) : Holds(chunks[i], m)
             /\ m \in firsts <=> m = c \/ \E i \in 1 .. Len(chunks) : m = FirstLine(chunks[i])
  <2>1. CASE m < p
    BY <2>1 DEF Layout
  <2>2. CASE m = p
    BY <1>2, <2>2
  <2> QED
    BY <1>3, <2>1, <2>2
<1> QED
  BY <1>1, <1>3 DEF Layout

\* The next line is left out.
LEMMA LayoutSkip ==
  ASSUME NEW chunks, NEW n \in Nat, NEW p \in 1 .. n + 1, NEW wanted, NEW firsts,
         Layout(chunks, p, p, n, wanted, firsts),
         p <= n => p \notin wanted /\ p \notin firsts
  PROVE  Layout(chunks, p + 1, p + 1, n, wanted, firsts)
<1>1. Intervals(chunks, p, n)
  BY DEF Layout
<1>2. \A i \in 1 .. Len(chunks) : /\ FirstLine(chunks[i]) \in Nat /\ LastLine(chunks[i]) \in Nat
                                  /\ FirstLine(chunks[i]) <= LastLine(chunks[i])
                                  /\ LastLine(chunks[i]) < p
  BY <1>1, IntervalsFacts
<1>3. Intervals(chunks, p + 1, n)
  <2>1. \A i \in 1 .. Len(chunks) : LastLine(chunks[i]) < p + 1
    BY <1>2
  <2> QED
    BY <1>1, <2>1 DEF Intervals
<1>4. ASSUME NEW m \in 1 .. n, m < p + 1
      PROVE  /\ m \in wanted <=> p + 1 <= m \/ \E i \in 1 .. Len(chunks) : Holds(chunks[i], m)
             /\ m \in firsts <=> m = p + 1 \/ \E i \in 1 .. Len(chunks) : m = FirstLine(chunks[i])
  <2>1. CASE m < p
    <3>1. ~ (p <= m) /\ ~ (p + 1 <= m) /\ m # p /\ m # p + 1
      BY <2>1
    <3> QED
      BY <2>1, <3>1 DEF Layout
  <2>2. CASE m = p
    <3>1. ~ (p + 1 <= m) /\ m # p + 1 /\ p <= n
      BY <2>2
    <3>2. ~ \E i \in 1 .. Len(chunks) : Holds(chunks[i], m)
      BY <1>2, <2>2 DEF Holds
    <3>3. ~ \E i \in 1 .. Len(chunks) : m = FirstLine(chunks[i])
      BY <1>2, <2>2
    <3> QED
      BY <2>2, <3>1, <3>2, <3>3
  <2> QED
    BY <1>4, <2>1, <2>2
<1> QED
  BY <1>3, <1>4 DEF Layout

\* The lines that are being collected become a chunk.
LEMMA LayoutClose ==
  ASSUME NEW chunks, NEW n \in Nat, NEW p \in 1 .. n + 1, NEW ns, NEW path \in Seq(Nat),
         NEW wanted, NEW firsts,
         Stretch(ns, p), ns # << >>,
         Layout(chunks, p - Len(ns), p, n, wanted, firsts)
  PROVE  Layout(Append(chunks, Chunk(ns, path)), p, p, n, wanted, firsts)
<1> DEFINE chunk == Chunk(ns, path)
           all == Append(chunks, chunk)
           c == p - Len(ns)
           k == Len(chunks)
<1>1. ns \in Seq(Nat) /\ Len(ns) \in Nat /\ Len(ns) > 0 /\ Len(ns) < p
  BY DEF Stretch
<1>2. c \in Nat /\ c > 0 /\ c < p /\ c \in 1 .. n /\ p - 1 \in 1 .. n
  BY <1>1
<1>3. chunk \in Chunks /\ chunk.lines = ns
  BY <1>1 DEF Chunk, Chunks
<1>4. FirstLine(chunk) = c /\ LastLine(chunk) = p - 1
  BY <1>1, <1>3 DEF Stretch, FirstLine, LastLine
<1>5. \A j \in 1 .. Len(chunk.lines) : chunk.lines[j] = FirstLine(chunk) + j - 1
  BY <1>1, <1>3, <1>4 DEF Stretch
<1>6. Intervals(chunks, c, n)
  BY DEF Layout
<1>7. /\ chunks \in Seq(Chunks) /\ k \in Nat
      /\ all \in Seq(Chunks) /\ Len(all) = k + 1 /\ all[k + 1] = chunk
      /\ \A i \in 1 .. k : all[i] = chunks[i]
  BY <1>3, <1>6 DEF Intervals
<1>8. \A i \in 1 .. k : /\ FirstLine(chunks[i]) \in Nat /\ LastLine(chunks[i]) \in Nat
                        /\ FirstLine(chunks[i]) <= LastLine(chunks[i])
                        /\ LastLine(chunks[i]) < c
  BY <1>2, <1>6, IntervalsFacts
<1>9. \A i \in 1 .. Len(all) : i \in 1 .. k \/ i = k + 1
  BY <1>7
<1>10. Intervals(all, p, n)
  <2>1. ASSUME NEW i \in 1 .. Len(all)
        PROVE  /\ all[i].lines # << >>
               /\ \A j \in 1 .. Len(all[i].lines) : all[i].lines[j] = FirstLine(all[i]) + j - 1
               /\ FirstLine(all[i]) \in 1 .. n /\ LastLine(all[i]) \in 1 .. n
               /\ LastLine(all[i]) < p
    <3>1. CASE i \in 1 .. k
      <4>1. all[i] = chunks[i]
        BY <1>7, <3>1
      <4>2. /\ chunks[i].lines # << >>
            /\ \A j \in 1 .. Len(chunks[i].lines) : chunks[i].lines[j] = FirstLine(chunks[i]) + j - 1
            /\ FirstLine(chunks[i]) \in 1 .. n /\ LastLine(chunks[i]) \in 1 .. n
        BY <1>6, <3>1 DEF Intervals
      <4>3. LastLine(chunks[i]) < p
        BY <1>2, <1>8, <3>1
      <4> QED
        BY <4>1, <4>2, <4>3
    <3>2. CASE i = k + 1
      <4>1. all[i] = chunk
        BY <1>7, <3>2
      <4>2. chunk.lines # << >>
        BY <1>3
      <4>3. FirstLine(chunk) \in 1 .. n /\ LastLine(chunk) \in 1 .. n /\ LastLine(chunk) < p
        BY <1>2, <1>4
      <4> QED
        BY <1>5, <4>1, <4>2, <4>3
    <3> QED
      BY <1>9, <3>1, <3>2
  <2>2. ASSUME NEW i \in 1 .. Len(all), NEW j \in 1 .. Len(all), i < j
        PROVE  LastLine(all[i]) < FirstLine(all[j])
    <3>1. i \in 1 .. k /\ all[i] = chunks[i]
      BY <1>7, <2>2
    <3>2. CASE j \in 1 .. k
      <4>1. all[j] = chunks[j]
        BY <1>7, <3>2
      <4> QED
        BY <1>6, <2>2, <3>1, <3>2, <4>1 DEF Intervals
    <3>3. CASE j = k + 1
      <4>1. all[j] = chunk
        BY <1>7, <3>3
      <4> QED
        BY <1>4, <1>8, <3>1, <4>1
    <3> QED
      BY <1>9, <3>2, <3>3
  <2> HIDE DEF all
  <2> QED
    BY <1>7, <2>1, <2>2 DEF Intervals
<1>11. ASSUME NEW m \in 1 .. n, m < p
       PROVE  /\ m \in wanted <=> p <= m \/ \E i \in 1 .. Len(all) : Holds(all[i], m)
              /\ m \in firsts <=> m = p \/ \E i \in 1 .. Len(all) : m = FirstLine(all[i])
  <2>1. ~ (p <= m) /\ m # p /\ m <= p - 1
    BY <1>11
  <2>2. (\E i \in 1 .. Len(all) : Holds(all[i], m))
          <=> Holds(chunk, m) \/ \E i \in 1 .. k : Holds(chunks[i], m)
    <3>1. k + 1 \in 1 .. Len(all) /\ \A i \in 1 .. k : i \in 1 .. Len(all)
      BY <1>7
    <3> HIDE DEF all, chunk, k
    <3> QED
      BY <1>7, <1>9, <3>1
  <2>3. (\E i \in 1 .. Len(all) : m = FirstLine(all[i]))
          <=> m = c \/ \E i \in 1 .. k : m = FirstLine(chunks[i])
    <3>1. k + 1 \in 1 .. Len(all) /\ \A i \in 1 .. k : i \in 1 .. Len(all)
      BY <1>7
    <3> HIDE DEF all, chunk, k
    <3> QED
      BY <1>4, <1>7, <1>9, <3>1
  <2>4. Holds(chunk, m) <=> c <= m
    <3> HIDE DEF chunk
    <3> QED
      BY <1>2, <1>4, <2>1 DEF Holds
  <2> QED
    BY <1>11, <2>1, <2>2, <2>3, <2>4 DEF Layout
<1> QED
  <2> HIDE DEF all
  <2>1. Layout(all, p, p, n, wanted, firsts)
    BY <1>10, <1>11 DEF Layout
  <2> QED
    BY <2>1 DEF all, chunk

\* The next line is a chunk of its own.
LEMMA LayoutSingle ==
  ASSUME NEW chunks, NEW n \in Nat, NEW p \in 1 .. n, NEW path \in Seq(Nat), NEW wanted, NEW firsts,
         Layout(chunks, p, p, n, wanted, firsts), p \in wanted, p \in firsts
  PROVE  Layout(Append(chunks, Chunk(<< p >>, path)), p + 1, p + 1, n, wanted, firsts)
<1>1. Layout(chunks, p, p + 1, n, wanted, firsts)
  BY LayoutCollect
<1>2. Stretch(<< p >>, p + 1) /\ << p >> # << >> /\ (p + 1) - Len(<< p >>) = p
  BY DEF Stretch
<1>3. p + 1 \in 1 .. n + 1
  OBVIOUS
<1> QED
  BY <1>1, <1>2, <1>3, LayoutClose

-----------------------------------------------------------------------------
(* The paragraphs of a plain text *)

LEMMA LastOfFacts ==
  ASSUME lines \in Seq(Lines), NEW n \in 1 .. N, Solid(n)
  PROVE  /\ LastOf(n) \in n .. N
         /\ \A k \in n .. LastOf(n) : Solid(k)
         /\ LastOf(n) < N => ~Solid(LastOf(n) + 1)
<1> DEFINE T == {m \in n .. N : \A k \in n .. m : Solid(k)}
           l == LastOf(n)
<1>1. N \in Nat
  BY DEF N
<1>2. T \in SUBSET (0 .. N) /\ n \in T
  BY <1>1
<1>3. l = Max(T)
  BY DEF LastOf, N
<1> HIDE DEF T, l
<1>4. l \in T /\ \A x \in T : x <= l
  BY <1>1, <1>2, <1>3, LargestExists
<1>5. l \in n .. N /\ \A k \in n .. l : Solid(k)
  BY <1>4 DEF T
<1>6. ASSUME l < N, Solid(l + 1) PROVE FALSE
  <2>1. \A k \in n .. l + 1 : k \in n .. l \/ k = l + 1
    BY <1>1, <1>5
  <2>2. l + 1 \in T
    BY <1>1, <1>5, <1>6, <2>1 DEF T
  <2> QED
    BY <1>1, <1>4, <1>5, <2>2
<1> QED
  BY <1>5, <1>6 DEF l

\* In a plain text there is nothing but blank and solid lines.
LEMMA PlainText ==
  ASSUME lines \in Seq(Lines), format = "txt", NEW m \in 1 .. N
  PROVE  /\ m \in Content <=> Solid(m)
         /\ m \in Firsts <=> FirstOf(m)
<1>1. N \in Nat /\ N = Len(lines)
  BY DEF N
<1>2. \A i \in 0 .. N : FenceAfter[i] = ""
  <2>1. FenceAfter[0] = ""
    BY FenceAfterFacts
  <2>2. \A i \in 1 .. N : FenceAfter[i] = ""
    BY FenceAfterFacts, Zenon DEF NextFence
  <2>3. \A i \in 0 .. N : i = 0 \/ i \in 1 .. N
    BY <1>1
  <2> QED
    BY <2>1, <2>2, <2>3, Zenon
<1>3. ~InFence(m) /\ (m > 1 => ~InFence(m - 1))
  <2>1. m - 1 \in 0 .. N /\ (m > 1 => (m - 1) - 1 \in 0 .. N)
    BY <1>1
  <2> QED
    BY <1>2, <2>1, Zenon DEF InFence
<1>4. m \in Content <=> Solid(m)
  BY <1>1, <1>3 DEF Content, Solid
<1>5. \A n : ~IsHeading(n)
  BY DEF IsHeading
<1>6. Begins(m) <=> m = 1 \/ ~Solid(m - 1)
  <2>1. m = 1 \/ m > 1
    BY <1>1
  <2> QED
    BY <1>3, <1>5, <2>1 DEF Begins, Solid
<1>7. FirstOf(m) <=> Solid(m) /\ (m = 1 \/ ~Solid(m - 1))
  BY <1>1 DEF FirstOf
<1>8. m \in Firsts <=> m \in Content /\ Begins(m)
  BY DEF Firsts
<1> QED
  BY <1>4, <1>6, <1>7, <1>8

\* What is said of the chunk of the paragraph from line n on.
LEMMA ParagraphFacts ==
  ASSUME lines \in Seq(Lines), NEW n \in 1 .. N, FirstOf(n)
  PROVE  LET chunk == ParagraphAt(n)[1] IN
         /\ ParagraphAt(n) \in Seq(Chunks) /\ Len(ParagraphAt(n)) = 1
         /\ chunk.lines # << >>
         /\ \A j \in 1 .. Len(chunk.lines) : chunk.lines[j] = FirstLine(chunk) + j - 1
         /\ FirstLine(chunk) = n /\ LastLine(chunk) = LastOf(n)
<1> DEFINE l == LastOf(n)
           ns == [j \in 1 .. l - n + 1 |-> n + j - 1]
           chunk == Chunk(ns, << >>)
<1>1. N \in Nat /\ l \in n .. N
  BY LastOfFacts DEF N, FirstOf
<1>2. ParagraphAt(n) = << chunk >>
  BY DEF ParagraphAt
<1> HIDE DEF l
<1>3. ns \in Seq(Nat) /\ Len(ns) = l - n + 1 /\ \A j \in 1 .. l - n + 1 : ns[j] = n + j - 1
  BY <1>1
<1> HIDE DEF ns
<1>4. chunk \in Chunks /\ chunk.lines = ns
  BY <1>3 DEF Chunk, Chunks
<1> HIDE DEF chunk
<1>5. ParagraphAt(n) \in Seq(Chunks) /\ Len(ParagraphAt(n)) = 1 /\ ParagraphAt(n)[1] = chunk
  BY <1>2, <1>4
<1>6. 1 \in 1 .. l - n + 1 /\ l - n + 1 > 0
  BY <1>1
<1>7. FirstLine(chunk) = n
  BY <1>1, <1>3, <1>4, <1>6 DEF FirstLine
<1>8. LastLine(chunk) = l
  BY <1>1, <1>3, <1>4, <1>7 DEF LastLine, FirstLine
<1>9. ns # << >>
  BY <1>3, <1>6
<1> QED
  BY <1>3, <1>4, <1>5, <1>7, <1>8, <1>9 DEF l

\* A paragraph that begins later begins behind the end of this one.
LEMMA ParagraphsApart ==
  ASSUME lines \in Seq(Lines), NEW n \in 1 .. N, FirstOf(n), NEW m \in 1 .. N, FirstOf(m), n < m
  PROVE  LastOf(n) < m
<1>1. N \in Nat
  BY DEF N
<1>2. LastOf(n) \in n .. N /\ \A k \in n .. LastOf(n) : Solid(k)
  BY LastOfFacts DEF FirstOf
<1>3. ~Solid(m - 1) /\ m - 1 \in Nat /\ m - 1 >= n
  BY <1>1 DEF FirstOf
<1> QED
  BY <1>1, <1>2, <1>3

\* Every solid line is in the paragraph that begins with some line.
LEMMA ParagraphExists ==
  ASSUME lines \in Seq(Lines), NEW m \in 1 .. N, Solid(m)
  PROVE  \E n \in 1 .. m : FirstOf(n) /\ m <= LastOf(n)
<1> DEFINE T == {n \in 1 .. m : \A k \in n .. m : Solid(k)}
           n == Min(T)
<1>1. N \in Nat
  BY DEF N
<1>2. T \in SUBSET Nat /\ m \in T
  BY <1>1
<1> HIDE DEF T, n
<1>3. n \in T /\ \A x \in T : n <= x
  BY <1>2, SmallestExists DEF n
<1>4. n \in 1 .. m /\ \A k \in n .. m : Solid(k)
  BY <1>3 DEF T
<1>5. FirstOf(n)
  <2>1. Solid(n)
    BY <1>1, <1>4
  <2>2. ASSUME n > 1, Solid(n - 1) PROVE FALSE
    <3>1. \A k \in n - 1 .. m : k \in n .. m \/ k = n - 1
      BY <1>1, <1>4
    <3>2. n - 1 \in T
      BY <1>1, <1>4, <2>2, <3>1 DEF T
    <3> QED
      BY <1>1, <1>3, <1>4, <3>2
  <2> QED
    BY <2>1, <2>2 DEF FirstOf
<1>6. m <= LastOf(n)
  <2>1. n \in 1 .. N
    BY <1>1, <1>4
  <2>2. LastOf(n) \in n .. N /\ (LastOf(n) < N => ~Solid(LastOf(n) + 1))
    BY <1>5, <2>1, LastOfFacts DEF FirstOf
  <2> DEFINE l == LastOf(n)
  <2> HIDE DEF l
  <2>3. l \in n .. N /\ (l < N => ~Solid(l + 1))
    BY <2>2 DEF l
  <2>4. ASSUME l < m PROVE FALSE
    <3>1. l + 1 \in n .. m /\ l < N
      BY <1>1, <1>4, <2>3, <2>4
    <3> QED
      BY <1>4, <2>3, <3>1
  <2>5. m <= l
    BY <1>1, <1>4, <2>3, <2>4
  <2> QED
    BY <2>5 DEF l
<1> QED
  BY <1>4, <1>5, <1>6

LEMMA LayoutParagraphs ==
  ASSUME lines \in Seq(Lines), format = "txt"
  PROVE  Layout(Paragraphs, N + 2, N + 2, N, Content, Firsts)
<1> DEFINE ss == [n \in 1 .. Len(lines) |-> ParagraphAt(n)]
           all == FlattenSeq(ss)
           chunk(n) == ParagraphAt(n)[1]
<1>1. N \in Nat /\ Len(lines) = N
  BY DEF N
<1>2. \A n \in 1 .. N : ~FirstOf(n) => ParagraphAt(n) = << >>
  BY DEF ParagraphAt
<1>3. \A n \in 1 .. N : FirstOf(n) =>
        /\ ParagraphAt(n) \in Seq(Chunks) /\ Len(ParagraphAt(n)) = 1
        /\ chunk(n).lines # << >>
        /\ \A j \in 1 .. Len(chunk(n).lines) : chunk(n).lines[j] = FirstLine(chunk(n)) + j - 1
        /\ FirstLine(chunk(n)) = n /\ LastLine(chunk(n)) = LastOf(n)
  BY ParagraphFacts, Zenon
<1>4. \A n \in 1 .. N : ParagraphAt(n) \in Seq(Chunks)
  <2>1. << >> \in Seq(Chunks)
    OBVIOUS
  <2> QED
    BY <1>2, <1>3, <2>1, Zenon
<1>5. \A n \in 1 .. N : FirstOf(n) => LastOf(n) \in n .. N
  BY LastOfFacts DEF FirstOf
<1>6. ss \in Seq(Seq(Chunks)) /\ Len(ss) = N /\ \A n \in 1 .. N : ss[n] = ParagraphAt(n)
  BY <1>1, <1>4
<1>7. Paragraphs = all
  BY DEF Paragraphs
<1>8. all \in Seq(Chunks)
  BY <1>6, FlattenFacts
<1>81. ToSet(all) = {all[k] : k \in 1 .. Len(all)}
  <2> HIDE DEF all
  <2> QED
    BY <1>8 DEF ToSet
<1>9. ASSUME NEW i \in 1 .. Len(ss), NEW j \in 1 .. Len(ss[i])
      PROVE  i \in 1 .. N /\ FirstOf(i) /\ j = 1 /\ ss[i][j] = chunk(i)
  <2>1. i \in 1 .. N /\ ss[i] = ParagraphAt(i)
    BY <1>6
  <2>2. FirstOf(i)
    <3> SUFFICES ASSUME ~FirstOf(i) PROVE FALSE
      OBVIOUS
    <3>1. ss[i] = << >>
      BY <1>2, <2>1
    <3> QED
      BY <3>1
  <2>3. Len(ss[i]) = 1
    BY <1>3, <2>1, <2>2
  <2>4. j = 1
    <3> HIDE DEF ss
    <3> QED
      BY <2>3
  <2> QED
    BY <2>1, <2>2, <2>4
<1>10. \A x : x \in ToSet(all) <=> \E i \in 1 .. Len(ss) : \E j \in 1 .. Len(ss[i]) : x = ss[i][j]
  BY <1>6, FlattenElements
<1>11. ASSUME NEW k \in 1 .. Len(all)
       PROVE  \E i \in 1 .. N : FirstOf(i) /\ all[k] = chunk(i)
  <2>1. all[k] \in ToSet(all)
    <3> HIDE DEF all
    <3> QED
      BY <1>81
  <2>2. \E i \in 1 .. Len(ss) : \E j \in 1 .. Len(ss[i]) : all[k] = ss[i][j]
    BY <1>10, <2>1
  <2> QED
    <3> HIDE DEF all, ss, chunk
    <3> QED
      BY <1>9, <2>2
<1>12. ASSUME NEW i \in 1 .. N, FirstOf(i)
       PROVE  \E k \in 1 .. Len(all) : all[k] = chunk(i)
  <2>1. i \in 1 .. Len(ss) /\ 1 \in 1 .. Len(ss[i]) /\ ss[i][1] = chunk(i)
    BY <1>3, <1>6, <1>12
  <2>2. chunk(i) \in ToSet(all)
    <3> HIDE DEF all, ss, chunk
    <3> QED
      BY <1>10, <2>1
  <2> QED
    <3> HIDE DEF all, chunk
    <3> QED
      BY <1>81, <2>2
<1>13. ASSUME NEW k \in 1 .. Len(all), NEW l \in 1 .. Len(all), k < l
       PROVE  LastLine(all[k]) < FirstLine(all[l])
  <2>1. InFrontOf(ss, all[k], all[l])
    BY <1>6, <1>13, FlattenOrder
  <2> HIDE DEF all
  <2>2. PICK i \in 1 .. Len(ss), h \in 1 .. Len(ss) :
          \E j \in 1 .. Len(ss[i]), m \in 1 .. Len(ss[h]) :
            /\ all[k] = ss[i][j] /\ all[l] = ss[h][m]
            /\ (i = h /\ j < m) \/ i < h
    BY <2>1 DEF InFrontOf
  <2>3. PICK j \in 1 .. Len(ss[i]), m \in 1 .. Len(ss[h]) :
            /\ all[k] = ss[i][j] /\ all[l] = ss[h][m]
            /\ (i = h /\ j < m) \/ i < h
    BY <2>2
  <2>4. /\ i \in 1 .. N /\ FirstOf(i) /\ j = 1 /\ all[k] = chunk(i)
        /\ h \in 1 .. N /\ FirstOf(h) /\ m = 1 /\ all[l] = chunk(h)
    BY <1>9, <2>3
  <2>5. i < h
    BY <2>3, <2>4
  <2>6. LastOf(i) < h
    BY <2>4, <2>5, ParagraphsApart
  <2>7. LastLine(chunk(i)) = LastOf(i) /\ FirstLine(chunk(h)) = h
    BY <1>3, <2>4
  <2> QED
    <3> HIDE DEF chunk
    <3> QED
      BY <2>4, <2>6, <2>7
<1> HIDE DEF all, ss, chunk
<1>14. Intervals(all, N + 2, N)
  <2>1. ASSUME NEW k \in 1 .. Len(all)
        PROVE  /\ all[k].lines # << >>
               /\ \A j \in 1 .. Len(all[k].lines) : all[k].lines[j] = FirstLine(all[k]) + j - 1
               /\ FirstLine(all[k]) \in 1 .. N /\ LastLine(all[k]) \in 1 .. N
               /\ LastLine(all[k]) < N + 2
    <3>1. PICK i \in 1 .. N : FirstOf(i) /\ all[k] = chunk(i)
      BY <1>11
    <3>2. LastOf(i) \in i .. N
      BY <1>5, <3>1
    <3>3. LastOf(i) \in 1 .. N /\ LastOf(i) < N + 2
      BY <1>1, <3>2
    <3>4. FirstLine(all[k]) = i /\ LastLine(all[k]) = LastOf(i)
      BY <1>3, <3>1
    <3> QED
      BY <1>3, <3>1, <3>3, <3>4
  <2> QED
    BY <1>8, <1>13, <2>1 DEF Intervals
<1>15. ASSUME NEW m \in 1 .. N
       PROVE  /\ m \in Content <=> \E k \in 1 .. Len(all) : Holds(all[k], m)
              /\ m \in Firsts <=> \E k \in 1 .. Len(all) : m = FirstLine(all[k])
  <2>1. ASSUME NEW k \in 1 .. Len(all), Holds(all[k], m) PROVE m \in Content
    <3>1. PICK i \in 1 .. N : FirstOf(i) /\ all[k] = chunk(i)
      BY <1>11
    <3>2. FirstLine(all[k]) = i /\ LastLine(all[k]) = LastOf(i)
      BY <1>3, <3>1
    <3>3. LastOf(i) \in Nat /\ i <= m /\ m <= LastOf(i)
      BY <1>1, <1>5, <2>1, <3>1, <3>2 DEF Holds
    <3>4. m \in i .. LastOf(i)
      BY <1>1, <3>3
    <3>5. Solid(m)
      BY <3>1, <3>4, LastOfFacts DEF FirstOf
    <3> QED
      BY <3>5, PlainText
  <2>2. ASSUME m \in Content PROVE \E k \in 1 .. Len(all) : Holds(all[k], m)
    <3>1. Solid(m)
      BY <2>2, PlainText
    <3>2. PICK i \in 1 .. m : FirstOf(i) /\ m <= LastOf(i)
      BY <3>1, ParagraphExists
    <3>3. i \in 1 .. N /\ i <= m
      BY <1>1
    <3>4. PICK k \in 1 .. Len(all) : all[k] = chunk(i)
      BY <1>12, <3>2, <3>3
    <3>5. FirstLine(all[k]) = i /\ LastLine(all[k]) = LastOf(i)
      BY <1>3, <3>2, <3>3, <3>4
    <3> QED
      BY <3>2, <3>3, <3>5 DEF Holds
  <2>3. ASSUME NEW k \in 1 .. Len(all), m = FirstLine(all[k]) PROVE m \in Firsts
    <3>1. PICK i \in 1 .. N : FirstOf(i) /\ all[k] = chunk(i)
      BY <1>11
    <3>2. FirstLine(all[k]) = i
      BY <1>3, <3>1
    <3> QED
      BY <2>3, <3>1, <3>2, PlainText
  <2>4. ASSUME m \in Firsts PROVE \E k \in 1 .. Len(all) : m = FirstLine(all[k])
    <3>1. FirstOf(m)
      BY <2>4, PlainText
    <3>2. PICK k \in 1 .. Len(all) : all[k] = chunk(m)
      BY <1>12, <3>1
    <3>3. FirstLine(all[k]) = m
      BY <1>3, <3>1, <3>2
    <3> QED
      BY <3>3
  <2> QED
    BY <2>1, <2>2, <2>3, <2>4
<1>16. \A m \in 1 .. N : ~ (N + 2 <= m) /\ m # N + 2
  BY <1>1
<1> QED
  BY <1>7, <1>14, <1>15, <1>16 DEF Layout

-----------------------------------------------------------------------------
(* What kind of line the next one is *)

\* A chunk begins at line m, whatever is in front of it.
StartsAt(m) == IF format = "log" THEN lines[m].kind # "indented" ELSE m \in Headings

LEMMA LogLine ==
  ASSUME lines \in Seq(Lines), format = "log", NEW p \in 1 .. N
  PROVE  /\ p \in Content
         /\ p \in Firsts <=> p = 1 \/ StartsAt(p) \/ EndsAt(p - 1)
         /\ StartsAt(p) <=> lines[p].kind # "indented"
         /\ EndsAt(p) <=> lines[p].kind = "blank"
<1>1. p \in Content
  BY DEF Content, N
<1>2. Begins(p) <=> p = 1 \/ lines[p].kind # "indented" \/ lines[p - 1].kind = "blank"
  BY Zenon DEF Begins
<1>3. StartsAt(p) <=> lines[p].kind # "indented"
  BY DEF StartsAt
<1>4. /\ EndsAt(p) <=> lines[p].kind = "blank"
      /\ EndsAt(p - 1) <=> lines[p - 1].kind = "blank"
  BY DEF EndsAt
<1> QED
  BY <1>1, <1>2, <1>3, <1>4 DEF Firsts

LEMMA MarkdownLine ==
  ASSUME lines \in Seq(Lines), format = "md", NEW p \in 1 .. N
  PROVE  /\ p \in Headings <=> lines[p].kind = "heading" /\ FenceAfter[p - 1] = ""
         /\ p \in Content <=> lines[p].kind # "blank" \/ FenceAfter[p - 1] # ""
         /\ p \in Content => (p \in Firsts <=> p = 1 \/ StartsAt(p) \/ EndsAt(p - 1))
         /\ StartsAt(p) <=> p \in Headings
         /\ EndsAt(p) <=> p \in Headings \/ p \notin Content
         /\ FenceAfter[p] = NextFence("md", lines[p], FenceAfter[p - 1])
         /\ FenceAfter[p] \in Fences
<1>1. N \in Nat /\ N = Len(lines)
  BY DEF N
<1>2. /\ \A i \in 0 .. N : FenceAfter[i] \in Fences
      /\ \A i \in 1 .. N : FenceAfter[i] = NextFence("md", lines[i], FenceAfter[i - 1])
  BY FenceAfterFacts
<1>3. \A m \in 1 .. N : /\ m \in Headings <=> lines[m].kind = "heading" /\ FenceAfter[m - 1] = ""
                        /\ m \in Headings <=> IsHeading(m)
                        /\ m \in Content <=> lines[m].kind # "blank" \/ FenceAfter[m - 1] # ""
                        /\ InFence(m) <=> FenceAfter[m - 1] # ""
  BY <1>1 DEF Headings, IsHeading, InFence, Content
<1>4. StartsAt(p) <=> p \in Headings
  BY DEF StartsAt
<1>5. \A m : EndsAt(m) <=> m \in Headings \/ m \notin Content
  BY DEF EndsAt
<1>6. ASSUME p > 1, FenceAfter[p - 1] # ""
      PROVE  p - 1 \in Content /\ p - 1 \notin Headings
  <2>1. p - 1 \in 1 .. N
    <3>1. N \in Nat
      BY <1>1
    <3>2. p > 1
      BY <1>6
    <3> QED
      BY <3>1, <3>2
  <2>2. FenceAfter[p - 1] = NextFence("md", lines[p - 1], FenceAfter[(p - 1) - 1])
    BY <1>2, <2>1
  <2>3. FenceAfter[(p - 1) - 1] # "" \/ lines[p - 1].kind \in {"backticks", "tildes"}
    BY <1>6, <2>2, Zenon DEF NextFence
  <2>4. FenceAfter[(p - 1) - 1] # "" \/ (lines[p - 1].kind # "blank" /\ lines[p - 1].kind # "heading")
    BY <2>3
  <2> QED
    BY <1>3, <2>1, <2>4, Zenon
<1>7. ASSUME p \in Content PROVE Begins(p) <=> p = 1 \/ StartsAt(p) \/ EndsAt(p - 1)
  <2>1. CASE p = 1
    BY <2>1 DEF Begins
  <2>2. CASE p > 1
    <3>1. p - 1 \in 1 .. N /\ p # 1
      BY <1>1, <2>2
    <3>2. EndsAt(p - 1) <=> IsHeading(p - 1) \/ (lines[p - 1].kind = "blank" /\ ~InFence(p - 1))
      BY <1>3, <1>5, <3>1, Zenon
    <3>3. Begins(p) <=> ~InFence(p) /\ (IsHeading(p) \/ EndsAt(p - 1))
      BY <3>1, <3>2 DEF Begins
    <3>4. IsHeading(p) \/ EndsAt(p - 1) => ~InFence(p)
      BY <1>3, <1>5, <1>6, <2>2, Zenon
    <3> QED
      BY <1>3, <1>4, <3>1, <3>3, <3>4
  <2> QED
    BY <1>1, <2>1, <2>2
<1>8. p \in 0 .. N
  BY <1>1
<1> QED
  BY <1>2, <1>3, <1>4, <1>5, <1>7, <1>8 DEF Firsts

-----------------------------------------------------------------------------
(* The heading path *)

\* The path of the chunk names the headings around its first line.
PathRight(chunk) ==
  /\ ToSet(chunk.path) = Around(chunk.lines[1])
  /\ \A j \in 1 .. Len(chunk.path) - 1 : chunk.path[j] < chunk.path[j + 1]

LEMMA PathsAppend ==
  ASSUME NEW chunks \in Seq(Chunks), NEW chunk \in Chunks, PathRight(chunk),
         \A i \in 1 .. Len(chunks) : PathRight(chunks[i])
  PROVE  \A i \in 1 .. Len(Append(chunks, chunk)) : PathRight(Append(chunks, chunk)[i])
<1> DEFINE all == Append(chunks, chunk)
           k == Len(chunks)
<1>1. k \in Nat /\ Len(all) = k + 1 /\ all[k + 1] = chunk /\ \A i \in 1 .. k : all[i] = chunks[i]
  OBVIOUS
<1>2. \A i \in 1 .. Len(all) : i \in 1 .. k \/ i = k + 1
  BY <1>1
<1> HIDE DEF all
<1>3. \A i \in 1 .. Len(all) : PathRight(all[i])
  BY <1>1, <1>2
<1> QED
  BY <1>3 DEF all

LEMMA ElementsOf ==
  ASSUME NEW s \in Seq(Nat)
  PROVE  ToSet(s) = {s[i] : i \in 1 .. Len(s)}
BY DEF ToSet

\* The headings that enclose line p are those around any line from the first of
\* the stretch without headings in front of it.
LEMMA OpenIsAround ==
  ASSUME lines \in Seq(Lines), NEW p \in 1 .. N + 1, NEW c \in 1 .. p - 1,
         \A m \in c .. p - 1 : m \notin Headings
  PROVE  Open(p) = Around(c)
<1>1. N \in Nat
  BY DEF N
<1>2. \A m : m \in Headings <=> m \in 1 .. N /\ IsHeading(m)
  BY DEF Headings
<1>3. ASSUME NEW h \in Open(p) PROVE h \in Around(c)
  <2>1. h \in Headings /\ h < p /\ h \in 1 .. N
    BY <1>2 DEF Open
  <2>2. h < c
    BY <1>1, <2>1
  <2>3. h \in 1 .. c - 1
    BY <1>1, <2>1, <2>2
  <2>4. \A g \in h + 1 .. c : IsHeading(g) => lines[g].depth > lines[h].depth
    <3> TAKE g \in h + 1 .. c
    <3>1. g \in 1 .. N /\ h < g /\ g < p
      BY <1>1, <2>1
    <3> QED
      BY <1>2, <3>1 DEF Open
  <2> QED
    BY <1>2, <2>1, <2>3, <2>4 DEF Around
<1>4. ASSUME NEW h \in Around(c) PROVE h \in Open(p)
  <2>1. h \in 1 .. c - 1 /\ IsHeading(h)
    BY DEF Around
  <2>2. h \in 1 .. N /\ h < p
    BY <1>1, <2>1
  <2>3. ASSUME NEW g \in Headings, h < g, g < p PROVE lines[g].depth > lines[h].depth
    <3>1. g \in 1 .. N /\ IsHeading(g)
      BY <1>2
    <3>2. ~ (g \in c .. p - 1)
      OBVIOUS
    <3>3. g \in h + 1 .. c
      BY <1>1, <2>2, <2>3, <3>1, <3>2
    <3> QED
      BY <3>1, <3>3 DEF Around
  <2> QED
    BY <1>2, <2>1, <2>2, <2>3 DEF Open
<1> QED
  BY <1>3, <1>4

\* A line that is no heading encloses nothing.
LEMMA OpenStays ==
  ASSUME lines \in Seq(Lines), NEW p \in 1 .. N, p \notin Headings
  PROVE  Open(p + 1) = Open(p)
<1>1. N \in Nat
  BY DEF N
<1>2. \A h \in Headings : h \in 1 .. N
  BY DEF Headings
<1>3. \A h \in Headings : h < p + 1 <=> h < p
  BY <1>1, <1>2
<1> QED
  BY <1>3, Zenon DEF Open

\* Of the headings that enclose a heading, only the less deep ones are around it.
LEMMA OpenAtHeading ==
  ASSUME lines \in Seq(Lines), NEW p \in 1 .. N, p \in Headings
  PROVE  /\ Around(p) = {h \in Open(p) : lines[h].depth < lines[p].depth}
         /\ Open(p + 1) = Around(p) \cup {p}
         /\ p \notin Around(p)
<1>1. N \in Nat
  BY DEF N
<1>2. \A m : m \in Headings <=> m \in 1 .. N /\ IsHeading(m)
  BY DEF Headings
<1>22. \A m \in 1 .. N : lines[m].depth \in Nat
  <2>1. \A m \in 1 .. N : lines[m] \in Lines
    BY DEF N
  <2>2. \A line \in Lines : line.depth \in 0 .. 6
    BY DEF Lines
  <2>3. \A d \in 0 .. 6 : d \in Nat
    OBVIOUS
  <2> QED
    BY <2>1, <2>2, <2>3, Zenon
<1>3. \A h : h \in Around(p) <=> h \in Open(p) /\ lines[h].depth < lines[p].depth
  <2> TAKE h
  <2>1. ASSUME h \in Around(p) PROVE h \in Open(p) /\ lines[h].depth < lines[p].depth
    <3>1. h \in 1 .. p - 1 /\ IsHeading(h)
      BY <2>1 DEF Around
    <3>2. h \in Headings /\ h < p /\ h \in 1 .. N
      BY <1>1, <1>2, <3>1
    <3>3. p \in h + 1 .. p /\ IsHeading(p)
      BY <1>1, <1>2, <3>1
    <3>4. lines[p].depth > lines[h].depth
      BY <2>1, <3>3 DEF Around
    <3>5. \A g \in Headings : h < g /\ g < p => g \in h + 1 .. p /\ IsHeading(g)
      BY <1>1, <1>2, <3>1
    <3>6. \A g \in Headings : h < g /\ g < p => lines[g].depth > lines[h].depth
      BY <2>1, <3>5 DEF Around
    <3>7. lines[h].depth < lines[p].depth
      BY <1>22, <3>2, <3>4
    <3> QED
      BY <3>2, <3>6, <3>7 DEF Open
  <2>2. ASSUME h \in Open(p), lines[h].depth < lines[p].depth PROVE h \in Around(p)
    <3>1. h \in Headings /\ h < p /\ h \in 1 .. N
      BY <1>2, <2>2 DEF Open
    <3>2. h \in 1 .. p - 1
      BY <1>1, <3>1
    <3>3. ASSUME NEW g \in h + 1 .. p, IsHeading(g) PROVE lines[g].depth > lines[h].depth
      <4>1. CASE g = p
        BY <1>22, <2>2, <3>1, <4>1
      <4>2. CASE g # p
        <5>1. g \in Headings /\ h < g /\ g < p
          BY <1>1, <1>2, <3>1, <3>3, <4>2
        <5> QED
          BY <2>2, <5>1 DEF Open
      <4> QED
        BY <4>1, <4>2
    <3> QED
      BY <1>2, <3>1, <3>2, <3>3 DEF Around
  <2> QED
    BY <2>1, <2>2
<1>4. p \notin Around(p)
  <2>1. ~ (p < p)
    BY <1>1
  <2> QED
    BY <1>3, <2>1 DEF Open
<1>5. \A h : h \in Open(p + 1) <=> h \in Around(p) \/ h = p
  <2> TAKE h
  <2>1. ASSUME h \in Open(p + 1), h # p PROVE h \in Around(p)
    <3>1. h \in Headings /\ h < p + 1 /\ h \in 1 .. N
      BY <1>2, <2>1 DEF Open
    <3>2. h < p
      BY <1>1, <2>1, <3>1
    <3>3. \A g \in Headings : h < g /\ g < p => g < p + 1
      BY <1>1, <1>2
    <3>4. h \in Open(p)
      BY <2>1, <3>1, <3>2, <3>3 DEF Open
    <3>5. p < p + 1
      BY <1>1
    <3>6. lines[p].depth > lines[h].depth
      BY <2>1, <3>2, <3>5 DEF Open
    <3>7. lines[h].depth < lines[p].depth
      BY <1>22, <3>1, <3>6
    <3> QED
      BY <1>3, <3>4, <3>7
  <2>2. ASSUME h \in Around(p) PROVE h \in Open(p + 1)
    <3>1. h \in Headings /\ h < p /\ h \in 1 .. N /\ lines[h].depth < lines[p].depth
      BY <1>2, <1>3, <2>2 DEF Open
    <3>2. h < p + 1
      BY <1>1, <3>1
    <3>3. ASSUME NEW g \in Headings, h < g, g < p + 1 PROVE lines[g].depth > lines[h].depth
      <4>1. CASE g = p
        BY <1>22, <3>1, <4>1
      <4>2. CASE g < p
        BY <1>3, <2>2, <3>3, <4>2 DEF Open
      <4> QED
        BY <1>1, <1>2, <3>3, <4>1, <4>2
    <3> QED
      BY <3>1, <3>2, <3>3 DEF Open
  <2>3. p \in Open(p + 1)
    <3>1. p < p + 1 /\ \A g \in Headings : ~ (p < g /\ g < p + 1)
      BY <1>1, <1>2
    <3> QED
      BY <3>1 DEF Open
  <2> QED
    BY <2>1, <2>2, <2>3
<1>6. Around(p) = {h \in Open(p) : lines[h].depth < lines[p].depth}
  BY <1>3
<1>7. Open(p + 1) = Around(p) \cup {p}
  BY <1>5
<1> QED
  BY <1>4, <1>6, <1>7

LEMMA EnclosingFacts ==
  ASSUME lines \in Seq(Lines), stack \in Seq(Nat), NEW p \in 1 .. N, p \in Headings,
         ToSet(stack) = Open(p), Increasing(stack)
  PROVE  LET around == Enclosing(lines[p].depth) IN
         /\ around \in Seq(Nat) /\ ToSet(around) = Around(p) /\ Increasing(around)
         /\ Append(around, p) \in Seq(Nat)
         /\ ToSet(Append(around, p)) = Open(p + 1) /\ Increasing(Append(around, p))
<1> DEFINE d == lines[p].depth
           n == Len(stack)
           depth(i) == lines[stack[i]].depth
           T == {0} \cup {i \in 1 .. n : depth(i) < d}
           k == Max(T)
           around == SubSeq(stack, 1, k)
<1>1. N \in Nat /\ n \in Nat /\ \A i \in 1 .. n : stack[i] \in Nat
  BY DEF N
<1>2. Enclosing(lines[p].depth) = around
  BY Zenon DEF Enclosing
<1>3. \A i \in 1 .. n : stack[i] \in Open(p)
  <2>1. \A i \in 1 .. n : stack[i] \in ToSet(stack)
    BY ElementsOf
  <2> QED
    BY <2>1
<1>4. \A m \in 1 .. N : lines[m].depth \in Nat
  <2>1. \A m \in 1 .. N : lines[m] \in Lines
    BY DEF N
  <2>2. \A line \in Lines : line.depth \in 0 .. 6
    BY DEF Lines
  <2>3. \A e \in 0 .. 6 : e \in Nat
    OBVIOUS
  <2> QED
    BY <2>1, <2>2, <2>3, Zenon
<1>5. \A i \in 1 .. n : stack[i] \in Headings /\ stack[i] \in 1 .. N /\ stack[i] < p
  BY <1>3 DEF Open, Headings
<1>6. d \in Nat /\ \A i \in 1 .. n : depth(i) \in Nat
  BY <1>4, <1>5
<1>7. \A i, j \in 1 .. n : i < j => depth(i) < depth(j)
  <2> TAKE i, j \in 1 .. n
  <2> HAVE i < j
  <2>1. stack[i] < stack[j] /\ stack[j] \in Headings /\ stack[j] < p
    BY <1>5 DEF Increasing
  <2>2. depth(j) > depth(i)
    BY <1>3, <2>1 DEF Open
  <2> QED
    BY <1>6, <2>2
<1> HIDE DEF d, depth
<1>8. T \in SUBSET (0 .. n) /\ 0 \in T
  BY <1>1
<1> HIDE DEF T, k
<1>9. k \in T /\ \A x \in T : x <= k
  BY <1>1, <1>8, LargestExists DEF k
<1>10. k \in 0 .. n
  BY <1>8, <1>9
<1>11. \A i \in 1 .. n : depth(i) < d <=> i <= k
  <2> TAKE i \in 1 .. n
  <2>1. depth(i) < d => i <= k
    BY <1>9 DEF T
  <2>2. ASSUME i <= k PROVE depth(i) < d
    <3>1. k \in 1 .. n
      BY <1>1, <1>10, <2>2
    <3>2. depth(k) < d
      BY <1>9, <3>1 DEF T
    <3>3. i = k \/ i < k
      BY <1>1, <1>10, <2>2
    <3>4. CASE i < k
      <4>1. depth(i) < depth(k)
        BY <1>7, <3>1, <3>4
      <4> QED
        BY <1>6, <3>1, <3>2, <4>1
    <3> QED
      BY <3>2, <3>3, <3>4
  <2> QED
    BY <2>1, <2>2
<1>12. around \in Seq(Nat) /\ Len(around) = k /\ \A i \in 1 .. k : around[i] = stack[i]
  BY <1>1, <1>10
<1> HIDE DEF around
<1>13. ToSet(around) = Around(p)
  <2>1. ToSet(around) = {around[i] : i \in 1 .. k}
    BY <1>12, ElementsOf
  <2>2. Open(p) = {stack[i] : i \in 1 .. n}
    BY ElementsOf
  <2>3. Around(p) = {h \in Open(p) : lines[h].depth < d}
    BY OpenAtHeading DEF d
  <2>4. ASSUME NEW i \in 1 .. k PROVE around[i] \in Around(p)
    <3>1. i \in 1 .. n /\ i <= k
      BY <1>1, <1>10
    <3>2. depth(i) < d
      BY <1>11, <3>1
    <3> QED
      BY <1>3, <1>12, <2>3, <3>1, <3>2 DEF depth
  <2>5. ASSUME NEW h \in Around(p) PROVE \E i \in 1 .. k : h = around[i]
    <3>1. PICK i \in 1 .. n : h = stack[i]
      BY <2>2, <2>3
    <3>2. depth(i) < d
      BY <2>3, <3>1 DEF depth
    <3>3. i \in 1 .. k
      BY <1>1, <1>10, <1>11, <3>2
    <3> QED
      BY <1>12, <3>1, <3>3
  <2> QED
    BY <2>1, <2>4, <2>5
<1>14. Increasing(around)
  <2>1. \A i, j \in 1 .. k : i < j => stack[i] < stack[j]
    BY <1>1, <1>10 DEF Increasing
  <2> QED
    BY <1>12, <2>1 DEF Increasing
<1> DEFINE longer == Append(around, p)
<1>15. /\ longer \in Seq(Nat) /\ Len(longer) = k + 1 /\ longer[k + 1] = p
       /\ \A i \in 1 .. k : longer[i] = around[i]
  <2>1. p \in Nat
    BY <1>1
  <2> QED
    BY <1>12, <2>1
<1> HIDE DEF longer
<1>16. \A i \in 1 .. k + 1 : i \in 1 .. k \/ i = k + 1
  BY <1>1, <1>10
<1>17. ToSet(longer) = Open(p + 1)
  <2>1. ToSet(longer) = {longer[i] : i \in 1 .. k + 1}
    BY <1>15, ElementsOf
  <2>2. Around(p) = {around[i] : i \in 1 .. k}
    BY <1>12, <1>13, ElementsOf
  <2>3. Open(p + 1) = Around(p) \cup {p}
    BY OpenAtHeading
  <2>4. k + 1 \in 1 .. k + 1 /\ \A i \in 1 .. k : i \in 1 .. k + 1
    BY <1>1, <1>10
  <2>5. ASSUME NEW x \in ToSet(longer) PROVE x \in Around(p) \/ x = p
    BY <1>15, <1>16, <2>1, <2>2
  <2>6. ASSUME NEW x, x \in Around(p) \/ x = p PROVE x \in ToSet(longer)
    BY <1>15, <2>1, <2>2, <2>4, <2>6
  <2> QED
    BY <2>3, <2>5, <2>6
<1>18. Increasing(longer)
  <2>1. ASSUME NEW i \in 1 .. k + 1, NEW j \in 1 .. k + 1, i < j PROVE longer[i] < longer[j]
    <3>1. i \in 1 .. k
      BY <1>1, <1>10, <2>1
    <3>2. CASE j \in 1 .. k
      BY <1>12, <1>14, <1>15, <2>1, <3>1, <3>2 DEF Increasing
    <3>3. CASE j = k + 1
      <4>1. i \in 1 .. n
        BY <1>1, <1>10, <3>1
      <4>2. stack[i] < p
        BY <1>5, <4>1
      <4> QED
        BY <1>12, <1>15, <3>1, <3>3, <4>2
    <3> QED
      BY <1>16, <3>2, <3>3
  <2> QED
    BY <1>15, <2>1 DEF Increasing
<1> QED
  BY <1>2, <1>12, <1>13, <1>14, <1>15, <1>17, <1>18 DEF longer

-----------------------------------------------------------------------------
(* The steps of the chunker *)

LEMMA Reassembled ==
  ASSUME UNCHANGED << format, lines >>,
         lines \in Seq(Lines), pos' \in 1 .. N + 2, stack' \in Seq(Nat),
         Stretch(cur', pos'),
         pos' <= N + 1 => (cur' = << >> <=> pos' = 1 \/ EndsAt(pos' - 1)),
         pos' = N + 2 => cur' = << >>,
         Layout(out', pos' - Len(cur'), pos', N, Content, Firsts),
         format = "md" /\ pos' <= N + 1 =>
           /\ fence' = FenceAfter[pos' - 1]
           /\ \A m \in pos' - Len(cur') .. pos' - 1 : m \notin Headings
           /\ ToSet(stack') = Open(pos') /\ Increasing(stack'),
         format = "md" => \A i \in 1 .. Len(out') : PathRight(out'[i])
  PROVE  ChunkerInv'
<1>1. /\ N' = N /\ FenceAfter' = FenceAfter
      /\ Content' = Content /\ Firsts' = Firsts /\ Headings' = Headings
      /\ \A n : Open(n)' = Open(n) /\ Around(n)' = Around(n) /\ EndsAt(n)' = EndsAt(n)
  BY InputStays
<1>2. lines' = lines /\ format' = format
  OBVIOUS
<1>3. CurInv'
  BY <1>1 DEF CurInv
<1>4. MarkdownInv'
  BY <1>1, <1>2 DEF MarkdownInv
<1>5. PathIsEnclosing'
  BY <1>1, <1>2 DEF PathIsEnclosing, PathRight
<1>6. Layout(out, pos - Len(cur), pos, N, Content, Firsts)'
  BY <1>1
<1> QED
  BY <1>1, <1>2, <1>3, <1>4, <1>5, <1>6 DEF ChunkerInv

LEMMA PathsRight ==
  ASSUME PathIsEnclosing, format = "md"
  PROVE  \A i \in 1 .. Len(out) : PathRight(out[i])
BY DEF PathIsEnclosing, PathRight

LEMMA FlushedFacts ==
  ASSUME ChunkerInv, pos <= N + 1
  PROVE  /\ Layout(Flushed, pos, pos, N, Content, Firsts)
         /\ Flushed \in Seq(Chunks)
         /\ format = "md" => \A i \in 1 .. Len(Flushed) : PathRight(Flushed[i])
<1>1. /\ N \in Nat /\ pos \in 1 .. N + 1 /\ stack \in Seq(Nat) /\ lines \in Seq(Lines)
      /\ Stretch(cur, pos)
  BY DEF ChunkerInv, CurInv, N
<1>2. Layout(out, pos - Len(cur), pos, N, Content, Firsts)
  BY DEF ChunkerInv
<1>3. out \in Seq(Chunks)
  BY <1>2 DEF Layout, Intervals
<1>4. CASE cur = << >>
  <2>1. Flushed = out
    BY <1>4 DEF Flushed
  <2>2. pos - Len(cur) = pos
    BY <1>1, <1>4
  <2> QED
    BY <1>2, <1>3, <2>1, <2>2, PathsRight DEF ChunkerInv
<1>5. CASE cur # << >>
  <2>1. Flushed = Append(out, Chunk(cur, stack))
    BY <1>5 DEF Flushed
  <2>2. cur \in Seq(Nat) /\ Len(cur) \in Nat /\ Len(cur) > 0 /\ cur[1] = pos - Len(cur) /\ Len(cur) < pos
    BY <1>1, <1>5 DEF Stretch
  <2>3. Layout(Append(out, Chunk(cur, stack)), pos, pos, N, Content, Firsts)
    BY <1>1, <1>2, <1>5, LayoutClose
  <2>4. /\ Chunk(cur, stack) \in Chunks
        /\ Chunk(cur, stack).lines = cur /\ Chunk(cur, stack).path = stack
    BY <1>1, <2>2 DEF Chunk, Chunks
  <2>5. ASSUME format = "md" PROVE PathRight(Chunk(cur, stack))
    <3>1. /\ \A m \in pos - Len(cur) .. pos - 1 : m \notin Headings
          /\ ToSet(stack) = Open(pos) /\ Increasing(stack)
      BY <2>5 DEF ChunkerInv, MarkdownInv
    <3>2. pos - Len(cur) \in 1 .. pos - 1
      BY <1>1, <2>2
    <3>3. Open(pos) = Around(cur[1])
      BY <1>1, <2>2, <3>1, <3>2, OpenIsAround
    <3>4. \A j \in 1 .. Len(stack) - 1 : stack[j] < stack[j + 1]
      BY <1>1, <3>1 DEF Increasing
    <3> QED
      BY <2>4, <3>1, <3>3, <3>4 DEF PathRight
  <2>6. ASSUME format = "md"
        PROVE  \A i \in 1 .. Len(Append(out, Chunk(cur, stack))) :
                 PathRight(Append(out, Chunk(cur, stack))[i])
    <3>1. \A i \in 1 .. Len(out) : PathRight(out[i])
      BY <2>6, PathsRight DEF ChunkerInv
    <3> QED
      BY <1>3, <2>4, <2>5, <2>6, <3>1, PathsAppend
  <2> QED
    BY <1>3, <2>1, <2>3, <2>4, <2>6
<1> QED
  BY <1>4, <1>5

\* What holds in front of any line.
LEMMA Before ==
  ASSUME ChunkerInv, Reading
  PROVE  /\ N \in Nat /\ pos \in 1 .. N /\ lines \in Seq(Lines) /\ stack \in Seq(Nat)
         /\ Stretch(cur, pos) /\ cur \in Seq(Nat) /\ Len(cur) \in Nat /\ Len(cur) < pos
         /\ cur = << >> <=> pos = 1 \/ EndsAt(pos - 1)
         /\ Layout(out, pos - Len(cur), pos, N, Content, Firsts)
         /\ format = "md" =>
              /\ fence = FenceAfter[pos - 1]
              /\ \A m \in pos - Len(cur) .. pos - 1 : m \notin Headings
              /\ ToSet(stack) = Open(pos) /\ Increasing(stack)
<1>1. N \in Nat /\ pos \in 1 .. N + 2 /\ lines \in Seq(Lines) /\ stack \in Seq(Nat)
  BY DEF N, ChunkerInv
<1>2. pos <= N
  BY DEF Reading, N
<1>3. pos \in 1 .. N /\ pos <= N + 1
  BY <1>1, <1>2
<1>4. Stretch(cur, pos) /\ (cur = << >> <=> pos = 1 \/ EndsAt(pos - 1))
  BY <1>3 DEF ChunkerInv, CurInv
<1>5. cur \in Seq(Nat) /\ Len(cur) \in Nat /\ Len(cur) < pos
  BY <1>4 DEF Stretch
<1> QED
  BY <1>1, <1>3, <1>4, <1>5 DEF ChunkerInv, MarkdownInv

LEMMA StretchCollects ==
  ASSUME NEW p \in Nat, NEW ns, Stretch(ns, p)
  PROVE  /\ Stretch(Append(ns, p), p + 1)
         /\ Append(ns, p) # << >>
         /\ (p + 1) - Len(Append(ns, p)) = p - Len(ns)
<1> DEFINE more == Append(ns, p)
           k == Len(ns)
<1>1. ns \in Seq(Nat) /\ k \in Nat /\ k < p /\ \A i \in 1 .. k : ns[i] = p - k + i - 1
  BY DEF Stretch
<1>2. /\ more \in Seq(Nat) /\ Len(more) = k + 1 /\ more[k + 1] = p
      /\ \A i \in 1 .. k : more[i] = ns[i]
  BY <1>1
<1> HIDE DEF more, k
<1>3. \A i \in 1 .. k + 1 : more[i] = (p + 1) - (k + 1) + i - 1
  <2> TAKE i \in 1 .. k + 1
  <2>1. CASE i = k + 1
    BY <1>1, <1>2, <2>1
  <2>2. CASE i \in 1 .. k
    <3>1. more[i] = p - k + i - 1
      BY <1>1, <1>2, <2>2
    <3> QED
      BY <1>1, <2>2, <3>1
  <2> QED
    BY <1>1, <2>1, <2>2
<1>4. Stretch(more, p + 1)
  BY <1>1, <1>2, <1>3 DEF Stretch
<1>5. more # << >> /\ (p + 1) - Len(more) = p - k
  BY <1>1, <1>2
<1> QED
  BY <1>4, <1>5 DEF more, k

LEMMA CollectStep ==
  ASSUME ChunkerInv, Reading, format \in {"md", "log"},
         pos \in Content, ~EndsAt(pos), StartsAt(pos) => cur = << >>,
         Collect, UNCHANGED << format, lines, stack, out >>,
         format = "md" => fence' = FenceAfter[pos]
  PROVE  ChunkerInv'
<1>1. /\ N \in Nat /\ pos \in 1 .. N /\ lines \in Seq(Lines) /\ stack \in Seq(Nat)
      /\ Stretch(cur, pos) /\ Len(cur) \in Nat /\ Len(cur) < pos
      /\ cur = << >> <=> pos = 1 \/ EndsAt(pos - 1)
      /\ Layout(out, pos - Len(cur), pos, N, Content, Firsts)
      /\ format = "md" =>
           /\ \A m \in pos - Len(cur) .. pos - 1 : m \notin Headings
           /\ ToSet(stack) = Open(pos) /\ Increasing(stack)
  BY Before
<1>2. cur' = Append(cur, pos) /\ pos' = pos + 1
  BY DEF Collect
<1>3. pos \in Nat /\ pos' \in 1 .. N + 2 /\ pos' # 1 /\ pos' # N + 2 /\ pos' - 1 = pos
  BY <1>1, <1>2
<1>4. /\ Stretch(cur', pos') /\ cur' # << >>
      /\ pos' - Len(cur') = pos - Len(cur)
  BY <1>1, <1>2, <1>3, StretchCollects
<1>5. pos \in Firsts <=> cur = << >>
  <2>1. pos \in Firsts <=> pos = 1 \/ StartsAt(pos) \/ EndsAt(pos - 1)
    BY <1>1, LogLine, MarkdownLine
  <2> QED
    BY <1>1, <2>1
<1>6. cur = << >> <=> pos = pos - Len(cur)
  <2>1. cur = << >> <=> Len(cur) = 0
    BY <1>1 DEF Stretch
  <2>2. pos = pos - Len(cur) <=> Len(cur) = 0
    BY <1>1, <1>3, SMTT(30)
  <2> QED
    BY <2>1, <2>2
<1>7. pos - Len(cur) \in 1 .. pos
  BY <1>1
<1>8. Layout(out', pos' - Len(cur'), pos', N, Content, Firsts)
  BY <1>1, <1>2, <1>4, <1>5, <1>6, <1>7, LayoutCollect
<1>9. ASSUME format = "md"
      PROVE  /\ fence' = FenceAfter[pos' - 1]
             /\ \A m \in pos' - Len(cur') .. pos' - 1 : m \notin Headings
             /\ ToSet(stack') = Open(pos') /\ Increasing(stack')
  <2>1. pos \notin Headings
    BY <1>1, <1>9, MarkdownLine
  <2>2. Open(pos') = Open(pos)
    BY <1>1, <1>2, <2>1, OpenStays
  <2>3. \A m \in pos - Len(cur) .. pos : m \in pos - Len(cur) .. pos - 1 \/ m = pos
    BY <1>1
  <2>4. \A m \in pos' - Len(cur') .. pos' - 1 : m \notin Headings
    BY <1>1, <1>3, <1>4, <1>9, <2>1, <2>3
  <2> QED
    BY <1>1, <1>3, <1>9, <2>2, <2>4
<1>10. ~EndsAt(pos' - 1)
  BY <1>3
<1>11. format = "md" => \A i \in 1 .. Len(out') : PathRight(out'[i])
  BY PathsRight DEF ChunkerInv
<1> QED
  <2>1. UNCHANGED << format, lines >> /\ stack' \in Seq(Nat)
    BY <1>1
  <2> QED
    BY <1>1, <1>3, <1>4, <1>8, <1>9, <1>10, <1>11, <2>1, Reassembled

\* The next line is in no chunk.
LEMMA SkipStep ==
  ASSUME ChunkerInv, Reading, format = "md", pos \notin Content,
         out' = Flushed, cur' = << >>, pos' = pos + 1, fence' = FenceAfter[pos],
         UNCHANGED << format, lines, stack >>
  PROVE  ChunkerInv'
<1>1. /\ N \in Nat /\ pos \in 1 .. N /\ lines \in Seq(Lines) /\ stack \in Seq(Nat)
      /\ ToSet(stack) = Open(pos) /\ Increasing(stack)
  BY Before
<1>2. /\ pos \in Nat /\ pos' \in 1 .. N + 2 /\ pos' # 1 /\ pos' # N + 2 /\ pos' - 1 = pos
      /\ pos \in 1 .. N + 1 /\ pos <= N + 1
  BY <1>1
<1>3. Stretch(cur', pos') /\ pos' - Len(cur') = pos'
  BY <1>2 DEF Stretch
<1>4. /\ Layout(Flushed, pos, pos, N, Content, Firsts)
      /\ \A i \in 1 .. Len(Flushed) : PathRight(Flushed[i])
  BY <1>2, FlushedFacts
<1>5. pos \notin Firsts
  BY DEF Firsts
<1>6. Layout(Flushed, pos + 1, pos + 1, N, Content, Firsts)
  BY <1>1, <1>2, <1>4, <1>5, LayoutSkip
<1>7. Layout(out', pos' - Len(cur'), pos', N, Content, Firsts)
  BY <1>3, <1>6
<1>8. pos \notin Headings /\ EndsAt(pos)
  BY <1>1, MarkdownLine
<1>9. /\ fence' = FenceAfter[pos' - 1]
      /\ \A m \in pos' - Len(cur') .. pos' - 1 : m \notin Headings
      /\ ToSet(stack') = Open(pos') /\ Increasing(stack')
  <2>1. Open(pos') = Open(pos)
    BY <1>1, <1>8, OpenStays
  <2>2. \A m \in pos' - Len(cur') .. pos' - 1 : FALSE
    BY <1>2, <1>3
  <2> QED
    BY <1>1, <1>2, <2>1, <2>2
<1> QED
  <2>1. UNCHANGED << format, lines >> /\ stack' \in Seq(Nat) /\ EndsAt(pos' - 1)
    BY <1>1, <1>2, <1>8
  <2> QED
    BY <1>1, <1>2, <1>3, <1>4, <1>7, <1>9, <2>1, Reassembled

\* The next line begins the next chunk.
LEMMA EntryStep ==
  ASSUME ChunkerInv, Reading, format = "log",
         ~EndsAt(pos), StartsAt(pos) \/ cur = << >>,
         out' = Flushed, cur' = << pos >>, pos' = pos + 1,
         UNCHANGED << format, lines, stack >>
  PROVE  ChunkerInv'
<1>1. /\ N \in Nat /\ pos \in 1 .. N /\ lines \in Seq(Lines) /\ stack \in Seq(Nat)
      /\ cur = << >> <=> pos = 1 \/ EndsAt(pos - 1)
  BY Before
<1>2. /\ pos \in Nat /\ pos' \in 1 .. N + 2 /\ pos' # 1 /\ pos' # N + 2 /\ pos' - 1 = pos
      /\ pos \in 1 .. N + 1 /\ pos <= N + 1 /\ pos \in 1 .. pos
  BY <1>1
<1>3. Stretch(cur', pos') /\ pos' - Len(cur') = pos /\ cur' # << >>
  BY <1>2 DEF Stretch
<1>4. Layout(Flushed, pos, pos, N, Content, Firsts)
  BY <1>2, FlushedFacts
<1>5. pos \in Content /\ pos \in Firsts
  BY <1>1, LogLine
<1>6. Layout(Flushed, pos, pos + 1, N, Content, Firsts)
  BY <1>1, <1>2, <1>4, <1>5, LayoutCollect
<1>7. Layout(out', pos' - Len(cur'), pos', N, Content, Firsts)
  BY <1>3, <1>6
<1>8. format # "md"
  OBVIOUS
<1> QED
  <2>1. UNCHANGED << format, lines >> /\ stack' \in Seq(Nat) /\ ~EndsAt(pos' - 1)
    BY <1>1, <1>2
  <2> QED
    BY <1>1, <1>2, <1>3, <1>7, <1>8, <2>1, Reassembled

\* The next line is a chunk of its own.
LEMMA SingleStep ==
  ASSUME ChunkerInv, Reading, format \in {"md", "log"},
         pos \in Content, StartsAt(pos) \/ cur = << >>, EndsAt(pos),
         NEW path \in Seq(Nat),
         out' = Append(Flushed, Chunk(<< pos >>, path)), cur' = << >>, pos' = pos + 1,
         UNCHANGED << format, lines >>, stack' \in Seq(Nat),
         format = "md" =>
           /\ fence' = FenceAfter[pos]
           /\ ToSet(path) = Around(pos) /\ Increasing(path)
           /\ ToSet(stack') = Open(pos + 1) /\ Increasing(stack')
  PROVE  ChunkerInv'
<1>1. /\ N \in Nat /\ pos \in 1 .. N /\ lines \in Seq(Lines)
      /\ cur = << >> <=> pos = 1 \/ EndsAt(pos - 1)
  BY Before
<1>2. /\ pos \in Nat /\ pos' \in 1 .. N + 2 /\ pos' # 1 /\ pos' # N + 2 /\ pos' - 1 = pos
      /\ pos \in 1 .. N + 1 /\ pos <= N + 1
  BY <1>1
<1>3. Stretch(cur', pos') /\ pos' - Len(cur') = pos'
  BY <1>2 DEF Stretch
<1>4. /\ Layout(Flushed, pos, pos, N, Content, Firsts)
      /\ Flushed \in Seq(Chunks)
      /\ format = "md" => \A i \in 1 .. Len(Flushed) : PathRight(Flushed[i])
  BY <1>2, FlushedFacts
<1>5. pos \in Firsts
  BY <1>1, LogLine, MarkdownLine
<1>6. Layout(Append(Flushed, Chunk(<< pos >>, path)), pos + 1, pos + 1, N, Content, Firsts)
  BY <1>1, <1>4, <1>5, LayoutSingle
<1>7. Layout(out', pos' - Len(cur'), pos', N, Content, Firsts)
  BY <1>3, <1>6
<1>8. ASSUME format = "md" PROVE \A i \in 1 .. Len(out') : PathRight(out'[i])
  <2>1. /\ Chunk(<< pos >>, path) \in Chunks
        /\ Chunk(<< pos >>, path).path = path /\ Chunk(<< pos >>, path).lines[1] = pos
    BY <1>2 DEF Chunk, Chunks
  <2>2. \A j \in 1 .. Len(path) - 1 : path[j] < path[j + 1]
    <3>1. Increasing(path) /\ Len(path) \in Nat
      BY <1>8
    <3> QED
      BY <3>1 DEF Increasing
  <2>3. PathRight(Chunk(<< pos >>, path))
    BY <1>8, <2>1, <2>2 DEF PathRight
  <2> QED
    BY <1>4, <1>8, <2>1, <2>3, PathsAppend
<1>9. ASSUME format = "md"
      PROVE  /\ fence' = FenceAfter[pos' - 1]
             /\ \A m \in pos' - Len(cur') .. pos' - 1 : m \notin Headings
             /\ ToSet(stack') = Open(pos') /\ Increasing(stack')
  <2>1. \A m \in pos' - Len(cur') .. pos' - 1 : FALSE
    BY <1>2, <1>3
  <2> QED
    BY <1>2, <1>9, <2>1
<1> QED
  <2>1. UNCHANGED << format, lines >> /\ stack' \in Seq(Nat) /\ EndsAt(pos' - 1)
    BY <1>2
  <2> QED
    BY <1>1, <1>2, <1>3, <1>7, <1>8, <1>9, <2>1, Reassembled

LEMMA FinishStep ==
  ASSUME ChunkerInv, Finish
  PROVE  ChunkerInv'
<1>1. /\ N \in Nat /\ lines \in Seq(Lines) /\ stack \in Seq(Nat) /\ pos = N + 1
  BY DEF ChunkerInv, Finish, N
<1>2. out' = Flushed /\ cur' = << >> /\ pos' = pos + 1 /\ UNCHANGED << format, lines, stack >>
  BY DEF Finish
<1>3. pos' = N + 2 /\ pos' \in 1 .. N + 2 /\ ~ (pos' <= N + 1) /\ pos \in 1 .. N + 1 /\ ~ (pos <= N)
      /\ pos <= N + 1
  BY <1>1, <1>2
<1>4. Stretch(cur', pos') /\ pos' - Len(cur') = pos'
  BY <1>1, <1>2, <1>3 DEF Stretch
<1>5. /\ Layout(Flushed, pos, pos, N, Content, Firsts)
      /\ format = "md" => \A i \in 1 .. Len(Flushed) : PathRight(Flushed[i])
  BY <1>3, FlushedFacts
<1>6. Layout(Flushed, pos + 1, pos + 1, N, Content, Firsts)
  BY <1>1, <1>3, <1>5, LayoutSkip
<1>7. Layout(out', pos' - Len(cur'), pos', N, Content, Firsts)
  BY <1>2, <1>4, <1>6
<1>8. format = "md" => \A i \in 1 .. Len(out') : PathRight(out'[i])
  BY <1>2, <1>5
<1> QED
  <2>1. UNCHANGED << format, lines >> /\ stack' \in Seq(Nat) /\ cur' = << >>
    BY <1>1, <1>2
  <2> QED
    BY <1>1, <1>3, <1>4, <1>7, <1>8, <2>1, Reassembled

LEMMA SplitParagraphsStep ==
  ASSUME ChunkerInv, SplitParagraphs
  PROVE  ChunkerInv'
<1>1. /\ N \in Nat /\ lines \in Seq(Lines) /\ stack \in Seq(Nat) /\ pos = 1
      /\ Stretch(cur, pos) /\ format = "txt"
  BY DEF ChunkerInv, CurInv, SplitParagraphs, N
<1>2. out' = Paragraphs /\ pos' = N + 2 /\ UNCHANGED << format, lines, cur, stack >>
  BY DEF SplitParagraphs, N
<1>3. cur \in Seq(Nat) /\ Len(cur) < 1
  BY <1>1 DEF Stretch
<1>4. cur = << >>
  BY <1>3
<1>5. pos' \in 1 .. N + 2 /\ ~ (pos' <= N + 1)
  BY <1>1, <1>2
<1>6. Stretch(cur', pos') /\ pos' - Len(cur') = pos' /\ cur' = << >>
  BY <1>1, <1>2, <1>4, <1>5 DEF Stretch
<1>7. Layout(out', pos' - Len(cur'), pos', N, Content, Firsts)
  BY <1>1, <1>2, <1>6, LayoutParagraphs
<1>8. format # "md"
  BY <1>1
<1> QED
  <2>1. UNCHANGED << format, lines >> /\ stack' \in Seq(Nat)
    BY <1>1, <1>2
  <2> QED
    BY <1>1, <1>5, <1>6, <1>7, <1>8, <2>1, Reassembled

LEMMA NextKind ==
  ASSUME lines \in Seq(Lines), Reading, pos \in 1 .. N
  PROVE  Kind = lines[pos].kind /\ Kind \in Kinds
<1>1. lines[pos] \in Lines
  BY DEF N
<1>2. lines[pos].kind \in Kinds
  BY <1>1 DEF Lines
<1> QED
  BY <1>2 DEF Kind

LEMMA ChunkerStep ==
  ASSUME ChunkerInv, ChunkerNext
  PROVE  ChunkerInv'
<1> DEFINE Next1 == LogBlank \/ LogContinuation \/ LogEntry
<1>1. ASSUME Reading, format = "log", Next1 PROVE ChunkerInv'
  <2>1. /\ pos \in 1 .. N /\ lines \in Seq(Lines) /\ Kind = lines[pos].kind
        /\ cur = << >> <=> pos = 1 \/ EndsAt(pos - 1)
    BY <1>1, Before, NextKind
  <2>2. /\ pos \in Content
        /\ StartsAt(pos) <=> Kind # "indented"
        /\ EndsAt(pos) <=> Kind = "blank"
    BY <1>1, <2>1, LogLine
  <2>3. format \in {"md", "log"} /\ format # "md"
    BY <1>1
  <2>4. CASE LogBlank
    <3>1. /\ out' = Append(Flushed, Chunk(<< pos >>, << >>)) /\ cur' = << >> /\ pos' = pos + 1
          /\ UNCHANGED << format, lines, stack >> /\ Kind = "blank"
      BY <2>4 DEF LogBlank
    <3>2. StartsAt(pos) /\ EndsAt(pos) /\ << >> \in Seq(Nat) /\ stack' \in Seq(Nat)
      BY <1>1, <2>2, <3>1, Before
    <3> QED
      BY <1>1, <2>2, <2>3, <3>1, <3>2, SingleStep
  <2>5. CASE LogContinuation
    <3>1. /\ Collect /\ UNCHANGED << format, lines, stack, out >>
          /\ Kind = "indented" /\ cur # << >>
      BY <2>5 DEF LogContinuation
    <3>2. ~StartsAt(pos) /\ ~EndsAt(pos)
      BY <2>2, <3>1
    <3> QED
      BY <1>1, <2>2, <2>3, <3>1, <3>2, CollectStep
  <2>6. CASE LogEntry
    <3>1. /\ out' = Flushed /\ cur' = << pos >> /\ pos' = pos + 1
          /\ UNCHANGED << format, lines, stack >>
          /\ Kind # "blank" /\ (Kind = "indented" => cur = << >>)
      BY <2>6 DEF LogEntry
    <3>2. ~EndsAt(pos) /\ (StartsAt(pos) \/ cur = << >>)
      BY <2>2, <3>1
    <3> QED
      BY <1>1, <3>1, <3>2, EntryStep
  <2> QED
    BY <1>1, <2>4, <2>5, <2>6
<1> DEFINE Next2 == Fenced \/ OpenFence \/ EndParagraph \/ Heading \/ Paragraph
<1>2. ASSUME Reading, format = "md", Next2 PROVE ChunkerInv'
  <2>1. /\ pos \in 1 .. N /\ N \in Nat /\ lines \in Seq(Lines) /\ stack \in Seq(Nat)
        /\ Kind = lines[pos].kind /\ Kind \in Kinds
        /\ cur = << >> <=> pos = 1 \/ EndsAt(pos - 1)
        /\ fence = FenceAfter[pos - 1]
        /\ ToSet(stack) = Open(pos) /\ Increasing(stack)
    BY <1>2, Before, NextKind
  <2>2. /\ pos \in Headings <=> Kind = "heading" /\ fence = ""
        /\ pos \in Content <=> Kind # "blank" \/ fence # ""
        /\ pos \in Content => (pos \in Firsts <=> pos = 1 \/ StartsAt(pos) \/ EndsAt(pos - 1))
        /\ StartsAt(pos) <=> pos \in Headings
        /\ EndsAt(pos) <=> pos \in Headings \/ pos \notin Content
        /\ FenceAfter[pos] = NextFence("md", lines[pos], fence)
    BY <1>2, <2>1, MarkdownLine
  <2>3. FenceAfter[pos] = IF fence # "" THEN IF Kind = fence THEN "" ELSE fence
                          ELSE IF Kind \in {"backticks", "tildes"} THEN Kind ELSE ""
    BY <2>1, <2>2, Zenon DEF NextFence
  <2>4. format \in {"md", "log"}
    BY <1>2
  <2>5. CASE Fenced
    <3>1. /\ Collect /\ UNCHANGED << format, lines, stack, out >>
          /\ fence # "" /\ fence' = IF Kind = fence THEN "" ELSE fence
      BY <2>5 DEF Fenced
    <3>2. pos \in Content /\ ~StartsAt(pos) /\ ~EndsAt(pos) /\ fence' = FenceAfter[pos]
      BY <2>2, <2>3, <3>1
    <3> QED
      BY <1>2, <2>4, <3>1, <3>2, CollectStep
  <2>6. CASE OpenFence
    <3>1. /\ Collect /\ UNCHANGED << format, lines, stack, out >>
          /\ fence = "" /\ Kind \in {"backticks", "tildes"} /\ fence' = Kind
      BY <2>6 DEF OpenFence
    <3>2. pos \in Content /\ ~StartsAt(pos) /\ ~EndsAt(pos) /\ fence' = FenceAfter[pos]
      BY <2>2, <2>3, <3>1
    <3> QED
      BY <1>2, <2>4, <3>1, <3>2, CollectStep
  <2>7. CASE Paragraph
    <3>1. /\ Collect /\ UNCHANGED << format, lines, stack, out >>
          /\ fence = "" /\ Kind \in {"plain", "indented"} /\ fence' = fence
      BY <2>7 DEF Paragraph
    <3>2. pos \in Content /\ ~StartsAt(pos) /\ ~EndsAt(pos)
      BY <2>2, <3>1
    <3>3. fence' = FenceAfter[pos]
      BY <2>3, <3>1
    <3> QED
      BY <1>2, <2>4, <3>1, <3>2, <3>3, CollectStep
  <2>8. CASE EndParagraph
    <3>1. /\ out' = Flushed /\ cur' = << >> /\ pos' = pos + 1 /\ fence' = fence
          /\ UNCHANGED << format, lines, stack >>
          /\ fence = "" /\ Kind = "blank"
      BY <2>8 DEF EndParagraph
    <3>2. pos \notin Content
      BY <2>2, <3>1
    <3>3. fence' = FenceAfter[pos]
      BY <2>3, <3>1
    <3> QED
      BY <1>2, <3>1, <3>2, <3>3, SkipStep
  <2>9. CASE Heading
    <3> DEFINE around == Enclosing(lines[pos].depth)
    <3>1. /\ out' = Append(Flushed, Chunk(<< pos >>, around)) /\ stack' = Append(around, pos)
          /\ cur' = << >> /\ pos' = pos + 1 /\ fence' = fence
          /\ UNCHANGED << format, lines >>
          /\ fence = "" /\ Kind = "heading"
      BY <2>9 DEF Heading
    <3>2. pos \in Content /\ pos \in Headings /\ StartsAt(pos) /\ EndsAt(pos)
      BY <2>2, <3>1
    <3>3. fence' = FenceAfter[pos]
      BY <2>3, <3>1
    <3>4. /\ around \in Seq(Nat) /\ ToSet(around) = Around(pos) /\ Increasing(around)
          /\ Append(around, pos) \in Seq(Nat)
          /\ ToSet(Append(around, pos)) = Open(pos + 1) /\ Increasing(Append(around, pos))
      BY <2>1, <3>2, EnclosingFacts
    <3> HIDE DEF around
    <3>5. /\ stack' \in Seq(Nat)
          /\ fence' = FenceAfter[pos]
          /\ ToSet(around) = Around(pos) /\ Increasing(around)
          /\ ToSet(stack') = Open(pos + 1) /\ Increasing(stack')
      BY <3>1, <3>3, <3>4
    <3> QED
      BY <1>2, <2>4, <3>1, <3>2, <3>4, <3>5, SingleStep
  <2> QED
    BY <1>2, <2>5, <2>6, <2>7, <2>8, <2>9
<1>3. \/ Reading /\ format = "log" /\ Next1
      \/ Reading /\ format = "md" /\ Next2
      \/ SplitParagraphs
      \/ Finish
  <2>1. Next1 => Reading /\ format = "log"
    BY DEF LogBlank, LogContinuation, LogEntry
  <2>2. Next2 => Reading /\ format = "md"
    BY DEF Fenced, OpenFence, EndParagraph, Heading, Paragraph
  <2> QED
    BY <2>1, <2>2 DEF ChunkerNext
<1> QED
  BY <1>1, <1>2, <1>3, FinishStep, SplitParagraphsStep

LEMMA InputUnchanged ==
  ASSUME ChunkerInv, UNCHANGED chunkerVars
  PROVE  ChunkerInv'
<1>1. UNCHANGED << format, lines, pos, cur, fence, stack, out >>
  BY DEF chunkerVars
<1>2. N \in Nat /\ pos \in 1 .. N + 2 /\ lines \in Seq(Lines) /\ stack \in Seq(Nat)
  BY DEF ChunkerInv, N
<1>3. /\ CurInv /\ MarkdownInv
      /\ Layout(out, pos - Len(cur), pos, N, Content, Firsts)
  BY DEF ChunkerInv
<1>4. format = "md" => \A i \in 1 .. Len(out) : PathRight(out[i])
  BY PathsRight DEF ChunkerInv
<1>5. /\ Stretch(cur, pos)
      /\ pos <= N + 1 => (cur = << >> <=> pos = 1 \/ EndsAt(pos - 1))
      /\ pos = N + 2 => cur = << >>
  BY <1>3 DEF CurInv
<1>6. format = "md" /\ pos <= N + 1 =>
        /\ fence = FenceAfter[pos - 1]
        /\ \A m \in pos - Len(cur) .. pos - 1 : m \notin Headings
        /\ ToSet(stack) = Open(pos) /\ Increasing(stack)
  BY <1>3 DEF MarkdownInv
<1> QED
  BY <1>1, <1>2, <1>3, <1>4, <1>5, <1>6, Reassembled

-----------------------------------------------------------------------------
(* The chunks of every request *)

\* Until a request is accepted, the chunker has nothing to read.
RequestInv ==
  /\ request \in Requests
  /\ stage \in {"request", "refused"} => BeforeFirstLine

LEMMA AcceptedInv ==
  ASSUME lines' \in Seq(Lines), BeforeFirstLine'
  PROVE  ChunkerInv'
<1>1. pos' = 1 /\ cur' = << >> /\ fence' = "" /\ stack' = << >> /\ out' = << >>
  BY DEF BeforeFirstLine
<1>11. pos' = 1 /\ cur' = << >> /\ Len(cur') = 0
  <2>1. Len(<< >>) = 0
    OBVIOUS
  <2> QED
    BY <1>1, <2>1, Zenon
<1>10. pos' = 1
  BY <1>1, Zenon
<1>12. pos' - Len(cur') = 1 /\ pos' - 1 = 0
  BY <1>11
<1>13. stack' = << >> /\ stack' \in Seq(Nat)
  <2>1. << >> \in Seq(Nat)
    OBVIOUS
  <2> QED
    BY <1>1, <2>1, Zenon
<1>2. N' \in Nat
  BY DEF N
<1>3. FenceAfter'[0] = ""
  <2>1. FenceAfter' = FenceOf(format', lines')
    BY Zenon DEF FenceAfter, FenceOf
  <2> QED
    BY <2>1, FenceUnfolds
<1>4. \A h \in Headings' : h \in Nat /\ h > 0
  BY <1>2 DEF Headings
<1>5. CurInv'
  <2>1. Stretch(<< >>, 1)
    BY DEF Stretch
  <2>2. Stretch(cur', pos')
    BY <1>1, <2>1, Zenon
  <2>3. pos' # N' + 2
    BY <1>2, <1>10 DEF N
  <2> QED
    BY <1>11, <2>2, <2>3, Zenon DEF CurInv
<1>6. MarkdownInv'
  <2>1. Open(1)' = {}
    BY <1>4 DEF Open
  <2>2. ToSet(stack') = {} /\ Increasing(stack')
    <3>1. ToSet(<< >>) = {} /\ Increasing(<< >>)
      BY DEF ToSet, Increasing
    <3> QED
      BY <1>1, <3>1, Zenon
  <2>3. fence' = FenceAfter'[pos' - 1]
    BY <1>1, <1>3, <1>12, Zenon
  <2>4. \A m \in pos' - Len(cur') .. pos' - 1 : FALSE
    BY <1>12
  <2>5. Open(pos)' = Open(1)'
    BY <1>1
  <2> QED
    BY <2>1, <2>2, <2>3, <2>4, <2>5 DEF MarkdownInv
<1>7. Layout(out, pos - Len(cur), pos, N, Content, Firsts)'
  <2>1. pos' - Len(cur') = 1
    BY <1>12
  <2>2. Intervals(<< >>, 1, N')
    BY DEF Intervals
  <2>3. \A m \in 1 .. N' : ~ (m < 1)
    BY <1>2
  <2>4. Layout(<< >>, 1, 1, N', Content', Firsts')
    BY <2>2, <2>3 DEF Layout
  <2> QED
    BY <1>1, <2>1, <2>4, Zenon
<1>8. PathIsEnclosing'
  <2>1. \A i \in 1 .. Len(<< >>) : FALSE
    OBVIOUS
  <2>2. \A i \in 1 .. Len(out') : FALSE
    BY <1>1, <2>1, Zenon
  <2> QED
    BY <2>2, Zenon DEF PathIsEnclosing
<1>9. pos' \in 1 .. N' + 2 /\ stack' \in Seq(Nat)
  <2>1. pos' \in 1 .. N' + 2
    BY <1>2, <1>10 DEF N
  <2> QED
    BY <2>1, <1>13
<1> QED
  BY <1>5, <1>6, <1>7, <1>8, <1>9 DEF ChunkerInv

\* What the layout says when the last line was read.
LEMMA DoneLayout ==
  ASSUME ChunkerInv, Done
  PROVE  /\ N \in Nat /\ out \in Seq(Chunks)
         /\ Intervals(out, N + 2, N)
         /\ \A m \in 1 .. N :
              /\ m \in Content <=> \E i \in 1 .. Len(out) : Holds(out[i], m)
              /\ m \in Firsts <=> \E i \in 1 .. Len(out) : m = FirstLine(out[i])
<1>1. N \in Nat /\ pos = N + 2
  BY DEF ChunkerInv, Done, N
<1>2. cur = << >>
  BY <1>1 DEF ChunkerInv, CurInv
<1>3. pos - Len(cur) = N + 2
  BY <1>1, <1>2
<1>4. Layout(out, N + 2, N + 2, N, Content, Firsts)
  BY <1>1, <1>3 DEF ChunkerInv
<1>5. \A m \in 1 .. N : m < N + 2 /\ ~ (N + 2 <= m) /\ m # N + 2
  BY <1>1
<1>6. Intervals(out, N + 2, N)
  BY <1>4 DEF Layout
<1> QED
  BY <1>1, <1>4, <1>5, <1>6 DEF Layout, Intervals

LEMMA ChunksAreContent ==
  ASSUME ChunkerInv
  PROVE  LinesOnceInOrder
<1> SUFFICES ASSUME Done
             PROVE  LET all == FlattenSeq([i \in 1 .. Len(out) |-> out[i].lines]) IN
                    /\ ToSet(all) = Content
                    /\ \A i \in 1 .. Len(all) - 1 : all[i] < all[i + 1]
  BY Zenon DEF LinesOnceInOrder
<1> DEFINE ss == [i \in 1 .. Len(out) |-> out[i].lines]
           all == FlattenSeq(ss)
           n == Len(out)
<1>1. /\ N \in Nat /\ out \in Seq(Chunks) /\ Intervals(out, N + 2, N)
      /\ \A m \in 1 .. N : m \in Content <=> \E i \in 1 .. n : Holds(out[i], m)
  BY DoneLayout
<1>2. /\ n \in Nat
      /\ \A i \in 1 .. n : /\ out[i].lines \in Seq(Nat) /\ Len(out[i].lines) \in Nat
                           /\ FirstLine(out[i]) \in 1 .. N /\ LastLine(out[i]) \in 1 .. N
                           /\ FirstLine(out[i]) <= LastLine(out[i])
                           /\ \A j \in 1 .. Len(out[i].lines) :
                                out[i].lines[j] = FirstLine(out[i]) + j - 1
  <2>1. n \in Nat /\ N + 2 \in Nat
    BY <1>1
  <2>2. \A i \in 1 .. n :
          /\ out[i].lines \in Seq(Nat)
          /\ FirstLine(out[i]) \in 1 .. N /\ LastLine(out[i]) \in 1 .. N
          /\ FirstLine(out[i]) <= LastLine(out[i])
    BY <1>1, <2>1, IntervalsFacts
  <2>3. \A i \in 1 .. n : \A j \in 1 .. Len(out[i].lines) :
          out[i].lines[j] = FirstLine(out[i]) + j - 1
    BY <1>1 DEF Intervals
  <2>4. \A i \in 1 .. n : Len(out[i].lines) \in Nat
    BY <2>2
  <2> QED
    BY <2>1, <2>2, <2>3, <2>4
<1>3. \A i, h \in 1 .. n : i < h => LastLine(out[i]) < FirstLine(out[h])
  BY <1>1 DEF Intervals
<1>4. /\ ss \in Seq(Seq(Nat)) /\ Len(ss) = n
      /\ \A i \in 1 .. n : ss[i] = out[i].lines
  BY <1>2
<1> HIDE DEF ss
<1>5. ASSUME NEW i \in 1 .. n, NEW j \in 1 .. Len(ss[i])
      PROVE  /\ ss[i][j] = FirstLine(out[i]) + j - 1
             /\ Holds(out[i], ss[i][j]) /\ ss[i][j] \in 1 .. N /\ ss[i][j] \in Nat
  <2>1. ss[i][j] = FirstLine(out[i]) + j - 1
    BY <1>2, <1>4
  <2>2. LastLine(out[i]) = FirstLine(out[i]) + Len(ss[i]) - 1
    BY <1>2, <1>4 DEF LastLine, FirstLine
  <2>3. /\ FirstLine(out[i]) \in 1 .. N /\ LastLine(out[i]) \in 1 .. N
        /\ Len(ss[i]) \in Nat
    BY <1>2, <1>4
  <2> DEFINE f == FirstLine(out[i])
             l == LastLine(out[i])
             x == ss[i][j]
             k == Len(ss[i])
  <2> HIDE DEF f, l, x, k
  <2>4. x = f + j - 1 /\ l = f + k - 1 /\ f \in 1 .. N /\ l \in 1 .. N /\ k \in Nat /\ j \in 1 .. k
    BY <2>1, <2>2, <2>3 DEF f, l, x, k
  <2>5. f <= x /\ x <= l /\ x \in 1 .. N /\ x \in Nat
    BY <1>1, <2>4
  <2> QED
    BY <2>1, <2>5 DEF f, l, x, Holds
<1>6. ASSUME NEW i \in 1 .. n, NEW x \in 1 .. N, Holds(out[i], x)
      PROVE  \E j \in 1 .. Len(ss[i]) : x = ss[i][j]
  <2>1. LastLine(out[i]) = FirstLine(out[i]) + Len(ss[i]) - 1 /\ Len(ss[i]) \in Nat
    BY <1>2, <1>4 DEF LastLine, FirstLine
  <2> DEFINE f == FirstLine(out[i])
             l == LastLine(out[i])
             k == Len(ss[i])
  <2>2. f \in 1 .. N /\ l \in 1 .. N /\ l = f + k - 1 /\ k \in Nat /\ f <= x /\ x <= l
    BY <1>2, <1>6, <2>1 DEF Holds
  <2> HIDE DEF f, l, k
  <2>3. x - f + 1 \in 1 .. k /\ x = f + (x - f + 1) - 1
    BY <1>1, <2>2
  <2>4. \A j \in 1 .. k : ss[i][j] = f + j - 1
    BY <1>5 DEF f, k
  <2>5. x = ss[i][x - f + 1]
    BY <2>3, <2>4
  <2> QED
    BY <2>3, <2>5 DEF k
<1>7. \A x : x \in ToSet(all) <=> \E i \in 1 .. Len(ss) : \E j \in 1 .. Len(ss[i]) : x = ss[i][j]
  BY <1>4, FlattenElements, ZenonT(40)
<1>8. \A k \in 1 .. Len(all) - 1 : Precedes(ss, all[k], all[k + 1])
  BY <1>4, FlattenNeighbours
<1> HIDE DEF all
<1>9. Content \subseteq 1 .. N
  BY DEF Content, N
<1>10. ToSet(all) = Content
  <2>1. ASSUME NEW x \in ToSet(all) PROVE x \in Content
    <3>1. PICK i \in 1 .. n : \E j \in 1 .. Len(ss[i]) : x = ss[i][j]
      BY <1>4, <1>7
    <3>2. Holds(out[i], x) /\ x \in 1 .. N
      BY <1>5, <3>1
    <3> QED
      BY <1>1, <3>2
  <2>2. ASSUME NEW x \in Content PROVE x \in ToSet(all)
    <3>1. x \in 1 .. N
      BY <1>9
    <3>2. PICK i \in 1 .. n : Holds(out[i], x)
      BY <1>1, <3>1
    <3>3. \E j \in 1 .. Len(ss[i]) : x = ss[i][j]
      BY <1>6, <3>1, <3>2
    <3> QED
      BY <1>4, <1>7, <3>3
  <2> QED
    BY <2>1, <2>2
<1>11. ASSUME NEW k \in 1 .. Len(all) - 1 PROVE all[k] < all[k + 1]
  <2>1. PICK i \in 1 .. n, h \in 1 .. n :
          \E j \in 1 .. Len(ss[i]), m \in 1 .. Len(ss[h]) :
            /\ all[k] = ss[i][j] /\ all[k + 1] = ss[h][m]
            /\ (i = h /\ m = j + 1) \/ i < h
    BY <1>4, <1>8 DEF Precedes
  <2>2. PICK j \in 1 .. Len(ss[i]), m \in 1 .. Len(ss[h]) :
            /\ all[k] = ss[i][j] /\ all[k + 1] = ss[h][m]
            /\ (i = h /\ m = j + 1) \/ i < h
    BY <2>1
  <2>3. /\ ss[i][j] = FirstLine(out[i]) + j - 1 /\ ss[h][m] = FirstLine(out[h]) + m - 1
        /\ ss[i][j] \in Nat /\ ss[h][m] \in Nat
        /\ ss[i][j] <= LastLine(out[i]) /\ FirstLine(out[h]) <= ss[h][m]
    BY <1>5 DEF Holds
  <2>4. FirstLine(out[i]) \in Nat /\ LastLine(out[i]) \in Nat /\ FirstLine(out[h]) \in Nat
    BY <1>2, SMTT(30)
  <2>5. j \in Nat /\ m \in Nat
    BY <1>2, <1>4
  <2> DEFINE a == ss[i][j]
             b == ss[h][m]
  <2> HIDE DEF a, b
  <2>6. CASE i < h
    <3>1. LastLine(out[i]) < FirstLine(out[h])
      BY <1>3, <2>6
    <3>2. a \in Nat /\ b \in Nat /\ a <= LastLine(out[i]) /\ FirstLine(out[h]) <= b
      BY <2>3 DEF a, b
    <3>3. a < b
      BY <2>4, <3>1, <3>2
    <3> QED
      BY <2>2, <3>3 DEF a, b
  <2>7. CASE i = h /\ m = j + 1
    <3>1. a = FirstLine(out[i]) + j - 1 /\ b = FirstLine(out[i]) + (j + 1) - 1
      BY <2>3, <2>7 DEF a, b
    <3>2. a < b
      BY <2>4, <2>5, <3>1
    <3> QED
      BY <2>2, <3>2 DEF a, b
  <2> QED
    BY <2>2, <2>6, <2>7
<1> QED
  BY <1>10, <1>11 DEF all, ss

LEMMA ChunksBeginWhereTheyShould ==
  ASSUME ChunkerInv
  PROVE  ChunksBeginRight
<1> SUFFICES ASSUME Done PROVE {out[i].lines[1] : i \in 1 .. Len(out)} = Firsts
  BY Zenon DEF ChunksBeginRight, Firsts
<1>1. /\ Intervals(out, N + 2, N) /\ N \in Nat
      /\ \A m \in 1 .. N : m \in Firsts <=> \E i \in 1 .. Len(out) : m = FirstLine(out[i])
  BY DoneLayout
<1>2. \A i \in 1 .. Len(out) : FirstLine(out[i]) \in 1 .. N /\ FirstLine(out[i]) = out[i].lines[1]
  BY <1>1, IntervalsFacts DEF FirstLine
<1>3. Firsts \subseteq 1 .. N
  BY DEF Firsts, Content, N
<1> QED
  BY <1>1, <1>2, <1>3, ZenonT(30)

LEMMA WayInit ==
  ASSUME IngestInit
  PROVE  RequestInv /\ ChunkerInv
<1>1. /\ BeforeFirstLine /\ request \in Requests /\ format = "" /\ lines = << >>
  BY DEF IngestInit, FloorInit
<1>2. pos = 1 /\ cur = << >> /\ stack = << >> /\ out = << >>
  BY <1>1 DEF BeforeFirstLine
<1>3. N = 0
  BY <1>1 DEF N
<1>4. RequestInv
  BY <1>1 DEF RequestInv
<1>5. Stretch(<< >>, 1) /\ << >> \in Seq(Nat) /\ << >> \in Seq(Lines) /\ Len(<< >>) = 0
  BY DEF Stretch
<1>6. pos \in 1 .. N + 2 /\ pos # N + 2 /\ pos - Len(cur) = 1 /\ pos = 1
  <2>1. Len(cur) = 0
    BY <1>2, <1>5, Zenon
  <2>2. pos = 1
    BY <1>2
  <2> QED
    BY <1>3, <2>1, <2>2
<1>7. CurInv
  <2>1. Stretch(cur, pos) /\ cur = << >>
    BY <1>2, <1>5, Zenon
  <2> QED
    BY <1>6, <2>1, Zenon DEF CurInv
<1>8. MarkdownInv
  BY <1>1 DEF MarkdownInv
<1>9. Layout(out, pos - Len(cur), pos, N, Content, Firsts)
  <2>1. Layout(<< >>, 1, 1, 0, Content, Firsts)
    BY DEF Layout, Intervals
  <2> QED
    BY <1>2, <1>3, <1>6, <2>1, Zenon
<1>10. PathIsEnclosing
  BY <1>1 DEF PathIsEnclosing
<1>11. lines \in Seq(Lines) /\ stack \in Seq(Nat)
  BY <1>1, <1>2, <1>5, Zenon
<1> QED
  BY <1>4, <1>6, <1>7, <1>8, <1>9, <1>10, <1>11 DEF ChunkerInv

\* Only accepting the request and the steps of the chunker touch the state of the chunker.
LEMMA WaySteps ==
  ASSUME [IngestNext]_vars
  PROVE  /\ request' = request
         /\ \/ AcceptRequest
            \/ ChunkLine
            \/ UNCHANGED chunkerVars /\ (stage' \in {"request", "refused"} => stage = "request" \/ stage' = stage)
<1>1. CASE RefuseRequest
  BY <1>1 DEF RefuseRequest
<1>2. CASE AcceptRequest
  BY <1>2 DEF AcceptRequest
<1>3. CASE FloorNext /\ UNCHANGED << request, reply >>
  <2>1. request' = request
    BY <1>3
  <2>2. CASE ChunkDialogue
    BY <2>1, <2>2 DEF ChunkDialogue
  <2>3. CASE ChunkLine
    BY <2>1, <2>3
  <2>4. CASE ChunkItems
    BY <2>1, <2>4 DEF ChunkItems
  <2>5. CASE DropBlank \/ DropSeparator \/ DropHeartbeat \/ DropDuplicate \/ Keep
    BY <2>1, <2>5, Zenon DEF DropBlank, DropSeparator, DropHeartbeat, DropDuplicate, Keep, Drop
  <2> QED
    BY <1>3, <2>2, <2>3, <2>4, <2>5 DEF FloorNext
<1>4. CASE UNCHANGED vars
  BY <1>4 DEF vars, chunkerVars, floorVars
<1> QED
  BY <1>1, <1>2, <1>3, <1>4 DEF IngestNext

LEMMA WayStep ==
  ASSUME RequestInv, ChunkerInv, [IngestNext]_vars
  PROVE  RequestInv' /\ ChunkerInv'
<1>1. request' \in Requests
  BY WaySteps DEF RequestInv
<1>2. CASE AcceptRequest
  <2>1. /\ lines' = IF request.type = "dialogue" THEN << >> ELSE request.lines
        /\ stage = "request" /\ stage' = "chunking"
        /\ UNCHANGED << pos, cur, fence, stack, out >>
    BY <1>2 DEF AcceptRequest
  <2>2. request.lines \in Seq(Lines)
    BY RequestsAssumption DEF RequestInv
  <2>3. lines' \in Seq(Lines)
    BY <2>1, <2>2
  <2>4. BeforeFirstLine'
    BY <2>1 DEF RequestInv, BeforeFirstLine
  <2>5. ChunkerInv'
    BY <2>3, <2>4, AcceptedInv
  <2> QED
    BY <1>1, <2>4, <2>5 DEF RequestInv
<1>3. CASE ChunkLine
  <2>1. ChunkerNext /\ stage' \in {"floor", "chunking"}
    BY <1>3 DEF ChunkLine
  <2>2. ~ (stage' \in {"request", "refused"})
    BY <2>1
  <2> QED
    BY <1>1, <2>1, <2>2, ChunkerStep DEF RequestInv
<1>4. CASE UNCHANGED chunkerVars /\ (stage' \in {"request", "refused"} => stage = "request" \/ stage' = stage)
  <2>1. ChunkerInv'
    BY <1>4, InputUnchanged
  <2>2. stage' \in {"request", "refused"} => BeforeFirstLine
    BY <1>4 DEF RequestInv
  <2>3. BeforeFirstLine => BeforeFirstLine'
    BY <1>4 DEF BeforeFirstLine, chunkerVars
  <2> QED
    BY <1>1, <2>1, <2>2, <2>3 DEF RequestInv
<1> QED
  BY <1>2, <1>3, <1>4, WaySteps

\* The chunker is where the lines it has read have brought it, whatever the request.
THEOREM ChunkerInvariance == IngestSpec => [](RequestInv /\ ChunkerInv)
<1>1. IngestInit => RequestInv /\ ChunkerInv
  BY WayInit
<1>2. (RequestInv /\ ChunkerInv) /\ [IngestNext]_vars => (RequestInv /\ ChunkerInv)'
  BY WayStep
<1> QED
  BY <1>1, <1>2, PTL DEF IngestSpec

\* For every input and every format, each line of content is in exactly one chunk,
\* and the lines keep their order.
THEOREM LinesAlwaysOnceInOrder == IngestSpec => []LinesOnceInOrder
<1>1. ChunkerInv => LinesOnceInOrder
  BY ChunksAreContent
<1> QED
  BY <1>1, ChunkerInvariance, PTL

\* For every input, a chunk begins exactly where its format has one begin.
THEOREM ChunksAlwaysBeginRight == IngestSpec => []ChunksBeginRight
<1>1. ChunkerInv => ChunksBeginRight
  BY ChunksBeginWhereTheyShould
<1> QED
  BY <1>1, ChunkerInvariance, PTL

\* For every document, with headings of any ranks in any order, the path of a
\* chunk names the sections it is in, outermost first.
THEOREM PathsAlwaysEnclose == IngestSpec => []PathIsEnclosing
<1>1. ChunkerInv => PathIsEnclosing
  BY DEF ChunkerInv
<1> QED
  BY <1>1, ChunkerInvariance, PTL

-----------------------------------------------------------------------------
(* The candidates of a dialogue *)

Words == STRING

Turns == [text : Seq(Words), speaker : Words, id : Nat]

Candidates == [text : Seq(Words), speaker : Words, turn : Nat, parent : Seq(Words),
               part : Nat, parts : Nat, from : Nat]

Parts(t) == Split(Unit(turns[t].text, turns[t].speaker, TurnId(t), t))

\* No two turns have the same id.
OwnIds == \A t, u \in 1 .. Len(turns) : TurnId(t) = TurnId(u) => t = u

\* What a candidate keeps of the turn it is from.
IsPartOf(cand, t) ==
  /\ cand.from = t /\ cand.turn = TurnId(t) /\ cand.speaker = turns[t].speaker
  /\ (IF cand.parent # << >> THEN cand.parent ELSE cand.text) = turns[t].text
  /\ Blank(cand.text) <=> Blank(turns[t].text)

LEMMA NonBlankFacts ==
  ASSUME NEW S, NEW t \in Seq(S)
  PROVE  /\ NonBlank(t) \in Seq(S)
         /\ \A i \in 1 .. Len(NonBlank(t)) :
              NonBlank(t)[i] # "" /\ \E j \in 1 .. Len(t) : NonBlank(t)[i] = t[j]
         /\ ~Blank(t) => NonBlank(t) # << >>
<1> DEFINE none == ""
           piece(j) == IF t[j] = none THEN << >> ELSE << t[j] >>
           ss == [j \in 1 .. Len(t) |-> piece(j)]
           all == FlattenSeq(ss)
<1>0. NonBlank(t) = all
  BY Zenon DEF NonBlank
<1> HIDE DEF none
<1>1. Len(t) \in Nat /\ \A j \in 1 .. Len(t) : t[j] \in S
  OBVIOUS
<1>2. ASSUME NEW j \in 1 .. Len(t)
      PROVE  /\ piece(j) \in Seq(S)
             /\ t[j] = none => piece(j) = << >>
             /\ t[j] # none => piece(j) = << t[j] >>
  <2>1. << >> \in Seq(S) /\ << t[j] >> \in Seq(S)
    BY <1>1
  <2> QED
    BY <2>1
<1> HIDE DEF piece
<1>3. ss \in Seq(Seq(S)) /\ Len(ss) = Len(t) /\ \A j \in 1 .. Len(t) : ss[j] = piece(j)
  BY <1>1, <1>2
<1> HIDE DEF ss
<1>5. all \in Seq(S)
  BY <1>3, FlattenFacts
<1>6. \A x : x \in ToSet(all) <=> \E i \in 1 .. Len(ss) : \E j \in 1 .. Len(ss[i]) : x = ss[i][j]
  <2> TAKE x
  <2> HIDE DEF all
  <2>0. ss \in Seq(Seq(S))
    BY <1>3
  <2>1. x \in ToSet(FlattenSeq(ss))
          <=> \E i \in 1 .. Len(ss) : \E j \in 1 .. Len(ss[i]) : x = ss[i][j]
    BY <2>0, FlattenElements
  <2> QED
    BY <2>1 DEF all
<1> HIDE DEF all
<1>7. ToSet(all) = {all[i] : i \in 1 .. Len(all)}
  BY <1>5 DEF ToSet
<1>8. ASSUME NEW i \in 1 .. Len(all)
      PROVE  all[i] # none /\ \E j \in 1 .. Len(t) : all[i] = t[j]
  <2>1. all[i] \in ToSet(all)
    BY <1>7
  <2>2. PICK j \in 1 .. Len(t) : \E m \in 1 .. Len(ss[j]) : all[i] = ss[j][m]
    BY <1>3, <1>6, <2>1
  <2>3. PICK m \in 1 .. Len(piece(j)) : all[i] = piece(j)[m]
    BY <1>3, <2>2
  <2>4. t[j] # none
    <3> SUFFICES ASSUME t[j] = none PROVE FALSE
      OBVIOUS
    <3>1. piece(j) = << >>
      BY <1>2
    <3> QED
      BY <3>1
  <2>5. piece(j) = << t[j] >>
    BY <1>2, <2>4
  <2>6. m = 1 /\ piece(j)[m] = t[j]
    BY <2>5
  <2> QED
    BY <2>3, <2>4, <2>6
<1>9. ASSUME ~Blank(t) PROVE all # << >>
  <2>1. PICK j \in 1 .. Len(t) : t[j] # none
    BY <1>9 DEF Blank, none
  <2>2. piece(j) = << t[j] >>
    BY <1>2, <2>1
  <2>3. j \in 1 .. Len(ss) /\ 1 \in 1 .. Len(ss[j]) /\ t[j] = ss[j][1]
    <3>1. ss[j] = << t[j] >>
      BY <1>3, <2>2
    <3>2. Len(ss[j]) = 1 /\ ss[j][1] = t[j]
      BY <3>1
    <3> QED
      BY <1>3, <3>2
  <2>4. t[j] \in ToSet(all)
    BY <1>6, <2>3
  <2>5. PICK i \in 1 .. Len(all) : t[j] = all[i]
    BY <1>7, <2>4
  <2> QED
    BY <2>5
<1> QED
  BY <1>0, <1>5, <1>8, <1>9 DEF none

LEMMA PartsFacts ==
  ASSUME turns \in Seq(Turns), NEW t \in 1 .. Len(turns)
  PROVE  /\ Parts(t) \in Seq(Candidates)
         /\ \A j \in 1 .. Len(Parts(t)) : IsPartOf(Parts(t)[j], t)
         /\ ~Blank(turns[t].text) => Parts(t) # << >>
<1> DEFINE text == turns[t].text
           speaker == turns[t].speaker
           unit == Unit(text, speaker, TurnId(t), t)
<1>1. text \in Seq(Words) /\ speaker \in Words /\ TurnId(t) \in Nat /\ t \in Nat
  <2>1. turns[t] \in Turns
    OBVIOUS
  <2> QED
    BY <2>1 DEF Turns, TurnId
<1>2. Parts(t) = Split(unit)
  BY DEF Parts
<1> HIDE DEF text, speaker
<1>3. /\ unit.text = text /\ unit.speaker = speaker /\ unit.turn = TurnId(t)
      /\ unit.parent = << >> /\ unit.from = t
      /\ unit.part = 0 /\ unit.parts = 0
      /\ unit = [text |-> text, speaker |-> speaker, turn |-> TurnId(t), parent |-> << >>,
                 part |-> 0, parts |-> 0, from |-> t]
  BY DEF Unit
<1>4. MaxParagraphs \in Nat
  BY FloorAssumption
<1>5. CASE Len(text) <= MaxParagraphs
  <2>1. Parts(t) = << unit >>
    BY <1>2, <1>3, <1>5 DEF Split
  <2>2. unit \in Candidates
    <3>1. << >> \in Seq(Words)
      OBVIOUS
    <3> QED
      BY <1>1, <1>3, <3>1 DEF Candidates
  <2> HIDE DEF unit
  <2>3. Len(Parts(t)) = 1 /\ Parts(t)[1] = unit /\ Parts(t) \in Seq(Candidates) /\ Parts(t) # << >>
    BY <2>1, <2>2
  <2>4. IsPartOf(unit, t)
    BY <1>3, Zenon DEF IsPartOf, text, speaker
  <2> QED
    BY <2>3, <2>4
<1>6. CASE ~ (Len(text) <= MaxParagraphs)
  <2> DEFINE pieces == NonBlank(text)
             part(i) == [unit EXCEPT !.text = << pieces[i] >>, !.parent = unit.text,
                                     !.part = i, !.parts = Len(pieces)]
             none == ""
  <2>1. Parts(t) = [i \in 1 .. Len(pieces) |-> part(i)]
    BY <1>2, <1>3, <1>6, Zenon DEF Split
  <2>2. /\ pieces \in Seq(Words)
        /\ \A i \in 1 .. Len(pieces) : pieces[i] # none /\ \E j \in 1 .. Len(text) : pieces[i] = text[j]
        /\ ~Blank(text) => pieces # << >>
    BY <1>1, NonBlankFacts
  <2> HIDE DEF pieces, none
  <2>22. Len(pieces) \in Nat /\ \A i \in 1 .. Len(pieces) : pieces[i] \in Words
    BY <2>2
  <2>3. text # << >>
    BY <1>1, <1>4, <1>6
  <2>4. ASSUME NEW i \in 1 .. Len(pieces) PROVE part(i) \in Candidates /\ IsPartOf(part(i), t)
    <3>1. unit \in Candidates
      <4>1. << >> \in Seq(Words)
        OBVIOUS
      <4> QED
        BY <1>1, <1>3, <4>1 DEF Candidates
    <3>2. pieces[i] \in Words /\ << pieces[i] >> \in Seq(Words) /\ i \in Nat /\ Len(pieces) \in Nat
      BY <2>22
    <3> HIDE DEF unit
    <3>3. part(i) \in Candidates
      <4>1. unit.text \in Seq(Words)
        BY <1>1, <1>3
      <4> QED
        BY <3>1, <3>2, <4>1 DEF Candidates
    <3>4. /\ part(i).from = t /\ part(i).turn = TurnId(t) /\ part(i).speaker = speaker
          /\ part(i).parent = text /\ part(i).text = << pieces[i] >>
      BY <1>3, <3>1 DEF Candidates
    <3> HIDE DEF part
    <3>5. ~Blank(<< pieces[i] >>)
      <4>1. 1 \in 1 .. Len(<< pieces[i] >>) /\ << pieces[i] >>[1] = pieces[i]
        OBVIOUS
      <4> QED
        BY <2>2, <4>1 DEF Blank, none
    <3>6. ~Blank(text)
      BY <2>2 DEF Blank, none
    <3>7. IsPartOf(part(i), t)
      BY <2>3, <3>4, <3>5, <3>6, Zenon DEF IsPartOf, text, speaker
    <3> QED
      BY <3>3, <3>7
  <2> HIDE DEF part
  <2>5. Len(pieces) \in Nat
    BY <2>22
  <2>6. /\ Parts(t) \in Seq(Candidates) /\ Len(Parts(t)) = Len(pieces)
        /\ \A i \in 1 .. Len(pieces) : Parts(t)[i] = part(i)
    BY <2>1, <2>4, <2>5
  <2>7. ~Blank(text) => Parts(t) # << >>
    <3> SUFFICES ASSUME ~Blank(text) PROVE Parts(t) # << >>
      OBVIOUS
    <3>1. pieces # << >> /\ pieces \in Seq(Words)
      BY <2>2
    <3>2. Len(pieces) # 0
      BY <3>1
    <3> QED
      BY <2>6, <3>2
  <2> QED
    BY <2>4, <2>6, <2>7 DEF text
<1> QED
  BY <1>5, <1>6

\* The candidates are those of the turns, in their order.
LEMMA DialogueFacts ==
  ASSUME turns \in Seq(Turns)
  PROVE  /\ Dialogue \in Seq(Candidates)
         /\ \A k \in 1 .. Len(Dialogue) :
              Dialogue[k].from \in 1 .. Len(turns) /\ IsPartOf(Dialogue[k], Dialogue[k].from)
         /\ \A k, l \in 1 .. Len(Dialogue) : k < l => Dialogue[k].from <= Dialogue[l].from
         /\ \A t \in 1 .. Len(turns) :
              ~Blank(turns[t].text) => \E k \in 1 .. Len(Dialogue) : Dialogue[k].from = t
<1> DEFINE ss == [t \in 1 .. Len(turns) |-> Parts(t)]
           all == FlattenSeq(ss)
           n == Len(turns)
<1>1. Dialogue = all
  BY Zenon DEF Dialogue, Parts
<1>2. n \in Nat
  OBVIOUS
<1>3. \A t \in 1 .. n : /\ Parts(t) \in Seq(Candidates)
                        /\ \A j \in 1 .. Len(Parts(t)) : IsPartOf(Parts(t)[j], t)
                        /\ ~Blank(turns[t].text) => Parts(t) # << >>
  BY PartsFacts, Zenon
<1>4. ss \in Seq(Seq(Candidates)) /\ Len(ss) = n /\ \A t \in 1 .. n : ss[t] = Parts(t)
  BY <1>2, <1>3
<1> HIDE DEF ss, n
<1>5. all \in Seq(Candidates)
  BY <1>4, FlattenFacts
<1>6. \A x : x \in ToSet(all) <=> \E i \in 1 .. Len(ss) : \E j \in 1 .. Len(ss[i]) : x = ss[i][j]
  <2> TAKE x
  <2> HIDE DEF all
  <2>1. x \in ToSet(FlattenSeq(ss))
          <=> \E i \in 1 .. Len(ss) : \E j \in 1 .. Len(ss[i]) : x = ss[i][j]
    BY <1>4, FlattenElements
  <2> QED
    BY <2>1 DEF all
<1>7. \A k, l \in 1 .. Len(all) : k < l => InFrontOf(ss, all[k], all[l])
  BY <1>4, FlattenOrder
<1> HIDE DEF all
<1>8. ToSet(all) = {all[k] : k \in 1 .. Len(all)}
  BY <1>5 DEF ToSet
<1>9. ASSUME NEW k \in 1 .. Len(all)
      PROVE  all[k].from \in 1 .. n /\ IsPartOf(all[k], all[k].from)
  <2>1. all[k] \in ToSet(all)
    BY <1>8
  <2>2. PICK t \in 1 .. n : \E j \in 1 .. Len(ss[t]) : all[k] = ss[t][j]
    BY <1>4, <1>6, <2>1
  <2>3. PICK j \in 1 .. Len(Parts(t)) : all[k] = Parts(t)[j]
    BY <1>4, <2>2
  <2>4. IsPartOf(all[k], t)
    BY <1>3, <2>3
  <2>5. all[k].from = t
    BY <2>4 DEF IsPartOf
  <2> QED
    BY <2>4, <2>5
<1>10. ASSUME NEW k \in 1 .. Len(all), NEW l \in 1 .. Len(all), k < l
       PROVE  all[k].from <= all[l].from
  <2>1. InFrontOf(ss, all[k], all[l])
    BY <1>7, <1>10
  <2>2. PICK t \in 1 .. n, u \in 1 .. n :
          \E j \in 1 .. Len(ss[t]), m \in 1 .. Len(ss[u]) :
            all[k] = ss[t][j] /\ all[l] = ss[u][m] /\ ((t = u /\ j < m) \/ t < u)
    BY <1>4, <2>1 DEF InFrontOf
  <2>3. PICK j \in 1 .. Len(Parts(t)), m \in 1 .. Len(Parts(u)) :
            all[k] = Parts(t)[j] /\ all[l] = Parts(u)[m] /\ ((t = u /\ j < m) \/ t < u)
    BY <1>4, <2>2
  <2>4. all[k].from = t /\ all[l].from = u
    BY <1>3, <2>3 DEF IsPartOf
  <2>5. t <= u
    BY <1>2, <2>3
  <2> QED
    BY <2>4, <2>5
<1>11. ASSUME NEW t \in 1 .. n, ~Blank(turns[t].text)
       PROVE  \E k \in 1 .. Len(all) : all[k].from = t
  <2>1. Parts(t) \in Seq(Candidates) /\ Parts(t) # << >>
    BY <1>3, <1>11
  <2>2. 1 \in 1 .. Len(Parts(t))
    BY <2>1
  <2>3. t \in 1 .. Len(ss) /\ 1 \in 1 .. Len(ss[t]) /\ Parts(t)[1] = ss[t][1]
    BY <1>4, <2>2
  <2>4. Parts(t)[1] \in ToSet(all)
    BY <1>6, <2>3
  <2>5. PICK k \in 1 .. Len(all) : Parts(t)[1] = all[k]
    BY <1>8, <2>4
  <2>6. all[k].from = t
    BY <1>3, <2>2, <2>5 DEF IsPartOf
  <2> QED
    BY <2>6
<1> QED
  BY <1>1, <1>5, <1>9, <1>10, <1>11 DEF n

\* The head of a candidate is the first candidate of its turn.
LEMMA HeadFacts ==
  ASSUME turns \in Seq(Turns), OwnIds, cands = Dialogue, NEW i \in 1 .. Len(cands)
  PROVE  /\ HeadOf(i) \in 1 .. i /\ IsHead(HeadOf(i))
         /\ cands[HeadOf(i)].from = cands[i].from
         /\ \A h \in 1 .. Len(cands) : cands[h].from = cands[i].from => HeadOf(i) <= h
<1> DEFINE n == Len(cands)
           from(k) == cands[k].from
           T == {h \in 1 .. i : IsHead(h)}
           S == {h \in 1 .. n : from(h) = from(i)}
           g == HeadOf(i)
           m == Min(S)
<1>1. /\ n \in Nat
      /\ \A k \in 1 .. n : from(k) \in 1 .. Len(turns) /\ IsPartOf(cands[k], from(k))
      /\ \A k, l \in 1 .. n : k < l => from(k) <= from(l)
  BY DialogueFacts
<1>2. \A k \in 1 .. n : from(k) \in Nat
  BY <1>1
<1>3. \A k, l \in 1 .. n : cands[k].turn = cands[l].turn <=> from(k) = from(l)
  <2> TAKE k, l \in 1 .. n
  <2>1. cands[k].turn = TurnId(from(k)) /\ cands[l].turn = TurnId(from(l))
    BY <1>1 DEF IsPartOf
  <2> QED
    BY <1>1, <2>1 DEF OwnIds
<1>4. \A h \in 1 .. n : IsHead(h) <=> h = 1 \/ from(h) # from(h - 1)
  <2> TAKE h \in 1 .. n
  <2>1. CASE h = 1
    BY <2>1 DEF IsHead
  <2>2. CASE h # 1
    <3>1. h - 1 \in 1 .. n
      BY <1>1, <2>2
    <3> QED
      BY <1>3, <2>2, <3>1 DEF IsHead
  <2> QED
    BY <2>1, <2>2
<1>5. g = Max(T)
  BY Zenon DEF HeadOf
<1> HIDE DEF n, from, T, S, g, m
<1>6. i \in 1 .. n
  BY DEF n
<1>7. m \in S /\ \A x \in S : m <= x
  <2>1. S \in SUBSET Nat /\ i \in S
    BY <1>1, <1>6 DEF S
  <2> QED
    BY <2>1, SmallestExists DEF m
<1>8. m \in 1 .. i /\ m \in 1 .. n /\ from(m) = from(i)
  <2>1. i \in S
    BY <1>6 DEF S
  <2>2. m \in 1 .. n /\ from(m) = from(i) /\ m <= i
    BY <1>7, <2>1 DEF S
  <2> QED
    BY <1>1, <1>6, <2>2
<1>9. m \in T
  <2>1. CASE m = 1
    BY <1>4, <1>8, <2>1 DEF T
  <2>2. CASE m # 1
    <3>1. m - 1 \in 1 .. n /\ m - 1 < m
      BY <1>1, <1>8, <2>2
    <3>2. m - 1 \notin S
      BY <1>7, <1>8, <3>1
    <3>3. from(m - 1) # from(m)
      BY <1>8, <3>1, <3>2 DEF S
    <3> QED
      BY <1>4, <1>8, <3>3 DEF T
  <2> QED
    BY <2>1, <2>2
<1>10. g \in T /\ \A x \in T : x <= g
  <2>1. i \in Nat /\ T \in SUBSET (0 .. i)
    BY <1>1, <1>6 DEF T
  <2> QED
    BY <1>5, <1>9, <2>1, LargestExists
<1>11. g \in 1 .. i /\ g \in 1 .. n /\ IsHead(g) /\ m <= g
  <2>1. g \in 1 .. i /\ IsHead(g) /\ m <= g
    BY <1>9, <1>10 DEF T
  <2> QED
    BY <1>1, <1>6, <2>1
<1>12. from(g) = from(i)
  <2>1. from(m) <= from(g)
    <3>1. CASE m = g
      BY <1>2, <1>8, <3>1
    <3>2. CASE m # g
      <4>1. m < g
        BY <1>1, <1>8, <1>11, <3>2
      <4> QED
        BY <1>1, <1>8, <1>11, <4>1
    <3> QED
      BY <3>1, <3>2
  <2>2. from(g) <= from(i)
    <3>1. CASE g = i
      BY <1>2, <1>6, <3>1
    <3>2. CASE g # i
      <4>1. g < i
        BY <1>1, <1>6, <1>11, <3>2
      <4> QED
        BY <1>1, <1>6, <1>11, <4>1
    <3> QED
      BY <3>1, <3>2
  <2> QED
    BY <1>2, <1>6, <1>8, <1>11, <2>1, <2>2
<1>13. ASSUME NEW h \in 1 .. n, from(h) = from(i) PROVE g <= h
  <2> SUFFICES ASSUME h < g PROVE FALSE
    BY <1>1, <1>11
  <2>1. g # 1 /\ g - 1 \in 1 .. n /\ h <= g - 1 /\ g - 1 < g
    BY <1>1, <1>11
  <2>2. from(g - 1) # from(g)
    BY <1>4, <1>11, <2>1
  <2>3. from(g - 1) <= from(g)
    BY <1>1, <1>11, <2>1
  <2>4. from(h) <= from(g - 1)
    <3>1. CASE h = g - 1
      BY <1>2, <2>1, <3>1
    <3>2. CASE h # g - 1
      <4>1. h < g - 1
        BY <1>1, <2>1, <3>2
      <4> QED
        BY <1>1, <2>1, <4>1
    <3> QED
      BY <3>1, <3>2
  <2> QED
    BY <1>2, <1>11, <1>12, <1>13, <2>1, <2>2, <2>3, <2>4
<1> QED
  BY <1>11, <1>12, <1>13 DEF g, n, from

\* What the floor finds among the candidates is the question among the turns.
LEMMA QuestionIsAnswered ==
  ASSUME turns \in Seq(Turns), OwnIds, cands = Dialogue, NEW i \in 1 .. Len(cands)
  PROVE  Question(i) = Answered(cands[i].from)
<1> DEFINE n == Len(cands)
           from(k) == cands[k].from
           g == HeadOf(i)
           t == from(i)
           Other(h) == ~Blank(cands[h].text) /\ cands[h].speaker # cands[g].speaker
           Spoken(u) == ~Blank(turns[u].text) /\ turns[u].speaker # turns[t].speaker
           E == {h \in 1 .. g - 1 : IsHead(h) /\ Other(h)}
           F == {u \in 1 .. t - 1 : Spoken(u)}
<1>1. /\ n \in Nat /\ Len(turns) \in Nat
      /\ \A k \in 1 .. n : from(k) \in 1 .. Len(turns) /\ IsPartOf(cands[k], from(k))
      /\ \A k, l \in 1 .. n : k < l => from(k) <= from(l)
      /\ \A u \in 1 .. Len(turns) : ~Blank(turns[u].text) => \E k \in 1 .. n : from(k) = u
  BY DialogueFacts
<1>2. \A k \in 1 .. n : /\ HeadOf(k) \in 1 .. k /\ IsHead(HeadOf(k))
                        /\ from(HeadOf(k)) = from(k)
                        /\ \A h \in 1 .. n : from(h) = from(k) => HeadOf(k) <= h
  BY HeadFacts
<1>3. Question(i) = IF E = {} THEN << >> ELSE Identity(Max(E))
  <2>1. E = {h \in 1 .. HeadOf(i) - 1 : /\ IsHead(h)
                                        /\ ~Blank(cands[h].text)
                                        /\ cands[h].speaker # cands[HeadOf(i)].speaker}
    OBVIOUS
  <2> HIDE DEF E
  <2> QED
    BY <2>1, Zenon DEF Question
<1>4. Answered(t) = IF F = {} THEN << >> ELSE turns[Max(F)].text
  <2>1. F = {u \in 1 .. t - 1 : ~Blank(turns[u].text) /\ turns[u].speaker # turns[t].speaker}
    OBVIOUS
  <2> HIDE DEF F, t
  <2> QED
    BY <2>1, Zenon DEF Answered
<1>5. \A k \in 1 .. n : Other(k) <=> Spoken(from(k))
  <2>1. g \in 1 .. n /\ from(g) = t
    BY <1>1, <1>2
  <2>2. \A k \in 1 .. n : /\ cands[k].speaker = turns[from(k)].speaker
                          /\ Blank(cands[k].text) <=> Blank(turns[from(k)].text)
    BY <1>1 DEF IsPartOf
  <2> QED
    BY <2>1, <2>2
<1>6. \A k \in 1 .. n : Identity(k) = turns[from(k)].text
  BY <1>1 DEF IsPartOf, Identity
<1>7. \A u : Spoken(u) => ~Blank(turns[u].text)
  OBVIOUS
<1>8. i \in 1 .. n
  OBVIOUS
<1> HIDE DEF n, from, g, t, Other, Spoken
<1>9. g \in 1 .. i /\ g \in 1 .. n /\ from(g) = t /\ IsHead(g)
      /\ \A h \in 1 .. n : from(h) = t => g <= h
  <2>1. /\ g \in 1 .. i /\ from(g) = t /\ IsHead(g)
        /\ \A h \in 1 .. n : from(h) = t => g <= h
    BY <1>2, <1>8 DEF g, t
  <2> QED
    BY <1>1, <1>8, <2>1
<1>10. t \in Nat /\ t \in 1 .. Len(turns) /\ \A k \in 1 .. n : from(k) \in Nat
  BY <1>1, <1>9
<1>11. ASSUME NEW h \in E PROVE h \in 1 .. n /\ from(h) \in F
  <2>1. h \in 1 .. g - 1 /\ Other(h) /\ h \in 1 .. n /\ h < g
    BY <1>1, <1>9
  <2>2. from(h) <= t
    BY <1>1, <1>9, <2>1
  <2>3. from(h) # t
    <3> SUFFICES ASSUME from(h) = t PROVE FALSE
      OBVIOUS
    <3>1. g <= h
      BY <1>9, <2>1
    <3> QED
      BY <1>1, <1>9, <2>1, <3>1
  <2>4. from(h) \in 1 .. t - 1
    <3>1. from(h) \in Nat /\ from(h) > 0
      BY <1>1, <2>1
    <3> QED
      BY <1>10, <2>2, <2>3, <3>1
  <2> QED
    BY <1>5, <2>1, <2>4
<1>12. ASSUME NEW u \in F PROVE \E h \in E : from(h) = u
  <2>1. u \in 1 .. t - 1 /\ Spoken(u) /\ u \in 1 .. Len(turns) /\ u < t
    BY <1>1, <1>10
  <2>2. PICK k \in 1 .. n : from(k) = u
    BY <1>1, <1>7, <2>1
  <2> DEFINE h == HeadOf(k)
  <2>3. h \in 1 .. k /\ IsHead(h) /\ from(h) = u
    BY <1>2, <2>2
  <2> HIDE DEF h
  <2>4. h \in 1 .. n
    BY <1>1, <2>3
  <2>5. h < g
    <3> SUFFICES ASSUME ~ (h < g) PROVE FALSE
      OBVIOUS
    <3>1. h # g
      BY <1>9, <1>10, <2>1, <2>3
    <3>2. g < h
      BY <1>1, <1>9, <2>4, <3>1
    <3>3. t <= u
      BY <1>1, <1>9, <2>3, <2>4, <3>2
    <3> QED
      BY <1>10, <2>1, <3>3
  <2>6. h \in 1 .. g - 1
    BY <1>1, <1>9, <2>4, <2>5
  <2>7. Other(h)
    BY <1>5, <2>1, <2>3, <2>4
  <2> QED
    BY <2>3, <2>6, <2>7
<1>13. CASE F = {}
  <2>1. E = {}
    BY <1>11, <1>13
  <2> QED
    BY <1>3, <1>4, <1>13, <2>1 DEF t, from
<1>14. CASE F # {}
  <2>1. E # {}
    BY <1>12, <1>14
  <2> DEFINE e == Max(E)
             f == Max(F)
  <2>2. e \in E /\ \A x \in E : x <= e
    <3>1. E \in SUBSET (0 .. n)
      BY <1>1, <1>9
    <3> HIDE DEF E
    <3> QED
      BY <1>1, <2>1, <3>1, LargestExists
  <2>3. f \in F /\ \A x \in F : x <= f
    <3>1. F \in SUBSET (0 .. t)
      BY <1>10
    <3> HIDE DEF F
    <3> QED
      BY <1>10, <1>14, <3>1, LargestExists
  <2> HIDE DEF e, f
  <2>4. PICK h \in E : from(h) = f
    BY <1>12, <2>3
  <2>5. h \in 1 .. n /\ e \in 1 .. n /\ from(e) \in F
    BY <1>11, <2>2
  <2>6. h <= e
    BY <2>2
  <2>7. f <= from(e)
    <3>1. CASE h = e
      BY <1>10, <2>4, <2>5, <3>1
    <3>2. CASE h # e
      <4>1. h < e
        BY <1>1, <2>5, <2>6, <3>2
      <4> QED
        BY <1>1, <2>4, <2>5, <4>1
    <3> QED
      BY <3>1, <3>2
  <2>8. from(e) <= f
    BY <2>3, <2>5
  <2>9. from(e) = f
    <3>1. from(e) \in Nat /\ f \in Nat
      BY <1>10, <2>4, <2>5
    <3> QED
      BY <2>7, <2>8, <3>1
  <2>10. Identity(e) = turns[f].text
    BY <1>6, <2>5, <2>9
  <2>11. Question(i) = Identity(e)
    BY <1>3, <2>1 DEF e
  <2>12. Answered(t) = turns[f].text
    BY <1>4, <1>14 DEF f
  <2> QED
    BY <2>10, <2>11, <2>12 DEF t, from
<1> QED
  BY <1>13, <1>14

-----------------------------------------------------------------------------
(* What is kept *)

\* What the checks of a request guarantee: no two turns were given the same id.
GivenIds == \A i, j \in 1 .. Len(turns) : turns[i].id # 0 /\ turns[i].id = turns[j].id => i = j

\* No turn was given the id "t<N>" of a turn N that has none.
NoBorrowedId == \A i, j \in 1 .. Len(turns) : turns[i].id = j => turns[j].id # 0

\* How far the request is, and what the floor works on.
StageInv ==
  /\ stage \in {"request", "refused", "chunking", "floor"}
  /\ stage # "floor" => cands = << >> /\ next = 1 /\ kept = << >> /\ seen = {}
  /\ stage \in {"chunking", "floor"} => turns \in Seq(Turns) /\ GivenIds
  /\ stage = "floor" /\ format = "dialogue" => cands = Dialogue /\ next <= Len(cands) + 1

\* The same as KeepsExactlyTheNew, in terms of the keys.
KeepInv ==
  /\ next \in Nat /\ next > 0 /\ kept \in Seq(Nat) /\ Kept \subseteq 1 .. next - 1
  /\ Type \in DedupTypes => seen = {Key(j) : j \in Kept}
  /\ \A i \in 1 .. next - 1 :
       i \in Kept <=> /\ ~Noise(i)
                      /\ Type \in DedupTypes => ~\E j \in Kept : j < i /\ Key(i) = Key(j)

LEMMA KeyIsMemory ==
  ASSUME NEW i, NEW j,
         format = "dialogue" =>
           turns \in Seq(Turns) /\ OwnIds /\ cands = Dialogue /\ {i, j} \subseteq 1 .. Len(cands)
  PROVE  Key(i) = Key(j) <=> SameMemory(i, j)
<1>1. CASE format = "dialogue"
  <2>1. Question(i) = Answered(cands[i].from) /\ Question(j) = Answered(cands[j].from)
    BY <1>1, QuestionIsAnswered
  <2>2. Key(i) = << cands[i].speaker, Question(i), cands[i].text >>
        /\ Key(j) = << cands[j].speaker, Question(j), cands[j].text >>
    BY <1>1 DEF Key
  <2> QED
    BY <1>1, <2>1, <2>2 DEF SameMemory
<1>2. CASE format # "dialogue"
  <2>1. Key(i) = << cands[i].text >> /\ Key(j) = << cands[j].text >>
    BY <1>2 DEF Key
  <2> QED
    BY <1>2, <2>1 DEF SameMemory
<1> QED
  BY <1>1, <1>2

LEMMA NoiseIsDropped ==
  ASSUME NEW i
  PROVE  Noise(i) <=> IsBlank(i) \/ IsSeparator(i) \/ IsHeartbeat(i)
<1> DEFINE text == cands[i].text
           words == {text[j] : j \in 1 .. Len(text)}
           between == IF format = "dialogue" /\ Len(text) > 1 THEN {""} ELSE {}
<1>1. IsBlank(i) <=> words \subseteq {""}
  BY DEF IsBlank, Blank
<1>2. IsSeparator(i) <=> Len(text) = 1 /\ words \subseteq Separators
  <2>1. ASSUME Len(text) = 1 PROVE words = {text[1]}
    <3>1. 1 .. Len(text) = {1}
      BY <2>1
    <3> QED
      BY <3>1
  <2> HIDE DEF words
  <2> QED
    BY <2>1 DEF IsSeparator
<1>3. IsHeartbeat(i) <=> Type \in HeartbeatTypes /\ words \cup between \subseteq Heartbeats
  BY DEF IsHeartbeat
<1> QED
  BY <1>1, <1>2, <1>3, Zenon DEF Noise

\* The sets that HeadOf and Question take the largest member of.
HeadsUpTo(i) == {h \in 1 .. i : IsHead(h)}

EarlierOthers(i) ==
  {h \in 1 .. HeadOf(i) - 1 : /\ IsHead(h)
                              /\ ~Blank(cands[h].text)
                              /\ cands[h].speaker # cands[HeadOf(i)].speaker}

LEMMA CandidatesStay ==
  ASSUME format' = format, cands' = cands
  PROVE  /\ Type' = Type
         /\ \A i : Key(i)' = Key(i) /\ (Noise(i)' <=> Noise(i))
<1>1. Type' = Type
  BY DEF Type
<1>2. \A i : IsHead(i)' <=> IsHead(i)
  BY Zenon DEF IsHead
<1>3. \A i : HeadOf(i)' = HeadOf(i)
  <2>1. \A i : HeadsUpTo(i)' = HeadsUpTo(i)
    BY <1>2 DEF HeadsUpTo
  <2>2. \A i : HeadOf(i) = Max(HeadsUpTo(i))
    BY Zenon DEF HeadOf, HeadsUpTo
  <2>3. \A i : HeadOf(i)' = Max(HeadsUpTo(i)')
    BY Zenon DEF HeadOf, HeadsUpTo
  <2> QED
    BY <2>1, <2>2, <2>3, Zenon
<1>4. \A i : Identity(i)' = Identity(i)
  BY Zenon DEF Identity
<1>5. \A i : Question(i)' = Question(i)
  <2>1. \A i : EarlierOthers(i)' = EarlierOthers(i)
    BY <1>2, <1>3 DEF EarlierOthers
  <2>2. \A i : Question(i) =
                 IF EarlierOthers(i) = {} THEN << >> ELSE Identity(Max(EarlierOthers(i)))
    BY Zenon DEF Question, EarlierOthers
  <2>3. \A i : Question(i)' =
                 IF EarlierOthers(i)' = {} THEN << >> ELSE Identity(Max(EarlierOthers(i)))'
    BY Zenon DEF Question, EarlierOthers
  <2>4. \A i : Identity(Max(EarlierOthers(i)))' = Identity(Max(EarlierOthers(i)))
    BY <1>4, <2>1, Zenon DEF Identity
  <2> QED
    BY <2>1, <2>2, <2>3, <2>4, Zenon
<1>6. \A i : Key(i)' = Key(i)
  BY <1>5, Zenon DEF Key
<1>7. \A i : Noise(i)' <=> Noise(i)
  BY <1>1, ZenonT(30) DEF Noise
<1> QED
  BY <1>1, <1>6, <1>7

LEMMA NothingKept ==
  ASSUME next' = 1, kept' = << >>, seen' = {}
  PROVE  KeepInv'
<1>1. Kept' = {}
  <2>1. \A i \in 1 .. Len(<< >>) : FALSE
    OBVIOUS
  <2>2. \A i \in 1 .. Len(kept') : FALSE
    BY <2>1, Zenon
  <2> QED
    BY <2>2, Zenon DEF Kept
<1>2. << >> \in Seq(Nat)
  OBVIOUS
<1>3. kept' \in Seq(Nat)
  BY <1>2, Zenon
<1>4. next' \in Nat /\ next' > 0 /\ \A i \in 1 .. next' - 1 : FALSE
  OBVIOUS
<1>5. seen' = {Key(j)' : j \in Kept'}
  BY <1>1
<1> QED
  BY <1>1, <1>3, <1>4, <1>5, Zenon DEF KeepInv

\* Whether the next candidate is kept depends on what was kept before it.
LEMMA NextIsNew ==
  ASSUME KeepInv
  PROVE  IsRepeat(next) <=> Type \in DedupTypes /\ \E j \in Kept : j < next /\ Key(next) = Key(j)
<1>1. \A j \in Kept : j < next
  BY DEF KeepInv
<1> QED
  BY <1>1 DEF KeepInv, IsRepeat

LEMMA DropKeeps ==
  ASSUME KeepInv, UNCHANGED << format, cands, kept, seen >>, next' = next + 1,
         Noise(next) \/ IsRepeat(next)
  PROVE  KeepInv'
<1>1. /\ Type' = Type
      /\ \A i : Key(i)' = Key(i) /\ (Noise(i)' <=> Noise(i))
  BY CandidatesStay
<1>2. Kept' = Kept
  BY DEF Kept
<1>3. /\ next \in Nat /\ next > 0 /\ kept \in Seq(Nat) /\ Kept \subseteq 1 .. next - 1
      /\ Type \in DedupTypes => seen = {Key(j) : j \in Kept}
      /\ \A i \in 1 .. next - 1 :
           i \in Kept <=> /\ ~Noise(i)
                          /\ Type \in DedupTypes => ~\E j \in Kept : j < i /\ Key(i) = Key(j)
  BY DEF KeepInv
<1>4. /\ next' \in Nat /\ next' > 0 /\ Kept' \subseteq 1 .. next' - 1
      /\ \A i \in 1 .. next' - 1 : i \in 1 .. next - 1 \/ i = next
      /\ next \notin Kept
  BY <1>2, <1>3
<1>5. ~ (/\ ~Noise(next)
         /\ Type \in DedupTypes => ~\E j \in Kept : j < next /\ Key(next) = Key(j))
  BY NextIsNew
<1>6. \A i \in 1 .. next' - 1 :
        i \in Kept <=> /\ ~Noise(i)
                       /\ Type \in DedupTypes => ~\E j \in Kept : j < i /\ Key(i) = Key(j)
  BY <1>3, <1>4, <1>5
<1>7. Type \in DedupTypes => seen' = {Key(j)' : j \in Kept}
  BY <1>1, <1>3
<1> QED
  BY <1>1, <1>2, <1>3, <1>4, <1>6, <1>7 DEF KeepInv

LEMMA KeepKeeps ==
  ASSUME KeepInv, UNCHANGED << format, cands >>, next' = next + 1, kept' = Append(kept, next),
         seen' = IF Type \in DedupTypes THEN seen \cup {Key(next)} ELSE seen,
         ~Noise(next), ~IsRepeat(next)
  PROVE  KeepInv'
<1>1. /\ Type' = Type
      /\ \A i : Key(i)' = Key(i) /\ (Noise(i)' <=> Noise(i))
  BY CandidatesStay
<1>2. /\ next \in Nat /\ next > 0 /\ kept \in Seq(Nat) /\ Kept \subseteq 1 .. next - 1
      /\ Type \in DedupTypes => seen = {Key(j) : j \in Kept}
      /\ \A i \in 1 .. next - 1 :
           i \in Kept <=> /\ ~Noise(i)
                          /\ Type \in DedupTypes => ~\E j \in Kept : j < i /\ Key(i) = Key(j)
  BY DEF KeepInv
<1>3. kept' \in Seq(Nat) /\ Kept' = Kept \cup {next}
  <2>1. /\ kept' \in Seq(Nat) /\ Len(kept') = Len(kept) + 1 /\ Len(kept) \in Nat
        /\ kept'[Len(kept) + 1] = next /\ \A i \in 1 .. Len(kept) : kept'[i] = kept[i]
    BY <1>2
  <2> DEFINE k == Len(kept)
             more == kept'
             len == Len(kept')
  <2>2. Kept' = {more[i] : i \in 1 .. len} /\ Kept = {kept[i] : i \in 1 .. k}
    BY Zenon DEF Kept
  <2> HIDE DEF k, more, len
  <2>3. len = k + 1 /\ k \in Nat /\ more[k + 1] = next /\ \A i \in 1 .. k : more[i] = kept[i]
    BY <2>1 DEF k, more, len
  <2>4. /\ \A i \in 1 .. len : i \in 1 .. k \/ i = k + 1
        /\ k + 1 \in 1 .. len /\ \A i \in 1 .. k : i \in 1 .. len
    BY <2>3
  <2>5. {more[i] : i \in 1 .. len} = {kept[i] : i \in 1 .. k} \cup {next}
    <3>1. ASSUME NEW i \in 1 .. len PROVE more[i] \in {kept[x] : x \in 1 .. k} \cup {next}
      BY <2>3, <2>4
    <3>2. ASSUME NEW i \in 1 .. k PROVE kept[i] \in {more[x] : x \in 1 .. len}
      BY <2>3, <2>4
    <3>3. next \in {more[x] : x \in 1 .. len}
      BY <2>3, <2>4
    <3> QED
      BY <3>1, <3>2, <3>3
  <2>6. kept' \in Seq(Nat)
    BY <2>1
  <2> QED
    BY <2>2, <2>5, <2>6, Zenon
<1>4. /\ next' \in Nat /\ next' > 0 /\ Kept' \subseteq 1 .. next' - 1
      /\ \A i \in 1 .. next' - 1 : i \in 1 .. next - 1 \/ i = next
  BY <1>2, <1>3
<1>5. \A i \in 1 .. next - 1 : i # next /\ ~ (next < i)
  BY <1>2
<1>6. \A i \in 1 .. next - 1 :
        i \in Kept' <=> /\ ~Noise(i)
                        /\ Type \in DedupTypes => ~\E j \in Kept' : j < i /\ Key(i) = Key(j)
  BY <1>2, <1>3, <1>5
<1>7. ~ (next < next)
  BY <1>2
<1>8. /\ next \in Kept' /\ ~Noise(next)
      /\ Type \in DedupTypes => ~\E j \in Kept' : j < next /\ Key(next) = Key(j)
  <2>1. Type \in DedupTypes => ~\E j \in Kept : j < next /\ Key(next) = Key(j)
    BY NextIsNew
  <2> QED
    BY <1>3, <1>7, <2>1
<1>9. \A i \in 1 .. next' - 1 :
        i \in Kept' <=> /\ ~Noise(i)
                        /\ Type \in DedupTypes => ~\E j \in Kept' : j < i /\ Key(i) = Key(j)
  BY <1>4, <1>6, <1>8
<1>10. Type \in DedupTypes => seen' = {Key(j) : j \in Kept'}
  <2> SUFFICES ASSUME Type \in DedupTypes PROVE seen' = {Key(j) : j \in Kept'}
    OBVIOUS
  <2>1. seen' = {Key(j) : j \in Kept} \cup {Key(next)}
    BY <1>2
  <2> QED
    BY <1>3, <2>1
<1>11. Type \in DedupTypes => seen' = {Key(j)' : j \in Kept'}
  BY <1>1, <1>10
<1> QED
  BY <1>1, <1>3, <1>4, <1>9, <1>11 DEF KeepInv

LEMMA IdsApart ==
  ASSUME turns \in Seq(Turns), GivenIds, NoBorrowedId
  PROVE  OwnIds
<1> SUFFICES ASSUME NEW t \in 1 .. Len(turns), NEW u \in 1 .. Len(turns), TurnId(t) = TurnId(u)
             PROVE  t = u
  BY DEF OwnIds
<1>1. turns[t].id = 0 => TurnId(t) = t
  BY DEF TurnId
<1>2. turns[t].id # 0 => TurnId(t) = turns[t].id
  BY DEF TurnId
<1>3. turns[u].id = 0 => TurnId(u) = u
  BY DEF TurnId
<1>4. turns[u].id # 0 => TurnId(u) = turns[u].id
  BY DEF TurnId
<1>5. /\ \A i, j \in 1 .. Len(turns) : turns[i].id # 0 /\ turns[i].id = turns[j].id => i = j
      /\ \A i, j \in 1 .. Len(turns) : turns[i].id = j => turns[j].id # 0
  BY DEF GivenIds, NoBorrowedId
<1> QED
  BY <1>1, <1>2, <1>3, <1>4, <1>5

\* The turns of a request that passed the checks.
LEMMA TurnsAccepted ==
  ASSUME RequestInv, AcceptRequest
  PROVE  turns' \in Seq(Turns) /\ GivenIds'
<1>1. /\ request.turns \in Seq(Turns) /\ request.lines \in Seq(Lines) /\ request.speaker \in Words
  BY RequestsAssumption DEF RequestInv, Turns, Words
<1>2. turns' = TurnsOf(request) /\ ~BadTurn(request)
  BY DEF AcceptRequest
<1>3. CASE request.type # "dialogue"
  <2>1. turns' = << >>
    BY <1>2, <1>3 DEF TurnsOf
  <2>2. << >> \in Seq(Turns) /\ \A i \in 1 .. Len(<< >>) : FALSE
    OBVIOUS
  <2>3. turns' \in Seq(Turns) /\ \A i \in 1 .. Len(turns') : FALSE
    BY <2>1, <2>2, Zenon
  <2> QED
    BY <2>3, Zenon DEF GivenIds
<1>4. CASE request.type = "dialogue" /\ request.turns # << >>
  <2>1. turns' = request.turns
    BY <1>2, <1>4 DEF TurnsOf
  <2> DEFINE ts == request.turns
  <2>2. \A i \in 1 .. Len(ts) : \A j \in 1 .. i - 1 : ~ (ts[i].id # 0 /\ ts[j].id = ts[i].id)
    BY <1>2, <1>4 DEF BadTurn
  <2> HIDE DEF ts
  <2>3. ts \in Seq(Turns)
    BY <1>1 DEF ts
  <2>4. ASSUME NEW i \in 1 .. Len(ts), NEW j \in 1 .. Len(ts), ts[i].id # 0, ts[i].id = ts[j].id
        PROVE  i = j
    <3>1. j \in 1 .. i - 1 \/ i \in 1 .. j - 1 \/ i = j
      BY <2>3
    <3> QED
      BY <2>2, <2>4, <3>1
  <2>5. turns' = ts
    BY <2>1 DEF ts
  <2> QED
    BY <2>3, <2>4, <2>5 DEF GivenIds
<1>5. CASE request.type = "dialogue" /\ request.turns = << >>
  <2> DEFINE text == [i \in 1 .. Len(request.lines) |-> request.lines[i].word]
             turn == [text |-> text, speaker |-> request.speaker, id |-> 0]
  <2>1. turns' = << turn >>
    BY <1>2, <1>5 DEF TurnsOf
  <2>2. text \in Seq(Words)
    <3>1. Len(request.lines) \in Nat
          /\ \A i \in 1 .. Len(request.lines) : request.lines[i] \in Lines
      BY <1>1
    <3>2. \A l \in Lines : l.word \in Words
      BY Zenon DEF Lines, Words
    <3>3. \A i \in 1 .. Len(request.lines) : request.lines[i].word \in Words
      BY <3>1, <3>2
    <3> QED
      BY <3>1, <3>3
  <2> HIDE DEF text
  <2>3. turn \in Turns
    BY <1>1, <2>2 DEF Turns
  <2> HIDE DEF turn
  <2>4. << turn >> \in Seq(Turns) /\ \A i \in 1 .. Len(<< turn >>) : i = 1
    BY <2>3
  <2>5. turns' \in Seq(Turns) /\ \A i \in 1 .. Len(turns') : i = 1
    BY <2>1, <2>4, Zenon
  <2> QED
    BY <2>5 DEF GivenIds
<1> QED
  BY <1>3, <1>4, <1>5

LEMMA FormatStays ==
  ASSUME ChunkerNext
  PROVE  format' = format
<1>1. CASE LogBlank \/ LogContinuation \/ LogEntry
  BY <1>1, Zenon DEF LogBlank, LogContinuation, LogEntry
<1>2. CASE Fenced \/ OpenFence \/ EndParagraph
  BY <1>2, Zenon DEF Fenced, OpenFence, EndParagraph
<1>3. CASE Heading \/ Paragraph
  BY <1>3, Zenon DEF Heading, Paragraph
<1>4. CASE SplitParagraphs \/ Finish
  BY <1>4, Zenon DEF SplitParagraphs, Finish
<1> QED
  BY <1>1, <1>2, <1>3, <1>4, Zenon DEF ChunkerNext

LEMMA FloorInitially ==
  ASSUME IngestInit
  PROVE  StageInv /\ KeepInv
<1>1. /\ cands = << >> /\ next = 1 /\ kept = << >> /\ seen = {} /\ stage = "request"
  BY DEF IngestInit, FloorInit
<1>2. Kept = {}
  <2>1. \A i \in 1 .. Len(<< >>) : FALSE
    OBVIOUS
  <2>2. \A i \in 1 .. Len(kept) : FALSE
    BY <1>1, <2>1, Zenon
  <2> QED
    BY <2>2, Zenon DEF Kept
<1>3. << >> \in Seq(Nat)
  OBVIOUS
<1>4. kept \in Seq(Nat)
  BY <1>1, <1>3, Zenon
<1>5. KeepInv
  BY <1>1, <1>2, <1>4 DEF KeepInv
<1> QED
  BY <1>1, <1>5 DEF StageInv

LEMMA FloorStutters ==
  ASSUME StageInv, KeepInv, UNCHANGED << format, turns, cands, next, seen, kept >>,
         stage' = stage \/ (stage = "request" /\ stage' = "refused")
  PROVE  StageInv' /\ KeepInv'
<1>1. /\ Type' = Type
      /\ \A i : Key(i)' = Key(i) /\ (Noise(i)' <=> Noise(i))
  BY CandidatesStay
<1>2. Kept' = Kept
  BY DEF Kept
<1>3. KeepInv'
  BY <1>1, <1>2 DEF KeepInv
<1>4. Dialogue' = Dialogue
  BY Zenon DEF Dialogue, TurnId
<1>5. GivenIds' <=> GivenIds
  BY DEF GivenIds
<1> QED
  BY <1>3, <1>4, <1>5 DEF StageInv

\* The candidates of a request that becomes ready for the floor.
LEMMA FloorBegins ==
  ASSUME StageInv, KeepInv, UNCHANGED << turns, next, seen, kept >>,
         stage = "chunking", stage' \in {"chunking", "floor"},
         stage' = "chunking" => cands' = << >>,
         format' = "dialogue" /\ stage' = "floor" => cands' = Dialogue
  PROVE  StageInv' /\ KeepInv'
<1>1. /\ next' = 1 /\ kept' = << >> /\ seen' = {}
      /\ turns' = turns /\ turns \in Seq(Turns) /\ GivenIds
  BY DEF StageInv
<1>2. KeepInv'
  BY <1>1, NothingKept
<1>3. Dialogue' = Dialogue
  BY <1>1, Zenon DEF Dialogue, TurnId
<1>4. GivenIds'
  BY <1>1 DEF GivenIds
<1>5. Len(Dialogue) \in Nat
  <2>1. Dialogue \in Seq(Candidates)
    BY <1>1, DialogueFacts
  <2> QED
    BY <2>1
<1>6. 1 <= Len(Dialogue) + 1
  BY <1>5
<1>7. stage' = "floor" /\ format' = "dialogue" => cands' = Dialogue' /\ next' <= Len(cands') + 1
  BY <1>1, <1>3, <1>6
<1> QED
  BY <1>1, <1>2, <1>4, <1>7 DEF StageInv

\* One more candidate was looked at.
LEMMA FloorAdvances ==
  ASSUME StageInv, KeepInv, Examining, next' = next + 1,
         UNCHANGED << format, turns, stage, cands >>
  PROVE  StageInv'
<1>1. Dialogue' = Dialogue /\ (GivenIds' <=> GivenIds)
  BY Zenon DEF Dialogue, TurnId, GivenIds
<1>2. stage = "floor" /\ next <= Len(cands) /\ next \in Nat
  BY DEF Examining, KeepInv
<1>3. format = "dialogue" => next' <= Len(cands') + 1
  <2> SUFFICES ASSUME format = "dialogue" PROVE next + 1 <= Len(cands) + 1
    OBVIOUS
  <2>1. turns \in Seq(Turns) /\ cands = Dialogue
    BY <1>2 DEF StageInv
  <2>2. cands \in Seq(Candidates)
    BY <2>1, DialogueFacts
  <2>3. Len(cands) \in Nat
    BY <2>2
  <2> QED
    BY <1>2, <2>3
<1> QED
  BY <1>1, <1>2, <1>3 DEF StageInv

LEMMA FloorStep ==
  ASSUME RequestInv, StageInv, KeepInv, [IngestNext]_vars
  PROVE  StageInv' /\ KeepInv'
<1>1. CASE RefuseRequest
  <2>1. UNCHANGED << format, turns, cands, next, seen, kept >> /\ stage = "request" /\ stage' = "refused"
    BY <1>1 DEF RefuseRequest, chunkerVars
  <2> QED
    BY <2>1, FloorStutters
<1>2. CASE AcceptRequest
  <2>1. UNCHANGED << cands, next, seen, kept >> /\ stage = "request" /\ stage' = "chunking"
    BY <1>2 DEF AcceptRequest
  <2>2. cands' = << >> /\ next' = 1 /\ kept' = << >> /\ seen' = {}
    BY <2>1 DEF StageInv
  <2>3. turns' \in Seq(Turns) /\ GivenIds'
    BY <1>2, TurnsAccepted
  <2>4. KeepInv'
    BY <2>2, NothingKept
  <2> QED
    BY <2>1, <2>2, <2>3, <2>4 DEF StageInv
<1>3. CASE ChunkDialogue
  <2>1. /\ UNCHANGED << turns, next, seen, kept >> /\ stage = "chunking" /\ stage' = "floor"
        /\ cands' = Dialogue
    BY <1>3 DEF ChunkDialogue
  <2> QED
    BY <2>1, FloorBegins
<1>4. CASE ChunkLine
  <2>1. /\ UNCHANGED << turns, next, seen, kept >> /\ stage = "chunking" /\ stage' \in {"chunking", "floor"}
        /\ stage' = "chunking" => cands' = << >>
        /\ format # "dialogue" /\ ChunkerNext
    BY <1>4 DEF ChunkLine
  <2>2. format' # "dialogue"
    BY <2>1, FormatStays
  <2> QED
    BY <2>1, <2>2, FloorBegins
<1>5. CASE ChunkItems
  <2>1. /\ UNCHANGED << turns, next, seen, kept >> /\ stage = "chunking" /\ stage' \in {"chunking", "floor"}
        /\ stage' = "chunking" => cands' = << >>
        /\ format' = format
    BY <1>5 DEF ChunkItems, chunkerVars
  <2>2. format # "dialogue"
    BY <1>5 DEF ChunkItems
  <2> QED
    BY <2>1, <2>2, FloorBegins
<1>6. CASE DropBlank \/ DropSeparator \/ DropHeartbeat \/ DropDuplicate
  <2>1. /\ Examining /\ next' = next + 1
        /\ UNCHANGED << chunkerVars, turns, stage, cands, seen, kept >>
        /\ IsBlank(next) \/ IsSeparator(next) \/ IsHeartbeat(next) \/ IsRepeat(next)
    BY <1>6, Zenon DEF DropBlank, DropSeparator, DropHeartbeat, DropDuplicate, Drop
  <2>2. format' = format
    BY <2>1 DEF chunkerVars
  <2>3. Noise(next) \/ IsRepeat(next)
    BY <2>1, NoiseIsDropped
  <2> QED
    BY <2>1, <2>2, <2>3, FloorAdvances, DropKeeps
<1>7. CASE Keep
  <2>1. /\ Examining /\ next' = next + 1 /\ kept' = Append(kept, next)
        /\ UNCHANGED << chunkerVars, turns, stage, cands >>
        /\ seen' = IF Type \in DedupTypes THEN seen \cup {Key(next)} ELSE seen
        /\ ~IsBlank(next) /\ ~IsSeparator(next) /\ ~IsHeartbeat(next) /\ ~IsRepeat(next)
    BY <1>7, Zenon DEF Keep
  <2>2. format' = format
    BY <2>1 DEF chunkerVars
  <2>3. ~Noise(next)
    BY <2>1, NoiseIsDropped
  <2> QED
    BY <2>1, <2>2, <2>3, FloorAdvances, KeepKeeps
<1>8. CASE UNCHANGED vars
  <2>1. UNCHANGED << format, turns, cands, next, seen, kept, stage >>
    BY <1>8 DEF vars, chunkerVars, floorVars
  <2>2. UNCHANGED << format, turns, cands, next, seen, kept >>
    BY <2>1
  <2>3. stage' = stage \/ (stage = "request" /\ stage' = "refused")
    BY <2>1, Zenon
  <2> QED
    BY <2>2, <2>3, FloorStutters
<1> QED
  BY <1>1, <1>2, <1>3, <1>4, <1>5, <1>6, <1>7, <1>8, Zenon DEF IngestNext, FloorNext

\* The keys that the floor remembers are those of what it has kept, and it has kept
\* what was new by its key, whatever the request.
THEOREM FloorInvariance == IngestSpec => [](StageInv /\ KeepInv)
<1>1. IngestInit => StageInv /\ KeepInv
  BY FloorInitially
<1>2. RequestInv /\ (StageInv /\ KeepInv) /\ [IngestNext]_vars => (StageInv /\ KeepInv)'
  BY FloorStep
<1>3. IngestSpec => []RequestInv
  BY ChunkerInvariance, PTL
<1> QED
  BY <1>1, <1>2, <1>3, PTL DEF IngestSpec

\* Of every input the floor keeps exactly what is new, where no caller gives a turn
\* the id that another turn gets by its position.
THEOREM AlwaysKeepsExactlyTheNew == IngestSpec => [](NoBorrowedId => KeepsExactlyTheNew)
<1>1. StageInv /\ KeepInv => (NoBorrowedId => KeepsExactlyTheNew)
  <2> SUFFICES ASSUME StageInv, KeepInv, NoBorrowedId, NEW i \in 1 .. next - 1
               PROVE  i \in Kept <=>
                        /\ ~Noise(i)
                        /\ Type \in DedupTypes => ~\E j \in Kept : j < i /\ SameMemory(i, j)
    BY Zenon DEF KeepsExactlyTheNew
  <2>1. /\ next \in Nat /\ Kept \subseteq 1 .. next - 1
        /\ i \in Kept <=> /\ ~Noise(i)
                          /\ Type \in DedupTypes => ~\E j \in Kept : j < i /\ Key(i) = Key(j)
    BY DEF KeepInv
  <2>2. stage = "floor"
    BY <2>1 DEF StageInv
  <2>3. format = "dialogue" => /\ turns \in Seq(Turns) /\ OwnIds /\ cands = Dialogue
                               /\ next <= Len(cands) + 1
    BY <2>2, IdsApart DEF StageInv
  <2>4. ASSUME NEW j \in Kept PROVE Key(i) = Key(j) <=> SameMemory(i, j)
    <3>1. format = "dialogue" => {i, j} \subseteq 1 .. Len(cands)
      <4> SUFFICES ASSUME format = "dialogue" PROVE i \in 1 .. Len(cands) /\ j \in 1 .. Len(cands)
        OBVIOUS
      <4>1. cands \in Seq(Candidates)
        BY <2>3, DialogueFacts
      <4>2. Len(cands) \in Nat /\ next <= Len(cands) + 1
        BY <2>3, <4>1
      <4>3. i \in 1 .. next - 1 /\ j \in 1 .. next - 1
        BY <2>1
      <4> QED
        BY <2>1, <4>2, <4>3
    <3> QED
      BY <2>3, <3>1, KeyIsMemory
  <2> QED
    BY <2>1, <2>4
<1> QED
  BY <1>1, FloorInvariance, PTL

=============================================================================
