---------------------------- MODULE LegacyFilter ----------------------------
(***************************************************************************)
(* The deprecated POST /filter: which chunks handleFilter of               *)
(* internal/api/handlers.go hands to the classifier, and under which ids   *)
(* FilterChunks of internal/classifier/classifier.go returns them.  It     *)
(* reads the buffer as GET /buffer does and changes nothing but counters   *)
(* that add up per request.                                                *)
(*                                                                         *)
(* A chunk is [seq, size, item]: its id, the size of its text, which is    *)
(* not blank, and the record or item that the text is, or is a part of.    *)
(* A request is                                                            *)
(*   fromQuery, limit, since, sinceSeq   the parameters of its URL         *)
(*   max               the size limit, from URL or body                    *)
(*   shape             its body: "blank", "object", "array" or "text"      *)
(*   fromBody, bodyLimit   the parameters of an object; it is asked for    *)
(*                     all times and seqs                                  *)
(*   sizes             the items of an object or an array                  *)
(*   stream            the size of the text of an object; 0 for none       *)
(*   raw               the size of the body itself                         *)
(***************************************************************************)
EXTENDS BufferReads

CONSTANT FilterRequests

ASSUME FilterAssumption ==
  \A r \in FilterRequests :
    /\ r.max \in Nat \ {0} /\ r.raw \in Nat \ {0} /\ r.stream \in Nat
    /\ r.sizes \in Seq(Nat \ {0})
    /\ r.shape \in {"blank", "object", "array", "text"}

-----------------------------------------------------------------------------

\* ParseTXT: how many pieces a text becomes.  Their sizes, which module
\* TextSplit is about, make no difference here.
Pieces(size, max) == (size + max - 1) \div max

\* Items and pieces of a request are numbered from 1.
Numbered(sizes) == [i \in 1 .. Len(sizes) |-> [seq |-> i, size |-> sizes[i], item |-> i]]

Parsed(size, max) == Numbered([i \in 1 .. Pieces(size, max) |-> 1])

FromBuffer(param, since, sinceSeq) ==
  LET found == Query(param, since, sinceSeq)
  IN  [i \in 1 .. Len(found) |->
         [seq |-> found[i].seq, size |-> found[i].size, item |-> found[i].seq]]

\* What an object asks for: the buffer, before its items, before its text.
FromObject(r) ==
  IF r.fromBody THEN FromBuffer(IF r.bodyLimit = 0 THEN r.limit ELSE r.bodyLimit, 0, 0)
  ELSE IF r.sizes # << >> THEN Numbered(r.sizes)
  ELSE Parsed(r.stream, r.max)

\* The body is taken for an object, for an array if that gave no chunk, and for
\* plain text if there is none yet: also when an object asked for the buffer
\* and the buffer had nothing for it.
FromBody(r) ==
  LET object == IF r.shape = "object" THEN FromObject(r) ELSE << >>
      array  == IF r.shape = "array" THEN Numbered(r.sizes) ELSE << >>
  IN  IF r.shape = "blank" THEN << >>
      ELSE IF object # << >> THEN object
      ELSE IF array # << >> THEN array
      ELSE Parsed(r.raw, r.max)

Chosen(r) ==
  IF r.fromQuery THEN FromBuffer(r.limit, r.since, r.sinceSeq) ELSE FromBody(r)

\* A chunk over the limit gives way to copies of it, one for each of its parts.
PartsOf(chunks, max) ==
  FlattenSeq([i \in 1 .. Len(chunks) |->
                [j \in 1 .. Pieces(chunks[i].size, max) |-> chunks[i]]])

\* (mutant) the parts of a chunk keep its seq.
Partitioned_KeepsSeqs(chunks, max) == PartsOf(chunks, max)

\* partitionOversizedChunks: all are numbered again if one had to be split.
Partitioned(chunks, max) ==
  IF \A i \in 1 .. Len(chunks) : chunks[i].size <= max THEN chunks
  ELSE LET parts == PartsOf(chunks, max)
       IN  [i \in 1 .. Len(parts) |-> [parts[i] EXCEPT !.seq = i]]

Evaluated(r) == Partitioned(Chosen(r), r.max)

-----------------------------------------------------------------------------

\* handlers.go, of partitionOversizedChunks: "Sequence numbers are reassigned when
\* splitting occurs so chunk IDs remain unique".  Wherever the chunks come from,
\* from a buffer that has evicted some or from a body, and whichever of them are
\* split, the ids in one reply are distinct, and all that was chosen is there, in
\* its order.
FilterIdsUnique ==
  \A r \in FilterRequests :
    LET chosen == Chosen(r)
        chunks == Evaluated(r)
    IN  /\ \A i, j \in 1 .. Len(chunks) : i # j => chunks[i].seq # chunks[j].seq
        /\ {c.item : c \in ToSet(chunks)} = {c.item : c \in ToSet(chosen)}
        /\ \A i \in 1 .. Len(chunks) - 1 : chunks[i].item <= chunks[i + 1].item

=============================================================================
