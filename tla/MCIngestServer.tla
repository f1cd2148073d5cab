--------------------------- MODULE MCIngestServer ---------------------------
(***************************************************************************)
(* Two clients whose batches compete for a buffer that does not hold both. *)
(***************************************************************************)
EXTENDS IngestServer, TLC

OfSizes(sizes) == [i \in 1 .. Len(sizes) |-> [size |-> sizes[i]]]

MCBatches == {OfSizes(s) : s \in {<< 1 >>, << 2, 2 >>}}

\* Clients are only ever compared with each other.
Symmetry == Permutations(Clients)

=============================================================================
