---------------------------- MODULE MCRingBuffer ----------------------------
(***************************************************************************)
(* A small instance of RingBuffer for TLC: a capacity of six bytes, which  *)
(* single records, batches, a batch that fills the buffer exactly and one  *)
(* that can never fit compete for.                                         *)
(***************************************************************************)
EXTENDS RingBuffer

OfSizes(sizes) == [i \in 1 .. Len(sizes) |-> [size |-> sizes[i]]]

MCBatches ==
  {OfSizes(s) : s \in {<< 1 >>, << 3 >>, << 1, 2 >>, << 4, 2 >>, << 3, 4 >>}}

=============================================================================
