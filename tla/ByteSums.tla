------------------------------ MODULE ByteSums ------------------------------
(***************************************************************************)
(* Byte accounting of the sensory buffer (internal/buffer/ring.go).  Every *)
(* record carries the size that Record.size() charged for it; the buffer   *)
(* adds and subtracts those sizes one record at a time.  The running total *)
(* is written as a recursive function, so that it can be evaluated by TLC  *)
(* and reasoned about by TLAPS.                                            *)
(***************************************************************************)
EXTENDS Naturals, Sequences

\* Cumulative(recs)[i] is the number of bytes of the first i records: the value
\* of "needed" (or "reclaimable") after i iterations of the loops in Append.
Cumulative(recs) ==
  LET sum[i \in 0 .. Len(recs)] ==
        IF i = 0 THEN 0 ELSE sum[i - 1] + recs[i].size
  IN  sum

BytesOf(recs) == Cumulative(recs)[Len(recs)]

=============================================================================
