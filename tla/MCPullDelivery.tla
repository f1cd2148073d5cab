--------------------------- MODULE MCPullDelivery ---------------------------
(***************************************************************************)
(* Small instances of PullDelivery for TLC: single records and a batch of  *)
(* two compete for a buffer they fill, and pages are shorter than what is  *)
(* pending.                                                                *)
(***************************************************************************)
EXTENDS PullDelivery

OfSizes(sizes) == [i \in 1 .. Len(sizes) |-> [size |-> sizes[i]]]

MCBatches == {OfSizes(s) : s \in {<< 1 >>, << 2, 2 >>}}

\* No max= parameter, and one above the limit.
MCMaxParams == {0, 9}

=============================================================================
