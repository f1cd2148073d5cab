--------------------------- MODULE MCPushDelivery ---------------------------
(***************************************************************************)
(* Small instances of PushDelivery for TLC.  Record sizes are chosen so    *)
(* that a batch of two has to be cut, one that is too large to send exists *)
(* when wanted, and the buffer fills up.                                   *)
(***************************************************************************)
EXTENDS PushDelivery

OfSizes(sizes) == [i \in 1 .. Len(sizes) |-> [size |-> sizes[i]]]

\* With MaxBodyBytes = 3: a batch of 2 + 2 is cut, a record of 4 is unsendable.
MCBatches == {OfSizes(s) : s \in {<< 1 >>, << 2, 2 >>, << 4 >>}}

\* No header, and ones that ask for more than the cap, for a time whose product
\* with Second wraps around to a short one (22 * 3 = 66 = 2 mod 64), and to a
\* negative one (11 * 3 = 33).
MCRetryAfters == {NoHeader} \cup [kind : {"seconds"}, n : {5, 22, 11}]

\* No header, a time that is in the past, a short one, and one that is capped.
MCDates == {NoHeader} \cup [kind : {"date"}, n : {-1, 1, 5}]

=============================================================================
