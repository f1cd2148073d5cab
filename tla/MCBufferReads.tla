--------------------------- MODULE MCBufferReads ---------------------------
(***************************************************************************)
(* Three records over eight seconds, so that a slot of the rate is reused; *)
(* a caller may give a time before the start, or one within the seconds.   *)
(* The size limit of a filter request is below or above that of a record.  *)
(***************************************************************************)
EXTENDS LegacyFilter

MCSizes       == {2}
MCCallerTimes == {1, 8}
MCLimitParams == {0, 1, 4}
MCWindows     == {0, 2}

FromQuery == [fromQuery : {TRUE}, limit : {0, 1}, since : {0, 2}, sinceSeq : {0, 1},
              max : {1, 3}, shape : {"blank"}, fromBody : {FALSE}, bodyLimit : {0},
              sizes : {<< >>}, stream : {0}, raw : {1}]

\* What is not in a body of this shape is left blank.
FromBodies ==
  {r \in [fromQuery : {FALSE}, limit : {1}, since : {0}, sinceSeq : {0},
          max : {1, 3}, shape : {"blank", "object", "array", "text"},
          fromBody : BOOLEAN, bodyLimit : {0, 2},
          sizes : {<< >>, << 1, 2 >>}, stream : {0, 5}, raw : {7}] :
     /\ r.shape # "object" => ~r.fromBody /\ r.bodyLimit = 0 /\ r.stream = 0
     /\ r.shape \in {"blank", "text"} => r.sizes = << >>}

MCFilterRequests == FromQuery \cup FromBodies

=============================================================================
