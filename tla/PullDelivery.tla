---------------------------- MODULE PullDelivery ----------------------------
(***************************************************************************)
(* Pull mode: Node 2 fetches the buffer of RingBuffer over GET /drain and  *)
(* confirms it over POST /ack (handleDrain and handleAck of                *)
(* internal/api/ingest.go), with ingest storing records at the same time.  *)
(*                                                                         *)
(* Draining changes nothing on Node 3, so a drain that fails or whose      *)
(* reply is lost is no step at all.  handleAck takes rb.mu twice: for Ack, *)
(* and again for the Stats its reply is made from.  Acks are HTTP          *)
(* requests: each may arrive late, again, overtaken by a newer one, or     *)
(* never; here every ack that was ever sent may arrive at any time.        *)
(*                                                                         *)
(* The consumer is the loop that drainLoop of cmd/stress_test runs as a    *)
(* stand-in for Node 2: drain, process, ack.  Added to it is what the API  *)
(* offers beside: paging ahead with after_seq, and crashes.                *)
(***************************************************************************)
EXTENDS RingBuffer

CONSTANTS
  MaxParams,        \* the max= parameters a drain may carry; 0: absent
  DrainMaxDefault,  \* SEKHA_DRAIN_MAX_DEFAULT
  DrainMaxLimit,    \* SEKHA_DRAIN_MAX_LIMIT
  MaxHandlers       \* bound: acks that are between Ack and Stats at once

\* config.Load refuses a default above the limit.
ASSUME PullAssumption ==
  /\ MaxParams \subseteq Nat
  /\ DrainMaxDefault \in Nat \ {0}
  /\ DrainMaxLimit \in Nat
  /\ DrainMaxDefault <= DrainMaxLimit
  /\ MaxHandlers \in Nat

VARIABLES
  at,          \* where the consumer stands: it asks, or has a page
  page,        \* the latest page of chunks it was given
  cursor,      \* the after_seq of its next drain ...
  cursorEpoch, \* ... and the epoch of the page that came from
  acks,        \* every ack request ever sent
  handlers,    \* the handleAck calls between Ack and Stats
  ackReply,    \* the latest reply of handleAck
  ackedTotal,  \* history: the sum of the "acked" counts since the start
  node2        \* the chunks the consumer has made durable, as << epoch, seq >>

consumerVars == << at, page, cursor, cursorEpoch >>
pullVars == << consumerVars, acks, handlers, ackReply, ackedTotal, node2 >>
vars     == << ringVars, pullVars >>

NoPage  == [epoch |-> 0, chunks |-> << >>, lastSeq |-> 0, pending |-> 0, more |-> FALSE]

Reply(status, requested, acked, upTo, pending) ==
  [status |-> status, requested |-> requested, acked |-> acked,
   ackedUpTo |-> upTo, pending |-> pending]

NoReply == Reply("none", 0, 0, 0, 0)

AckRequests == [epoch : 1 .. MaxEpoch, upTo : 1 .. MaxSeq]

Received(p, n) == {<< p.epoch, p.chunks[i].seq >> : i \in 1 .. n}

-----------------------------------------------------------------------------
(* handleDrain *)

\* How many records a drain asks the buffer for.
PageSize(max) ==
  LET asked == IF max = 0 THEN DrainMaxDefault ELSE max
  IN  IF asked > DrainMaxLimit THEN DrainMaxLimit ELSE asked

\* The reply to a drain.
Drained(afterSeq, max) == Drain(afterSeq, PageSize(max))

-----------------------------------------------------------------------------
(* handleAck *)

\* 409 epoch_mismatch or 400 ack_ahead: nothing but the reply.
AckRefused(a) ==
  /\ AckStatus(a.epoch, a.upTo) \in {"epoch mismatch", "ack ahead"}
  /\ ackReply' = Reply(AckStatus(a.epoch, a.upTo), a.upTo, 0, 0, 0)
  /\ UNCHANGED << ringVars, consumerVars, acks, handlers, ackedTotal, node2 >>

\* (mutant) the reply is made from a Stats that is read before Ack.
AckApplied_StatsFirst(a) ==
  /\ AckStatus(a.epoch, a.upTo) = "new"
  /\ Ack(a.epoch, a.upTo)
  /\ ackReply' = Reply("ok", a.upTo, NewlyAcked(a.upTo), ackedUpTo, Pending)
  /\ ackedTotal' = ackedTotal + NewlyAcked(a.upTo)
  /\ UNCHANGED << consumerVars, acks, handlers, node2 >>

\* The call of Ack.  A repeated ack is answered like a new one, with acked = 0.
AckApplied(a) ==
  LET isNew == AckStatus(a.epoch, a.upTo) = "new"
      acked == IF isNew THEN NewlyAcked(a.upTo) ELSE 0
  IN  /\ AckStatus(a.epoch, a.upTo) \in {"new", "repeated"}
      /\ Cardinality(handlers) < MaxHandlers
      /\ IF isNew THEN Ack(a.epoch, a.upTo) ELSE UNCHANGED ringVars
      /\ handlers' = handlers \cup {[requested |-> a.upTo, acked |-> acked]}
      /\ ackedTotal' = ackedTotal + acked
      /\ UNCHANGED << consumerVars, acks, ackReply, node2 >>

\* The reply, made from the Stats of a later moment.
AckAnswered(h) ==
  /\ handlers' = handlers \ {h}
  /\ ackReply' = Reply("ok", h.requested, h.acked, ackedUpTo, Pending)
  /\ UNCHANGED << ringVars, consumerVars, acks, ackedTotal, node2 >>

-----------------------------------------------------------------------------
(* The consumer *)

\* A consumer that waits for nothing asks from the watermark on, as drainLoop
\* always does, and takes what it is given, of whatever epoch it is.  An empty
\* page is no step: it sleeps and asks again.
Ask(max) ==
  LET answer == Drained(0, max) IN
  /\ at = "asking"
  /\ cursor = 0
  /\ answer.chunks # << >>
  /\ at' = "received"
  /\ page' = answer
  /\ UNCHANGED << ringVars, cursor, cursorEpoch, acks, handlers, ackReply, ackedTotal,
                  node2 >>

\* A consumer that pages ahead asks with after_seq.  drainLoop never does; that
\* the epoch of the answer is compared with that of the cursor is asked of
\* whoever does, since Node 3 cannot see a cursor of an earlier lifetime.
AskFurther(max) ==
  LET answer == Drained(cursor, max) IN
  /\ at = "asking"
  /\ cursor > 0
  /\ IF answer.chunks = << >> \/ answer.epoch # cursorEpoch
       THEN /\ cursor' = 0
            /\ UNCHANGED << at, page >>
       ELSE /\ at' = "received"
            /\ page' = answer
            /\ UNCHANGED cursor
  /\ UNCHANGED << ringVars, cursorEpoch, acks, handlers, ackReply, ackedTotal, node2 >>

\* The page is made durable, and acknowledged at once ...
PersistAndAck ==
  /\ at = "received"
  /\ node2' = node2 \cup Received(page, Len(page.chunks))
  /\ acks' = acks \cup {[epoch |-> page.epoch, upTo |-> page.lastSeq]}
  /\ at' = "asking"
  /\ page' = NoPage
  /\ cursor' = 0
  /\ UNCHANGED << ringVars, cursorEpoch, handlers, ackReply, ackedTotal >>

\* ... or with a later one.
PersistAndPageAhead ==
  /\ at = "received"
  /\ node2' = node2 \cup Received(page, Len(page.chunks))
  /\ at' = "asking"
  /\ page' = NoPage
  /\ cursor' = page.lastSeq
  /\ cursorEpoch' = page.epoch
  /\ UNCHANGED << ringVars, acks, handlers, ackReply, ackedTotal >>

\* The consumer dies while it stores a page, and starts again without a cursor.
ConsumerCrash ==
  /\ at = "received"
  /\ \E n \in 0 .. Len(page.chunks) : node2' = node2 \cup Received(page, n)
  /\ at' = "asking"
  /\ page' = NoPage
  /\ cursor' = 0
  /\ UNCHANGED << ringVars, cursorEpoch, acks, handlers, ackReply, ackedTotal >>

-----------------------------------------------------------------------------
(* The rest of Node 3 *)

Ingest ==
  \E recs \in Batches :
    /\ AppendStored(recs) \/ AppendRefused(recs)
    /\ UNCHANGED pullVars

\* Node 3 restarts: the handlers die with it, the acks under way do not.
Node3Crash ==
  /\ Restart
  /\ handlers' = {}
  /\ ackReply' = NoReply
  /\ ackedTotal' = 0
  /\ UNCHANGED << consumerVars, acks, node2 >>

PullInit ==
  /\ RingInit
  /\ at = "asking"
  /\ page = NoPage
  /\ cursor = 0
  /\ cursorEpoch = 0
  /\ acks = {}
  /\ handlers = {}
  /\ ackReply = NoReply
  /\ ackedTotal = 0
  /\ node2 = {}

PullNext ==
  \/ \E max \in MaxParams : Ask(max) \/ AskFurther(max)
  \/ PersistAndAck
  \/ PersistAndPageAhead
  \/ ConsumerCrash
  \/ \E a \in acks : AckRefused(a) \/ AckApplied(a)
  \/ \E h \in handlers : AckAnswered(h)
  \/ Ingest
  \/ Node3Crash

PullSpec == PullInit /\ [][PullNext]_vars

\* The consumer keeps asking and, however often it pages ahead or crashes, it
\* acknowledges again and again; an ack that is sent again and again arrives;
\* net/http runs every handler to its end.
PullFairness ==
  /\ \A max \in MaxParams : WF_vars(Ask(max)) /\ WF_vars(AskFurther(max))
  /\ SF_vars(PersistAndAck)
  /\ \A a \in AckRequests : SF_vars(a \in acks /\ AckApplied(a))
  /\ WF_vars(\E h \in handlers : AckAnswered(h))

FairPullSpec == PullSpec /\ PullFairness

-----------------------------------------------------------------------------
(* What makes pull delivery correct *)

Channel == INSTANCE DeliveryChannel WITH
  lifetime  <- epoch,
  accepted  <- nextSeq - 1,
  confirmed <- ackedUpTo,
  stored    <- node2

\* Pull mode delivers as promised, by the same specification as push mode: what
\* Node 3 may evict, the consumer has made durable under this epoch, and paging
\* never skips a chunk.  Through pages that are fetched ahead or twice while
\* the watermark moves and records come and go, crashes on both sides, and acks
\* that are late, repeated, reordered, or meant for an earlier epoch.
PullDelivers == Channel!ChannelSpec

\* A 200 covers its own request, although Stats is read after rb.mu was given
\* up and taken again; its watermark and its pending count belong together.
AckReplyCoversRequest ==
  ackReply.status = "ok" =>
    /\ ackReply.acked <= ackReply.requested
    /\ ackReply.requested <= ackReply.ackedUpTo
    /\ ackReply.ackedUpTo + ackReply.pending <= nextSeq - 1

\* The consumer above acknowledges only what it was given, so it is never told
\* 400 ack_ahead: an ack from before a restart is always the 409 that tells the
\* consumer of the restart, also when its seq was not issued again yet.
RestartIsConflict == ackReply.status # "ack ahead"

\* Over one lifetime the "acked" counts add up to the watermark: however acks
\* overlap, repeat and overtake one another, and however many records were
\* evicted meanwhile, every chunk is reported as newly acknowledged once.
EachChunkAckedOnce == ackedTotal = ackedUpTo

\* Every chunk that ingest answered 201 for is acknowledged in the end, as long
\* as Node 3 lives.
EventuallyAcked ==
  \A s \in 1 .. MaxSeq : s < nextSeq ~> s <= ackedUpTo

\* Back-pressure ends: a batch that is answered 503 buffer_full, and that the
\* buffer can hold at all, is not refused for ever.
BackpressureEnds ==
  \A recs \in Batches :
    Full(recs) /\ ~TooLarge(recs) ~> ~Full(recs)

=============================================================================
