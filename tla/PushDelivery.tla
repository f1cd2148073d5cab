---------------------------- MODULE PushDelivery ----------------------------
(***************************************************************************)
(* Push mode: the loop of internal/push/push.go that delivers the buffer   *)
(* of RingBuffer to Node 2, with ingest storing records at the same time.  *)
(*                                                                         *)
(* Pusher.Run is one goroutine.  It is cut into actions where it touches   *)
(* shared state or the network: Drain, the POST, the reply, Ack and        *)
(* EvictAcked each take rb.mu on their own, so ingest (AppendStored,       *)
(* AppendRefused) may come between any two of them.                        *)
(*                                                                         *)
(* Node 2 is external.  The model gives it the weakest contract that       *)
(* push.go's package comment relies on: it stores a prefix of the batch it *)
(* is sent, and a 200 for this epoch with accepted_up_to_seq = a means     *)
(* that the chunks of this batch with seq <= a are stored.  It may answer  *)
(* anything else, quote another epoch, quote an a beyond the batch, answer *)
(* after the client gave up, or not at all.                                *)
(***************************************************************************)
EXTENDS RingBuffer, Integers

CONSTANTS
  Batch,         \* p.Batch: chunks per POST (SEKHA_PUSH_BATCH)
  MaxBodyBytes,  \* p.MaxBodyBytes; a chunk's size stands for its JSON length
  Interval,      \* p.Interval, in ticks
  MaxBackoff,    \* p.MaxBackoff, in ticks
  RetryAfters,   \* the Retry-After headers of Node 2's replies
  MaxRetryAfter, \* the constant maxRetryAfter, in ticks
  Second,        \* time.Second, in ticks
  WordMax,       \* the largest time.Duration, in ticks: 2^63 - 1, scaled down
  MaxLate        \* bound: abandoned requests that Node 2 may still receive

\* config.Load refuses a MaxBackoff below Interval; the other keys have minima.
ASSUME PushAssumption ==
  /\ Batch \in Nat \ {0}
  /\ MaxBodyBytes \in Nat \ {0}
  /\ Interval \in Nat \ {0}
  /\ MaxBackoff \in Nat
  /\ Interval <= MaxBackoff
  /\ RetryAfters \subseteq [kind : {"none", "seconds", "date", "other"}, n : Int]
  /\ MaxRetryAfter \in Nat \ {0}
  /\ Second \in Nat \ {0}
  /\ WordMax \in Nat
  /\ MaxLate \in Nat

VARIABLES
  pc,         \* where Run stands
  sent,       \* the batch of the current or latest attempt
  upTo,       \* what deliver returned: the seq Run is about to acknowledge
  backoff,    \* the local of the same name: delay before the next retry
  failing,    \* the local of the same name: kind of the current failure, "" if none
  cancelled,  \* ctx was cancelled (SIGTERM)
  inflight,   \* the current POST has not reached Node 2 yet
  reply,      \* Node 2's answer to the current POST
  late,       \* requests the client gave up on that may still reach Node 2
  node2       \* the chunks Node 2 has stored, as << epoch, seq >>

pushVars == << pc, sent, upTo, backoff, failing, cancelled >>
netVars  == << inflight, reply, late, node2 >>
vars     == << ringVars, pushVars, netVars >>

NoBatch == [epoch |-> 0, chunks |-> << >>, lastSeq |-> 0]
NoHeader == [kind |-> "none", n |-> 0]
NoReply == [status |-> "none", epoch |-> 0, accepted |-> 0, retryAfter |-> NoHeader]

-----------------------------------------------------------------------------
(* deliver and encode *)

\* The batch with the first n chunks of a page.
Encoded(page, n) ==
  [epoch   |-> page.epoch,
   chunks  |-> SubSeq(page.chunks, 1, n),
   lastSeq |-> page.chunks[n].seq]

\* The lengths encode tries, by halving, and those whose body is small enough.
\* A longer batch has a larger body, so the first that fits is the longest.
Halvings(n) == {m \in 1 .. n : \E j \in 0 .. n : m = n \div (2 ^ j)}

Sendable(page) ==
  {n \in Halvings(Len(page.chunks)) : BytesOf(SubSeq(page.chunks, 1, n)) <= MaxBodyBytes}

LongestOf(lengths) == CHOOSE n \in lengths : \A m \in lengths : m <= n

\* (mutant) what Node 2 claims is trusted beyond what this batch held.
Covered_NoClamp(r) == r.accepted

\* The seq a 200 for this batch covers.
Covered(r) == IF r.accepted < sent.lastSeq THEN r.accepted ELSE sent.lastSeq

\* (mutant) the reply's epoch is not compared with the batch's.
Classify_NoEpochCheck(r) ==
  IF r.status # "ok" THEN r.status
  ELSE IF Covered(r) < sent.chunks[1].seq THEN "accepted none"
  ELSE "delivered"

\* How deliver reads a reply: the failure's kind, or "delivered".
Classify(r) ==
  IF r.status # "ok" THEN r.status
  ELSE IF r.epoch # sent.epoch THEN "other epoch"
  ELSE IF Covered(r) < sent.chunks[1].seq THEN "accepted none"
  ELSE "delivered"

\* The product of two durations wraps around like any int64.
Wrapped(d) == ((d + WordMax + 1) % (2 * (WordMax + 1))) - (WordMax + 1)

\* retryAfter: the delay a header asks for, 0 for none.  Seconds that Atoi cannot
\* represent are no date either; a date is read as the time that is left to it.
RetryAfter(header) ==
  LET asked == CASE header.kind = "seconds" /\ header.n \in -WordMax .. WordMax
                      -> Wrapped(header.n * Second)
                 [] header.kind = "date" -> header.n * Second
                 [] OTHER -> 0
  IN  IF asked <= 0 THEN 0 ELSE IF asked < MaxRetryAfter THEN asked ELSE MaxRetryAfter

\* The delay before the next attempt.  A 503 and any status the switch does not
\* name may carry a Retry-After; a 400 and an unsendable chunk are bugs of this
\* side that retrying soon will not help.
NextBackoff(kind, retryAfter) ==
  CASE retryAfter > 0                   -> retryAfter
    [] retryAfter = 0 /\ kind \in {"rejected", "oversized"} -> MaxBackoff
    [] OTHER -> IF backoff = 0 THEN Interval
                ELSE IF 2 * backoff < MaxBackoff THEN 2 * backoff ELSE MaxBackoff

\* (mutant) Run returns on any failure, not only when ctx is cancelled.
Failed_Returns(kind, retryAfter) ==
  /\ pc' = "stopped"
  /\ UNCHANGED << upTo, cancelled, failing, backoff >>

\* The error branch of Run.
Failed(kind, retryAfter) ==
  /\ IF cancelled
       THEN pc' = "stopped" /\ UNCHANGED << failing, backoff >>
       ELSE /\ pc' = "sleep"
            /\ failing' = kind
            /\ backoff' = NextBackoff(kind, retryAfter)
  /\ UNCHANGED << upTo, cancelled >>

-----------------------------------------------------------------------------
(* Pusher.Run *)

\* (mutant) the sleep on an empty buffer does not look at ctx.
DrainEmpty_IgnoresCtx ==
  /\ pc = "drain"
  /\ Drain(0, Batch).chunks = << >>
  /\ pc' = "sleep"
  /\ UNCHANGED << ringVars, sent, upTo, backoff, failing, cancelled, netVars >>

\* Nothing to send: sleep for Interval, which returns at once under a cancelled ctx.
DrainEmpty ==
  /\ pc = "drain"
  /\ Drain(0, Batch).chunks = << >>
  /\ pc' = IF cancelled THEN "stopped" ELSE "sleep"
  /\ UNCHANGED << ringVars, sent, upTo, backoff, failing, cancelled, netVars >>

\* The oldest chunk alone exceeds MaxBodyBytes: nothing is sent.
DrainUnsendable ==
  LET page == Drain(0, Batch) IN
  /\ pc = "drain"
  /\ page.chunks # << >>
  /\ Sendable(page) = {}
  /\ Failed("oversized", 0)
  /\ UNCHANGED << ringVars, sent, netVars >>

\* A batch is posted.  Under a cancelled ctx the request fails at once.
DrainAndPost ==
  LET page == Drain(0, Batch) IN
  /\ pc = "drain"
  /\ page.chunks # << >>
  /\ Sendable(page) # {}
  /\ IF cancelled
       THEN pc' = "stopped" /\ UNCHANGED << sent, inflight >>
       ELSE /\ pc' = "post"
            /\ sent' = Encoded(page, LongestOf(Sendable(page)))
            /\ inflight' = TRUE
  /\ UNCHANGED << ringVars, upTo, backoff, failing, cancelled, reply, late, node2 >>

\* (mutant) the delay outlives the failures it belongs to.
ReceiveDelivered_KeepsDelay ==
  /\ pc = "post"
  /\ reply # NoReply
  /\ Classify(reply) = "delivered"
  /\ pc' = "ack"
  /\ upTo' = Covered(reply)
  /\ failing' = ""
  /\ reply' = NoReply
  /\ UNCHANGED << ringVars, sent, backoff, cancelled, inflight, late, node2 >>

\* A 200 that covers at least the first chunk.
ReceiveDelivered ==
  /\ pc = "post"
  /\ reply # NoReply
  /\ Classify(reply) = "delivered"
  /\ pc' = "ack"
  /\ upTo' = Covered(reply)
  /\ failing' = ""
  /\ backoff' = 0
  /\ reply' = NoReply
  /\ UNCHANGED << ringVars, sent, cancelled, inflight, late, node2 >>

ReceiveFailure ==
  /\ pc = "post"
  /\ reply # NoReply
  /\ Classify(reply) # "delivered"
  /\ Failed(Classify(reply), RetryAfter(reply.retryAfter))
  /\ reply' = NoReply
  /\ UNCHANGED << ringVars, sent, inflight, late, node2 >>

\* The client gives up (timeout, connection error, cancelled ctx).  Node 2 may
\* have stored the batch already, may yet receive it, or never will.
GiveUp ==
  /\ pc = "post"
  /\ Failed("request failed", 0)
  /\ inflight' = FALSE
  /\ reply' = NoReply
  /\ \/ late' = late
     \/ /\ inflight
        /\ Cardinality(late) < MaxLate
        /\ late' = late \cup {sent}
  /\ UNCHANGED << ringVars, sent, node2 >>

\* Ack(res.Epoch, upTo).  Its error branch is unreachable: see AckCannotFail.
PushAck ==
  /\ pc = "ack"
  /\ Ack(sent.epoch, upTo)
  /\ pc' = "evict"
  /\ UNCHANGED << sent, upTo, backoff, failing, cancelled, netVars >>

\* (mutant) the delivered batch is acknowledged but not evicted.
PushEvict_Skipped ==
  /\ pc = "evict"
  /\ pc' = "drain"
  /\ UNCHANGED << ringVars, sent, upTo, backoff, failing, cancelled, netVars >>

\* EvictAcked; an append may have evicted every acknowledged record already.
PushEvict ==
  /\ pc = "evict"
  /\ IF ackedCount > 0 THEN EvictAcked ELSE UNCHANGED ringVars
  /\ pc' = "drain"
  /\ UNCHANGED << sent, upTo, backoff, failing, cancelled, netVars >>

\* The timer of sleep fires ...
Wake ==
  /\ pc = "sleep"
  /\ pc' = "drain"
  /\ UNCHANGED << ringVars, sent, upTo, backoff, failing, cancelled, netVars >>

\* ... or ctx is done first.
SleepCancelled ==
  /\ pc = "sleep"
  /\ cancelled
  /\ pc' = "stopped"
  /\ UNCHANGED << ringVars, sent, upTo, backoff, failing, cancelled, netVars >>

-----------------------------------------------------------------------------
(* Node 2 and the network (external) *)

StoredPrefix(batch, n) == {<< batch.epoch, batch.chunks[i].seq >> : i \in 1 .. n}

\* Node 2 takes the current POST: it commits the first n chunks and answers.
\* The only promise: an "ok" for this epoch covers no chunk of the batch that
\* is not stored.
Node2Answers(n, r) ==
  /\ inflight
  /\ inflight' = FALSE
  /\ node2' = node2 \cup StoredPrefix(sent, n)
  /\ (r.status = "ok" /\ r.epoch = sent.epoch) =>
       \A i \in 1 .. Len(sent.chunks) :
         sent.chunks[i].seq <= r.accepted
           => << sent.epoch, sent.chunks[i].seq >> \in node2'
  /\ reply' = r
  /\ UNCHANGED << ringVars, pushVars, late >>

Replies ==
  [status : {"ok"}, epoch : 1 .. MaxEpoch, accepted : 0 .. MaxSeq, retryAfter : {NoHeader}]
    \cup [status : {"full", "status"}, epoch : {0}, accepted : {0}, retryAfter : RetryAfters]
    \cup [status : {"rejected", "malformed"}, epoch : {0}, accepted : {0}, retryAfter : {NoHeader}]

Node2Handles ==
  \E n \in 0 .. Len(sent.chunks), r \in Replies : Node2Answers(n, r)

\* A request the client gave up on arrives after all, or is lost.
LateArrives ==
  \E batch \in late :
    /\ late' = late \ {batch}
    /\ \E n \in 0 .. Len(batch.chunks) : node2' = node2 \cup StoredPrefix(batch, n)
    /\ UNCHANGED << ringVars, pushVars, inflight, reply >>

-----------------------------------------------------------------------------
(* The rest of the process *)

\* Concurrent ingest (handleIngest calls Append from its own goroutine).
Ingest ==
  \E recs \in Batches :
    /\ AppendStored(recs) \/ AppendRefused(recs)
    /\ UNCHANGED << pushVars, netVars >>

\* SIGTERM: main cancels the push loop's context.
Cancel ==
  /\ ~cancelled
  /\ cancelled' = TRUE
  /\ UNCHANGED << ringVars, pc, sent, upTo, backoff, failing, netVars >>

\* The process dies at any point, or exits after Cancel, and systemd starts a
\* new one.  A request on its way may still reach Node 2.
Crash ==
  /\ Restart
  /\ pc' = "drain"
  /\ sent' = NoBatch
  /\ upTo' = 0
  /\ backoff' = 0
  /\ failing' = ""
  /\ cancelled' = FALSE
  /\ inflight' = FALSE
  /\ reply' = NoReply
  /\ late' = IF inflight /\ Cardinality(late) < MaxLate THEN late \cup {sent} ELSE late
  /\ UNCHANGED node2

PushInit ==
  /\ RingInit
  /\ pc = "drain"
  /\ sent = NoBatch
  /\ upTo = 0
  /\ backoff = 0
  /\ failing = ""
  /\ cancelled = FALSE
  /\ inflight = FALSE
  /\ reply = NoReply
  /\ late = {}
  /\ node2 = {}

\* What the goroutine does by itself: it is scheduled, timers fire, and the
\* client's timeout bounds every POST.
PusherStep ==
  \/ DrainEmpty \/ DrainUnsendable \/ DrainAndPost
  \/ ReceiveDelivered \/ ReceiveFailure \/ GiveUp
  \/ PushAck \/ PushEvict \/ Wake \/ SleepCancelled

PushNext ==
  \/ PusherStep
  \/ Node2Handles
  \/ LateArrives
  \/ Ingest
  \/ Cancel
  \/ Crash

PushSpec == PushInit /\ [][PushNext]_vars

\* Node 2 stores the whole batch and says so.
Node2Accepts ==
  Node2Answers(Len(sent.chunks),
               [status |-> "ok", epoch |-> sent.epoch, accepted |-> sent.lastSeq,
                retryAfter |-> NoHeader])

\* The goroutine never stops being scheduled (GiveUp is the client's timeout).
\* Node 2 may fail any number of times, but a sender that keeps trying finds it
\* willing again and again, and not every one of those answers is lost.
PushFairness ==
  /\ WF_vars(PusherStep)
  /\ SF_vars(Node2Accepts)
  /\ SF_vars(ReceiveDelivered)

FairPushSpec == PushSpec /\ PushFairness

-----------------------------------------------------------------------------
(* What makes push delivery correct *)

Channel == INSTANCE DeliveryChannel WITH
  lifetime  <- epoch,
  accepted  <- nextSeq - 1,
  confirmed <- ackedUpTo,
  stored    <- node2

\* Push mode delivers as promised: at least once, in order, and nothing is
\* confirmed, and so allowed to be evicted, that Node 2 does not have under this
\* epoch.  This is what must survive replies that are lost, late, for another
\* epoch, partial or too generous, requests that are repeated or overtake one
\* another, batches that were cut to size, and restarts in between.
PushDelivers == Channel!ChannelSpec

\* push.go says of the Ack in Run: "Cannot happen within one process (same
\* epoch, issued seq)".  Between Drain and Ack the lock is released and a reply
\* is awaited, and still the Ack is never refused and never a no-op.
AckCannotFail ==
  pc = "ack" => /\ sent.epoch = epoch
                /\ upTo \in ackedUpTo + 1 .. nextSeq - 1

\* How long a failure makes the loop wait.
Paced ==
  failing' # "" =>
    LET bug   == failing' \in {"rejected", "oversized"}
        asked == /\ failing' \in {"full", "status"}
                 /\ reply.retryAfter.kind \in {"seconds", "date"}
    IN  /\ backoff' > 0
        /\ backoff' > MaxBackoff => asked /\ backoff' <= MaxRetryAfter
        /\ bug => backoff' = MaxBackoff
        /\ ~ bug /\ ~ asked =>
             IF failing = ""
               THEN backoff' = Interval
               ELSE /\ backoff' <= 2 * backoff
                    /\ backoff' >= backoff \/ backoff' = MaxBackoff

\* Whatever Node 2 answers and whatever failures came before: the loop pauses
\* after every failure.  It waits beyond MaxBackoff only where this failure came
\* with a Retry-After, and then no longer than the cap; a bug of this side waits
\* MaxBackoff; any other failure waits Interval when it is the first, and when it
\* is not, no more than twice as long as the last, and no less unless that is
\* MaxBackoff.  The delay of a Retry-After or of a bug is the one before in this
\* sense too: push.go doubles it when another failure comes next.
RetriesPaced == [][Paced]_<< failing, backoff >>

\* A pending record that alone exceeds MaxBodyBytes, at s or in front of it.
HeldBack(s) ==
  \E i \in ackedCount + 1 .. Len(items) :
    items[i].seq <= s /\ items[i].size > MaxBodyBytes

\* Every record that ingest answered 201 for is delivered and acknowledged in
\* the end, as long as the process lives and is not told to stop.  A record that
\* is too large to send holds back what was stored after it, and nothing else:
\* what stands before it in the same batch still gets out.
EventuallyDelivered ==
  \A s \in 1 .. MaxSeq : (s < nextSeq) ~> (s <= ackedUpTo \/ cancelled \/ HeldBack(s))

\* Delivered chunks leave RAM by themselves, without further ingest.
DeliveredLeavesRam == (ackedCount > 0) ~> (ackedCount = 0)

\* main waits for the push loop before it shuts the server down: once its
\* context is cancelled, the loop returns, wherever it stands.
StopsWhenCancelled == cancelled ~> (pc = "stopped" \/ ~cancelled)

=============================================================================
