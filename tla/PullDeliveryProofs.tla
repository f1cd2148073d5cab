------------------------- MODULE PullDeliveryProofs -------------------------
(***************************************************************************)
(* Proofs about PullDelivery, for every page size, every number of         *)
(* handlers that run at once, and every ack that arrives late, again, in   *)
(* another order, or after a restart.                                      *)
(*                                                                         *)
(* An ack changes the buffer long after the consumer stored the page it    *)
(* was made for.  The invariant therefore speaks of every ack that was     *)
(* ever sent, also of earlier epochs (GoodAck), of the page the consumer   *)
(* is storing, which begins right behind what it has (GoodBatch), and of   *)
(* the cursor it pages ahead with.                                         *)
(***************************************************************************)
EXTENDS PullDelivery, RingBufferProofs

\* The consumer stores a page that leaves no gap, and pages ahead only behind
\* what it has stored.
ConsumerInv ==
  /\ at \in {"asking", "received"}
  /\ at = "received" => GoodBatch(page, epoch, nextSeq, node2)
  /\ cursor \in Nat
  /\ cursor > 0 => HasPrefix(cursorEpoch, cursor, node2)

\* An ack of an epoch up to e, where next is the next number of e, for chunks
\* that are stored.
GoodAck(a, e, next, stored) ==
  /\ a.epoch \in 1 .. e
  /\ a.upTo \in Nat
  /\ a.epoch = e => a.upTo < next
  /\ HasPrefix(a.epoch, a.upTo, stored)

AckInv ==
  /\ \A a \in acks : GoodAck(a, epoch, nextSeq, node2)
  /\ HasPrefix(epoch, ackedUpTo, node2)
  /\ EachChunkAckedOnce

\* What a handler is about to answer, or has answered, is covered by the
\* watermark.
Covers(r, watermark) ==
  /\ r.requested \in Nat
  /\ r.acked \in 0 .. r.requested
  /\ r.requested <= watermark

HandlerInv ==
  /\ \A h \in handlers : Covers(h, ackedUpTo)
  /\ ackReply.status = "ok" =>
       /\ ackReply.ackedUpTo \in Nat
       /\ ackReply.pending \in Nat
       /\ Covers(ackReply, ackReply.ackedUpTo)
       /\ ackReply.ackedUpTo + ackReply.pending <= nextSeq - 1
  /\ RestartIsConflict

PullInv == RingInv /\ WithinBounds /\ ConsumerInv /\ AckInv /\ HandlerInv

-----------------------------------------------------------------------------
(* Facts about one state *)

\* The types of the state that the steps below do arithmetic on.
LEMMA PullTypes ==
  ASSUME PullInv
  PROVE  /\ RingInv /\ WithinBounds
         /\ epoch \in Nat \ {0} /\ nextSeq \in Nat \ {0} /\ ackedUpTo \in Nat
         /\ ackedUpTo <= nextSeq - 1
         /\ Pending = nextSeq - 1 - ackedUpTo
<1>1. epoch \in Nat \ {0}
  BY BoundsAssumption DEF PullInv, WithinBounds
<1>2. Pending = nextSeq - 1 - ackedUpTo
  BY DEF PullInv, RingInv, RecordsAccounted
<1> QED
  BY <1>1, <1>2, CounterFacts DEF PullInv

\* An ack stays good while more is stored and accepted, and over a restart.
LEMMA GoodAckStays ==
  ASSUME NEW a, NEW e \in Nat, NEW e2 \in Nat, NEW next \in Nat, NEW next2 \in Nat,
         NEW stored, NEW stored2, GoodAck(a, e, next, stored),
         stored \subseteq stored2,
         (e2 = e /\ next <= next2) \/ e2 = e + 1
  PROVE  GoodAck(a, e2, next2, stored2)
  BY DEF GoodAck, HasPrefix

\* A drain asks for at least one record and never for more than the limit,
\* also where no max= was given.
LEMMA PageSizeBounded ==
  ASSUME NEW max \in MaxParams
  PROVE  PageSize(max) \in 1 .. DrainMaxLimit
  BY PullAssumption DEF PageSize

\* A page that the consumer takes begins right behind what it has stored.
LEMMA TakenPage ==
  ASSUME PullInv, NEW max \in MaxParams, Drained(cursor, max).chunks # << >>,
         ~ (cursor > 0 /\ Drained(cursor, max).epoch # cursorEpoch)
  PROVE  GoodBatch(Drained(cursor, max), epoch, nextSeq, node2)
<1> DEFINE p == Drained(cursor, max)
           size == PageSize(max)
           b == PageFloor(cursor)
           above == IssuedAbove(b)
           l == Len(p.chunks)
<1>1. /\ nextSeq \in Nat \ {0} /\ ackedUpTo \in Nat /\ ackedUpTo <= nextSeq - 1
      /\ epoch \in Nat \ {0} /\ cursor \in Nat /\ RingInv
  BY PullTypes DEF PullInv, ConsumerInv
<1>2. size \in Nat \ {0}
  BY PageSizeBounded, PullAssumption
<1>3. /\ p.epoch = epoch
      /\ p.chunks \in Seq(Entry)
      /\ l = IF above < size THEN above ELSE size
      /\ \A i \in 1 .. l : p.chunks[i].seq = b + i
      /\ p.lastSeq = IF above = 0 THEN 0 ELSE b + l
  <2> HIDE DEF p, size, b, above, l
  <2> DEFINE q == Drain(cursor, size)
  <2>1. p = q
    BY DEF p, Drained, size
  <2>2. q.epoch = epoch
    BY <1>1, <1>2, DrainedPage
  <2>3. q.chunks \in Seq(Entry)
    BY <1>1, <1>2, DrainedPage
  <2>4. Len(q.chunks) = IF above < size THEN above ELSE size
    <3> HIDE DEF q
    <3> QED
      BY <1>1, <1>2, DrainedPage, ZenonT(30) DEF q, b, above
  <2>5. \A i \in 1 .. Len(q.chunks) : q.chunks[i].seq = b + i
    BY <1>1, <1>2, DrainedPage DEF b
  <2>6. q.lastSeq = IF above = 0 THEN 0 ELSE b + Len(q.chunks)
    BY <1>1, <1>2, DrainedPage, ZenonT(30) DEF b, above
  <2> HIDE DEF q
  <2> QED
    BY <2>1, <2>2, <2>3, <2>4, <2>5, <2>6 DEF l
<1>4. b \in Nat /\ HasPrefix(epoch, b, node2)
  <2>1. CASE cursor > ackedUpTo
    <3>1. b = cursor /\ cursor > 0
      BY <1>1, <2>1 DEF PageFloor
    <3>2. cursorEpoch = epoch
      BY <1>3, <3>1
    <3> QED
      BY <1>1, <3>1, <3>2 DEF PullInv, ConsumerInv
  <2>2. CASE ~ (cursor > ackedUpTo)
    <3>1. b = ackedUpTo
      BY <2>2 DEF PageFloor
    <3> QED
      BY <1>1, <3>1 DEF PullInv, AckInv
  <2> QED
    BY <2>1, <2>2
<1>5. p.chunks # << >>
  OBVIOUS
<1> HIDE DEF p, size, b
<1>6. l \in Nat \ {0}
  BY <1>3, <1>5, EmptySeq
<1>7. above = IF b < nextSeq THEN nextSeq - 1 - b ELSE 0
  BY DEF IssuedAbove
<1> HIDE DEF above
<1>8. above \in Nat \ {0} /\ l <= above /\ above = nextSeq - 1 - b
  BY <1>1, <1>2, <1>3, <1>4, <1>6, <1>7
<1> HIDE DEF l
<1>9. /\ p.chunks[1].seq = b + 1
      /\ \A i \in 1 .. l : p.chunks[i].seq = b + i
      /\ p.lastSeq = b + l
  BY <1>3, <1>6, <1>8
<1>10. InOrder(p)
  <2>1. \A i \in 1 .. l : p.chunks[i].seq = p.chunks[1].seq + i - 1
    BY <1>4, <1>9
  <2>2. p.chunks[1].seq \in Nat \ {0} /\ p.lastSeq = p.chunks[1].seq + l - 1
    BY <1>4, <1>6, <1>9
  <2> QED
    BY <1>6, <2>1, <2>2 DEF InOrder, l
<1>11. p.epoch \in 1 .. epoch /\ p.lastSeq < nextSeq
  BY <1>1, <1>3, <1>4, <1>6, <1>8, <1>9
<1>12. HasPrefix(p.epoch, p.chunks[1].seq - 1, node2)
  <2>1. p.chunks[1].seq - 1 = b
    BY <1>4, <1>9
  <2> QED
    BY <1>3, <1>4, <2>1
<1> QED
  BY <1>10, <1>11, <1>12 DEF GoodBatch, p

\* When the consumer has made its page durable, the ack of the page and the
\* cursor behind it are both good.
LEMMA StoredPage ==
  ASSUME PullInv, at = "received", NEW stored,
         stored = node2 \cup Received(page, Len(page.chunks))
  PROVE  /\ page.lastSeq \in Nat
         /\ GoodAck([epoch |-> page.epoch, upTo |-> page.lastSeq], epoch, nextSeq, stored)
         /\ HasPrefix(page.epoch, page.lastSeq, stored)
<1>1. /\ GoodBatch(page, epoch, nextSeq, node2) /\ epoch \in Nat
  BY PullTypes DEF PullInv, ConsumerInv
<1>2. page.epoch \in 1 .. epoch /\ (page.epoch = epoch => page.lastSeq < nextSeq)
  BY <1>1 DEF GoodBatch
<1>3. page.lastSeq \in Nat
  <2> DEFINE f == page.chunks[1].seq
             l == Len(page.chunks)
  <2>1. f \in Nat \ {0} /\ l \in Nat \ {0} /\ page.lastSeq = f + l - 1
    BY <1>1 DEF GoodBatch, InOrder
  <2> HIDE DEF f, l
  <2> QED
    BY <2>1
<1>4. \A i \in 1 .. Len(page.chunks) : << page.epoch, page.chunks[i].seq >> \in stored
  BY DEF Received
<1>5. HasPrefix(page.epoch, page.lastSeq, stored)
  <2>1. page.lastSeq <= page.lastSeq /\ node2 \subseteq stored
    BY <1>3
  <2> QED
    BY <1>1, <1>3, <1>4, <2>1, PrefixGrows
<1> QED
  BY <1>2, <1>3, <1>5 DEF GoodAck

\* How Ack judges an ack that was sent: never as one that is ahead, and it
\* changes the buffer only for chunks of this epoch that are stored.
LEMMA SentAckJudged ==
  ASSUME PullInv, NEW a \in acks
  PROVE  LET status == AckStatus(a.epoch, a.upTo)
         IN  /\ status # "ack ahead"
             /\ status = "new" => /\ a.upTo \in ackedUpTo + 1 .. nextSeq - 1
                                 /\ HasPrefix(epoch, a.upTo, node2)
             /\ status = "repeated" => a.upTo <= ackedUpTo
<1>1. GoodAck(a, epoch, nextSeq, node2)
  BY DEF PullInv, AckInv
<1>2. nextSeq \in Nat /\ ackedUpTo \in Nat /\ a.upTo \in Nat
  BY <1>1, PullTypes DEF GoodAck
<1>3. a.epoch = epoch => a.upTo < nextSeq /\ HasPrefix(epoch, a.upTo, node2)
  BY <1>1 DEF GoodAck
<1> QED
  BY <1>2, <1>3 DEF AckStatus

-----------------------------------------------------------------------------
(* Steps *)

\* Every step does to the buffer what a caller of it may do.
LEMMA PullStepOfRing ==
  ASSUME PullInv, [PullNext]_vars
  PROVE  [RingNext]_ringVars
<1>1. ASSUME NEW a \in acks, AckApplied(a) PROVE [RingNext]_ringVars
  <2>1. Ack(a.epoch, a.upTo) \/ UNCHANGED ringVars
    BY <1>1 DEF AckApplied
  <2>2. a.upTo \in Nat /\ RingInv /\ WithinBounds
    BY DEF PullInv, AckInv, GoodAck
  <2> QED
    BY <2>1, <2>2, AckIsRingStep
<1>2. ASSUME Ingest PROVE RingNext
  BY <1>2 DEF Ingest, RingNext
<1>3. ASSUME Node3Crash PROVE RingNext
  BY <1>3 DEF Node3Crash, RingNext
<1>4. \/ \E a \in acks : AckApplied(a)
      \/ Ingest \/ Node3Crash
      \/ UNCHANGED ringVars
  BY DEF PullNext, Ask, AskFurther, PersistAndAck, PersistAndPageAhead, ConsumerCrash,
         AckRefused, AckAnswered, vars
<1> QED
  BY <1>1, <1>2, <1>3, <1>4

\* Batches and acks stay good in every step, also over a restart.
LEMMA GoodStaysGood ==
  ASSUME PullInv, node2 \subseteq node2', nextSeq' \in Nat,
         (epoch' = epoch /\ nextSeq <= nextSeq') \/ epoch' = epoch + 1
  PROVE  /\ \A b : GoodBatch(b, epoch, nextSeq, node2) => GoodBatch(b, epoch', nextSeq', node2')
         /\ \A a : GoodAck(a, epoch, nextSeq, node2) => GoodAck(a, epoch', nextSeq', node2')
<1>1. epoch \in Nat /\ nextSeq \in Nat /\ epoch' \in Nat
  BY PullTypes
<1>2. ASSUME NEW b, GoodBatch(b, epoch, nextSeq, node2)
      PROVE  GoodBatch(b, epoch', nextSeq', node2')
  BY <1>1, <1>2, GoodBatchStays
<1>3. ASSUME NEW a, GoodAck(a, epoch, nextSeq, node2)
      PROVE  GoodAck(a, epoch', nextSeq', node2')
  BY <1>1, <1>3, GoodAckStays
<1> QED
  BY <1>2, <1>3

\* The handlers and their replies are not disturbed by what only the consumer
\* does, nor by an ingest.
LEMMA HandlersUndisturbed ==
  ASSUME PullInv, UNCHANGED << handlers, ackReply, ackedUpTo >>,
         nextSeq' \in Nat, nextSeq <= nextSeq'
  PROVE  HandlerInv'
<1>1. nextSeq \in Nat
  BY PullTypes
<1>2. ackReply.status = "ok" =>
        /\ ackReply.ackedUpTo \in Nat /\ ackReply.pending \in Nat
        /\ ackReply.ackedUpTo + ackReply.pending <= nextSeq - 1
  BY DEF PullInv, HandlerInv
<1>3. ackReply.status = "ok" => ackReply.ackedUpTo + ackReply.pending <= nextSeq' - 1
  <2> DEFINE next == nextSeq'
             sum == ackReply.ackedUpTo + ackReply.pending
  <2>1. next \in Nat /\ nextSeq <= next
    OBVIOUS
  <2>2. ackReply.status = "ok" => sum \in Nat /\ sum <= nextSeq - 1
    BY <1>2
  <2> HIDE DEF next, sum
  <2>3. ackReply.status = "ok" => sum <= next - 1
    BY <1>1, <2>1, <2>2
  <2> QED
    BY <2>3 DEF next, sum
<1> QED
  BY <1>2, <1>3 DEF PullInv, HandlerInv, RestartIsConflict

\* The consumer's steps.
LEMMA ConsumerKeepsInv ==
  ASSUME PullInv, RingInv', WithinBounds',
         \/ \E max \in MaxParams : Ask(max) \/ AskFurther(max)
         \/ PersistAndAck \/ PersistAndPageAhead \/ ConsumerCrash
  PROVE  PullInv'
<1>1. /\ UNCHANGED << epoch, nextSeq, ackedUpTo, handlers, ackReply, ackedTotal >>
      /\ node2 \subseteq node2'
  BY DEF Ask, AskFurther, PersistAndAck, PersistAndPageAhead, ConsumerCrash, ringVars
<1>2. nextSeq \in Nat /\ epoch \in Nat
  BY PullTypes
<1>3. /\ \A b : GoodBatch(b, epoch, nextSeq, node2) => GoodBatch(b, epoch', nextSeq', node2')
      /\ \A a : GoodAck(a, epoch, nextSeq, node2) => GoodAck(a, epoch', nextSeq', node2')
  BY <1>1, <1>2, GoodStaysGood
<1>4. HandlerInv'
  BY <1>1, <1>2, HandlersUndisturbed
<1>5. ASSUME \A a \in acks' : a \in acks \/ GoodAck(a, epoch', nextSeq', node2')
      PROVE  AckInv'
  BY <1>1, <1>3, <1>5 DEF PullInv, AckInv, HasPrefix, EachChunkAckedOnce
<1>6. ASSUME NEW max \in MaxParams, Ask(max) \/ AskFurther(max)
      PROVE  ConsumerInv' /\ AckInv'
  <2> DEFINE answer == Drained(cursor, max)
             dropped == answer.chunks = << >> \/ (cursor > 0 /\ answer.epoch # cursorEpoch)
  <2>1. /\ UNCHANGED << acks, node2, cursorEpoch >>
        /\ dropped => cursor' = 0 /\ UNCHANGED << at, page >>
        /\ ~ dropped => at' = "received" /\ page' = answer /\ UNCHANGED cursor
    <3>1. CASE Ask(max)
      BY <3>1 DEF Ask
    <3>2. CASE AskFurther(max)
      BY <3>2 DEF AskFurther
    <3> QED
      BY <1>6, <3>1, <3>2
  <2>2. ~ dropped => GoodBatch(answer, epoch, nextSeq, node2)
    BY TakenPage
  <2> HIDE DEF answer, dropped
  <2>3. AckInv'
    BY <1>5, <2>1
  <2>4. CASE dropped
    <3>1. ConsumerInv'
      BY <1>1, <2>1, <2>4 DEF PullInv, ConsumerInv
    <3> QED
      BY <2>3, <3>1
  <2>5. CASE ~ dropped
    <3>1. ConsumerInv'
      BY <1>1, <2>1, <2>2, <2>5 DEF PullInv, ConsumerInv
    <3> QED
      BY <2>3, <3>1
  <2> QED
    BY <2>4, <2>5
<1>7. ASSUME PersistAndAck PROVE ConsumerInv' /\ AckInv'
  <2> DEFINE sent == [epoch |-> page.epoch, upTo |-> page.lastSeq]
  <2>1. /\ at = "received" /\ node2' = node2 \cup Received(page, Len(page.chunks))
        /\ acks' = acks \cup {sent} /\ at' = "asking" /\ cursor' = 0
    BY <1>7 DEF PersistAndAck
  <2>2. GoodAck(sent, epoch', nextSeq', node2')
    BY <1>1, <2>1, StoredPage
  <2> HIDE DEF sent
  <2>3. AckInv'
    BY <1>5, <2>1, <2>2
  <2> QED
    BY <2>1, <2>3 DEF ConsumerInv
<1>8. ASSUME PersistAndPageAhead PROVE ConsumerInv' /\ AckInv'
  <2>1. /\ at = "received" /\ node2' = node2 \cup Received(page, Len(page.chunks))
        /\ at' = "asking" /\ cursor' = page.lastSeq /\ cursorEpoch' = page.epoch
        /\ acks' = acks
    BY <1>8 DEF PersistAndPageAhead
  <2>2. page.lastSeq \in Nat /\ HasPrefix(page.epoch, page.lastSeq, node2')
    BY <2>1, StoredPage
  <2>3. AckInv'
    BY <1>5, <2>1
  <2> QED
    BY <2>1, <2>2, <2>3 DEF ConsumerInv
<1>9. ASSUME ConsumerCrash PROVE ConsumerInv' /\ AckInv'
  <2>1. at' = "asking" /\ cursor' = 0 /\ acks' = acks
    BY <1>9 DEF ConsumerCrash
  <2> QED
    BY <1>5, <2>1 DEF ConsumerInv
<1> QED
  BY <1>4, <1>6, <1>7, <1>8, <1>9 DEF PullInv

\* The two halves of handleAck.
LEMMA HandleAckKeepsInv ==
  ASSUME PullInv, RingInv', WithinBounds',
         \/ \E a \in acks : AckRefused(a) \/ AckApplied(a)
         \/ \E h \in handlers : AckAnswered(h)
  PROVE  PullInv'
<1>1. /\ UNCHANGED << epoch, nextSeq, at, page, cursor, cursorEpoch, acks, node2 >>
  BY DEF AckRefused, AckApplied, AckAnswered, Ack, ringVars, consumerVars
<1>2. /\ nextSeq \in Nat /\ epoch \in Nat /\ ackedUpTo \in Nat /\ ackedUpTo <= nextSeq - 1
      /\ RingInv /\ Pending = nextSeq - 1 - ackedUpTo
  BY PullTypes
<1>3. ConsumerInv'
  BY <1>1 DEF PullInv, ConsumerInv
<1>4. ASSUME NEW a \in acks, AckRefused(a) PROVE AckInv' /\ HandlerInv'
  <2>1. /\ UNCHANGED << ackedUpTo, handlers, ackedTotal >>
        /\ ackReply'.status = AckStatus(a.epoch, a.upTo)
        /\ ackReply'.status # "ok"
    BY <1>4, Zenon DEF AckRefused, Reply, ringVars
  <2>2. RestartIsConflict'
    BY <2>1, SentAckJudged DEF RestartIsConflict
  <2> QED
    BY <1>1, <2>1, <2>2 DEF PullInv, AckInv, HandlerInv, EachChunkAckedOnce
<1>5. ASSUME NEW a \in acks, AckApplied(a) PROVE AckInv' /\ HandlerInv'
  <2> DEFINE status == AckStatus(a.epoch, a.upTo)
             acked == IF status = "new" THEN NewlyAcked(a.upTo) ELSE 0
             h == [requested |-> a.upTo, acked |-> acked]
  <2>1. /\ status = "new" \/ status = "repeated"
        /\ status = "new" => ackedUpTo' = a.upTo
        /\ status # "new" => ackedUpTo' = ackedUpTo
        /\ handlers' = handlers \cup {h}
        /\ ackedTotal' = ackedTotal + acked
        /\ ackReply' = ackReply
    BY <1>5, Zenon DEF AckApplied, Ack, ringVars
  <2>2. /\ status = "new" => /\ a.upTo \in ackedUpTo + 1 .. nextSeq - 1
                             /\ HasPrefix(epoch, a.upTo, node2)
        /\ status = "repeated" => a.upTo <= ackedUpTo
        /\ a.upTo \in Nat
    BY SentAckJudged DEF PullInv, AckInv, GoodAck
  <2>3. status = "new" => NewlyAcked(a.upTo) = a.upTo - ackedUpTo
    BY <1>2, <2>2, NewlyAckedValue
  <2> HIDE DEF status
  <2>4. acked \in 0 .. a.upTo
    BY <1>2, <2>2, <2>3
  <2>5. a.upTo <= ackedUpTo' /\ ackedUpTo <= ackedUpTo' /\ ackedUpTo' \in Nat
    BY <1>2, <2>1, <2>2
  <2>6. ackedTotal' = ackedUpTo'
    BY <1>2, <2>1, <2>2, <2>3 DEF PullInv, AckInv, EachChunkAckedOnce
  <2>7. HasPrefix(epoch, ackedUpTo', node2)
    BY <2>1, <2>2 DEF PullInv, AckInv
  <2>8. Covers(h, ackedUpTo')
    BY <2>2, <2>4, <2>5 DEF Covers
  <2>9. \A g \in handlers : Covers(g, ackedUpTo')
    <3> TAKE g \in handlers
    <3>1. g.requested \in Nat /\ g.acked \in 0 .. g.requested /\ g.requested <= ackedUpTo
      BY DEF PullInv, HandlerInv, Covers
    <3>2. g.requested <= ackedUpTo'
      BY <1>2, <2>5, <3>1
    <3> QED
      BY <3>1, <3>2 DEF Covers
  <2> HIDE DEF h
  <2>10. HandlerInv'
    BY <1>1, <2>1, <2>8, <2>9 DEF PullInv, HandlerInv, RestartIsConflict
  <2>11. AckInv'
    BY <1>1, <2>6, <2>7 DEF PullInv, AckInv, EachChunkAckedOnce
  <2> QED
    BY <2>10, <2>11
<1>6. ASSUME NEW h \in handlers, AckAnswered(h) PROVE AckInv' /\ HandlerInv'
  <2>1. /\ UNCHANGED << ackedUpTo, ackedTotal >>
        /\ handlers' = handlers \ {h}
        /\ ackReply' = Reply("ok", h.requested, h.acked, ackedUpTo, Pending)
    BY <1>6 DEF AckAnswered, ringVars
  <2>2. Covers(h, ackedUpTo)
    BY DEF PullInv, HandlerInv
  <2>3. Pending \in Nat /\ ackedUpTo + Pending <= nextSeq - 1
    BY <1>2
  <2>4. HandlerInv'
    BY <1>1, <1>2, <2>1, <2>2, <2>3
       DEF PullInv, HandlerInv, RestartIsConflict, Covers, Reply
  <2> QED
    BY <1>1, <2>1, <2>4 DEF PullInv, AckInv, EachChunkAckedOnce
<1> QED
  BY <1>3, <1>4, <1>5, <1>6 DEF PullInv

LEMMA PullStepKeepsInv ==
  ASSUME PullInv, [PullNext]_vars
  PROVE  PullInv'
<1>1. RingInv' /\ WithinBounds'
  BY PullStepOfRing, StepKeepsInv, StepWithinBounds DEF PullInv
<1>2. /\ nextSeq \in Nat /\ epoch \in Nat /\ ackedUpTo \in Nat
      /\ nextSeq' \in Nat
  BY <1>1, PullTypes DEF RingInv, TypeOK
<1>3. ASSUME UNCHANGED << epoch, ackedUpTo, pullVars >>, nextSeq <= nextSeq'
      PROVE  PullInv'
  <2>1. /\ \A b : GoodBatch(b, epoch, nextSeq, node2) => GoodBatch(b, epoch', nextSeq', node2')
        /\ \A a : GoodAck(a, epoch, nextSeq, node2) => GoodAck(a, epoch', nextSeq', node2')
    BY <1>2, <1>3, GoodStaysGood DEF pullVars
  <2>2. HandlerInv'
    BY <1>2, <1>3, HandlersUndisturbed DEF pullVars
  <2>3. ConsumerInv'
    BY <1>3, <2>1 DEF PullInv, ConsumerInv, pullVars, consumerVars
  <2>4. AckInv'
    BY <1>3, <2>1 DEF PullInv, AckInv, EachChunkAckedOnce, pullVars
  <2> QED
    BY <1>1, <2>2, <2>3, <2>4 DEF PullInv
<1>4. ASSUME Ingest PROVE PullInv'
  <2>1. UNCHANGED << epoch, ackedUpTo, pullVars >>
    BY <1>4 DEF Ingest, AppendStored, AppendRefused
  <2>2. nextSeq <= nextSeq'
    <3>1. PICK recs \in Batches : AppendStored(recs) \/ AppendRefused(recs)
      BY <1>4 DEF Ingest
    <3>2. Len(recs) \in Nat
      BY BatchFacts
    <3>3. nextSeq' = nextSeq + Len(recs) \/ nextSeq' = nextSeq
      BY <3>1 DEF AppendStored, AppendRefused
    <3> QED
      BY <1>2, <3>2, <3>3
  <2> QED
    BY <1>3, <2>1, <2>2
<1>5. ASSUME Node3Crash PROVE PullInv'
  <2>1. /\ epoch' = epoch + 1 /\ nextSeq' = 1 /\ ackedUpTo' = 0
        /\ handlers' = {} /\ ackReply' = NoReply /\ ackedTotal' = 0
        /\ UNCHANGED << at, page, cursor, cursorEpoch, acks, node2 >>
    BY <1>5 DEF Node3Crash, Restart, consumerVars
  <2>2. /\ \A b : GoodBatch(b, epoch, nextSeq, node2) => GoodBatch(b, epoch', nextSeq', node2')
        /\ \A a : GoodAck(a, epoch, nextSeq, node2) => GoodAck(a, epoch', nextSeq', node2')
    BY <1>2, <2>1, GoodStaysGood
  <2>3. ConsumerInv'
    BY <2>1, <2>2 DEF PullInv, ConsumerInv
  <2>4. AckInv'
    <3>1. HasPrefix(epoch', ackedUpTo', node2')
      BY <2>1 DEF HasPrefix
    <3> QED
      BY <2>1, <2>2, <3>1 DEF PullInv, AckInv, EachChunkAckedOnce
  <2>5. HandlerInv'
    BY <2>1 DEF HandlerInv, RestartIsConflict, NoReply, Reply
  <2> QED
    BY <1>1, <2>3, <2>4, <2>5 DEF PullInv
<1>6. ASSUME UNCHANGED vars PROVE PullInv'
  <2>1. UNCHANGED << epoch, nextSeq, ackedUpTo, pullVars >>
    BY <1>6 DEF vars, ringVars
  <2>2. nextSeq <= nextSeq'
    BY <1>2, <2>1
  <2> QED
    BY <1>3, <2>1, <2>2
<1> QED
  BY <1>1, <1>4, <1>5, <1>6, ConsumerKeepsInv, HandleAckKeepsInv DEF PullNext

LEMMA PullInitHasInv ==
  ASSUME PullInit PROVE PullInv
<1>1. RingInit
  BY DEF PullInit
<1>2. RingInv /\ WithinBounds
  BY <1>1, InitHasInv, InitWithinBounds
<1>3. ConsumerInv
  BY DEF PullInit, ConsumerInv
<1>4. AckInv
  <2>1. acks = {} /\ ackedUpTo = 0 /\ ackedTotal = 0
    BY <1>1 DEF PullInit, RingInit
  <2> QED
    BY <2>1 DEF AckInv, HasPrefix, EachChunkAckedOnce
<1>5. HandlerInv
  BY DEF PullInit, HandlerInv, RestartIsConflict, NoReply, Reply
<1> QED
  BY <1>2, <1>3, <1>4, <1>5 DEF PullInv

\* The invariant of pull mode.
THEOREM PullInvariance == PullSpec => []PullInv
<1>1. PullInit => PullInv
  BY PullInitHasInv
<1>2. PullInv /\ [PullNext]_vars => PullInv'
  BY PullStepKeepsInv
<1> QED
  BY <1>1, <1>2, PTL DEF PullSpec

\* Pull mode is one of the callers that RingBuffer was proved correct for, so
\* each theorem of RingBufferProofs holds of it: its pages are exact, no
\* unacknowledged record is dropped, its 503s are justified.
THEOREM PullUsesTheBuffer == PullSpec => RingSpec
<1>1. PullInit => RingInit
  BY DEF PullInit
<1>2. PullInv /\ [PullNext]_vars => [RingNext]_ringVars
  BY PullStepOfRing
<1> QED
  BY <1>1, <1>2, PullInvariance, PTL DEF PullSpec, RingSpec

\* However acks overlap, repeat and overtake one another, the "acked" counts of
\* one lifetime add up to the watermark.
THEOREM EachChunkAlwaysAckedOnce == PullSpec => []EachChunkAckedOnce
<1>1. PullInv => EachChunkAckedOnce
  BY DEF PullInv, AckInv
<1> QED
  BY <1>1, PullInvariance, PTL

\* Every 200 of handleAck covers its request, and its numbers agree with one
\* another, although Ack and Stats are two critical sections.
THEOREM AckReplyAlwaysCovers == PullSpec => []AckReplyCoversRequest
<1>1. PullInv => AckReplyCoversRequest
  BY DEF PullInv, HandlerInv, Covers, AckReplyCoversRequest
<1> QED
  BY <1>1, PullInvariance, PTL

\* A consumer that acknowledges what it was given is never told 400 ack_ahead:
\* after a restart it is told of the conflict.
THEOREM RestartIsAlwaysConflict == PullSpec => []RestartIsConflict
<1>1. PullInv => RestartIsConflict
  BY DEF PullInv, HandlerInv
<1> QED
  BY <1>1, PullInvariance, PTL

-----------------------------------------------------------------------------
(* Pull mode implements DeliveryChannel *)

\* Storing any part of the page the consumer has is a step of the channel.
LEMMA StoringPageIsStep ==
  ASSUME PullInv, at = "received", NEW n \in 0 .. Len(page.chunks),
         node2' = node2 \cup Received(page, n), UNCHANGED ringVars
  PROVE  Channel!StoreChunks
<1>1. epoch \in Nat /\ nextSeq \in Nat /\ GoodBatch(page, epoch, nextSeq, node2)
  BY PullTypes DEF PullInv, ConsumerInv
<1>2. Received(page, n) = FirstChunks(page, n)
  BY DEF Received, FirstChunks
<1>3. \A c \in node2' \ node2 :
        /\ c[1] \in 1 .. epoch
        /\ c[1] = epoch => c[2] \in 1 .. nextSeq - 1
        /\ \A m \in 1 .. c[2] : << c[1], m >> \in node2'
  <2> TAKE c \in node2' \ node2
  <2>1. c \in FirstChunks(page, n) /\ node2' = node2 \cup FirstChunks(page, n)
    BY <1>2
  <2> QED
    BY <1>1, <2>1, StoringLeavesNoGap
<1>4. UNCHANGED << epoch, nextSeq - 1, ackedUpTo >>
  BY DEF ringVars
<1> QED
  BY <1>3, <1>4 DEF Channel!StoreChunks

\* Every step of pull mode is a step of the channel or leaves it as it was.
LEMMA PullStepDelivers ==
  ASSUME PullInv, PullInv', [PullNext]_vars
  PROVE  [Channel!ChannelNext]_(Channel!channelVars)
<1>1. epoch \in Nat \ {0} /\ nextSeq \in Nat \ {0} /\ ackedUpTo \in Nat
  BY PullTypes
<1>2. ASSUME NEW recs \in Batches, AppendStored(recs), node2' = node2
      PROVE  Channel!AcceptChunks
  <2> DEFINE m == Len(recs)
  <2>1. m \in Nat \ {0} /\ nextSeq' = nextSeq + m /\ UNCHANGED << epoch, ackedUpTo >>
    BY <1>2, BatchFacts DEF AppendStored
  <2> HIDE DEF m
  <2>2. nextSeq' - 1 \in Nat /\ nextSeq' - 1 > nextSeq - 1
    BY <1>1, <2>1
  <2> QED
    BY <1>2, <2>1, <2>2 DEF Channel!AcceptChunks
<1>3. ASSUME NEW a \in acks, Ack(a.epoch, a.upTo), node2' = node2
      PROVE  Channel!ConfirmChunks
  <2>1. /\ AckStatus(a.epoch, a.upTo) = "new" /\ ackedUpTo' = a.upTo
        /\ UNCHANGED << epoch, nextSeq, node2 >>
    BY <1>3 DEF Ack
  <2>2. a.upTo \in ackedUpTo + 1 .. nextSeq - 1 /\ HasPrefix(epoch, a.upTo, node2)
    BY <2>1, SentAckJudged
  <2> QED
    BY <2>1, <2>2 DEF Channel!ConfirmChunks, HasPrefix
<1>4. ASSUME PersistAndAck \/ PersistAndPageAhead PROVE Channel!StoreChunks
  <2>1. /\ at = "received" /\ node2' = node2 \cup Received(page, Len(page.chunks))
        /\ UNCHANGED ringVars
    BY <1>4 DEF PersistAndAck, PersistAndPageAhead
  <2>2. Len(page.chunks) \in 0 .. Len(page.chunks)
    <3>1. Len(page.chunks) \in Nat
      BY <2>1 DEF PullInv, ConsumerInv, GoodBatch, InOrder
    <3> QED
      BY <3>1
  <2> QED
    BY <2>1, <2>2, StoringPageIsStep
<1>5. ASSUME ConsumerCrash PROVE Channel!StoreChunks
  <2>1. at = "received" /\ UNCHANGED ringVars
    BY <1>5 DEF ConsumerCrash
  <2>2. PICK n \in 0 .. Len(page.chunks) : node2' = node2 \cup Received(page, n)
    BY <1>5 DEF ConsumerCrash
  <2> QED
    BY <2>1, <2>2, StoringPageIsStep
<1>6. ASSUME Node3Crash PROVE Channel!NewLifetime
  <2>1. epoch' = epoch + 1 /\ nextSeq' = 1 /\ ackedUpTo' = 0 /\ node2' = node2
    BY <1>6 DEF Node3Crash, Restart
  <2>2. nextSeq' - 1 = 0
    BY <2>1
  <2> QED
    BY <2>1, <2>2 DEF Channel!NewLifetime
<1>7. ASSUME UNCHANGED << epoch, nextSeq, ackedUpTo, node2 >>
      PROVE  UNCHANGED Channel!channelVars
  BY <1>7 DEF Channel!channelVars
<1>8. ASSUME NEW a \in acks, AckApplied(a)
      PROVE  \/ Ack(a.epoch, a.upTo) /\ node2' = node2
             \/ UNCHANGED << epoch, nextSeq, ackedUpTo, node2 >>
  BY <1>8 DEF AckApplied, ringVars
<1>9. \/ \E recs \in Batches : AppendStored(recs) /\ node2' = node2
      \/ \E a \in acks : AckApplied(a)
      \/ PersistAndAck \/ PersistAndPageAhead \/ ConsumerCrash \/ Node3Crash
      \/ UNCHANGED << epoch, nextSeq, ackedUpTo, node2 >>
  BY DEF PullNext, Ask, AskFurther, AckRefused, AckAnswered, Ingest, AppendRefused, vars, ringVars,
         pullVars
<1> QED
  BY <1>2, <1>3, <1>4, <1>5, <1>6, <1>7, <1>8, <1>9 DEF Channel!ChannelNext

\* Pull mode delivers at least once and in order, and confirms only what the
\* consumer has made durable: however it pages ahead, crashes or asks again, and
\* however acks arrive.
THEOREM PullAlwaysDelivers == PullSpec => PullDelivers
<1>1. PullInit => Channel!ChannelInit
  <2> SUFFICES ASSUME PullInit PROVE Channel!ChannelInit
    OBVIOUS
  <2>1. epoch = 1 /\ nextSeq = 1 /\ ackedUpTo = 0 /\ node2 = {}
    BY DEF PullInit, RingInit
  <2>2. nextSeq - 1 = 0
    BY <2>1
  <2> QED
    BY <2>1, <2>2 DEF Channel!ChannelInit
<1>2. PullInv /\ PullInv' /\ [PullNext]_vars => [Channel!ChannelNext]_(Channel!channelVars)
  BY PullStepDelivers
<1> QED
  BY <1>1, <1>2, PullInvariance, PTL DEF PullSpec, PullDelivers, Channel!ChannelSpec

=============================================================================
