------------------------- MODULE PushDeliveryProofs -------------------------
(***************************************************************************)
(* Proofs about PushDelivery, for every batch size, body limit, interval,  *)
(* Retry-After header and number of abandoned requests, and for every      *)
(* behaviour of Node 2 that the module allows.                             *)
(*                                                                         *)
(* That a chunk is stored before it is confirmed is not inductive: it rests*)
(* on every batch that is under way, the abandoned ones of this and of     *)
(* earlier epochs too, being in order and beginning right behind a prefix  *)
(* that Node 2 has already (GoodBatch).  Such a batch can be cut anywhere  *)
(* and arrive at any time without leaving a gap.                           *)
(***************************************************************************)
EXTENDS PushDelivery, RingBufferProofs

\* Where the loop stands: the batch it has posted begins just above the
\* watermark, and what it is about to acknowledge is stored.
LoopInv ==
  /\ pc \in {"post", "ack"} => /\ GoodBatch(sent, epoch, nextSeq, node2)
                              /\ sent.epoch = epoch
  /\ pc = "post" => sent.chunks[1].seq = ackedUpTo + 1
  /\ pc = "ack" => /\ upTo \in ackedUpTo + 1 .. nextSeq - 1
                   /\ HasPrefix(epoch, upTo, node2)

\* What a reply says of the batch that was posted.
Truthful(r, b, stored) ==
  (r.status = "ok" /\ r.epoch = b.epoch) =>
    \A i \in 1 .. Len(b.chunks) :
      b.chunks[i].seq <= r.accepted => << b.epoch, b.chunks[i].seq >> \in stored

\* The network, and what Node 2 has.
NetInv ==
  /\ inflight => pc = "post" /\ reply = NoReply
  /\ reply # NoReply => /\ pc = "post"
                        /\ reply \in Replies
                        /\ Truthful(reply, sent, node2)
  /\ \A b \in late : GoodBatch(b, epoch, nextSeq, node2)
  /\ HasPrefix(epoch, ackedUpTo, node2)

PushInv == RingInv /\ WithinBounds /\ LoopInv /\ NetInv

-----------------------------------------------------------------------------
(* The batch that deliver posts *)

\* A non-empty set of lengths has a longest one.
LEMMA LongestExists ==
  ASSUME NEW n \in Nat, NEW lengths \in SUBSET (1 .. n), lengths # {}
  PROVE  LongestOf(lengths) \in lengths
<1> DEFINE short == {n - m : m \in lengths}
<1>1. short \in SUBSET Nat /\ short # {}
  <2>1. \A m \in lengths : n - m \in Nat
    OBVIOUS
  <2> QED
    BY <2>1
<1>2. PICK x \in short : \A y \in short : x <= y
  <2> HIDE DEF short
  <2> QED BY <1>1, LeastNatural
<1>3. PICK m \in lengths : x = n - m
  BY <1>2
<1>4. \A k \in lengths : k <= m
  <2> TAKE k \in lengths
  <2>1. n - k \in short
    OBVIOUS
  <2>2. n - m <= n - k
    BY <1>2, <1>3, <2>1
  <2> QED
    BY <2>2
<1> QED
  BY <1>4 DEF LongestOf

\* What is posted begins just above the watermark, and is of this epoch.
LEMMA PostedBatch ==
  ASSUME RingInv, WithinBounds, HasPrefix(epoch, ackedUpTo, node2),
         Drain(0, Batch).chunks # << >>, Sendable(Drain(0, Batch)) # {}
  PROVE  LET page == Drain(0, Batch)
             b == Encoded(page, LongestOf(Sendable(page)))
         IN  /\ GoodBatch(b, epoch, nextSeq, node2)
             /\ b.epoch = epoch
             /\ b.chunks[1].seq = ackedUpTo + 1
<1> DEFINE page == Drain(0, Batch)
           k == Len(page.chunks)
           n == LongestOf(Sendable(page))
           b == Encoded(page, n)
           above == IssuedAbove(ackedUpTo)
<1>1. /\ nextSeq \in Nat /\ ackedUpTo \in Nat /\ ackedUpTo <= nextSeq - 1
      /\ epoch \in 1 .. MaxEpoch /\ epoch \in Nat
  BY CounterFacts DEF WithinBounds, RingInv, TypeOK
<1>2. /\ page.epoch = epoch
      /\ page.chunks \in Seq(Entry)
      /\ k = IF above < Batch THEN above ELSE Batch
      /\ \A i \in 1 .. k : page.chunks[i].seq = ackedUpTo + i
  <2>1. PageFloor(0) = ackedUpTo
    BY <1>1 DEF PageFloor
  <2>2. RingInv /\ 0 \in Nat /\ Batch \in Nat \ {0}
    BY PushAssumption
  <2> HIDE DEF page, k, above
  <2>3. page.epoch = epoch
    BY <2>2, DrainedPage DEF page
  <2>4. page.chunks \in Seq(Entry)
    BY <2>2, DrainedPage DEF page
  <2>5. k = IF above < Batch THEN above ELSE Batch
    BY <2>1, <2>2, DrainedPage DEF page, k, above
  <2>6. \A i \in 1 .. k : page.chunks[i].seq = ackedUpTo + i
    BY <2>1, <2>2, DrainedPage, ZenonT(30) DEF page, k
  <2> QED
    BY <2>3, <2>4, <2>5, <2>6
<1> HIDE DEF page
<1>3. k \in Nat \ {0}
  BY <1>2, EmptySeq DEF page
<1>4. n \in 1 .. k
  <2>1. Sendable(page) \in SUBSET (1 .. k)
    BY DEF Sendable, Halvings
  <2>2. Sendable(page) # {}
    BY DEF page
  <2>3. n \in Sendable(page)
    BY <1>3, <2>1, <2>2, LongestExists
  <2> QED
    BY <2>1, <2>3
<1> HIDE DEF k, n
<1>5. /\ b.epoch = epoch
      /\ b.chunks = SubSeq(page.chunks, 1, n)
      /\ b.lastSeq = page.chunks[n].seq
  BY <1>2 DEF Encoded
<1>6. Len(b.chunks) = n /\ \A i \in 1 .. n : b.chunks[i] = page.chunks[i]
  <2>1. \A i \in 1 .. n : page.chunks[i] \in Entry
    BY <1>2, <1>3, <1>4, ElementOfSeq DEF k
  <2>2. 1 \in Int /\ n \in Int
    BY <1>4
  <2> DEFINE c == SubSeq(page.chunks, 1, n)
  <2>3. /\ Len(c) = IF 1 <= n THEN n - 1 + 1 ELSE 0
        /\ \A i \in 1 .. n - 1 + 1 : c[i] = page.chunks[1 + i - 1]
    BY <2>1, <2>2, SubSeqProperties
  <2> HIDE DEF c
  <2>4. Len(c) = n /\ \A i \in 1 .. n : c[i] = page.chunks[i]
    BY <1>3, <1>4, <2>3
  <2> QED
    BY <1>5, <2>4 DEF c
<1> HIDE DEF b
<1>7. \A i \in 1 .. n : b.chunks[i].seq = ackedUpTo + i
  BY <1>2, <1>3, <1>4, <1>6
<1>8. b.chunks[1].seq = ackedUpTo + 1
  BY <1>4, <1>7
<1>9. b.lastSeq = ackedUpTo + n
  BY <1>2, <1>4, <1>5
<1>10. InOrder(b)
  BY <1>1, <1>4, <1>6, <1>7, <1>8, <1>9 DEF InOrder
<1>11. b.lastSeq < nextSeq
  <2>1. above = nextSeq - 1 - ackedUpTo
    BY <1>1 DEF IssuedAbove
  <2>2. k <= above
    BY <1>1, <1>2, <2>1, PushAssumption
  <2>3. n \in Nat /\ n <= above
    BY <1>1, <1>3, <1>4, <2>1, <2>2
  <2> QED
    BY <1>1, <1>9, <2>1, <2>3
<1>12. HasPrefix(b.epoch, b.chunks[1].seq - 1, node2)
  <2>1. b.chunks[1].seq - 1 = ackedUpTo
    BY <1>1, <1>8
  <2> QED
    BY <1>5, <2>1
<1>13. GoodBatch(b, epoch, nextSeq, node2)
  <2>1. epoch \in 1 .. epoch
    BY <1>1
  <2> QED
    BY <1>5, <1>10, <1>11, <1>12, <2>1 DEF GoodBatch
<1> QED
  BY <1>5, <1>8, <1>13 DEF b, n, page

-----------------------------------------------------------------------------
(* Steps *)

\* Every step does to the buffer what a caller of it may do.
LEMMA PushStepOfRing ==
  ASSUME PushInv, [PushNext]_vars
  PROVE  [RingNext]_ringVars
<1>1. ASSUME PushAck PROVE RingNext
  <2>1. Ack(sent.epoch, upTo) /\ pc = "ack"
    BY <1>1 DEF PushAck
  <2>2. ackedUpTo \in Nat /\ RingInv /\ WithinBounds
    BY CounterFacts DEF PushInv
  <2>3. upTo \in Nat
    BY <2>1, <2>2 DEF PushInv, LoopInv
  <2> QED
    BY <2>1, <2>2, <2>3, AckIsRingStep
<1>2. ASSUME PushEvict PROVE [RingNext]_ringVars
  BY <1>2 DEF PushEvict, RingNext
<1>3. ASSUME Ingest PROVE RingNext
  BY <1>3 DEF Ingest, RingNext
<1>4. ASSUME Crash PROVE RingNext
  BY <1>4 DEF Crash, RingNext
<1>5. \/ PushAck \/ PushEvict \/ Ingest \/ Crash
      \/ UNCHANGED ringVars
  BY DEF PushNext, PusherStep, DrainEmpty, DrainUnsendable, DrainAndPost, ReceiveDelivered,
         ReceiveFailure, GiveUp, Wake, SleepCancelled, Node2Handles, Node2Answers,
         LateArrives, Cancel, vars
<1> QED
  BY <1>1, <1>2, <1>3, <1>4, <1>5

\* The types of the state that the steps below do arithmetic on.
LEMMA PushTypes ==
  ASSUME PushInv
  PROVE  /\ RingInv /\ WithinBounds
         /\ epoch \in Nat \ {0} /\ nextSeq \in Nat \ {0} /\ ackedUpTo \in Nat
         /\ ackedUpTo <= nextSeq - 1
<1>1. epoch \in Nat \ {0}
  BY BoundsAssumption DEF PushInv, WithinBounds
<1> QED
  BY <1>1, CounterFacts DEF PushInv

\* Steps that touch neither the batch nor the network, and do not move the loop
\* to where it has a batch: also those of ingest and of EvictAcked.
LEMMA QuietKeepsInv ==
  ASSUME PushInv, RingInv', WithinBounds',
         UNCHANGED << epoch, ackedUpTo, sent, upTo, inflight, reply, late, node2 >>,
         nextSeq' \in Nat, nextSeq' >= nextSeq,
         pc' = pc \/ (pc \notin {"post", "ack"} /\ pc' \notin {"post", "ack"})
  PROVE  PushInv'
<1>1. epoch \in Nat /\ nextSeq \in Nat /\ ackedUpTo \in Nat
  BY PushTypes
<1>2. ASSUME NEW b, GoodBatch(b, epoch, nextSeq, node2)
      PROVE  GoodBatch(b, epoch', nextSeq', node2')
  BY <1>1, <1>2, GoodBatchStays
<1>3. LoopInv'
  <2>1. pc' \in {"post", "ack"} => GoodBatch(sent', epoch', nextSeq', node2')
    BY <1>2 DEF PushInv, LoopInv
  <2>2. pc' = "ack" => upTo' \in ackedUpTo' + 1 .. nextSeq' - 1
    <3> SUFFICES ASSUME pc' = "ack" PROVE upTo \in ackedUpTo + 1 .. nextSeq' - 1
      OBVIOUS
    <3>1. upTo \in ackedUpTo + 1 .. nextSeq - 1
      BY DEF PushInv, LoopInv
    <3>2. upTo \in Int /\ upTo >= ackedUpTo + 1 /\ upTo <= nextSeq - 1
      BY <1>1, <3>1
    <3> DEFINE hi == nextSeq'
    <3>3. hi \in Nat /\ hi >= nextSeq
      OBVIOUS
    <3> HIDE DEF hi
    <3>4. upTo \in ackedUpTo + 1 .. hi - 1
      BY <1>1, <3>2, <3>3
    <3> QED
      BY <3>4 DEF hi
  <2>3. pc' = "ack" => HasPrefix(epoch', upTo', node2')
    BY DEF PushInv, LoopInv
  <2>4. /\ pc' \in {"post", "ack"} => sent'.epoch = epoch'
        /\ pc' = "post" => sent'.chunks[1].seq = ackedUpTo' + 1
    BY DEF PushInv, LoopInv
  <2> QED
    BY <2>1, <2>2, <2>3, <2>4 DEF LoopInv
<1>4. NetInv'
  <2>1. inflight' => pc' = "post" /\ reply' = NoReply
    BY DEF PushInv, NetInv
  <2>2. reply' # NoReply => pc' = "post" /\ reply' \in Replies /\ Truthful(reply', sent', node2')
    BY DEF PushInv, NetInv
  <2>3. \A b \in late' : GoodBatch(b, epoch', nextSeq', node2')
    BY <1>2 DEF PushInv, NetInv
  <2>4. HasPrefix(epoch', ackedUpTo', node2')
    BY DEF PushInv, NetInv
  <2> QED
    BY <2>1, <2>2, <2>3, <2>4 DEF NetInv
<1> QED
  BY <1>3, <1>4 DEF PushInv

\* What the state says while a request or its reply is under way.
LEMMA PostingFacts ==
  ASSUME PushInv, pc = "post"
  PROVE  /\ GoodBatch(sent, epoch, nextSeq, node2)
         /\ sent.epoch = epoch
         /\ sent.chunks[1].seq = ackedUpTo + 1
         /\ sent.chunks[1].seq \in Nat \ {0}
         /\ sent.lastSeq \in Nat /\ sent.lastSeq < nextSeq
<1>1. /\ GoodBatch(sent, epoch, nextSeq, node2)
      /\ sent.epoch = epoch
      /\ sent.chunks[1].seq = ackedUpTo + 1
  BY DEF PushInv, LoopInv
<1> DEFINE f == sent.chunks[1].seq
           l == Len(sent.chunks)
<1>2. f \in Nat \ {0} /\ l \in Nat \ {0} /\ sent.lastSeq = f + l - 1
  BY <1>1 DEF GoodBatch, InOrder
<1>3. sent.lastSeq < nextSeq
  BY <1>1 DEF GoodBatch
<1> HIDE DEF f, l
<1>4. sent.lastSeq \in Nat
  BY <1>2
<1> QED
  BY <1>1, <1>2, <1>3, <1>4 DEF f

LEMMA RepliesTyped ==
  ASSUME NEW r \in Replies
  PROVE  /\ r # NoReply
         /\ r.status \in {"ok", "full", "status", "rejected", "malformed"}
         /\ r.accepted \in Nat
         /\ r.retryAfter \in RetryAfters \cup {NoHeader}
         /\ r.status \notin {"full", "status"} => r.retryAfter = NoHeader
<1>1. MaxSeq \in Nat
  BY BoundsAssumption
<1>2. CASE r \in [status : {"ok"}, epoch : 1 .. MaxEpoch, accepted : 0 .. MaxSeq,
                  retryAfter : {NoHeader}]
  BY <1>1, <1>2 DEF NoReply
<1>3. CASE r \in [status : {"full", "status"}, epoch : {0}, accepted : {0},
                  retryAfter : RetryAfters]
  BY <1>3 DEF NoReply
<1>4. CASE r \in [status : {"rejected", "malformed"}, epoch : {0}, accepted : {0},
                  retryAfter : {NoHeader}]
  BY <1>4 DEF NoReply
<1> QED
  BY <1>2, <1>3, <1>4 DEF Replies

\* A reply that counts as delivered covers chunks that are all stored.
LEMMA DeliveredIsStored ==
  ASSUME PushInv, pc = "post", reply # NoReply, Classify(reply) = "delivered"
  PROVE  /\ Covered(reply) \in ackedUpTo + 1 .. nextSeq - 1
         /\ HasPrefix(epoch, Covered(reply), node2)
<1>1. reply \in Replies /\ Truthful(reply, sent, node2)
  BY DEF PushInv, NetInv
<1>2. reply.status \in {"ok", "full", "status", "rejected", "malformed"} /\ reply.accepted \in Nat
  BY <1>1, RepliesTyped
<1>3. /\ reply.status = "ok" /\ reply.epoch = sent.epoch
      /\ ~ (Covered(reply) < sent.chunks[1].seq)
  BY <1>2 DEF Classify
<1>4. /\ GoodBatch(sent, epoch, nextSeq, node2)
      /\ sent.epoch = epoch
      /\ sent.chunks[1].seq = ackedUpTo + 1
      /\ sent.lastSeq \in Nat /\ sent.lastSeq < nextSeq
  BY PostingFacts
<1>5. epoch \in Nat /\ nextSeq \in Nat /\ ackedUpTo \in Nat
  BY PushTypes
<1> DEFINE u == Covered(reply)
<1>6. u \in Nat /\ u <= reply.accepted /\ u <= sent.lastSeq
  BY <1>2, <1>4 DEF Covered
<1> HIDE DEF u
<1>7. u \in ackedUpTo + 1 .. nextSeq - 1
  <2>1. ~ (u < ackedUpTo + 1)
    BY <1>3, <1>4 DEF u
  <2> QED
    BY <1>4, <1>5, <1>6, <2>1
<1>8. \A i \in 1 .. Len(sent.chunks) :
        sent.chunks[i].seq <= u => << sent.epoch, sent.chunks[i].seq >> \in node2
  <2> SUFFICES ASSUME NEW i \in 1 .. Len(sent.chunks), sent.chunks[i].seq <= u
               PROVE  << sent.epoch, sent.chunks[i].seq >> \in node2
    OBVIOUS
  <2> DEFINE seq == sent.chunks[i].seq
             f == sent.chunks[1].seq
             l == Len(sent.chunks)
  <2>1. seq = f + i - 1 /\ f \in Nat /\ l \in Nat
    BY <1>4 DEF GoodBatch, InOrder
  <2>2. seq \in Int
    <3> HIDE DEF seq, f, l
    <3>1. i \in Int
      BY DEF l
    <3> QED
      BY <2>1, <3>1
  <2>3. seq <= reply.accepted
    <3>1. seq <= u
      OBVIOUS
    <3> HIDE DEF seq
    <3> QED
      BY <1>2, <1>6, <2>2, <3>1
  <2> QED
    BY <1>1, <1>3, <2>3 DEF Truthful
<1>9. HasPrefix(sent.epoch, u, node2)
  BY <1>4, <1>5, <1>6, <1>8, PrefixGrows
<1> QED
  BY <1>4, <1>7, <1>9 DEF u

\* Whatever Node 2 stores more, what was promised of it before stays true.
LEMMA NetGrows ==
  ASSUME PushInv, NEW stored, node2 \subseteq stored
  PROVE  /\ \A b \in late : GoodBatch(b, epoch, nextSeq, stored)
         /\ HasPrefix(epoch, ackedUpTo, stored)
         /\ pc = "post" => GoodBatch(sent, epoch, nextSeq, stored)
         /\ reply # NoReply => Truthful(reply, sent, stored)
         /\ pc = "ack" => HasPrefix(epoch, upTo, stored) /\ GoodBatch(sent, epoch, nextSeq, stored)
<1>1. epoch \in Nat /\ nextSeq \in Nat
  BY PushTypes
<1>2. ASSUME NEW b, GoodBatch(b, epoch, nextSeq, node2)
      PROVE  GoodBatch(b, epoch, nextSeq, stored)
  BY <1>1, <1>2, GoodBatchStays
<1>3. \A b \in late : GoodBatch(b, epoch, nextSeq, stored)
  BY <1>2 DEF PushInv, NetInv
<1>4. HasPrefix(epoch, ackedUpTo, stored)
  BY DEF PushInv, NetInv, HasPrefix
<1>5. pc \in {"post", "ack"} => GoodBatch(sent, epoch, nextSeq, stored)
  BY <1>2 DEF PushInv, LoopInv
<1>6. reply # NoReply => Truthful(reply, sent, stored)
  <2>1. reply # NoReply => Truthful(reply, sent, node2)
    BY DEF PushInv, NetInv
  <2> QED
    BY <2>1 DEF Truthful
<1>7. pc = "ack" => HasPrefix(epoch, upTo, stored)
  BY DEF PushInv, LoopInv, HasPrefix
<1> QED
  BY <1>3, <1>4, <1>5, <1>6, <1>7

\* Every step keeps the invariant.
LEMMA PushStepKeepsInv ==
  ASSUME PushInv, [PushNext]_vars
  PROVE  PushInv'
<1>1. RingInv' /\ WithinBounds'
  BY PushStepOfRing, PushTypes, StepKeepsInv, StepWithinBounds
<1>2. epoch \in Nat \ {0} /\ nextSeq \in Nat \ {0} /\ ackedUpTo \in Nat
  BY PushTypes
<1>3. ASSUME \/ DrainEmpty \/ DrainUnsendable \/ Wake \/ SleepCancelled \/ Cancel
             \/ DrainAndPost /\ cancelled
             \/ UNCHANGED vars
      PROVE  PushInv'
  <2>1. UNCHANGED << ringVars, sent, upTo, netVars >>
    BY <1>3 DEF DrainEmpty, DrainUnsendable, Wake, SleepCancelled, Cancel, DrainAndPost,
                Failed, vars, pushVars, netVars
  <2>2. pc' = pc \/ (pc \notin {"post", "ack"} /\ pc' \notin {"post", "ack"})
    BY <1>3 DEF DrainEmpty, DrainUnsendable, Wake, SleepCancelled, Cancel, DrainAndPost,
                Failed, vars, pushVars
  <2>3. /\ UNCHANGED << epoch, ackedUpTo, sent, upTo, inflight, reply, late, node2 >>
        /\ nextSeq' = nextSeq
    BY <2>1 DEF ringVars, netVars
  <2>4. nextSeq' \in Nat /\ nextSeq' >= nextSeq
    BY <1>2, <2>3
  <2> QED
    BY <1>1, <2>2, <2>3, <2>4, QuietKeepsInv
<1>4. ASSUME PushEvict PROVE PushInv'
  <2>1. /\ UNCHANGED << epoch, nextSeq, ackedUpTo, sent, upTo, inflight, reply, late, node2 >>
        /\ pc \notin {"post", "ack"} /\ pc' \notin {"post", "ack"}
    BY <1>4 DEF PushEvict, EvictAcked, ringVars, netVars
  <2>2. nextSeq' \in Nat /\ nextSeq' >= nextSeq
    BY <1>2, <2>1
  <2> QED
    BY <1>1, <2>1, <2>2, QuietKeepsInv
<1>5. ASSUME Ingest PROVE PushInv'
  <2>1. /\ UNCHANGED << epoch, ackedUpTo, sent, upTo, inflight, reply, late, node2 >>
        /\ pc' = pc
    BY <1>5 DEF Ingest, AppendStored, AppendRefused, pushVars, netVars
  <2>2. nextSeq' \in Nat /\ nextSeq' >= nextSeq
    <3>1. PICK recs \in Batches : AppendStored(recs) \/ AppendRefused(recs)
      BY <1>5 DEF Ingest
    <3>2. Len(recs) \in Nat
      BY BatchFacts
    <3>3. nextSeq' = nextSeq + Len(recs) \/ nextSeq' = nextSeq
      BY <3>1 DEF AppendStored, AppendRefused
    <3> QED
      BY <1>2, <3>2, <3>3
  <2> QED
    BY <1>1, <2>1, <2>2, QuietKeepsInv
<1>6. ASSUME DrainAndPost, ~ cancelled PROVE PushInv'
  <2>1. /\ pc = "drain" /\ pc' = "post" /\ inflight' = TRUE
        /\ sent' = Encoded(Drain(0, Batch), LongestOf(Sendable(Drain(0, Batch))))
        /\ Drain(0, Batch).chunks # << >> /\ Sendable(Drain(0, Batch)) # {}
        /\ UNCHANGED << epoch, nextSeq, ackedUpTo, reply, late, node2 >>
    BY <1>6 DEF DrainAndPost, ringVars
  <2>2. /\ reply = NoReply
        /\ \A b \in late : GoodBatch(b, epoch, nextSeq, node2)
        /\ HasPrefix(epoch, ackedUpTo, node2)
    BY <2>1 DEF PushInv, NetInv
  <2>3. /\ GoodBatch(sent', epoch, nextSeq, node2)
        /\ sent'.epoch = epoch
        /\ sent'.chunks[1].seq = ackedUpTo + 1
    BY <2>1, <2>2, PushTypes, PostedBatch
  <2>4. LoopInv'
    BY <2>1, <2>3 DEF LoopInv
  <2>5. NetInv'
    BY <2>1, <2>2 DEF NetInv
  <2> QED
    BY <1>1, <2>4, <2>5 DEF PushInv
<1>7. ASSUME ReceiveDelivered PROVE PushInv'
  <2>1. /\ pc = "post" /\ reply # NoReply /\ Classify(reply) = "delivered"
        /\ pc' = "ack" /\ upTo' = Covered(reply) /\ reply' = NoReply
        /\ UNCHANGED << epoch, nextSeq, ackedUpTo, sent, inflight, late, node2 >>
    BY <1>7 DEF ReceiveDelivered, ringVars
  <2>2. /\ Covered(reply) \in ackedUpTo + 1 .. nextSeq - 1
        /\ HasPrefix(epoch, Covered(reply), node2)
    BY <2>1, DeliveredIsStored
  <2>3. LoopInv'
    BY <2>1, <2>2 DEF PushInv, LoopInv
  <2>4. NetInv'
    BY <2>1 DEF PushInv, NetInv
  <2> QED
    BY <1>1, <2>3, <2>4 DEF PushInv
<1>8. ASSUME ReceiveFailure PROVE PushInv'
  <2>1. /\ pc = "post" /\ reply # NoReply /\ reply' = NoReply
        /\ pc' \notin {"post", "ack"}
        /\ UNCHANGED << epoch, nextSeq, ackedUpTo, sent, inflight, late, node2 >>
    BY <1>8 DEF ReceiveFailure, Failed, ringVars
  <2>2. LoopInv'
    BY <2>1 DEF LoopInv
  <2>3. NetInv'
    BY <2>1 DEF PushInv, NetInv
  <2> QED
    BY <1>1, <2>2, <2>3 DEF PushInv
<1>9. ASSUME GiveUp PROVE PushInv'
  <2>1. /\ pc = "post" /\ reply' = NoReply /\ inflight' = FALSE
        /\ pc' \notin {"post", "ack"}
        /\ late' \subseteq late \cup {sent}
        /\ UNCHANGED << epoch, nextSeq, ackedUpTo, sent, node2 >>
    BY <1>9 DEF GiveUp, Failed, ringVars
  <2>2. GoodBatch(sent, epoch, nextSeq, node2)
    BY <2>1, PostingFacts
  <2>3. LoopInv'
    BY <2>1 DEF LoopInv
  <2>4. NetInv'
    BY <2>1, <2>2 DEF PushInv, NetInv
  <2> QED
    BY <1>1, <2>3, <2>4 DEF PushInv
<1>10. ASSUME PushAck PROVE PushInv'
  <2>1. /\ pc = "ack" /\ pc' = "evict" /\ ackedUpTo' = upTo
        /\ UNCHANGED << epoch, nextSeq, inflight, reply, late, node2 >>
    BY <1>10 DEF PushAck, Ack, netVars
  <2>2. HasPrefix(epoch, upTo, node2)
    BY <2>1 DEF PushInv, LoopInv
  <2>3. LoopInv'
    BY <2>1 DEF LoopInv
  <2>4. NetInv'
    BY <2>1, <2>2 DEF PushInv, NetInv
  <2> QED
    BY <1>1, <2>3, <2>4 DEF PushInv
<1>11. ASSUME NEW n \in 0 .. Len(sent.chunks), NEW r \in Replies, Node2Answers(n, r)
       PROVE  PushInv'
  <2>1. /\ inflight /\ inflight' = FALSE /\ reply' = r
        /\ node2 \subseteq node2'
        /\ Truthful(r, sent, node2')
        /\ UNCHANGED << epoch, nextSeq, ackedUpTo, pc, sent, upTo, late >>
    BY <1>11 DEF Node2Answers, Truthful, ringVars, pushVars
  <2>2. pc = "post"
    BY <2>1 DEF PushInv, NetInv
  <2>3. /\ \A b \in late : GoodBatch(b, epoch, nextSeq, node2')
        /\ HasPrefix(epoch, ackedUpTo, node2')
        /\ GoodBatch(sent, epoch, nextSeq, node2')
    BY <2>1, <2>2, NetGrows
  <2>4. LoopInv'
    BY <2>1, <2>2, <2>3 DEF PushInv, LoopInv
  <2>5. NetInv'
    BY <2>1, <2>2, <2>3 DEF NetInv
  <2> QED
    BY <1>1, <2>4, <2>5 DEF PushInv
<1>12. ASSUME LateArrives PROVE PushInv'
  <2>1. /\ late' \subseteq late /\ node2 \subseteq node2'
        /\ UNCHANGED << epoch, nextSeq, ackedUpTo, pc, sent, upTo, inflight, reply >>
    BY <1>12 DEF LateArrives, ringVars, pushVars
  <2>2. /\ \A b \in late : GoodBatch(b, epoch, nextSeq, node2')
        /\ HasPrefix(epoch, ackedUpTo, node2')
        /\ pc = "post" => GoodBatch(sent, epoch, nextSeq, node2')
        /\ reply # NoReply => Truthful(reply, sent, node2')
        /\ pc = "ack" => /\ HasPrefix(epoch, upTo, node2')
                         /\ GoodBatch(sent, epoch, nextSeq, node2')
    BY <2>1, NetGrows
  <2>3. LoopInv'
    BY <2>1, <2>2 DEF PushInv, LoopInv
  <2>4. NetInv'
    BY <2>1, <2>2 DEF PushInv, NetInv
  <2> QED
    BY <1>1, <2>3, <2>4 DEF PushInv
<1>13. ASSUME Crash PROVE PushInv'
  <2>1. /\ epoch' = epoch + 1 /\ nextSeq' = 1 /\ ackedUpTo' = 0
        /\ pc' = "drain" /\ inflight' = FALSE /\ reply' = NoReply /\ node2' = node2
        /\ late' = late \/ (inflight /\ late' = late \cup {sent})
    <3>1. late' = IF inflight /\ Cardinality(late) < MaxLate THEN late \cup {sent} ELSE late
      BY <1>13 DEF Crash
    <3>2. late' = late \/ (inflight /\ late' = late \cup {sent})
      BY <3>1, Zenon
    <3>3. /\ epoch' = epoch + 1 /\ nextSeq' = 1 /\ ackedUpTo' = 0
          /\ pc' = "drain" /\ inflight' = FALSE /\ reply' = NoReply /\ node2' = node2
      BY <1>13 DEF Crash, Restart
    <3> QED
      BY <3>2, <3>3, Zenon
  <2>2. \A b \in late' : GoodBatch(b, epoch, nextSeq, node2)
    <3>1. \A b \in late : GoodBatch(b, epoch, nextSeq, node2)
      BY DEF PushInv, NetInv
    <3>2. inflight => GoodBatch(sent, epoch, nextSeq, node2)
      BY DEF PushInv, NetInv, LoopInv
    <3> QED
      BY <2>1, <3>1, <3>2
  <2>3. ASSUME NEW b, GoodBatch(b, epoch, nextSeq, node2)
        PROVE  GoodBatch(b, epoch + 1, 1, node2)
    <3>1. epoch \in Nat /\ epoch + 1 \in Nat /\ nextSeq \in Nat /\ 1 \in Nat
      BY <1>2
    <3> QED
      BY <2>3, <3>1, GoodBatchStays
  <2>4. LoopInv'
    BY <2>1 DEF LoopInv
  <2>5. HasPrefix(epoch', ackedUpTo', node2')
    BY <2>1 DEF HasPrefix
  <2>6. \A b \in late' : GoodBatch(b, epoch', nextSeq', node2')
    BY <2>1, <2>2, <2>3
  <2>7. NetInv'
    BY <2>1, <2>5, <2>6 DEF NetInv
  <2> QED
    BY <1>1, <2>4, <2>7 DEF PushInv
<1> QED
  BY <1>3, <1>4, <1>5, <1>6, <1>7, <1>8, <1>9, <1>10, <1>11, <1>12, <1>13
     DEF PushNext, PusherStep, Node2Handles

LEMMA PushInitHasInv ==
  ASSUME PushInit PROVE PushInv
<1>1. RingInit /\ RingInv /\ WithinBounds
  BY InitHasInv, InitWithinBounds DEF PushInit
<1>2. LoopInv
  BY DEF PushInit, LoopInv
<1>3. HasPrefix(epoch, ackedUpTo, node2)
  BY <1>1 DEF RingInit, HasPrefix
<1>4. NetInv
  BY <1>3 DEF PushInit, NetInv
<1> QED
  BY <1>1, <1>2, <1>4 DEF PushInv

-----------------------------------------------------------------------------
(* The theorems *)

\* The inductive invariant of push mode holds in every reachable state.
THEOREM PushInvariance == PushSpec => []PushInv
<1>1. PushInit => PushInv
  BY PushInitHasInv
<1>2. PushInv /\ [PushNext]_vars => PushInv'
  BY PushStepKeepsInv
<1> QED
  BY <1>1, <1>2, PTL DEF PushSpec

\* Push mode is one of the callers that RingBuffer was proved correct for, so
\* each theorem of RingBufferProofs holds of it: it never loses an
\* unacknowledged record, its accounting is exact, its 503s are justified.
THEOREM PushUsesTheBuffer == PushSpec => RingSpec
<1>1. PushInit => RingInit
  BY DEF PushInit
<1>2. PushInv /\ [PushNext]_vars => [RingNext]_ringVars
  BY PushStepOfRing
<1> QED
  BY <1>1, <1>2, PushInvariance, PTL DEF PushSpec, RingSpec

\* The Ack in Run is never refused, and always acknowledges something new.
THEOREM AckNeverFails == PushSpec => []AckCannotFail
<1>1. PushInv => AckCannotFail
  BY DEF PushInv, LoopInv, AckCannotFail
<1> QED
  BY <1>1, PushInvariance, PTL

-----------------------------------------------------------------------------
(* Push mode implements DeliveryChannel *)

LEMMA StoringIsStep ==
  ASSUME PushInv, NEW b, GoodBatch(b, epoch, nextSeq, node2),
         NEW n \in 0 .. Len(b.chunks),
         node2' = node2 \cup StoredPrefix(b, n), UNCHANGED ringVars
  PROVE  Channel!StoreChunks
<1>1. epoch \in Nat /\ nextSeq \in Nat
  BY PushTypes
<1>2. StoredPrefix(b, n) = FirstChunks(b, n)
  BY DEF StoredPrefix, FirstChunks
<1>3. \A c \in node2' \ node2 :
        /\ c[1] \in 1 .. epoch
        /\ c[1] = epoch => c[2] \in 1 .. nextSeq - 1
        /\ \A m \in 1 .. c[2] : << c[1], m >> \in node2'
  <2> TAKE c \in node2' \ node2
  <2>1. c \in FirstChunks(b, n) /\ node2' = node2 \cup FirstChunks(b, n)
    BY <1>2
  <2> QED
    BY <1>1, <2>1, StoringLeavesNoGap
<1>4. UNCHANGED << epoch, nextSeq - 1, ackedUpTo >>
  BY DEF ringVars
<1> QED
  BY <1>3, <1>4 DEF Channel!StoreChunks

\* Every step of push mode is a step of the channel or leaves it as it was.
LEMMA PushStepDelivers ==
  ASSUME PushInv, PushInv', [PushNext]_vars
  PROVE  [Channel!ChannelNext]_(Channel!channelVars)
<1>1. epoch \in Nat \ {0} /\ nextSeq \in Nat \ {0} /\ ackedUpTo \in Nat
  BY PushTypes
<1>2. ASSUME NEW recs \in Batches, AppendStored(recs), node2' = node2
      PROVE  Channel!AcceptChunks
  <2> DEFINE m == Len(recs)
  <2>1. m \in Nat \ {0} /\ nextSeq' = nextSeq + m /\ UNCHANGED << epoch, ackedUpTo >>
    BY <1>2, BatchFacts DEF AppendStored
  <2> HIDE DEF m
  <2>2. nextSeq' - 1 \in Nat /\ nextSeq' - 1 > nextSeq - 1
    BY <1>1, <2>1
  <2> QED
    BY <1>2, <2>1, <2>2 DEF Channel!AcceptChunks
<1>3. ASSUME PushAck PROVE Channel!ConfirmChunks
  <2>1. /\ pc = "ack" /\ ackedUpTo' = upTo
        /\ UNCHANGED << epoch, nextSeq, node2 >>
    BY <1>3 DEF PushAck, Ack, netVars
  <2>2. upTo \in ackedUpTo + 1 .. nextSeq - 1 /\ HasPrefix(epoch, upTo, node2)
    BY <2>1 DEF PushInv, LoopInv
  <2> QED
    BY <2>1, <2>2 DEF Channel!ConfirmChunks, HasPrefix
<1>4. ASSUME NEW n \in 0 .. Len(sent.chunks), NEW r \in Replies, Node2Answers(n, r)
      PROVE  Channel!StoreChunks
  <2>1. /\ inflight /\ node2' = node2 \cup StoredPrefix(sent, n)
        /\ UNCHANGED ringVars
    BY <1>4 DEF Node2Answers
  <2>2. GoodBatch(sent, epoch, nextSeq, node2)
    BY <2>1, PostingFacts DEF PushInv, NetInv
  <2> QED
    BY <2>1, <2>2, StoringIsStep
<1>5. ASSUME LateArrives PROVE Channel!StoreChunks
  <2>1. PICK b \in late : \E n \in 0 .. Len(b.chunks) : node2' = node2 \cup StoredPrefix(b, n)
    BY <1>5 DEF LateArrives
  <2>2. GoodBatch(b, epoch, nextSeq, node2) /\ UNCHANGED ringVars
    BY <1>5 DEF LateArrives, PushInv, NetInv
  <2> QED
    BY <2>1, <2>2, StoringIsStep
<1>6. ASSUME Crash PROVE Channel!NewLifetime
  <2>1. /\ epoch' = epoch + 1 /\ nextSeq' - 1 = 0 /\ ackedUpTo' = 0 /\ node2' = node2
    <3>1. /\ epoch' = epoch + 1 /\ nextSeq' = 1 /\ ackedUpTo' = 0 /\ node2' = node2
      BY <1>6 DEF Crash, Restart
    <3> QED
      BY <3>1
  <2> QED
    BY <2>1 DEF Channel!NewLifetime
<1>7. ASSUME UNCHANGED << epoch, nextSeq, ackedUpTo, node2 >>
      PROVE  UNCHANGED Channel!channelVars
  BY <1>7 DEF Channel!channelVars
<1>8. \/ \E recs \in Batches : AppendStored(recs) /\ node2' = node2
      \/ PushAck \/ Node2Handles \/ LateArrives \/ Crash
      \/ UNCHANGED << epoch, nextSeq, ackedUpTo, node2 >>
  BY DEF PushNext, PusherStep, DrainEmpty, DrainUnsendable, DrainAndPost, ReceiveDelivered,
         ReceiveFailure, GiveUp, PushEvict, EvictAcked, Wake, SleepCancelled, Cancel,
         Ingest, AppendRefused, vars, ringVars, netVars
<1> QED
  BY <1>2, <1>3, <1>4, <1>5, <1>6, <1>7, <1>8 DEF Channel!ChannelNext, Node2Handles

\* Push mode delivers at least once and in order, and confirms only what Node 2
\* has: whatever is lost, late, repeated, cut, answered wrongly or interrupted.
THEOREM PushAlwaysDelivers == PushSpec => PushDelivers
<1>1. PushInit => Channel!ChannelInit
  <2> SUFFICES ASSUME PushInit PROVE Channel!ChannelInit
    OBVIOUS
  <2>1. epoch = 1 /\ nextSeq = 1 /\ ackedUpTo = 0 /\ node2 = {}
    BY DEF PushInit, RingInit
  <2>2. nextSeq - 1 = 0
    BY <2>1
  <2> QED
    BY <2>1, <2>2 DEF Channel!ChannelInit
<1>2. PushInv /\ PushInv' /\ [PushNext]_vars => [Channel!ChannelNext]_(Channel!channelVars)
  BY PushStepDelivers
<1> QED
  BY <1>1, <1>2, PushInvariance, PTL DEF PushSpec, PushDelivers, Channel!ChannelSpec

-----------------------------------------------------------------------------
(* The delays between attempts *)

\* The delay a header asks for is capped, and only a header that names one asks.
LEMMA RetryAfterCapped ==
  ASSUME NEW h \in RetryAfters \cup {NoHeader}
  PROVE  /\ RetryAfter(h) \in 0 .. MaxRetryAfter
         /\ h.kind \notin {"seconds", "date"} => RetryAfter(h) = 0
<1> DEFINE asked == CASE h.kind = "seconds" /\ h.n \in -WordMax .. WordMax -> Wrapped(h.n * Second)
                      [] h.kind = "date" -> h.n * Second
                      [] OTHER -> 0
<1>1. h.n \in Int /\ Second \in Nat /\ WordMax \in Nat /\ MaxRetryAfter \in Nat \ {0}
  BY PushAssumption DEF NoHeader
<1>2. h.n * Second \in Int
  BY <1>1
<1>3. \A d \in Int : Wrapped(d) \in Int
  BY <1>1 DEF Wrapped
<1>4. asked \in Int /\ (h.kind \notin {"seconds", "date"} => asked = 0)
  BY <1>2, <1>3
<1>5. RetryAfter(h) = IF asked <= 0 THEN 0 ELSE IF asked < MaxRetryAfter THEN asked ELSE MaxRetryAfter
  BY DEF RetryAfter
<1> HIDE DEF asked
<1> QED
  BY <1>1, <1>4, <1>5

\* What the loop remembers for its delays: one is pending exactly while a failure
\* is, so that none is left over once a delivery succeeds.
DelayInv ==
  /\ backoff \in Nat
  /\ failing = "" <=> backoff = 0
  /\ reply \in Replies \cup {NoReply}

\* The next delay is the one that was asked for, or follows from the last.
LEMMA NextBackoffPaced ==
  ASSUME NEW kind, NEW asked \in 0 .. MaxRetryAfter, DelayInv
  PROVE  /\ NextBackoff(kind, asked) \in Nat \ {0}
         /\ NextBackoff(kind, asked) > MaxBackoff =>
              asked > 0 /\ NextBackoff(kind, asked) <= MaxRetryAfter
         /\ asked = 0 /\ kind \in {"rejected", "oversized"} =>
              NextBackoff(kind, asked) = MaxBackoff
         /\ asked = 0 /\ kind \notin {"rejected", "oversized"} =>
              IF failing = ""
                THEN NextBackoff(kind, asked) = Interval
                ELSE /\ NextBackoff(kind, asked) <= 2 * backoff
                     /\ \/ NextBackoff(kind, asked) >= backoff
                        \/ NextBackoff(kind, asked) = MaxBackoff
<1> DEFINE next == NextBackoff(kind, asked)
<1>1. /\ Interval \in Nat \ {0} /\ MaxBackoff \in Nat /\ Interval <= MaxBackoff
      /\ MaxRetryAfter \in Nat \ {0} /\ backoff \in Nat
  BY PushAssumption DEF DelayInv
<1>2. failing = "" <=> backoff = 0
  BY DEF DelayInv
<1>3. CASE asked > 0
  <2>1. next = asked
    BY <1>3 DEF NextBackoff
  <2> HIDE DEF next
  <2>2. next \in Nat \ {0} /\ next <= MaxRetryAfter /\ asked # 0
    BY <1>1, <1>3, <2>1
  <2> QED
    BY <1>3, <2>2 DEF next
<1>4. CASE asked = 0 /\ kind \in {"rejected", "oversized"}
  <2>1. next = MaxBackoff
    BY <1>4 DEF NextBackoff
  <2> HIDE DEF next
  <2>2. next \in Nat \ {0} /\ ~ (next > MaxBackoff)
    BY <1>1, <2>1
  <2> QED
    BY <1>4, <2>1, <2>2 DEF next
<1>5. CASE asked = 0 /\ kind \notin {"rejected", "oversized"}
  <2>1. next = IF backoff = 0 THEN Interval
               ELSE IF 2 * backoff < MaxBackoff THEN 2 * backoff ELSE MaxBackoff
    BY <1>5 DEF NextBackoff
  <2> HIDE DEF next
  <2>2. /\ next \in Nat \ {0} /\ ~ (next > MaxBackoff)
        /\ backoff = 0 => next = Interval
        /\ backoff # 0 => next <= 2 * backoff /\ (next >= backoff \/ next = MaxBackoff)
    BY <1>1, <2>1
  <2> QED
    BY <1>2, <1>5, <2>2 DEF next
<1>6. asked > 0 \/ asked = 0
  BY <1>1
<1> HIDE DEF next
<1> QED
  BY <1>3, <1>4, <1>5, <1>6, Zenon

Kinds == {"full", "status", "rejected", "malformed", "other epoch", "accepted none",
          "oversized", "request failed"}

\* The error branch of Run, for a failure that may ask for a delay only where
\* the reply was a 503 or a status without a rule of its own.
LEMMA FailedIsPaced ==
  ASSUME DelayInv, NEW kind \in Kinds, NEW h \in RetryAfters \cup {NoHeader},
         h = NoHeader \/ kind \in {"full", "status"},
         h = reply.retryAfter \/ kind \notin {"full", "status"},
         Failed(kind, RetryAfter(h)), reply' \in Replies \cup {NoReply}
  PROVE  DelayInv' /\ [Paced]_<< failing, backoff >>
<1> DEFINE asked == RetryAfter(h)
           next == NextBackoff(kind, asked)
           header == kind \in {"full", "status"} /\ reply.retryAfter.kind \in {"seconds", "date"}
<1>1. asked \in 0 .. MaxRetryAfter /\ MaxRetryAfter \in Nat
  BY RetryAfterCapped, PushAssumption
<1>2. asked > 0 => header
  <2>1. asked > 0 => h.kind \in {"seconds", "date"}
    BY <1>1, RetryAfterCapped
  <2>2. h.kind \in {"seconds", "date"} => kind \in {"full", "status"} /\ h = reply.retryAfter
    BY DEF NoHeader
  <2> QED
    BY <2>1, <2>2
<1>3. kind \in {"rejected", "oversized"} => ~ (asked > 0)
  BY <1>2
<1>4. CASE cancelled
  <2>1. UNCHANGED << failing, backoff >>
    BY <1>4 DEF Failed
  <2> QED
    BY <2>1 DEF DelayInv
<1>5. CASE ~ cancelled
  <2>1. failing' = kind /\ backoff' = next /\ kind # ""
    BY <1>5 DEF Failed, Kinds
  <2>2. /\ next \in Nat \ {0}
        /\ next > MaxBackoff => asked > 0 /\ next <= MaxRetryAfter
        /\ asked = 0 /\ kind \in {"rejected", "oversized"} => next = MaxBackoff
        /\ asked = 0 /\ kind \notin {"rejected", "oversized"} =>
             IF failing = ""
               THEN next = Interval
               ELSE next <= 2 * backoff /\ (next >= backoff \/ next = MaxBackoff)
    <3> HIDE DEF asked
    <3> QED
      BY <1>1, NextBackoffPaced
  <2> HIDE DEF next, asked, header
  <2>3. DelayInv'
    BY <2>1, <2>2 DEF DelayInv
  <2>4. ~ header => asked = 0
    BY <1>1, <1>2
  <2>5. kind \in {"rejected", "oversized"} => asked = 0
    BY <1>1, <1>3
  <2>6. /\ backoff' > 0
        /\ backoff' > MaxBackoff => header /\ backoff' <= MaxRetryAfter
        /\ kind \in {"rejected", "oversized"} => backoff' = MaxBackoff
    <3>1. next > 0
      <4>1. next \in Nat \ {0}
        BY <2>2, Zenon
      <4> QED
        BY <4>1
    <3>2. next > MaxBackoff => header /\ next <= MaxRetryAfter
      BY <1>2, <2>2
    <3>3. kind \in {"rejected", "oversized"} => next = MaxBackoff
      BY <2>2, <2>5
    <3> QED
      BY <2>1, <3>1, <3>2, <3>3
  <2>7. ASSUME kind \notin {"rejected", "oversized"}, ~ header
        PROVE  IF failing = ""
                 THEN backoff' = Interval
                 ELSE /\ backoff' <= 2 * backoff
                      /\ backoff' >= backoff \/ backoff' = MaxBackoff
    BY <2>1, <2>2, <2>4, <2>7
  <2>8. Paced
    BY <2>1, <2>6, <2>7, Zenon DEF Paced, header
  <2> QED
    BY <2>3, <2>8
<1> QED
  BY <1>4, <1>5

LEMMA StepIsPaced ==
  ASSUME DelayInv, [PushNext]_vars
  PROVE  DelayInv' /\ [Paced]_<< failing, backoff >>
<1> DEFINE goal == DelayInv' /\ [Paced]_<< failing, backoff >>
<1>1. RetryAfter(NoHeader) = 0
  BY RetryAfterCapped DEF NoHeader
<1>2. ASSUME DrainUnsendable PROVE goal
  <2>1. Failed("oversized", RetryAfter(NoHeader)) /\ reply' \in Replies \cup {NoReply}
    BY <1>1, <1>2 DEF DrainUnsendable, netVars, DelayInv
  <2>2. "oversized" \in Kinds /\ "oversized" \notin {"full", "status"}
    BY DEF Kinds
  <2> QED
    BY <2>1, <2>2, FailedIsPaced
<1>3. ASSUME GiveUp PROVE goal
  <2>1. Failed("request failed", RetryAfter(NoHeader)) /\ reply' \in Replies \cup {NoReply}
    BY <1>1, <1>3 DEF GiveUp
  <2>2. "request failed" \in Kinds /\ "request failed" \notin {"full", "status"}
    BY DEF Kinds
  <2> QED
    BY <2>1, <2>2, FailedIsPaced
<1>4. ASSUME ReceiveFailure PROVE goal
  <2> DEFINE h == reply.retryAfter
  <2>1. /\ reply \in Replies /\ reply' = NoReply
        /\ Classify(reply) # "delivered"
        /\ Failed(Classify(reply), RetryAfter(h))
    BY <1>4 DEF ReceiveFailure, DelayInv
  <2>2. /\ h \in RetryAfters \cup {NoHeader}
        /\ reply.status \notin {"full", "status"} => h = NoHeader
        /\ reply.status \in {"ok", "full", "status", "rejected", "malformed"}
    BY <2>1, RepliesTyped
  <2>3. /\ Classify(reply) \in Kinds
        /\ h = NoHeader \/ Classify(reply) \in {"full", "status"}
    BY <2>1, <2>2 DEF Classify, Kinds
  <2>4. h = reply.retryAfter
    OBVIOUS
  <2> HIDE DEF h
  <2> QED
    BY <2>1, <2>2, <2>3, <2>4, FailedIsPaced
<1>5. ASSUME failing' = "", backoff' = 0, reply' = NoReply PROVE goal
  BY <1>5 DEF DelayInv, Paced
<1>6. ASSUME UNCHANGED << backoff, failing >>, reply' \in Replies \cup {NoReply}
      PROVE  goal
  BY <1>6 DEF DelayInv
<1>7. ReceiveDelivered \/ Crash => failing' = "" /\ backoff' = 0 /\ reply' = NoReply
  BY DEF ReceiveDelivered, Crash
<1>8. Node2Handles => UNCHANGED << backoff, failing >> /\ reply' \in Replies
  BY DEF Node2Handles, Node2Answers, pushVars
<1>9. ASSUME \/ DrainEmpty \/ DrainAndPost \/ PushAck \/ PushEvict \/ Wake \/ SleepCancelled
             \/ LateArrives \/ Ingest \/ Cancel \/ UNCHANGED vars
      PROVE  UNCHANGED << backoff, failing, reply >>
  BY <1>9 DEF DrainEmpty, DrainAndPost, PushAck, PushEvict, Wake, SleepCancelled, LateArrives,
              Ingest, Cancel, vars, pushVars, netVars
<1>10. reply \in Replies \cup {NoReply}
  BY DEF DelayInv
<1> HIDE DEF goal
<1>11. goal
  BY <1>2, <1>3, <1>4, <1>5, <1>6, <1>7, <1>8, <1>9, <1>10 DEF PushNext, PusherStep
<1> QED
  BY <1>11 DEF goal

\* The loop pauses after every failure, beyond MaxBackoff only where this very
\* failure came with a Retry-After and then no longer than its cap, and for no
\* longer than doubling the delay before it would give.
THEOREM RetriesAlwaysPaced == PushSpec => RetriesPaced
<1>1. PushInit => DelayInv
  <2> SUFFICES ASSUME PushInit PROVE DelayInv
    OBVIOUS
  <2>1. backoff = 0 /\ failing = "" /\ reply = NoReply
    BY DEF PushInit
  <2> QED
    BY <2>1 DEF DelayInv
<1>2. DelayInv /\ [PushNext]_vars => DelayInv' /\ [Paced]_<< failing, backoff >>
  BY StepIsPaced
<1> QED
  BY <1>1, <1>2, PTL DEF PushSpec, RetriesPaced

=============================================================================
