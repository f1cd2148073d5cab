----------------------------- MODULE RingBuffer -----------------------------
(***************************************************************************)
(* The in-memory sensory buffer: type RingBuffer of                        *)
(* internal/buffer/ring.go.                                                *)
(*                                                                         *)
(* Every exported method of the type takes rb.mu for its whole body, so    *)
(* each is one atomic action (Append, Ack, EvictAcked) or, when it only    *)
(* reads, one operator of the state (Drain, Pending, Stats, Retained).     *)
(* Who calls them, and in which order, is left to the modules that extend  *)
(* this one; here any caller may call anything with any argument.          *)
(*                                                                         *)
(* A record is abstracted to the size Record.size() charges for it and,    *)
(* once stored, its sequence number.  A process lifetime is numbered by    *)
(* its epoch: the code draws 64 random bits, taken here never to repeat.   *)
(***************************************************************************)
EXTENDS Naturals, Sequences, FiniteSets, ByteSums

CONSTANTS
  CapacityBytes,  \* rb.capacityBytes, from SEKHA_CAPACITY_MB
  Batches,        \* the record batches an ingest may hand to Append
  MaxSeq,         \* bound: no batch is offered past this sequence number
  MaxEpoch,       \* bound: number of process lifetimes
  MaxRefusals     \* bound: back-pressure refusals counted per lifetime

\* New panics on a capacity that is not positive.
ASSUME CapacityAssumption == CapacityBytes \in Nat \ {0}

\* Append returns early on an empty batch; every record costs at least
\* OverheadPerChunk bytes.
ASSUME BatchesAssumption ==
  \A recs \in Batches :
    /\ recs \in Seq([size : Nat \ {0}])
    /\ recs # << >>

ASSUME BoundsAssumption == MaxSeq \in Nat /\ MaxEpoch \in Nat \ {0} /\ MaxRefusals \in Nat

VARIABLES
  epoch,               \* which process lifetime this buffer belongs to
  items,               \* stored records, oldest first
  nextSeq,             \* sequence number of the next record
  ackedUpTo,           \* cumulative acknowledgement watermark
  ackedCount,          \* acknowledged records still retained: a prefix of items
  usedBytes,           \* bytes charged for items
  totalIngestedCount,  \* records stored since the start
  totalIngestedBytes,  \* bytes stored since the start
  evictedAcked,        \* acknowledged records evicted since the start
  backpressure         \* appends refused since the start

ringVars == << epoch, items, nextSeq, ackedUpTo, ackedCount, usedBytes,
               totalIngestedCount, totalIngestedBytes, evictedAcked,
               backpressure >>

-----------------------------------------------------------------------------
(* Reading the buffer *)

Pending == Len(items) - ackedCount

\* The unacknowledged part of items.
Unacked == SubSeq(items, ackedCount + 1, Len(items))

\* (mutant) the scan compares with >= and stops one record early.
FirstAbove_AtOrAbove(upTo) ==
  CHOOSE i \in ackedCount + 1 .. Len(items) + 1 :
    /\ i <= Len(items) => items[i].seq >= upTo
    /\ \A j \in ackedCount + 1 .. i - 1 : items[j].seq < upTo

\* The index at which a scan of the unacknowledged records that passes over
\* every seq <= upTo stops: the scans of Drain and of Ack.
FirstAbove(upTo) ==
  CHOOSE i \in ackedCount + 1 .. Len(items) + 1 :
    /\ i <= Len(items) => items[i].seq > upTo
    /\ \A j \in ackedCount + 1 .. i - 1 : items[j].seq <= upTo

\* GET /drain and the push loop: the oldest unacknowledged records above
\* afterSeq, at most max of them.  A page with no record has lastSeq 0.
Drain(afterSeq, max) ==
  LET floor == IF ackedUpTo > afterSeq THEN ackedUpTo ELSE afterSeq
      from  == FirstAbove(floor)
      to    == IF from + max - 1 < Len(items) THEN from + max - 1 ELSE Len(items)
  IN  [epoch   |-> epoch,
       chunks  |-> SubSeq(items, from, to),
       lastSeq |-> IF to < from THEN 0 ELSE items[to].seq,
       pending |-> Pending,
       more    |-> to < Len(items)]

-----------------------------------------------------------------------------
(* Append *)

Free == CapacityBytes - usedBytes

\* (mutant) every retained record counts as reclaimable.
Reclaimable_AllRetained == Cumulative(items)[Len(items)]

Reclaimable == Cumulative(items)[ackedCount]

\* (mutant) acknowledged records are not given up for new ones.
Full_WithoutReclaim(recs) == BytesOf(recs) > Free

\* The two refusals, tested in this order by the code.
TooLarge(recs) == BytesOf(recs) > CapacityBytes
Full(recs)     == BytesOf(recs) > Free + Reclaimable

\* (mutant) every acknowledged record is evicted as soon as room is needed.
Evictions_AllAcked(needed) == IF Free >= needed THEN 0 ELSE ackedCount

\* How often the eviction loop runs: it pops the head until the batch fits.
\* Popping past ackedCount is the panic of evictOldestAckedLocked.
Evictions(needed) ==
  CHOOSE k \in 0 .. Len(items) :
    /\ Free + Cumulative(items)[k] >= needed
    /\ \A j \in 0 .. k - 1 : Free + Cumulative(items)[j] < needed

\* (mutant) the sequence number is taken after the increment.
Numbered_AfterIncrement(recs) ==
  [i \in 1 .. Len(recs) |-> [seq |-> nextSeq + i, size |-> recs[i].size]]

\* The records of a batch with the contiguous sequence numbers they are given.
Numbered(recs) ==
  [i \in 1 .. Len(recs) |-> [seq |-> nextSeq + i - 1, size |-> recs[i].size]]

\* (mutant) one record more than counted is removed.
AfterEvicting_OneMore(k) ==
  SubSeq(items, IF k = 0 THEN 1 ELSE k + 2, Len(items))

\* (mutant) the bytes of the head only are given back, however many are removed.
EvictedBytes_HeadOnly(k) == IF k = 0 THEN 0 ELSE items[1].size

\* k calls of evictOldestAckedLocked: what they leave of items, and what they
\* take off usedBytes.
AfterEvicting(k) == SubSeq(items, k + 1, Len(items))
EvictedBytes(k)  == Cumulative(items)[k]

\* (mutant) a full buffer makes room with its oldest records, acknowledged or not.
AppendStored_DropsOldest(recs) ==
  LET needed == BytesOf(recs)
      k      == Evictions(needed)
  IN  /\ nextSeq + Len(recs) - 1 <= MaxSeq
      /\ ~TooLarge(recs)
      /\ items' = AfterEvicting(k) \o Numbered(recs)
      /\ ackedCount' = IF k < ackedCount THEN ackedCount - k ELSE 0
      /\ evictedAcked' = evictedAcked + k
      /\ usedBytes' = usedBytes - EvictedBytes(k) + needed
      /\ nextSeq' = nextSeq + Len(recs)
      /\ totalIngestedCount' = totalIngestedCount + Len(recs)
      /\ totalIngestedBytes' = totalIngestedBytes + needed
      /\ UNCHANGED << epoch, ackedUpTo, backpressure >>

\* A batch that fits is stored, after the evictions it needs.
AppendStored(recs) ==
  LET needed == BytesOf(recs)
      k      == Evictions(needed)
  IN  /\ nextSeq + Len(recs) - 1 <= MaxSeq
      /\ ~TooLarge(recs)
      /\ ~Full(recs)
      /\ items' = AfterEvicting(k) \o Numbered(recs)
      /\ ackedCount' = ackedCount - k
      /\ evictedAcked' = evictedAcked + k
      /\ usedBytes' = usedBytes - EvictedBytes(k) + needed
      /\ nextSeq' = nextSeq + Len(recs)
      /\ totalIngestedCount' = totalIngestedCount + Len(recs)
      /\ totalIngestedBytes' = totalIngestedBytes + needed
      /\ UNCHANGED << epoch, ackedUpTo, backpressure >>

\* *TooLargeError and *FullError: nothing but the counter changes.
AppendRefused(recs) ==
  /\ TooLarge(recs) \/ Full(recs)
  /\ backpressure < MaxRefusals
  /\ backpressure' = backpressure + 1
  /\ UNCHANGED << epoch, items, nextSeq, ackedUpTo, ackedCount, usedBytes,
                  totalIngestedCount, totalIngestedBytes, evictedAcked >>

-----------------------------------------------------------------------------
(* Ack and EvictAcked *)

\* (mutant) the record the scan stops at is counted as well.
NewlyAcked_OneMore(upTo) ==
  IF FirstAbove(upTo) <= Len(items) THEN FirstAbove(upTo) - ackedCount
                                    ELSE FirstAbove(upTo) - ackedCount - 1

\* How many records an acknowledgement newly covers.
NewlyAcked(upTo) == FirstAbove(upTo) - ackedCount - 1

\* (mutant) the epoch of an ack is not compared with the buffer's.
AckStatus_AnyEpoch(e, upTo) ==
  IF upTo >= nextSeq THEN "ack ahead"
  ELSE IF upTo <= ackedUpTo THEN "repeated" ELSE "new"

\* (mutant) an ack that is ahead is refused before its epoch is looked at.
AckStatus_AheadFirst(e, upTo) ==
  IF upTo >= nextSeq THEN "ack ahead"
  ELSE IF e # epoch THEN "epoch mismatch"
  ELSE IF upTo <= ackedUpTo THEN "repeated" ELSE "new"

\* (mutant) the latest seq counts as not issued yet.
AckStatus_RefusesNewest(e, upTo) ==
  IF e # epoch THEN "epoch mismatch"
  ELSE IF upTo + 1 >= nextSeq THEN "ack ahead"
  ELSE IF upTo <= ackedUpTo THEN "repeated" ELSE "new"

\* How Ack judges its arguments, in the order of its early returns.
AckStatus(e, upTo) ==
  IF e # epoch THEN "epoch mismatch"
  ELSE IF upTo >= nextSeq THEN "ack ahead"
  ELSE IF upTo <= ackedUpTo THEN "repeated" ELSE "new"

\* Only a new acknowledgement changes the buffer; ErrEpochMismatch,
\* ErrAckAhead and the repeat of an old acknowledgement return early.
Ack(e, upTo) ==
  /\ AckStatus(e, upTo) = "new"
  /\ ackedCount' = ackedCount + NewlyAcked(upTo)
  /\ ackedUpTo' = upTo
  /\ UNCHANGED << epoch, items, nextSeq, usedBytes, totalIngestedCount,
                  totalIngestedBytes, evictedAcked, backpressure >>

\* The push loop's EvictAcked pops every acknowledged record.
EvictAcked ==
  /\ ackedCount > 0
  /\ items' = AfterEvicting(ackedCount)
  /\ usedBytes' = usedBytes - EvictedBytes(ackedCount)
  /\ evictedAcked' = evictedAcked + ackedCount
  /\ ackedCount' = 0
  /\ UNCHANGED << epoch, nextSeq, ackedUpTo, totalIngestedCount,
                  totalIngestedBytes, backpressure >>

-----------------------------------------------------------------------------
(* A process start: New, with a fresh epoch *)

RingInit ==
  /\ epoch = 1
  /\ items = << >>
  /\ nextSeq = 1
  /\ ackedUpTo = 0
  /\ ackedCount = 0
  /\ usedBytes = 0
  /\ totalIngestedCount = 0
  /\ totalIngestedBytes = 0
  /\ evictedAcked = 0
  /\ backpressure = 0

\* A crash or a restart: the buffer is RAM only, so everything it held is gone.
Restart ==
  /\ epoch < MaxEpoch
  /\ epoch' = epoch + 1
  /\ items' = << >>
  /\ nextSeq' = 1
  /\ ackedUpTo' = 0
  /\ ackedCount' = 0
  /\ usedBytes' = 0
  /\ totalIngestedCount' = 0
  /\ totalIngestedBytes' = 0
  /\ evictedAcked' = 0
  /\ backpressure' = 0

-----------------------------------------------------------------------------

RingNext ==
  \/ \E recs \in Batches : AppendStored(recs)
  \/ \E recs \in Batches : AppendRefused(recs)
  \/ \E e \in 1 .. MaxEpoch, upTo \in 0 .. MaxSeq + 1 : Ack(e, upTo)
  \/ EvictAcked
  \/ Restart

RingSpec == RingInit /\ [][RingNext]_ringVars

-----------------------------------------------------------------------------
(* What makes the buffer correct *)

\* Types and ranges: the buffer never holds more bytes than its capacity, and
\* never counts more acknowledged records than it retains (evictOldestAckedLocked
\* panics where that would fail).
TypeOK ==
  /\ epoch \in Nat
  /\ items \in Seq([seq : Nat \ {0}, size : Nat \ {0}])
  /\ nextSeq \in Nat \ {0}
  /\ ackedUpTo \in Nat
  /\ ackedCount \in 0 .. Len(items)
  /\ usedBytes \in 0 .. CapacityBytes
  /\ totalIngestedCount \in Nat
  /\ totalIngestedBytes \in Nat
  /\ evictedAcked \in Nat
  /\ backpressure \in Nat

\* The two representations of "acknowledged" agree: the watermark ackedUpTo
\* that acks move and Drain skips by, and the count ackedCount that decides
\* what may be evicted.  They are updated on different paths (Ack sets both,
\* eviction only the count).
WatermarkSplitsItems ==
  \A i \in 1 .. Len(items) : items[i].seq <= ackedUpTo <=> i <= ackedCount

\* Nothing that was stored is ever unaccounted for: sequence numbers have no
\* gap, and every number issued is evicted, retained or pending exactly once.
\* This is what lets Stats derive last_seq, pending_count and
\* evicted_acked_count from separate counters.
RecordsAccounted ==
  /\ totalIngestedCount = nextSeq - 1
  /\ totalIngestedCount = evictedAcked + Len(items)
  /\ \A i \in 1 .. Len(items) : items[i].seq = evictedAcked + i
  /\ Pending = nextSeq - 1 - ackedUpTo

\* usedBytes, which is only ever moved by differences, is the exact sum of the
\* retained sizes: accounting never drifts over any sequence of appends,
\* evictions and restarts, and (by TypeOK) never passes the capacity.
BytesExact == usedBytes = BytesOf(items)

\* Back-pressure is exact.  Append refuses a batch if and only if it would not
\* fit beside the unacknowledged records alone: acknowledged records never
\* cause a 503, and no batch is taken that would force out an unacknowledged
\* record.
BackpressureExact ==
  \A recs \in Batches :
    TooLarge(recs) \/ Full(recs)
      <=> BytesOf(recs) + BytesOf(Unacked) > CapacityBytes

\* A page is exactly the oldest max unacknowledged records above after_seq, in
\* order and without a gap, and "more" is true exactly when one was left out.
\* So a consumer that pages with after_seq = last_seq misses nothing, even if
\* acknowledgements move the watermark between its pages.
DrainIsExact ==
  \A afterSeq \in 0 .. nextSeq, max \in 1 .. MaxSeq :
    LET page  == Drain(afterSeq, max)
        above == (IF afterSeq > ackedUpTo THEN afterSeq ELSE ackedUpTo) + 1
                   .. nextSeq - 1
    IN  /\ \A i \in 1 .. Len(page.chunks) :
             page.chunks[i].seq
               = i + (IF afterSeq > ackedUpTo THEN afterSeq ELSE ackedUpTo)
        /\ {page.chunks[i].seq : i \in 1 .. Len(page.chunks)} \subseteq above
        /\ page.more <=> Len(page.chunks) < Cardinality(above)
        /\ page.more => Len(page.chunks) = max
        /\ page.chunks # << >> => page.lastSeq = page.chunks[Len(page.chunks)].seq

\* While the process lives, a record that is not acknowledged stays in the
\* buffer, unchanged: neither an append that makes room nor EvictAcked may
\* take it, whatever acks arrived before.
NeverDropsUnacked ==
  [][epoch' = epoch =>
       \A i \in ackedCount + 1 .. Len(items) :
         \E j \in 1 .. Len(items') : items'[j] = items[i]]_ringVars

\* Acknowledged records stay readable until their space is needed: an append
\* that evicts would not have fitted with the last record it evicted kept.
EvictsOnlyWhenNeeded ==
  [][(nextSeq' > nextSeq /\ evictedAcked' > evictedAcked) =>
       usedBytes' + items[evictedAcked' - evictedAcked].size > CapacityBytes]_ringVars

-----------------------------------------------------------------------------
(* The buffer implements the log its callers are promised. *)

Log == INSTANCE ChunkLog WITH
  lifetime  <- epoch,
  accepted  <- nextSeq - 1,
  confirmed <- ackedUpTo,
  readable  <- {items[i].seq : i \in 1 .. Len(items)}

\* Every operation of the buffer is an operation of ChunkLog or changes nothing
\* it promises: chunks are numbered consecutively and become readable with
\* their batch, confirmations only move forward and never past what was
\* stored, and only confirmed chunks stop being readable.
ImplementsLog == Log!LogSpec

=============================================================================
