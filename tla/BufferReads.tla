---------------------------- MODULE BufferReads ----------------------------
(***************************************************************************)
(* What readers of the buffer are told, and how it depends on time: the    *)
(* records that GET /buffer returns (Query of internal/buffer/ring.go, with*)
(* the parameters that handleBufferQuery of internal/api/handlers.go gives *)
(* it), and the ingestion rate of GET /stats (rateTracker of ring.go, five *)
(* slots for the last five seconds, reused modulo five).                   *)
(*                                                                         *)
(* A record is its seq, its size and its time: that of the ingest, or the  *)
(* one that the caller gave a dialogue turn.  Time is in seconds of the    *)
(* wall clock.  Append reads it under rb.mu, so records are made in its    *)
(* order, but the clock itself may be set, back or forth, at any time.     *)
(* The buffer gains records at its end and loses them at its front; module *)
(* RingBuffer says when.                                                   *)
(***************************************************************************)
EXTENDS Integers, SequencesExt

CONSTANTS
  Start, End,    \* bound: the seconds looked at; the first is far from 0
  CallerTimes,   \* the times that callers may give
  Sizes,         \* how many bytes a record may have
  MaxSeq,        \* bound: records stored
  LimitParams,   \* values of limit=; 0 for none or for one that is not positive
  Windows,       \* values of since_ms=; 0 for none
  DefaultLimit,  \* 100
  MaxLimit       \* 10000

ASSUME ReadsAssumption ==
  /\ Start \in Nat /\ Start > 5 /\ End \in Nat /\ Start <= End
  /\ CallerTimes \subseteq Nat /\ LimitParams \subseteq Nat /\ Windows \subseteq Nat
  /\ Sizes \subseteq Nat \ {0}
  /\ MaxSeq \in Nat
  /\ DefaultLimit \in Nat \ {0} /\ MaxLimit \in Nat /\ DefaultLimit <= MaxLimit

VARIABLES
  items,    \* the records, oldest first
  nextSeq,  \* as in RingBuffer
  slots,    \* bytes per second, by second modulo 5
  lastSec,  \* the latest second in which a record was made; 0: none yet
  clock,    \* the second it is now
  bytesIn,  \* history: the bytes that arrived in every second
  stray     \* history: the bytes that arrived in another second whose slot, when
            \* they arrived, stood for this one

history == << bytesIn, stray >>
vars == << items, nextSeq, slots, lastSec, clock, history >>

-----------------------------------------------------------------------------
(* Writing *)

\* The slots of the seconds since the last record are emptied.
Cleared ==
  IF clock - lastSec >= 5 THEN [s \in 0 .. 4 |-> 0]
  ELSE [s \in 0 .. 4 |-> IF \E t \in lastSec + 1 .. clock : t % 5 = s THEN 0 ELSE slots[s]]

\* The rate tracker counts the bytes of an append.
Record(bytes) ==
  IF lastSec = 0
    THEN /\ slots' = [slots EXCEPT ![clock % 5] = bytes]
         /\ lastSec' = clock
    ELSE /\ slots' = [Cleared EXCEPT ![clock % 5] = @ + bytes]
         /\ lastSec' = IF clock > lastSec THEN clock ELSE lastSec

\* A record that is made five seconds or more behind the last one lands in the
\* slot of one of the five seconds up to that.
LandsIn(t) ==
  /\ lastSec # 0 /\ clock < lastSec - 4
  /\ t \in lastSec - 4 .. lastSec
  /\ t % 5 = clock % 5

Store(bytes) ==
  /\ nextSeq <= MaxSeq
  /\ \E ts \in {clock} \cup CallerTimes :
       items' = Append(items, [seq |-> nextSeq, ts |-> ts, size |-> bytes])
  /\ nextSeq' = nextSeq + 1
  /\ Record(bytes)
  /\ bytesIn' = [bytesIn EXCEPT ![clock] = @ + bytes]
  /\ stray' = [t \in Start .. End |-> stray[t] + IF LandsIn(t) THEN bytes ELSE 0]
  /\ UNCHANGED clock

EvictOldest ==
  /\ items # << >>
  /\ items' = Tail(items)
  /\ UNCHANGED << nextSeq, slots, lastSec, clock, history >>

\* Time passes, or the clock is set.
SetClock ==
  /\ clock' \in Start .. End
  /\ UNCHANGED << items, nextSeq, slots, lastSec, history >>

-----------------------------------------------------------------------------
(* Reading *)

\* A limit that is missing or too large is replaced by the default.
Limit(param) == IF param = 0 \/ param > MaxLimit THEN DefaultLimit ELSE param

\* Two conditions at which the scan stops; 0 stands for a parameter not given.
TooOld(r, since)         == since > 0 /\ r.ts + since < clock
AlreadySeen(r, sinceSeq) == sinceSeq > 0 /\ r.seq <= sinceSeq

\* (mutant) the limit is tested after a record is taken.
Query_OneMore(param, since, sinceSeq) ==
  LET stops == {i \in 1 .. Len(items) : \/ TooOld(items[i], since)
                                       \/ AlreadySeen(items[i], sinceSeq)
                                       \/ Len(items) - i > Limit(param)}
  IN  SubSeq(items, Max({0} \cup stops) + 1, Len(items))

\* The scan goes back from the newest record and stops at the first that is too
\* old, or was seen, or when it has as many as it may return.
Query(param, since, sinceSeq) ==
  LET stops == {i \in 1 .. Len(items) : \/ TooOld(items[i], since)
                                       \/ AlreadySeen(items[i], sinceSeq)
                                       \/ Len(items) - i >= Limit(param)}
  IN  SubSeq(items, Max({0} \cup stops) + 1, Len(items))

\* What a function of seconds has for the last five of them.
LastFive(f, now) == f[now - 4] + f[now - 3] + f[now - 2] + f[now - 1] + f[now]

\* (mutant) seconds whose slot has been reused are counted.
Shown_NoLowerBound(s) == IF s <= lastSec THEN slots[((s % 5) + 5) % 5] ELSE 0

\* What the slot of a second counts for; one that stands for another second does not.
Shown(s) == IF s <= lastSec /\ s >= lastSec - 4 THEN slots[((s % 5) + 5) % 5] ELSE 0

\* The total that rateKBps divides by five seconds and by 1024, at second now.
Total(now) ==
  IF now - lastSec >= 5 THEN 0 ELSE LastFive([s \in now - 4 .. now |-> Shown(s)], now)

-----------------------------------------------------------------------------

ReadsInit ==
  /\ items = << >> /\ nextSeq = 1
  /\ slots = [s \in 0 .. 4 |-> 0] /\ lastSec = 0
  /\ clock = Start
  /\ bytesIn = [t \in Start .. End |-> 0] /\ stray = bytesIn

ReadsNext == (\E bytes \in Sizes : Store(bytes)) \/ EvictOldest \/ SetClock

ReadsSpec == ReadsInit /\ [][ReadsNext]_vars

-----------------------------------------------------------------------------
(* What readers may rely on *)

Requests == LimitParams \X Windows \X (0 .. MaxSeq)

TimesInOrder == \A i \in 1 .. Len(items) - 1 : items[i].ts <= items[i + 1].ts

\* Every record returned was asked for, in the order of the seqs, and no more
\* than the limit; with records in the order of their times, the reply has the
\* newest of all that match, so a client that polls with since_seq misses none
\* until there are more than the limit.
QueryIsNewestMatching ==
  \A q \in Requests :
    LET reply    == Query(q[1], q[2], q[3])
        matching == {i \in 1 .. Len(items) :
                       ~TooOld(items[i], q[2]) /\ ~AlreadySeen(items[i], q[3])}
        newest   == {i \in matching :
                       Cardinality({j \in matching : j > i}) < Limit(q[1])}
    IN  /\ ToSet(reply) \subseteq {items[i] : i \in newest}
        /\ TimesInOrder \/ q[2] = 0 => ToSet(reply) = {items[i] : i \in newest}
        /\ \A i \in 1 .. Len(reply) - 1 : reply[i].seq < reply[i + 1].seq

\* The bytes taken in during a second, and those of other seconds in its slot.
BytesIn(s) == IF s \in Start .. End THEN bytesIn[s] ELSE 0
Stray(s)   == IF s \in Start .. End THEN stray[s] ELSE 0

\* The bytes of the last five seconds, and what the rate takes for such.
BytesInWindow == LastFive([s \in clock - 4 .. clock |-> BytesIn(s)], clock)
StrayInWindow == LastFive([s \in clock - 4 .. clock |-> Stray(s)], clock)

\* The rate of /stats is that of the "rolling 5-second window" of ring.go's comment
\* on rateTracker, with one exception that the comment does not know of: a record
\* that is made five seconds or more behind the last one is counted for the
\* second whose slot it lands in.  A record at 13, one at 8 and the clock at 13
\* again: the rate has both.  Such bytes are counted for that one second only and
\* leave the window with it; while the clock is behind the last record, the rate
\* is never more than this, and from there on exactly this: although slots are
\* emptied only when a record arrives, and however the clock is set.
RateIsWindow ==
  /\ Total(clock) <= BytesInWindow + StrayInWindow
  /\ clock >= lastSec => Total(clock) = BytesInWindow + StrayInWindow

=============================================================================
