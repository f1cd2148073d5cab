-------------------------- MODULE BufferReadsProofs --------------------------
(***************************************************************************)
(* Proofs about BufferReads, for every span of time, every way in which the*)
(* clock is set, every limit and window, and all times that callers give.  *)
(*                                                                         *)
(* A slot of the rate tracker does not say which second it is for, and is  *)
(* only emptied when a record arrives.  What the rate rests on is that each*)
(* of the five seconds up to the last record has a slot to itself, with all*)
(* the bytes of that second, and with those of a record made further back, *)
(* while the clock was set back, that landed in the same slot.             *)
(***************************************************************************)
EXTENDS LegacyFilter, SequenceFacts, FiniteSetTheorems, SequenceTheorems

Stored == [seq : Nat, ts : Nat, size : Nat \ {0}]

\* The records have consecutive numbers.
ItemsInv ==
  /\ items \in Seq(Stored) /\ nextSeq \in Nat
  /\ \A i \in 1 .. Len(items) : items[i].seq = nextSeq - Len(items) + i - 1

ClockInv ==
  /\ clock \in Start .. End
  /\ lastSec # 0 => lastSec \in Start .. End

\* What the slot of a second should hold.
Landed(t) == BytesIn(t) + Stray(t)

\* The slots stand for the last five seconds, and nothing arrived later.
SlotsInv ==
  /\ slots \in [0 .. 4 -> Nat] /\ lastSec \in Nat 
  /\ bytesIn \in [Start .. End -> Nat] /\ stray \in [Start .. End -> Nat]
  /\ lastSec = 0 => (\A s \in 0 .. 4 : slots[s] = 0) /\ (\A t \in Int : Landed(t) = 0)
  /\ lastSec # 0 => /\ \A t \in lastSec - 4 .. lastSec : slots[t % 5] = Landed(t)
                    /\ \A t \in Int : t > lastSec => Landed(t) = 0

ReadsInv == ItemsInv /\ ClockInv /\ SlotsInv

-----------------------------------------------------------------------------
(* The slots *)

\* Seconds less than five apart have different slots.
LEMMA SlotsApart ==
  ASSUME NEW s \in Nat, NEW t \in Nat, s # t, s < t + 5, t < s + 5
  PROVE  s % 5 # t % 5
OBVIOUS

LEMMA SlotTyped ==
  ASSUME NEW t \in Nat
  PROVE  t % 5 \in 0 .. 4 /\ ((t % 5) + 5) % 5 = t % 5
OBVIOUS

LEMMA LandedTyped ==
  ASSUME SlotsInv, NEW t \in Int
  PROVE  BytesIn(t) \in Nat /\ Stray(t) \in Nat /\ Landed(t) \in Nat
<1>1. BytesIn(t) \in Nat
  BY DEF SlotsInv, BytesIn
<1>2. Stray(t) \in Nat
  BY DEF SlotsInv, Stray
<1> QED
  BY <1>1, <1>2 DEF Landed

\* A record adds to the second it is made in, and to one it lands in.
LEMMA LandedAfterStore ==
  ASSUME ReadsInv, NEW bytes \in Nat, bytesIn' = [bytesIn EXCEPT ![clock] = @ + bytes],
         stray' = [t \in Start .. End |-> stray[t] + IF LandsIn(t) THEN bytes ELSE 0],
         NEW t \in Int
  PROVE  Landed(t)' = Landed(t) + (IF t = clock THEN bytes ELSE 0)
                                + (IF t \in Start .. End /\ LandsIn(t) THEN bytes ELSE 0)
<1>1. /\ bytesIn \in [Start .. End -> Nat] /\ stray \in [Start .. End -> Nat]
      /\ clock \in Start .. End
  BY DEF ReadsInv, SlotsInv, ClockInv
<1>2. BytesIn(t)' = BytesIn(t) + (IF t = clock THEN bytes ELSE 0)
  <2>1. CASE t \in Start .. End
    BY <1>1, <2>1 DEF BytesIn
  <2>2. CASE t \notin Start .. End
    BY <1>1, <2>2 DEF BytesIn
  <2> QED
    BY <2>1, <2>2
<1>3. Stray(t)' = Stray(t) + (IF t \in Start .. End /\ LandsIn(t) THEN bytes ELSE 0)
  BY <1>1 DEF Stray
<1>4. BytesIn(t) \in Nat /\ Stray(t) \in Nat
  BY LandedTyped DEF ReadsInv
<1> QED
  BY <1>2, <1>3, <1>4 DEF Landed

\* Emptying leaves each second what it should hold, the present one included.
LEMMA ClearedFacts ==
  ASSUME ReadsInv, lastSec # 0
  PROVE  /\ Cleared \in [0 .. 4 -> Nat]
         /\ \A t \in Nat : /\ t > clock - 5 /\ t > lastSec - 5
                           /\ t <= clock \/ t <= lastSec
                           => Cleared[t % 5] = Landed(t)
<1>1. /\ slots \in [0 .. 4 -> Nat] /\ lastSec \in Nat /\ clock \in Nat
      /\ lastSec > 5
      /\ \A t \in lastSec - 4 .. lastSec : slots[t % 5] = Landed(t)
      /\ \A t \in Int : t > lastSec => Landed(t) = 0
  BY ReadsAssumption DEF ReadsInv, SlotsInv, ClockInv
<1>2. Cleared \in [0 .. 4 -> Nat]
  BY <1>1 DEF Cleared
<1>3. ASSUME NEW t \in Nat, t > clock - 5, t > lastSec - 5, t <= clock \/ t <= lastSec
      PROVE  Cleared[t % 5] = Landed(t)
  <2>1. t % 5 \in 0 .. 4
    BY SlotTyped
  <2>2. CASE clock - lastSec >= 5
    <3>1. Cleared[t % 5] = 0
      BY <2>1, <2>2 DEF Cleared
    <3>2. t > lastSec
      BY <1>1, <1>3, <2>2
    <3> QED
      BY <1>1, <3>1, <3>2
  <2>3. CASE ~ (clock - lastSec >= 5)
    <3>1. Cleared[t % 5] = IF \E u \in lastSec + 1 .. clock : u % 5 = t % 5 THEN 0
                           ELSE slots[t % 5]
      BY <2>1, <2>3 DEF Cleared
    <3>2. CASE t > lastSec
      <4>1. t \in lastSec + 1 .. clock
        BY <1>1, <1>3, <3>2
      <4> QED
        BY <1>1, <3>1, <3>2, <4>1
    <3>3. CASE ~ (t > lastSec)
      <4>1. t \in lastSec - 4 .. lastSec
        BY <1>1, <1>3, <3>3
      <4>2. ASSUME NEW u \in lastSec + 1 .. clock PROVE u % 5 # t % 5
        <5>1. u \in Nat /\ u # t /\ u < t + 5 /\ t < u + 5
          BY <1>1, <1>3, <3>3
        <5> QED
          BY <5>1, SlotsApart
      <4> QED
        BY <1>1, <3>1, <4>1, <4>2
    <3> QED
      BY <3>2, <3>3
  <2> QED
    BY <2>2, <2>3
<1> QED
  BY <1>2, <1>3

LEMMA RecordKeepsSlots ==
  ASSUME ReadsInv, NEW bytes \in Nat, Record(bytes),
         bytesIn' = [bytesIn EXCEPT ![clock] = @ + bytes],
         stray' = [t \in Start .. End |-> stray[t] + IF LandsIn(t) THEN bytes ELSE 0]
  PROVE  SlotsInv' /\ lastSec' \in Start .. End
<1> DEFINE last == IF lastSec = 0 \/ clock > lastSec THEN clock ELSE lastSec
           base == IF lastSec = 0 THEN slots ELSE Cleared
<1>1. /\ slots \in [0 .. 4 -> Nat] /\ lastSec \in Nat
      /\ bytesIn \in [Start .. End -> Nat] /\ stray \in [Start .. End -> Nat]
      /\ clock \in Nat /\ clock \in Start .. End /\ clock > 5 /\ Start \in Nat /\ End \in Nat
      /\ lastSec # 0 => lastSec \in Start .. End
  <2>1. /\ slots \in [0 .. 4 -> Nat] /\ lastSec \in Nat
        /\ bytesIn \in [Start .. End -> Nat] /\ stray \in [Start .. End -> Nat]
    BY DEF ReadsInv, SlotsInv
  <2>2. clock \in Start .. End /\ (lastSec # 0 => lastSec \in Start .. End)
    BY DEF ReadsInv, ClockInv
  <2>3. Start \in Nat /\ End \in Nat /\ Start > 5
    BY ReadsAssumption
  <2>4. clock \in Nat /\ clock > 5
    BY <2>2, <2>3
  <2> QED
    BY <2>1, <2>2, <2>3, <2>4
<1>2. /\ slots' = [base EXCEPT ![clock % 5] = base[clock % 5] + bytes]
      /\ lastSec' = last
  <2>1. CASE lastSec = 0
    <3>1. clock % 5 \in 0 .. 4
      BY <1>1, SlotTyped
    <3>2. slots[clock % 5] = 0
      BY <2>1, <3>1 DEF ReadsInv, SlotsInv
    <3> QED
      BY <2>1, <3>2 DEF Record
  <2>2. CASE lastSec # 0
    BY <2>2 DEF Record
  <2> QED
    BY <2>1, <2>2
<1>3. /\ base \in [0 .. 4 -> Nat]
      /\ \A t \in last - 4 .. last : t > clock - 5 => base[t % 5] = Landed(t)
      /\ \A t \in Int : t > last => Landed(t) = 0
      /\ last \in Nat /\ last \in Start .. End /\ lastSec <= last /\ clock <= last
      /\ last = clock \/ (lastSec # 0 /\ last = lastSec)
  <2>1. CASE lastSec = 0
    <3>1. ASSUME NEW t \in last - 4 .. last PROVE base[t % 5] = Landed(t)
      <4>1. t \in Nat /\ t \in Int
        BY <1>1, <2>1
      <4>2. t % 5 \in 0 .. 4
        BY <4>1, SlotTyped
      <4> QED
        BY <2>1, <4>1, <4>2 DEF ReadsInv, SlotsInv
    <3>2. \A t \in Int : Landed(t) = 0
      BY <2>1 DEF ReadsInv, SlotsInv
    <3>3. base = slots /\ last = clock
      BY <2>1
    <3>4. last \in Nat /\ last \in Start .. End /\ lastSec <= last /\ clock <= last
      BY <1>1, <2>1, <3>3
    <3> HIDE DEF base, last
    <3> QED
      BY <1>1, <3>1, <3>2, <3>3, <3>4
  <2>2. CASE lastSec # 0
    <3>1. /\ base = Cleared /\ last \in Nat /\ last \in Start .. End
          /\ clock <= last /\ lastSec <= last
          /\ last = clock \/ last = lastSec
      BY <1>1, <2>2
    <3>2. \A t \in Int : t > lastSec => Landed(t) = 0
      BY <2>2 DEF ReadsInv, SlotsInv
    <3>3. ASSUME NEW t \in last - 4 .. last, t > clock - 5 PROVE base[t % 5] = Landed(t)
      <4>1. /\ t \in Nat /\ t > clock - 5 /\ t > lastSec - 5
            /\ t <= clock \/ t <= lastSec
        BY <1>1, <2>2, <3>1, <3>3
      <4> QED
        BY <2>2, <3>1, <4>1, ClearedFacts
    <3>4. base \in [0 .. 4 -> Nat]
      BY <2>2, <3>1, ClearedFacts
    <3> QED
      BY <1>1, <2>2, <3>1, <3>2, <3>3, <3>4
  <2> QED
    BY <2>1, <2>2
<1> HIDE DEF last, base
<1>4. clock % 5 \in 0 .. 4
  BY <1>1, SlotTyped
<1>5. /\ slots' \in [0 .. 4 -> Nat]
      /\ bytesIn' \in [Start .. End -> Nat] /\ stray' \in [Start .. End -> Nat]
  <2>1. base[clock % 5] + bytes \in Nat
    BY <1>3, <1>4, SMTT(30)
  <2>2. slots' \in [0 .. 4 -> Nat]
    BY <1>2, <1>3, <2>1
  <2>3. bytesIn[clock] + bytes \in Nat
    BY <1>1
  <2>4. ASSUME NEW t \in Start .. End
        PROVE  stray[t] + (IF LandsIn(t) THEN bytes ELSE 0) \in Nat
    <3> DEFINE more == IF LandsIn(t) THEN bytes ELSE 0
    <3>1. stray[t] \in Nat /\ more \in Nat
      BY <1>1
    <3> HIDE DEF more
    <3>2. stray[t] + more \in Nat
      BY <3>1
    <3> QED
      BY <3>2 DEF more
  <2> QED
    BY <1>1, <2>2, <2>3, <2>4
<1>6. ASSUME NEW t \in last - 4 .. last PROVE slots'[t % 5] = Landed(t)'
  <2>1. t \in Nat /\ t \in Int /\ t > clock - 5
    BY <1>1, <1>3
  <2>2. base[t % 5] = Landed(t) /\ t % 5 \in 0 .. 4
    BY <1>3, <2>1, SlotTyped
  <2>3. /\ Landed(t)' = Landed(t) + (IF t = clock THEN bytes ELSE 0)
                                  + (IF t \in Start .. End /\ LandsIn(t) THEN bytes ELSE 0)
        /\ Landed(t) \in Nat
    BY <2>1, LandedAfterStore, LandedTyped DEF ReadsInv
  <2>4. CASE t = clock
    <3>1. ~ LandsIn(t)
      BY <1>1, <2>4 DEF LandsIn
    <3> QED
      BY <1>2, <1>3, <2>2, <2>3, <2>4, <3>1
  <2>5. CASE t # clock /\ t % 5 # clock % 5
    <3>1. ~ LandsIn(t)
      BY <2>5 DEF LandsIn
    <3> QED
      BY <1>2, <1>3, <2>2, <2>3, <2>5, <3>1
  <2>6. CASE t # clock /\ t % 5 = clock % 5
    <3>1. ~ (t < clock + 5)
      <4>1. clock \in Nat /\ t \in Nat /\ clock < t + 5
        BY <1>1, <2>1
      <4> QED
        BY <2>6, <4>1, SlotsApart
    <3>2. last = lastSec /\ lastSec # 0 /\ clock < lastSec - 4
      BY <1>1, <1>3, <2>1, <3>1
    <3>3. LandsIn(t)
      BY <2>6, <3>2 DEF LandsIn
    <3>4. t \in Start .. End
      BY <1>1, <1>3, <2>1, <3>1
    <3> QED
      BY <1>2, <1>3, <2>2, <2>3, <2>6, <3>3, <3>4, SMTT(30)
  <2> QED
    BY <2>4, <2>5, <2>6
<1>7. ASSUME NEW t \in Int, t > last PROVE Landed(t)' = 0
  <2>1. t # clock /\ Landed(t) = 0
    <3>1. clock <= last /\ clock \in Int /\ last \in Int
      BY <1>1, <1>3
    <3>2. t # clock
      BY <1>7, <3>1
    <3>3. Landed(t) = 0
      BY <1>3, <1>7
    <3> QED
      BY <3>2, <3>3
  <2>2. ~ LandsIn(t)
    BY <1>1, <1>3, <1>7 DEF LandsIn
  <2>3. Landed(t)' = Landed(t) + (IF t = clock THEN bytes ELSE 0)
                               + (IF t \in Start .. End /\ LandsIn(t) THEN bytes ELSE 0)
    BY LandedAfterStore
  <2> QED
    BY <2>1, <2>2, <2>3
<1>8. lastSec' # 0
  BY <1>1, <1>2, <1>3, ReadsAssumption
<1> QED
  BY <1>1, <1>2, <1>3, <1>5, <1>6, <1>7, <1>8 DEF SlotsInv

-----------------------------------------------------------------------------
(* The records *)

LEMMA StoreKeepsItems ==
  ASSUME ReadsInv, NEW bytes \in Nat \ {0}, NEW ts \in Nat,
         items' = Append(items, [seq |-> nextSeq, ts |-> ts, size |-> bytes]),
         nextSeq' = nextSeq + 1
  PROVE  ItemsInv'
<1> DEFINE r == [seq |-> nextSeq, ts |-> ts, size |-> bytes]
           n == Len(items)
<1>1. items \in Seq(Stored) /\ nextSeq \in Nat
  BY DEF ReadsInv, ItemsInv
<1>2. r \in Stored
  BY <1>1 DEF Stored
<1>3. /\ items' \in Seq(Stored) /\ Len(items') = n + 1 /\ n \in Nat
      /\ \A i \in 1 .. n : items'[i] = items[i]
      /\ items'[n + 1] = r
  <2> HIDE DEF r
  <2>1. items' = Append(items, r)
    BY DEF r
  <2> QED
    BY <1>1, <1>2, <2>1, AppendProperties
<1>4. \A i \in 1 .. n : items[i].seq = nextSeq - n + i - 1
  BY DEF ReadsInv, ItemsInv
<1>5. r.seq = nextSeq
  OBVIOUS
<1> HIDE DEF r, n
<1>6. ASSUME NEW i \in 1 .. n + 1 PROVE items'[i].seq = nextSeq' - (n + 1) + i - 1
  <2>1. CASE i \in 1 .. n
    BY <1>1, <1>3, <1>4, <2>1, SMTT(30)
  <2>2. CASE i = n + 1
    BY <1>1, <1>3, <1>5, <2>2
  <2> QED
    BY <1>3, <2>1, <2>2
<1>7. \A i \in 1 .. Len(items') : items'[i].seq = nextSeq' - Len(items') + i - 1
  BY <1>3, <1>6, Zenon
<1>8. nextSeq' \in Nat
  BY <1>1
<1> QED
  BY <1>3, <1>7, <1>8 DEF ItemsInv

LEMMA EvictKeepsItems ==
  ASSUME ReadsInv, EvictOldest
  PROVE  ItemsInv'
<1> DEFINE n == Len(items)
<1>1. items \in Seq(Stored) /\ items # << >> /\ items' = Tail(items)
      /\ nextSeq' = nextSeq /\ nextSeq \in Nat
  BY DEF ReadsInv, ItemsInv, EvictOldest
<1>2. /\ items' \in Seq(Stored) /\ n \in Nat /\ n > 0 /\ Len(items') = n - 1
      /\ \A i \in 1 .. n - 1 : items'[i] = items[i + 1]
  BY <1>1, HeadTailProperties, EmptySeq, LenProperties
<1>3. \A i \in 1 .. n : items[i].seq = nextSeq - n + i - 1
  BY DEF ReadsInv, ItemsInv
<1> HIDE DEF n
<1>4. ASSUME NEW i \in 1 .. n - 1 PROVE items'[i].seq = nextSeq' - (n - 1) + i - 1
  <2>1. i + 1 \in 1 .. n /\ items'[i] = items[i + 1]
    BY <1>2
  <2> QED
    BY <1>1, <1>2, <1>3, <2>1
<1> QED
  BY <1>1, <1>2, <1>4 DEF ItemsInv

-----------------------------------------------------------------------------
(* The invariant *)

LEMMA ReadsInitInv ==
  ASSUME ReadsInit
  PROVE  ReadsInv
<1>1. ItemsInv
  BY DEF ReadsInit, ItemsInv
<1>2. ClockInv
  BY ReadsAssumption DEF ReadsInit, ClockInv
<1>3. SlotsInv
  <2>1. /\ slots = [s \in 0 .. 4 |-> 0] /\ lastSec = 0
        /\ bytesIn = [t \in Start .. End |-> 0] /\ stray = [t \in Start .. End |-> 0]
    BY DEF ReadsInit
  <2>2. \A t \in Int : Landed(t) = 0
    BY <2>1 DEF Landed, BytesIn, Stray
  <2> QED
    BY <2>1, <2>2 DEF SlotsInv
<1> QED
  BY <1>1, <1>2, <1>3 DEF ReadsInv

\* A step that leaves the slots alone.
LEMMA SlotsStay ==
  ASSUME SlotsInv, UNCHANGED << slots, lastSec, bytesIn, stray >>
  PROVE  SlotsInv'
<1>1. slots' = slots /\ lastSec' = lastSec /\ bytesIn' = bytesIn /\ stray' = stray
  OBVIOUS
<1>2. \A t : Landed(t)' = Landed(t)
  BY <1>1 DEF Landed, BytesIn, Stray
<1> QED
  BY <1>1, <1>2 DEF SlotsInv

LEMMA ReadsStepKeepsInv ==
  ASSUME ReadsInv, [ReadsNext]_vars
  PROVE  ReadsInv'
<1>1. ASSUME NEW bytes \in Sizes, Store(bytes) PROVE ReadsInv'
  <2>1. bytes \in Nat \ {0} /\ bytes \in Nat
    BY ReadsAssumption
  <2>2. PICK ts \in {clock} \cup CallerTimes :
          items' = Append(items, [seq |-> nextSeq, ts |-> ts, size |-> bytes])
    BY <1>1 DEF Store
  <2>3. ts \in Nat
    BY ReadsAssumption DEF ReadsInv, ClockInv
  <2>4. /\ nextSeq' = nextSeq + 1 /\ Record(bytes) /\ clock' = clock
        /\ bytesIn' = [bytesIn EXCEPT ![clock] = @ + bytes]
        /\ stray' = [t \in Start .. End |-> stray[t] + IF LandsIn(t) THEN bytes ELSE 0]
    BY <1>1 DEF Store
  <2>5. ItemsInv'
    BY <2>1, <2>2, <2>3, <2>4, StoreKeepsItems
  <2>6. SlotsInv' /\ lastSec' \in Start .. End
    BY <2>1, <2>4, RecordKeepsSlots
  <2> QED
    BY <2>4, <2>5, <2>6 DEF ReadsInv, ClockInv
<1>2. ASSUME EvictOldest PROVE ReadsInv'
  <2>1. UNCHANGED << slots, lastSec, clock, bytesIn, stray >>
    BY <1>2 DEF EvictOldest, history
  <2> QED
    BY <1>2, <2>1, EvictKeepsItems, SlotsStay DEF ReadsInv, ClockInv
<1>3. ASSUME SetClock PROVE ReadsInv'
  <2>1. UNCHANGED << items, nextSeq, slots, lastSec, bytesIn, stray >>
    BY <1>3 DEF SetClock, history
  <2>2. clock' \in Start .. End
    BY <1>3 DEF SetClock
  <2>3. SlotsInv' /\ ItemsInv'
    BY <2>1, SlotsStay DEF ReadsInv, ItemsInv
  <2> QED
    BY <2>1, <2>2, <2>3 DEF ReadsInv, ClockInv
<1>4. ASSUME UNCHANGED vars PROVE ReadsInv'
  <2>1. UNCHANGED << items, nextSeq, slots, lastSec, clock, bytesIn, stray >>
    BY <1>4 DEF vars, history
  <2> QED
    BY <2>1, SlotsStay DEF ReadsInv, ItemsInv, ClockInv
<1> QED
  BY <1>1, <1>2, <1>3, <1>4 DEF ReadsNext

\* The invariant of what readers see.
THEOREM ReadsInvariance == ReadsSpec => []ReadsInv
<1>1. ReadsInit => ReadsInv
  BY ReadsInitInv
<1>2. ReadsInv /\ [ReadsNext]_vars => ReadsInv'
  BY ReadsStepKeepsInv
<1> QED
  BY <1>1, <1>2, PTL DEF ReadsSpec

-----------------------------------------------------------------------------
(* The rate *)

\* What a slot shows of a second is what landed in it, or nothing; and it is what
\* landed in it unless the clock is behind the last record.
LEMMA ShownFacts ==
  ASSUME ReadsInv, clock - lastSec < 5, NEW t \in clock - 4 .. clock
  PROVE  /\ Shown(t) \in Nat /\ Landed(t) \in Nat
         /\ Shown(t) <= Landed(t)
         /\ clock >= lastSec => Shown(t) = Landed(t)
<1>1. /\ clock \in Nat /\ clock > 5 /\ lastSec \in Nat /\ lastSec # 0
  BY ReadsAssumption DEF ReadsInv, ClockInv, SlotsInv
<1>2. t \in Nat /\ t \in Int /\ ((t % 5) + 5) % 5 = t % 5
  BY <1>1, SlotTyped
<1>3. Landed(t) \in Nat
  BY <1>2, LandedTyped DEF ReadsInv
<1>4. t \in lastSec - 4 .. lastSec => slots[t % 5] = Landed(t)
  BY <1>1 DEF ReadsInv, SlotsInv
<1>5. t > lastSec => Landed(t) = 0
  BY <1>1, <1>2 DEF ReadsInv, SlotsInv
<1>6. Shown(t) = IF t <= lastSec /\ t >= lastSec - 4 THEN Landed(t) ELSE 0
  BY <1>1, <1>2, <1>4 DEF Shown
<1> QED
  BY <1>1, <1>2, <1>3, <1>5, <1>6

LEMMA InvRates ==
  ASSUME ReadsInv
  PROVE  RateIsWindow
<1> DEFINE b(t) == Landed(t)
           window == BytesInWindow + StrayInWindow
           s(t) == Shown(t)
<1>1. clock \in Nat /\ lastSec \in Nat
  BY ReadsAssumption DEF ReadsInv, ClockInv, SlotsInv
<1>2. window = b(clock - 4) + b(clock - 3) + b(clock - 2) + b(clock - 1) + b(clock)
  <2> DEFINE x(t) == BytesIn(t)
             y(t) == Stray(t)
  <2>1. BytesInWindow = x(clock - 4) + x(clock - 3) + x(clock - 2) + x(clock - 1) + x(clock)
    BY <1>1 DEF BytesInWindow, LastFive
  <2>2. StrayInWindow = y(clock - 4) + y(clock - 3) + y(clock - 2) + y(clock - 1) + y(clock)
    BY <1>1 DEF StrayInWindow, LastFive
  <2>3. \A t \in Int : x(t) \in Nat /\ y(t) \in Nat
    BY LandedTyped DEF ReadsInv
  <2>4. \A t : b(t) = x(t) + y(t)
    BY DEF Landed
  <2> HIDE DEF x, y, b
  <2> QED
    BY <1>1, <2>1, <2>2, <2>3, <2>4
<1>3. CASE clock - lastSec >= 5
  <2>1. Total(clock) = 0
    BY <1>3 DEF Total
  <2>2. ASSUME NEW t \in clock - 4 .. clock PROVE b(t) = 0
    <3>1. t \in Int /\ t > lastSec
      BY <1>1, <1>3
    <3> QED
      BY <3>1 DEF ReadsInv, SlotsInv
  <2> HIDE DEF b
  <2>3. window = 0
    BY <1>1, <1>2, <2>2
  <2> QED
    BY <2>1, <2>3 DEF RateIsWindow
<1>4. CASE ~ (clock - lastSec >= 5)
  <2>1. Total(clock) = s(clock - 4) + s(clock - 3) + s(clock - 2) + s(clock - 1) + s(clock)
    BY <1>1, <1>4 DEF Total, LastFive
  <2>2. ASSUME NEW t \in clock - 4 .. clock
        PROVE  /\ s(t) \in Nat /\ b(t) \in Nat /\ s(t) <= b(t)
               /\ clock >= lastSec => s(t) = b(t)
    BY <1>1, <1>4, ShownFacts
  <2> HIDE DEF b, s
  <2>3. /\ clock - 4 \in clock - 4 .. clock /\ clock - 3 \in clock - 4 .. clock
        /\ clock - 2 \in clock - 4 .. clock /\ clock - 1 \in clock - 4 .. clock
        /\ clock \in clock - 4 .. clock
    BY <1>1
  <2>4. Total(clock) <= window
    BY <1>2, <2>1, <2>2, <2>3
  <2>5. clock >= lastSec => Total(clock) = window
    BY <1>2, <2>1, <2>2, <2>3
  <2> QED
    BY <2>4, <2>5 DEF RateIsWindow
<1> QED
  BY <1>3, <1>4

\* However the clock is set, the rate of /stats is that of the last five seconds and
\* of the records that were made far behind the last one and landed in their slots;
\* never more while the clock is behind the last record, and exactly this otherwise.
THEOREM RateAlwaysOfWindow == ReadsSpec => []RateIsWindow
<1>1. ReadsInv => RateIsWindow
  BY InvRates
<1> QED
  BY <1>1, ReadsInvariance, PTL

-----------------------------------------------------------------------------
(* The records that a query returns *)

Matching(since, sinceSeq) ==
  {i \in 1 .. Len(items) : ~TooOld(items[i], since) /\ ~AlreadySeen(items[i], sinceSeq)}

Newest(param, since, sinceSeq) ==
  {i \in Matching(since, sinceSeq) :
     Cardinality({j \in Matching(since, sinceSeq) : j > i}) < Limit(param)}

Stops(param, since, sinceSeq) ==
  {i \in 1 .. Len(items) : \/ TooOld(items[i], since)
                          \/ AlreadySeen(items[i], sinceSeq)
                          \/ Len(items) - i >= Limit(param)}

\* Times in order are in order between any two records.
LEMMA TimesIncrease ==
  ASSUME ItemsInv, TimesInOrder, NEW p \in 1 .. Len(items)
  PROVE  \A i \in 1 .. p : items[i].ts <= items[p].ts
<1> DEFINE n == Len(items)
           ts(i) == items[i].ts
           D == {d \in Nat : d < p /\ ~ (ts(p - d) <= ts(p))}
<1>1. n \in Nat /\ \A i \in 1 .. n : ts(i) \in Nat
  <2>1. items \in Seq(Stored)
    BY DEF ItemsInv
  <2>2. n \in Nat /\ \A i \in 1 .. n : items[i] \in Stored
    BY <2>1, LenProperties, ElementOfSeq
  <2> QED
    BY <2>2 DEF Stored
<1>2. \A i \in 1 .. n - 1 : ts(i) <= ts(i + 1)
  BY DEF TimesInOrder
<1>3. p \in 1 .. n
  OBVIOUS
<1> HIDE DEF n, ts
<1>4. SUFFICES ASSUME D # {} PROVE FALSE
  <2>1. ASSUME NEW i \in 1 .. p PROVE ts(i) <= ts(p)
    <3>1. p - i \in Nat /\ p - i < p /\ p - (p - i) = i
      BY <1>1, <1>3
    <3>2. p - i \notin D
      BY <1>4
    <3> QED
      BY <3>1, <3>2
  <2> QED
    BY <2>1 DEF ts
<1>5. PICK d \in D : \A e \in D : d <= e
  <2>1. D \in SUBSET Nat
    OBVIOUS
  <2> HIDE DEF D
  <2> QED
    BY <1>4, <2>1, LeastNatural
<1>6. d \in Nat /\ d < p /\ ~ (ts(p - d) <= ts(p))
  OBVIOUS
<1>7. CASE d = 0
  BY <1>1, <1>3, <1>6, <1>7
<1>8. CASE d # 0
  <2>1. d - 1 \in Nat /\ d - 1 < p /\ p - d \in 1 .. n - 1 /\ p - (d - 1) = p - d + 1
    BY <1>1, <1>3, <1>6, <1>8
  <2>2. d - 1 \notin D
    <3> HIDE DEF D
    <3> QED
      BY <1>5, <1>6
  <2>3. ts(p - d + 1) <= ts(p)
    BY <2>1, <2>2
  <2>4. ts(p - d) <= ts(p - d + 1)
    BY <1>2, <2>1
  <2>5. ts(p) \in Nat /\ ts(p - d) \in Nat /\ ts(p - d + 1) \in Nat
    BY <1>1, <1>3, <2>1
  <2> QED
    BY <1>6, <2>3, <2>4, <2>5
<1> QED
  BY <1>7, <1>8

\* The records behind position p.
RestOfItems(reply, p) ==
  /\ Len(reply) = Len(items) - p
  /\ \A k \in 1 .. Len(items) - p : reply[k] = items[p + k]
  /\ ToSet(reply) = {items[i] : i \in p + 1 .. Len(items)}

\* Where the scan of a query stops, and what it has by then.
LEMMA QueryShape ==
  ASSUME ReadsInv, NEW param, NEW since, NEW sinceSeq
  PROVE  \E p \in 0 .. Len(items) :
           /\ p # 0 => p \in Stops(param, since, sinceSeq)
           /\ \A i \in Stops(param, since, sinceSeq) : i <= p
           /\ RestOfItems(Query(param, since, sinceSeq), p)
<1> DEFINE n == Len(items)
           stops == Stops(param, since, sinceSeq)
           p == Max({0} \cup stops)
           reply == SubSeq(items, p + 1, n)
<1>1. items \in Seq(Stored) /\ n \in Nat
  BY DEF ReadsInv, ItemsInv
<1>2. Query(param, since, sinceSeq) = reply
  BY Zenon DEF Query, Stops
<1>3. {0} \cup stops \in SUBSET (0 .. n)
  BY <1>1 DEF Stops
<1>4. p \in {0} \cup stops /\ \A i \in stops : i <= p
  <2> HIDE DEF stops, n
  <2> QED
    BY <1>1, <1>3, LargestExists
<1>5. p \in 0 .. n
  BY <1>3, <1>4
<1> HIDE DEF stops, p
<1>6. /\ Len(reply) = n - p
      /\ \A k \in 1 .. n - p : reply[k] = items[p + k]
      /\ DOMAIN reply = 1 .. n - p
  <2>1. p + 1 \in 1 .. n + 1 /\ n \in p .. n
    BY <1>1, <1>5
  <2> QED
    BY <1>1, <1>5, <2>1
<1>7. ToSet(reply) = {items[i] : i \in p + 1 .. n}
  <2>1. ToSet(reply) = {reply[k] : k \in 1 .. n - p}
    BY <1>6, Zenon DEF ToSet
  <2> HIDE DEF reply
  <2>2. ASSUME NEW k \in 1 .. n - p PROVE reply[k] \in {items[i] : i \in p + 1 .. n}
    <3>1. p + k \in p + 1 .. n
      BY <1>1, <1>5
    <3> QED
      BY <1>6, <3>1
  <2>3. ASSUME NEW i \in p + 1 .. n PROVE items[i] \in {reply[k] : k \in 1 .. n - p}
    <3>1. i - p \in 1 .. n - p /\ p + (i - p) = i
      BY <1>1, <1>5
    <3> QED
      BY <1>6, <3>1
  <2> QED
    BY <2>1, <2>2, <2>3
<1>8. RestOfItems(reply, p)
  BY <1>6, <1>7 DEF RestOfItems
<1> HIDE DEF reply, n
<1>9. p # 0 => p \in stops
  BY <1>4
<1>10. RestOfItems(Query(param, since, sinceSeq), p)
  BY <1>2, <1>8
<1> QED
  BY <1>4, <1>5, <1>9, <1>10 DEF stops, n

LEMMA InvQueries ==
  ASSUME ReadsInv
  PROVE  QueryIsNewestMatching
<1> SUFFICES ASSUME NEW param \in LimitParams, NEW since \in Windows, NEW sinceSeq \in 0 .. MaxSeq
             PROVE  LET reply == Query(param, since, sinceSeq)
                        newest == Newest(param, since, sinceSeq)
                    IN  /\ ToSet(reply) \subseteq {items[i] : i \in newest}
                        /\ TimesInOrder \/ since = 0 => ToSet(reply) = {items[i] : i \in newest}
                        /\ \A i \in 1 .. Len(reply) - 1 : reply[i].seq < reply[i + 1].seq
  BY Zenon DEF QueryIsNewestMatching, Requests, Newest, Matching
<1> DEFINE n == Len(items)
           reply == Query(param, since, sinceSeq)
           newest == Newest(param, since, sinceSeq)
           matching == Matching(since, sinceSeq)
           stops == Stops(param, since, sinceSeq)
           limit == Limit(param)
           after(i) == {j \in matching : j > i}
<1>1. PICK p \in 0 .. n : /\ p # 0 => p \in stops
                          /\ \A i \in stops : i <= p
                          /\ RestOfItems(reply, p)
  BY QueryShape
<1>2. /\ Len(reply) = n - p
      /\ \A k \in 1 .. n - p : reply[k] = items[p + k]
      /\ ToSet(reply) = {items[i] : i \in p + 1 .. n}
  BY <1>1 DEF RestOfItems
<1>3. /\ n \in Nat /\ nextSeq \in Nat
      /\ \A i \in 1 .. n : items[i] \in Stored /\ items[i].seq = nextSeq - n + i - 1
  <2>1. items \in Seq(Stored)
    BY DEF ReadsInv, ItemsInv
  <2> QED
    BY <2>1, LenProperties, ElementOfSeq DEF ReadsInv, ItemsInv
<1>4. limit \in Nat
  BY ReadsAssumption DEF Limit
<1>5. since \in Nat /\ sinceSeq \in Nat /\ clock \in Nat
  BY ReadsAssumption DEF ReadsInv, ClockInv
<1>6. /\ IsFiniteSet(matching) /\ matching \subseteq 1 .. n
  <2>1. IsFiniteSet(1 .. n)
    BY <1>3, FS_Interval
  <2>2. matching \subseteq 1 .. n
    BY DEF Matching
  <2> QED
    BY <2>1, <2>2, FS_Subset
<1> HIDE DEF n, reply, newest, matching, stops, limit
<1>7. ASSUME NEW i \in 1 .. n PROVE IsFiniteSet(after(i)) /\ Cardinality(after(i)) \in Nat
  BY <1>6, FS_Subset, FS_CardinalityType
<1> HIDE DEF after
<1>8. ASSUME NEW i \in p + 1 .. n PROVE i \in matching /\ n - i < limit
  <2>1. i \in 1 .. n /\ i \notin stops
    BY <1>1, <1>3
  <2> QED
    BY <1>3, <1>4, <2>1 DEF Stops, Matching, stops, matching, limit, n
<1>9. ASSUME NEW i \in p + 1 .. n PROVE i \in newest
  <2>1. i \in matching /\ n - i < limit /\ i \in 1 .. n
    BY <1>3, <1>8
  <2>2. after(i) \subseteq i + 1 .. n
    <3>1. ASSUME NEW j \in after(i) PROVE j \in i + 1 .. n
      <4>1. j \in matching /\ j > i
        BY DEF after
      <4>2. j \in 1 .. n
        BY <1>6, <4>1
      <4> QED
        BY <1>3, <2>1, <4>1, <4>2
    <3> QED
      BY <3>1
  <2>3. IsFiniteSet(i + 1 .. n) /\ Cardinality(i + 1 .. n) = IF i + 1 > n THEN 0 ELSE n - (i + 1) + 1
    BY <1>3, <2>1, FS_Interval
  <2>4. Cardinality(after(i)) <= Cardinality(i + 1 .. n)
    BY <2>2, <2>3, FS_Subset
  <2>5. Cardinality(after(i)) < limit
    BY <1>3, <1>4, <1>7, <2>1, <2>3, <2>4
  <2> QED
    BY <2>1, <2>5 DEF Newest, newest, matching, limit, after
<1>10. ASSUME TimesInOrder \/ since = 0, NEW i \in newest PROVE i \in p + 1 .. n
  <2>1. i \in matching /\ i \in 1 .. n /\ Cardinality(after(i)) < limit
    BY <1>6 DEF Newest, newest, matching, limit, after
  <2>2. SUFFICES ASSUME i <= p PROVE FALSE
    BY <1>3, <2>1
  <2>3. p \in 1 .. n /\ p \in stops
    BY <1>1, <1>3, <2>1, <2>2
  <2>4. p + 1 .. n \subseteq after(i)
    BY <1>3, <1>8, <2>1, <2>2, <2>3 DEF after
  <2>5. Cardinality(p + 1 .. n) = IF p + 1 > n THEN 0 ELSE n - (p + 1) + 1
    BY <1>3, <2>3, FS_Interval
  <2>6. Cardinality(p + 1 .. n) <= Cardinality(after(i))
    BY <1>7, <2>1, <2>4, FS_Subset
  <2>7. n - p < limit
    BY <1>3, <1>4, <1>7, <2>1, <2>3, <2>5, <2>6
  <2>8. TooOld(items[p], since) \/ AlreadySeen(items[p], sinceSeq)
    BY <1>3, <1>4, <2>3, <2>7 DEF Stops, stops, limit, n
  <2>9. items[i] \in Stored /\ items[p] \in Stored /\ items[i].seq <= items[p].seq
    BY <1>3, <2>1, <2>2, <2>3
  <2>10. ~TooOld(items[i], since) /\ ~AlreadySeen(items[i], sinceSeq)
    BY <2>1 DEF Matching, matching
  <2>11. CASE TooOld(items[p], since)
    <3>1. since > 0
      BY <2>11 DEF TooOld
    <3>2. items[i].ts <= items[p].ts
      <4>1. TimesInOrder /\ i \in 1 .. p
        BY <1>5, <1>10, <2>1, <2>2, <2>3, <3>1
      <4> QED
        BY <2>3, <4>1, TimesIncrease DEF ReadsInv, n
    <3> QED
      BY <1>5, <2>9, <2>10, <2>11, <3>2 DEF TooOld, Stored
  <2>12. CASE AlreadySeen(items[p], sinceSeq)
    BY <1>5, <2>9, <2>10, <2>12 DEF AlreadySeen, Stored
  <2> QED
    BY <2>8, <2>11, <2>12
<1>11. ASSUME NEW k \in 1 .. Len(reply) - 1 PROVE reply[k].seq < reply[k + 1].seq
  <2>1. /\ k \in 1 .. n - p /\ k + 1 \in 1 .. n - p
        /\ p + k \in 1 .. n /\ p + (k + 1) \in 1 .. n
    BY <1>2, <1>3
  <2>2. reply[k] = items[p + k] /\ reply[k + 1] = items[p + (k + 1)]
    BY <1>2, <2>1
  <2>3. /\ items[p + k].seq = nextSeq - n + (p + k) - 1
        /\ items[p + (k + 1)].seq = nextSeq - n + (p + (k + 1)) - 1
    BY <1>3, <2>1
  <2> QED
    BY <1>3, <2>1, <2>2, <2>3
<1>12. ToSet(reply) \subseteq {items[i] : i \in newest}
  BY <1>9, <1>2
<1>13. ASSUME TimesInOrder \/ since = 0 PROVE ToSet(reply) = {items[i] : i \in newest}
  <2>1. newest \subseteq p + 1 .. n
    BY <1>10, <1>13
  <2>2. p + 1 .. n \subseteq newest
    BY <1>9
  <2> QED
    BY <1>2, <2>1, <2>2
<1> QED
  BY <1>11, <1>12, <1>13 DEF reply, newest

\* Every reply of /buffer has only records that were asked for, in order and within
\* the limit, and misses none of the newest, if the records are in the order of their
\* times or no window was given.
THEOREM QueryAlwaysNewest == ReadsSpec => []QueryIsNewestMatching
<1>1. ReadsInv => QueryIsNewestMatching
  BY InvQueries
<1> QED
  BY <1>1, ReadsInvariance, PTL

-----------------------------------------------------------------------------
(* What the legacy filter evaluates *)

Chunks == [seq : Nat, size : Nat \ {0}, item : Nat]

\* Chunks as they come from the buffer or from a body: each is an item, and the
\* ids increase.
InOrder(chunks) ==
  /\ chunks \in Seq(Chunks)
  /\ \A i \in 1 .. Len(chunks) : chunks[i].item = chunks[i].seq
  /\ \A i, j \in 1 .. Len(chunks) : i < j => chunks[i].seq < chunks[j].seq

LEMMA InOrderFacts ==
  ASSUME NEW chunks, InOrder(chunks)
  PROVE  /\ Len(chunks) \in Nat
         /\ ToSet(chunks) = {chunks[i] : i \in 1 .. Len(chunks)}
         /\ \A i \in 1 .. Len(chunks) :
              /\ chunks[i] \in Chunks
              /\ chunks[i].seq \in Nat /\ chunks[i].item \in Nat /\ chunks[i].size \in Nat \ {0}
         /\ \A i, j \in 1 .. Len(chunks) :
              i < j => chunks[i].seq < chunks[j].seq /\ chunks[i].item < chunks[j].item
<1>1. /\ chunks \in Seq(Chunks)
      /\ \A i \in 1 .. Len(chunks) : chunks[i].item = chunks[i].seq
      /\ \A i, j \in 1 .. Len(chunks) : i < j => chunks[i].seq < chunks[j].seq
  BY DEF InOrder
<1>2. Len(chunks) \in Nat /\ \A i \in 1 .. Len(chunks) : chunks[i] \in Chunks
  BY <1>1
<1>3. ToSet(chunks) = {chunks[i] : i \in 1 .. Len(chunks)}
  BY <1>1 DEF ToSet
<1>4. \A c \in Chunks : c.seq \in Nat /\ c.item \in Nat /\ c.size \in Nat \ {0}
  BY DEF Chunks
<1>5. ASSUME NEW i \in 1 .. Len(chunks), NEW j \in 1 .. Len(chunks), i < j
      PROVE  chunks[i].seq < chunks[j].seq /\ chunks[i].item < chunks[j].item
  <2>1. chunks[i].item = chunks[i].seq /\ chunks[j].item = chunks[j].seq
    BY <1>1
  <2> QED
    BY <1>1, <1>5, <2>1
<1> QED
  BY <1>2, <1>3, <1>4, <1>5

LEMMA PiecesOfSize ==
  ASSUME NEW size \in Nat, NEW max \in Nat \ {0}
  PROVE  Pieces(size, max) \in Nat /\ (size > 0 => Pieces(size, max) > 0)
<1> DEFINE q == (size + max - 1) \div max
<1>1. q \in Nat
  OBVIOUS
<1>2. size + max - 1 < (q + 1) * max
  OBVIOUS
<1>3. ASSUME size > 0 PROVE q # 0
  <2> HIDE DEF q
  <2> QED
    BY <1>2, <1>3
<1> QED
  BY <1>1, <1>3 DEF Pieces

LEMMA NumberedInOrder ==
  ASSUME NEW sizes \in Seq(Nat \ {0})
  PROVE  InOrder(Numbered(sizes))
<1> DEFINE n == Len(sizes)
           s == [i \in 1 .. n |-> [seq |-> i, size |-> sizes[i], item |-> i]]
<1>1. n \in Nat /\ \A i \in 1 .. n : sizes[i] \in Nat \ {0}
  OBVIOUS
<1>2. s \in Seq(Chunks) /\ Len(s) = n /\ \A i \in 1 .. n : s[i].seq = i /\ s[i].item = i
  <2> HIDE DEF n
  <2> QED
    BY <1>1 DEF Chunks
<1>3. Numbered(sizes) = s
  BY DEF Numbered
<1> HIDE DEF n, s
<1> QED
  BY <1>1, <1>2, <1>3 DEF InOrder

LEMMA ParsedInOrder ==
  ASSUME NEW size \in Nat, NEW max \in Nat \ {0}
  PROVE  InOrder(Parsed(size, max))
<1> DEFINE n == Pieces(size, max)
<1>1. n \in Nat
  BY PiecesOfSize
<1> HIDE DEF n
<1>2. [i \in 1 .. n |-> 1] \in Seq(Nat \ {0})
  BY <1>1
<1>3. InOrder(Numbered([i \in 1 .. n |-> 1]))
  BY <1>2, NumberedInOrder
<1> QED
  BY <1>3 DEF Parsed, n

LEMMA FromBufferInOrder ==
  ASSUME ReadsInv, NEW param, NEW since, NEW sinceSeq
  PROVE  InOrder(FromBuffer(param, since, sinceSeq))
<1> DEFINE found == Query(param, since, sinceSeq)
           n == Len(found)
           s == [i \in 1 .. n |-> [seq |-> found[i].seq, size |-> found[i].size, item |-> found[i].seq]]
<1>1. PICK p \in 0 .. Len(items) : RestOfItems(found, p)
  BY QueryShape
<1>2. /\ items \in Seq(Stored) /\ nextSeq \in Nat /\ Len(items) \in Nat
      /\ \A i \in 1 .. Len(items) :
           items[i] \in Stored /\ items[i].seq = nextSeq - Len(items) + i - 1
  BY DEF ReadsInv, ItemsInv
<1> HIDE DEF found
<1>3. n = Len(items) - p /\ \A k \in 1 .. n : found[k] = items[p + k] /\ p + k \in 1 .. Len(items)
  BY <1>1, <1>2 DEF RestOfItems
<1> HIDE DEF n
<1>4. \A k \in 1 .. n :
        found[k] \in Stored /\ found[k].seq = nextSeq - Len(items) + p + k - 1
  BY <1>2, <1>3
<1>5. /\ s \in Seq(Chunks) /\ Len(s) = n /\ n \in Nat
      /\ \A i \in 1 .. n : s[i].seq = found[i].seq /\ s[i].item = s[i].seq
  <2>1. \A i \in 1 .. n : found[i].seq \in Nat /\ found[i].size \in Nat \ {0}
    BY <1>4 DEF Stored
  <2>2. \A i \in 1 .. n :
          [seq |-> found[i].seq, size |-> found[i].size, item |-> found[i].seq] \in Chunks
    BY <2>1 DEF Chunks
  <2>3. n \in Nat
    BY <1>2, <1>3
  <2> QED
    BY <2>2, <2>3
<1>6. \A i, j \in 1 .. n : i < j => found[i].seq < found[j].seq
  BY <1>2, <1>4, <1>5
<1>7. FromBuffer(param, since, sinceSeq) = s
  BY Zenon DEF FromBuffer, found, n
<1> HIDE DEF s
<1> QED
  BY <1>5, <1>6, <1>7 DEF InOrder

LEMMA ChosenInOrder ==
  ASSUME ReadsInv, NEW r \in FilterRequests
  PROVE  InOrder(Chosen(r))
<1>1. /\ r.max \in Nat \ {0} /\ r.raw \in Nat /\ r.stream \in Nat
      /\ r.sizes \in Seq(Nat \ {0})
  BY FilterAssumption
<1>2. InOrder(<< >>)
  BY DEF InOrder
<1>3. InOrder(Numbered(r.sizes)) /\ InOrder(Parsed(r.raw, r.max)) /\ InOrder(Parsed(r.stream, r.max))
  BY <1>1, NumberedInOrder, ParsedInOrder
<1>4. \A param, since, sinceSeq : InOrder(FromBuffer(param, since, sinceSeq))
  BY FromBufferInOrder
<1>5. InOrder(FromObject(r))
  BY <1>3, <1>4, Zenon DEF FromObject
<1>6. InOrder(FromBody(r))
  BY <1>2, <1>3, <1>5, Zenon DEF FromBody
<1> QED
  BY <1>4, <1>6, Zenon DEF Chosen

\* The parts are copies of the chunks, at least one of each, in their order.
LEMMA PartsInOrder ==
  ASSUME NEW chunks, InOrder(chunks), NEW max \in Nat \ {0}
  PROVE  /\ PartsOf(chunks, max) \in Seq(Chunks)
         /\ \A x : x \in ToSet(PartsOf(chunks, max)) <=> x \in ToSet(chunks)
         /\ \A k \in 1 .. Len(PartsOf(chunks, max)) - 1 :
              PartsOf(chunks, max)[k].item <= PartsOf(chunks, max)[k + 1].item
<1> DEFINE n == Len(chunks)
           len(i) == Pieces(chunks[i].size, max)
           ss == [i \in 1 .. n |-> [j \in 1 .. len(i) |-> chunks[i]]]
           parts == FlattenSeq(ss)
<1>1. /\ n \in Nat
      /\ ToSet(chunks) = {chunks[i] : i \in 1 .. n}
      /\ \A i \in 1 .. n : /\ chunks[i] \in Chunks
                           /\ chunks[i].item \in Nat /\ chunks[i].size \in Nat \ {0}
      /\ \A i, j \in 1 .. n : i < j => chunks[i].item < chunks[j].item
  BY InOrderFacts
<1>2. \A i \in 1 .. n : len(i) \in Nat /\ len(i) > 0
  <2> HIDE DEF n
  <2>1. ASSUME NEW i \in 1 .. n PROVE len(i) \in Nat /\ len(i) > 0
    <3>1. chunks[i].size \in Nat /\ chunks[i].size > 0
      BY <1>1
    <3> QED
      BY <3>1, PiecesOfSize
  <2> QED
    BY <2>1
<1> HIDE DEF len, n
<1>3. /\ ss \in Seq(Seq(Chunks)) /\ Len(ss) = n
      /\ \A i \in 1 .. n : Len(ss[i]) = len(i) /\ \A j \in 1 .. len(i) : ss[i][j] = chunks[i]
  BY <1>1, <1>2
<1>4. PartsOf(chunks, max) = parts
  BY Zenon DEF PartsOf, n, len
<1> HIDE DEF ss, parts
<1>5. parts \in Seq(Chunks)
  BY <1>3, FlattenFacts DEF parts
<1>7. ASSUME NEW x PROVE x \in ToSet(parts) <=> x \in ToSet(chunks)
  <2>1. x \in ToSet(parts) <=> \E i \in 1 .. n : \E j \in 1 .. Len(ss[i]) : x = ss[i][j]
    BY <1>3, FlattenElements, SMTT(30) DEF parts
  <2>2. \A i \in 1 .. n : 1 \in 1 .. len(i)
    BY <1>2
  <2>3. (\E i \in 1 .. n : \E j \in 1 .. Len(ss[i]) : x = ss[i][j])
          <=> \E i \in 1 .. n : x = chunks[i]
    <3>1. ASSUME NEW i \in 1 .. n
          PROVE  (\E j \in 1 .. Len(ss[i]) : x = ss[i][j]) <=> x = chunks[i]
      BY <1>3, <2>2
    <3> QED
      BY <3>1
  <2> QED
    BY <1>1, <2>1, <2>3
<1>8. ASSUME NEW k \in 1 .. Len(parts) - 1 PROVE parts[k].item <= parts[k + 1].item
  <2>1. Precedes(ss, parts[k], parts[k + 1])
    BY <1>3, FlattenNeighbours DEF parts
  <2>2. PICK i \in 1 .. n, h \in 1 .. n : parts[k] = chunks[i] /\ parts[k + 1] = chunks[h] /\ (i = h \/ i < h)
    BY <1>3, <2>1 DEF Precedes
  <2> QED
    BY <1>1, <2>2
<1> QED
  BY <1>4, <1>5, <1>7, <1>8

LEMMA InvFilterIds ==
  ASSUME ReadsInv
  PROVE  FilterIdsUnique
<1> SUFFICES ASSUME NEW r \in FilterRequests
             PROVE  /\ \A i, j \in 1 .. Len(Evaluated(r)) :
                         i # j => Evaluated(r)[i].seq # Evaluated(r)[j].seq
                    /\ {c.item : c \in ToSet(Evaluated(r))} = {c.item : c \in ToSet(Chosen(r))}
                    /\ \A i \in 1 .. Len(Evaluated(r)) - 1 :
                         Evaluated(r)[i].item <= Evaluated(r)[i + 1].item
  BY Zenon DEF FilterIdsUnique
<1> DEFINE chosen == Chosen(r)
           chunks == Evaluated(r)
           parts == PartsOf(chosen, r.max)
           n == Len(parts)
           copies == [i \in 1 .. n |-> [parts[i] EXCEPT !.seq = i]]
<1>1. /\ InOrder(chosen) /\ r.max \in Nat \ {0}
  BY ChosenInOrder, FilterAssumption
<1> HIDE DEF chosen, parts
<1>2. chunks = chosen \/ chunks = copies
  BY Zenon DEF Evaluated, Partitioned, chosen, parts, n
<1>3. CASE chunks = chosen
  <2>1. /\ Len(chosen) \in Nat
        /\ \A i \in 1 .. Len(chosen) : chosen[i].item \in Nat /\ chosen[i].seq \in Nat
        /\ \A i, j \in 1 .. Len(chosen) :
             i < j => chosen[i].seq < chosen[j].seq /\ chosen[i].item < chosen[j].item
    BY <1>1, InOrderFacts
  <2>2. \A i, j \in 1 .. Len(chosen) : i # j => chosen[i].seq # chosen[j].seq
    BY <2>1
  <2>3. \A i \in 1 .. Len(chosen) - 1 : chosen[i].item <= chosen[i + 1].item
    BY <2>1
  <2> QED
    BY <1>3, <2>2, <2>3, Zenon DEF chosen
<1>4. CASE chunks = copies
  <2>1. /\ parts \in Seq(Chunks) /\ n \in Nat
        /\ \A x : x \in ToSet(parts) <=> x \in ToSet(chosen)
        /\ \A k \in 1 .. n - 1 : parts[k].item <= parts[k + 1].item
    BY <1>1, PartsInOrder DEF parts
  <2>2. ToSet(parts) = ToSet(chosen)
    BY <2>1, Zenon
  <2> HIDE DEF n
  <2>3. \A i \in 1 .. n : parts[i] \in Chunks
    BY <2>1 DEF n
  <2>4. /\ DOMAIN copies = 1 .. n /\ Len(copies) = n
        /\ \A i \in 1 .. n : copies[i].seq = i /\ copies[i].item = parts[i].item
    BY <2>1, <2>3 DEF Chunks
  <2> HIDE DEF copies
  <2>5. ToSet(parts) = {parts[i] : i \in 1 .. n} /\ ToSet(copies) = {copies[i] : i \in 1 .. n}
    <3>1. DOMAIN parts = 1 .. n
      BY <2>1 DEF n
    <3> QED
      BY <2>4, <3>1, Zenon DEF ToSet
  <2>6. {c.item : c \in ToSet(copies)} = {c.item : c \in ToSet(parts)}
    BY <2>4, <2>5
  <2>7. \A i, j \in 1 .. n : i # j => copies[i].seq # copies[j].seq
    BY <2>4
  <2>8. \A i \in 1 .. n - 1 : copies[i].item <= copies[i + 1].item
    BY <2>1, <2>4
  <2> QED
    BY <1>4, <2>2, <2>4, <2>6, <2>7, <2>8, ZenonT(40) DEF chosen
<1> QED
  BY <1>2, <1>3, <1>4

\* Every id in a reply of the legacy filter is its own, nothing that was chosen is
\* missing and the order is kept: for a buffer that stores and evicts in any
\* order, for every request, every limit and every number of parts.
THEOREM FilterIdsAlwaysUnique == ReadsSpec => []FilterIdsUnique
<1>1. ReadsInv => FilterIdsUnique
  BY InvFilterIds
<1> QED
  BY <1>1, ReadsInvariance, PTL

=============================================================================
