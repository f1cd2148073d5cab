-------------------------- MODULE RingBufferProofs --------------------------
(***************************************************************************)
(* Proofs about RingBuffer, for every capacity, every set of batches and   *)
(* every bound.                                                            *)
(*                                                                         *)
(* The invariants that TLC checks are not inductive one by one: that an    *)
(* eviction takes acknowledged records only needs the byte accounting,     *)
(* that the accounting is exact needs to know which records were evicted,  *)
(* and that an acknowledgement counts the right records needs the sequence *)
(* numbers to be consecutive.  RingInv, their conjunction, is inductive.   *)
(***************************************************************************)
EXTENDS RingBuffer, SequenceFacts, SequenceTheorems, FiniteSetTheorems

RingInv == TypeOK /\ RecordsAccounted /\ BytesExact

Entry == [seq : Nat \ {0}, size : Nat \ {0}]

-----------------------------------------------------------------------------
(* Facts about one state *)

\* The stored records have sizes, and usedBytes is the total of their sizes.
LEMMA ItemsFacts ==
  ASSUME RingInv
  PROVE  /\ Len(items) \in Nat
         /\ \A i \in 1 .. Len(items) : items[i] \in Entry
         /\ Sized(items)
         /\ Cumulative(items) \in [0 .. Len(items) -> Nat]
         /\ Cumulative(items)[0] = 0
         /\ Cumulative(items)[Len(items)] = usedBytes
         /\ ackedCount \in 0 .. Len(items)
         /\ Cumulative(items)[ackedCount] <= usedBytes
<1>1. /\ Len(items) \in Nat
      /\ \A i \in 1 .. Len(items) : items[i] \in Entry
      /\ ackedCount \in 0 .. Len(items)
  <2>1. items \in Seq(Entry)
    BY DEF RingInv, TypeOK, Entry
  <2>2. ackedCount \in 0 .. Len(items)
    BY DEF RingInv, TypeOK
  <2> QED
    BY <2>1, <2>2, LenProperties, ElementOfSeq
<1>2. Sized(items)
  BY <1>1 DEF Sized, Entry
<1>3. Cumulative(items)[Len(items)] = usedBytes
  BY DEF RingInv, BytesExact, BytesOf
<1>4. Cumulative(items)[ackedCount] <= Cumulative(items)[Len(items)]
  BY <1>1, <1>2, CumulativeMonotone
<1> QED
  BY <1>1, <1>2, <1>3, <1>4, CumulativeUnfolds

\* A batch has a natural number of bytes and at least one record.
LEMMA BatchFacts ==
  ASSUME NEW recs \in Batches
  PROVE  /\ Len(recs) \in Nat \ {0}
         /\ \A i \in 1 .. Len(recs) : recs[i].size \in Nat \ {0}
         /\ Sized(recs)
         /\ BytesOf(recs) \in Nat
         /\ Cumulative(recs)[Len(recs)] = BytesOf(recs)
<1>1. recs \in Seq([size : Nat \ {0}]) /\ recs # << >>
  BY BatchesAssumption
<1>2. /\ Len(recs) \in Nat \ {0}
      /\ \A i \in 1 .. Len(recs) : recs[i].size \in Nat \ {0}
  <2>1. Len(recs) \in Nat \ {0}
    BY <1>1, EmptySeq
  <2>2. \A i \in 1 .. Len(recs) : recs[i] \in [size : Nat \ {0}]
    BY <1>1, ElementOfSeq
  <2> QED
    BY <2>1, <2>2
<1>3. Sized(recs)
  BY <1>2 DEF Sized
<1> QED
  BY <1>2, <1>3, CumulativeUnfolds DEF BytesOf

\* When Append goes on to store a batch, its eviction loop stops, and it stops
\* at the last acknowledged record or before: the panic of
\* evictOldestAckedLocked is unreachable.
LEMMA EvictionStopsInAcked ==
  ASSUME RingInv, NEW recs \in Batches, ~ Full(recs)
  PROVE  LET k == Evictions(BytesOf(recs))
         IN  /\ k \in 0 .. ackedCount
             /\ Free + Cumulative(items)[k] >= BytesOf(recs)
             /\ \A j \in 0 .. k - 1 : Free + Cumulative(items)[j] < BytesOf(recs)
<1> DEFINE c == Cumulative(items)
           n == Len(items)
           needed == BytesOf(recs)
           free == Free
           Stops(i) == /\ free + c[i] >= needed
                       /\ \A j \in 0 .. i - 1 : free + c[j] < needed
           T == {i \in 0 .. n : free + c[i] >= needed}
<1>1. /\ n \in Nat /\ ackedCount \in 0 .. n
      /\ \A i \in 0 .. n : c[i] \in Nat
  BY ItemsFacts
<1>2. needed \in Nat
  BY BatchFacts
<1>3. free \in Int
  BY CapacityAssumption DEF Free, RingInv, TypeOK
<1>4. free + c[ackedCount] >= needed
  <2>1. ~ (needed > free + c[ackedCount])
    BY DEF Full, Reclaimable
  <2>2. c[ackedCount] \in Nat
    BY <1>1
  <2> HIDE DEF needed, free, c
  <2> QED
    BY <2>1, <2>2, <1>2, <1>3
<1>5. Evictions(needed) = CHOOSE i \in 0 .. n : Stops(i)
  BY DEF Evictions
<1> HIDE DEF c, n, needed, free
<1>6. \E i \in 0 .. n : Stops(i)
  <2>1. ackedCount \in T /\ T \in SUBSET Nat
    BY <1>1, <1>4
  <2>2. PICK i \in T : \A j \in T : i <= j
    <3> HIDE DEF T
    <3> QED BY <2>1, LeastNatural
  <2>3. Stops(i)
    BY <1>1, <1>2, <1>3, <2>2
  <2> QED
    BY <2>2, <2>3
<1> DEFINE k == Evictions(needed)
<1>7. k \in 0 .. n /\ Stops(k)
  <2> HIDE DEF Stops
  <2> QED BY <1>5, <1>6
<1> HIDE DEF k
<1>8. k <= ackedCount
  <2> SUFFICES ASSUME k > ackedCount PROVE FALSE
    BY <1>1, <1>7
  <2>1. ackedCount \in 0 .. k - 1
    BY <1>1, <1>7
  <2>2. free + c[ackedCount] < needed
    BY <2>1, <1>7
  <2>3. c[ackedCount] \in Nat
    BY <1>1
  <2> QED
    BY <2>2, <2>3, <1>2, <1>3, <1>4
<1>9. k \in 0 .. ackedCount
  BY <1>1, <1>7, <1>8
<1> QED
  BY <1>7, <1>9 DEF k, c, needed, free

\* The scan of Drain and Ack stops at the record just above upTo.
LEMMA FirstAboveValue ==
  ASSUME RingInv, NEW upTo \in Nat, upTo >= ackedUpTo
  PROVE  FirstAbove(upTo)
           = IF upTo < nextSeq THEN ackedCount + (upTo - ackedUpTo) + 1
                               ELSE Len(items) + 1
<1> DEFINE n == Len(items)
           v == IF upTo < nextSeq THEN ackedCount + (upTo - ackedUpTo) + 1
                                  ELSE n + 1
           Above(i) == /\ i <= n => items[i].seq > upTo
                       /\ \A j \in ackedCount + 1 .. i - 1 : items[j].seq <= upTo
<1>1. /\ n \in Nat /\ ackedCount \in 0 .. n
      /\ nextSeq \in Nat \ {0} /\ ackedUpTo \in Nat /\ evictedAcked \in Nat
      /\ \A i \in 1 .. n : items[i].seq = evictedAcked + i
      /\ evictedAcked + n = nextSeq - 1
      /\ evictedAcked + ackedCount = ackedUpTo
  BY ItemsFacts DEF RingInv, TypeOK, RecordsAccounted, Pending
<1> HIDE DEF n
<1>2. v \in ackedCount + 1 .. n + 1 /\ Above(v)
  BY <1>1
<1>3. ASSUME NEW i \in ackedCount + 1 .. n + 1, Above(i)
      PROVE  i = v
  <2>1. CASE i < v
    BY <1>1, <1>3, <2>1
  <2>2. CASE i > v
    BY <1>1, <1>3, <2>2
  <2>3. i \in Int /\ v \in Int
    BY <1>1
  <2> QED
    BY <2>1, <2>2, <2>3
<1>4. FirstAbove(upTo) = CHOOSE i \in ackedCount + 1 .. n + 1 : Above(i)
  BY DEF FirstAbove, n
<1>5. FirstAbove(upTo) = v
  <2> HIDE DEF v, Above
  <2> QED BY <1>2, <1>3, <1>4
<1> QED
  BY <1>5 DEF n

\* An acknowledgement newly covers as many records as it moves the watermark,
\* however many of the earlier ones were evicted.
LEMMA NewlyAckedValue ==
  ASSUME RingInv, NEW upTo \in Nat, upTo >= ackedUpTo, upTo < nextSeq
  PROVE  NewlyAcked(upTo) = upTo - ackedUpTo
<1>1. /\ ackedCount \in Nat /\ ackedUpTo \in Nat
  BY ItemsFacts DEF RingInv, TypeOK
<1>2. FirstAbove(upTo) = ackedCount + (upTo - ackedUpTo) + 1
  BY FirstAboveValue
<1> QED
  BY <1>1, <1>2 DEF NewlyAcked

-----------------------------------------------------------------------------
(* Facts about one step *)

\* Stored records always have a size.
LEMMA EntriesAreSized ==
  ASSUME NEW recs \in Seq(Entry)
  PROVE  Sized(recs)
<1>1. Len(recs) \in Nat /\ \A i \in 1 .. Len(recs) : recs[i] \in Entry
  BY LenProperties, ElementOfSeq
<1> QED
  BY <1>1 DEF Sized, Entry

\* Dropping the k oldest records keeps the others in order and takes exactly
\* their bytes off the total.
LEMMA EvictedItems ==
  ASSUME RingInv, NEW k \in 0 .. Len(items)
  PROVE  LET rest == AfterEvicting(k)
         IN  /\ rest \in Seq(Entry)
             /\ Len(rest) = Len(items) - k
             /\ \A i \in 1 .. Len(items) - k : rest[i] = items[k + i]
             /\ Sized(rest)
             /\ BytesOf(rest) = usedBytes - Cumulative(items)[k]
<1> DEFINE n == Len(items)
           rest == AfterEvicting(k)
<1>1. n \in Nat /\ \A i \in 1 .. n : items[i] \in Entry
  BY ItemsFacts
<1>2. k + 1 \in Int /\ n \in Int /\ \A i \in k + 1 .. n : items[i] \in Entry
  BY <1>1
<1>3. /\ rest \in Seq(Entry)
      /\ Len(rest) = IF k + 1 <= n THEN n - (k + 1) + 1 ELSE 0
      /\ \A i \in 1 .. n - (k + 1) + 1 : rest[i] = items[k + 1 + i - 1]
  <2> HIDE DEF n
  <2>1. rest = SubSeq(items, k + 1, n)
    BY DEF AfterEvicting, n
  <2> HIDE DEF rest
  <2>2. /\ SubSeq(items, k + 1, n) \in Seq(Entry)
        /\ Len(SubSeq(items, k + 1, n)) = IF k + 1 <= n THEN n - (k + 1) + 1 ELSE 0
        /\ \A i \in 1 .. n - (k + 1) + 1 : SubSeq(items, k + 1, n)[i] = items[k + 1 + i - 1]
    BY <1>2, SubSeqProperties
  <2> QED
    BY <2>1, <2>2
<1> HIDE DEF rest
<1>4. Len(rest) = n - k /\ \A i \in 1 .. n - k : rest[i] = items[k + i]
  BY <1>1, <1>3
<1>5. Sized(rest)
  BY <1>3, EntriesAreSized
<1> DEFINE len == n - k
<1>6. Cumulative(items)[k + len] = Cumulative(items)[k] + Cumulative(rest)[len]
  <2>1. /\ Sized(items) /\ k \in Nat /\ len \in Nat
        /\ k + len <= Len(items) /\ len <= Len(rest)
    BY <1>1, <1>4, ItemsFacts
  <2>2. \A i \in 1 .. len : rest[i].size = items[k + i].size
    BY <1>4
  <2> HIDE DEF len
  <2>3. \A i \in 0 .. len :
          Cumulative(items)[k + i] = Cumulative(items)[k] + Cumulative(rest)[i]
    <3>1. IsWindow(items, rest, k, len)
      BY <2>1, <2>2, <1>5 DEF IsWindow
    <3> QED
      BY <3>1, CumulativeOfWindow
  <2> QED
    BY <2>1, <2>3
<1>7. BytesOf(rest) = usedBytes - Cumulative(items)[k]
  <2> DEFINE ck == Cumulative(items)[k]
             cr == Cumulative(rest)[len]
  <2>1. k + len = n /\ len = Len(rest)
    BY <1>1, <1>4
  <2>2. Cumulative(items)[n] = usedBytes
    BY ItemsFacts
  <2>3. ck \in Nat
    BY ItemsFacts
  <2>4. cr \in Nat
    <3>1. Len(rest) \in 0 .. Len(rest)
      BY <1>5 DEF Sized
    <3>2. Cumulative(rest)[Len(rest)] \in Nat
      BY <3>1, <1>5, CumulativeUnfolds
    <3> QED
      BY <2>1, <3>2
  <2>5. usedBytes = ck + cr
    BY <1>6, <2>1, <2>2
  <2>6. BytesOf(rest) = cr
    BY <2>1 DEF BytesOf
  <2> HIDE DEF ck, cr
  <2>7. cr = usedBytes - ck
    BY <2>3, <2>4, <2>5
  <2> QED
    BY <2>6, <2>7 DEF ck
<1> QED
  BY <1>3, <1>4, <1>5, <1>7 DEF rest

\* Adding a numbered batch after any sized records adds exactly its bytes.
LEMMA AppendedItems ==
  ASSUME NEW rest \in Seq(Entry), Sized(rest), NEW recs \in Batches,
         nextSeq \in Nat \ {0}
  PROVE  LET all == rest \o Numbered(recs)
         IN  /\ all \in Seq(Entry)
             /\ Len(all) = Len(rest) + Len(recs)
             /\ \A i \in 1 .. Len(rest) : all[i] = rest[i]
             /\ \A i \in 1 .. Len(recs) :
                  all[Len(rest) + i] = [seq |-> nextSeq + i - 1, size |-> recs[i].size]
             /\ BytesOf(all) = BytesOf(rest) + BytesOf(recs)
<1> DEFINE r == Len(rest)
           m == Len(recs)
           new == Numbered(recs)
           all == rest \o new
<1>1. /\ m \in Nat \ {0} /\ Sized(recs) /\ BytesOf(recs) \in Nat
      /\ \A i \in 1 .. m : recs[i].size \in Nat \ {0}
  BY BatchFacts
<1>2. r \in Nat
  BY DEF Sized
<1>3. new = [i \in 1 .. m |-> [seq |-> nextSeq + i - 1, size |-> recs[i].size]]
  BY DEF Numbered
<1>4. \A i \in 1 .. m : [seq |-> nextSeq + i - 1, size |-> recs[i].size] \in Entry
  <2> TAKE i \in 1 .. m
  <2>1. nextSeq + i - 1 \in Nat \ {0} /\ recs[i].size \in Nat \ {0}
    BY <1>1
  <2> QED
    BY <2>1 DEF Entry
<1>5. new \in Seq(Entry) /\ Len(new) = m
  <2>1. new \in [1 .. m -> Entry]
    <3> HIDE DEF new, m
    <3> QED BY <1>3, <1>4
  <2> HIDE DEF new, m
  <2>2. m \in Nat
    BY <1>1
  <2>3. new \in Seq(Entry)
    BY <2>1, <2>2, SeqDef
  <2>4. DOMAIN new = 1 .. m /\ DOMAIN new = 1 .. Len(new) /\ Len(new) \in Nat
    BY <2>1, <2>3, LenProperties
  <2> QED
    BY <2>2, <2>3, <2>4
<1>6. /\ all \in Seq(Entry)
      /\ Len(all) = r + m
      /\ \A i \in 1 .. r + m : all[i] = IF i <= r THEN rest[i] ELSE new[i - r]
  <2> DEFINE cat == rest \o new
  <2> HIDE DEF new, r, m
  <2>1. /\ cat \in Seq(Entry)
        /\ Len(cat) = Len(rest) + Len(new)
        /\ \A i \in 1 .. Len(rest) + Len(new) :
             cat[i] = IF i <= Len(rest) THEN rest[i] ELSE new[i - Len(rest)]
    BY <1>5, ConcatProperties
  <2> HIDE DEF cat
  <2>2. Len(rest) = r /\ Len(new) = m
    BY <1>5 DEF r
  <2> QED
    BY <2>1, <2>2 DEF cat
<1> HIDE DEF r, m, all
<1>7. \A i \in 1 .. r : all[i] = rest[i]
  BY <1>1, <1>2, <1>6
<1>8. \A i \in 1 .. m :
        all[r + i] = [seq |-> nextSeq + i - 1, size |-> recs[i].size]
  <2> TAKE i \in 1 .. m
  <2>1. r + i \in 1 .. r + m /\ ~ (r + i <= r) /\ (r + i) - r = i
    BY <1>1, <1>2
  <2>2. all[r + i] = new[i]
    <3> HIDE DEF new
    <3> QED BY <1>6, <2>1
  <2> QED
    BY <1>3, <2>2
<1>9. Sized(all)
  BY <1>6, EntriesAreSized
<1>10. Cumulative(all)[r] = Cumulative(rest)[r]
  <2>1. 0 + r <= Len(all) /\ r <= Len(rest) /\ r \in Nat /\ 0 \in Nat
    BY <1>1, <1>2, <1>6 DEF r
  <2>2. \A i \in 1 .. r : rest[i].size = all[0 + i].size
    BY <1>7
  <2>3. \A i \in 0 .. r :
          Cumulative(all)[0 + i] = Cumulative(all)[0] + Cumulative(rest)[i]
    <3>1. IsWindow(all, rest, 0, r)
      BY <1>9, <2>1, <2>2 DEF IsWindow
    <3> QED
      BY <3>1, CumulativeOfWindow
  <2>4. Cumulative(all)[0] = 0 /\ Cumulative(rest)[r] \in Nat
    BY <1>2, <1>9, CumulativeUnfolds DEF r
  <2> QED
    BY <1>2, <2>3, <2>4
<1>11. Cumulative(all)[r + m] = Cumulative(all)[r] + Cumulative(recs)[m]
  <2>1. r + m <= Len(all) /\ m <= Len(recs) /\ m \in Nat
    BY <1>1, <1>2, <1>6 DEF m
  <2>2. \A i \in 1 .. m : recs[i].size = all[r + i].size
    <3> TAKE i \in 1 .. m
    <3>1. all[r + i] = [seq |-> nextSeq + i - 1, size |-> recs[i].size]
      BY <1>8
    <3> QED
      BY <3>1
  <2>3. \A i \in 0 .. m :
          Cumulative(all)[r + i] = Cumulative(all)[r] + Cumulative(recs)[i]
    <3>1. IsWindow(all, recs, r, m)
      BY <1>1, <1>2, <1>9, <2>1, <2>2 DEF IsWindow
    <3> QED
      BY <3>1, CumulativeOfWindow
  <2> QED
    BY <2>1, <2>3
<1>12. BytesOf(all) = BytesOf(rest) + BytesOf(recs)
  BY <1>6, <1>10, <1>11 DEF BytesOf, r, m
<1> QED
  BY <1>6, <1>7, <1>8, <1>12 DEF all, r, m

\* What a stored append leaves behind: it evicts k acknowledged records at
\* most, keeps the others, and puts the numbered batch behind them.
LEMMA AppendStoredEffect ==
  ASSUME RingInv, NEW recs \in Batches, AppendStored(recs)
  PROVE  \E k \in 0 .. ackedCount :
           /\ ackedCount' = ackedCount - k
           /\ evictedAcked' = evictedAcked + k
           /\ items' \in Seq(Entry)
           /\ Len(items') = Len(items) - k + Len(recs)
           /\ \A i \in 1 .. Len(items) - k : items'[i] = items[k + i]
           /\ \A i \in 1 .. Len(recs) :
                items'[Len(items) - k + i]
                  = [seq |-> nextSeq + i - 1, size |-> recs[i].size]
           /\ usedBytes' = BytesOf(items')
           /\ usedBytes' \in 0 .. CapacityBytes
           /\ \A j \in 0 .. k - 1 :
                Free + Cumulative(items)[j] < BytesOf(recs)
           /\ usedBytes' = usedBytes - Cumulative(items)[k] + BytesOf(recs)
<1> DEFINE needed == BytesOf(recs)
           k == Evictions(needed)
           rest == AfterEvicting(k)
           n == Len(items)
<1>1. /\ k \in 0 .. ackedCount
      /\ Free + Cumulative(items)[k] >= needed
      /\ \A j \in 0 .. k - 1 : Free + Cumulative(items)[j] < needed
  BY EvictionStopsInAcked DEF AppendStored
<1>2. /\ items' = rest \o Numbered(recs)
      /\ ackedCount' = ackedCount - k
      /\ evictedAcked' = evictedAcked + k
      /\ usedBytes' = usedBytes - Cumulative(items)[k] + needed
  BY DEF AppendStored, EvictedBytes
<1> HIDE DEF needed, k
<1>3. /\ n \in Nat /\ ackedCount \in 0 .. n /\ k \in 0 .. n
      /\ Cumulative(items)[k] \in Nat
  BY <1>1, ItemsFacts
<1>4. /\ rest \in Seq(Entry)
      /\ Len(rest) = n - k
      /\ \A i \in 1 .. n - k : rest[i] = items[k + i]
      /\ Sized(rest)
      /\ BytesOf(rest) = usedBytes - Cumulative(items)[k]
  BY <1>3, EvictedItems
<1> HIDE DEF rest
<1>5. nextSeq \in Nat \ {0} /\ usedBytes \in 0 .. CapacityBytes
  BY DEF RingInv, TypeOK
<1>6. /\ items' \in Seq(Entry)
      /\ Len(items') = Len(rest) + Len(recs)
      /\ \A i \in 1 .. Len(rest) : items'[i] = rest[i]
      /\ \A i \in 1 .. Len(recs) :
           items'[Len(rest) + i] = [seq |-> nextSeq + i - 1, size |-> recs[i].size]
      /\ BytesOf(items') = BytesOf(rest) + needed
  BY <1>2, <1>4, <1>5, AppendedItems DEF needed
<1>7. needed \in Nat /\ CapacityBytes \in Nat
  BY BatchFacts, CapacityAssumption DEF needed
<1>8. usedBytes' = BytesOf(items')
  BY <1>2, <1>3, <1>4, <1>5, <1>6, <1>7
<1>9. usedBytes' \in 0 .. CapacityBytes
  <2>1. Cumulative(items)[k] <= usedBytes
    <3>1. k <= n /\ k \in 0 .. n /\ n \in 0 .. n
      BY <1>3
    <3>2. Cumulative(items)[k] <= Cumulative(items)[n]
      BY <3>1, ItemsFacts, CumulativeMonotone
    <3> QED
      BY <3>2, ItemsFacts
  <2>2. CapacityBytes - usedBytes + Cumulative(items)[k] >= needed
    BY <1>1 DEF Free
  <2> DEFINE ck == Cumulative(items)[k]
  <2>3. ck \in Nat /\ needed \in Nat /\ CapacityBytes \in Nat /\ usedBytes \in Nat
    BY <1>3, <1>5, <1>7
  <2>4. usedBytes' = usedBytes - ck + needed
    BY <1>2
  <2> HIDE DEF ck
  <2>5. usedBytes - ck + needed \in 0 .. CapacityBytes
    BY <2>1, <2>2, <2>3 DEF ck
  <2> QED
    BY <2>4, <2>5
<1>10. \A i \in 1 .. n - k : items'[i] = items[k + i]
  BY <1>4, <1>6
<1>11. \A i \in 1 .. Len(recs) :
         items'[n - k + i] = [seq |-> nextSeq + i - 1, size |-> recs[i].size]
  BY <1>4, <1>6
<1>12. Len(items') = n - k + Len(recs)
  BY <1>4, <1>6
<1> QED
  BY <1>1, <1>2, <1>6, <1>8, <1>9, <1>10, <1>11, <1>12 DEF needed

\* Storing a batch keeps the invariant.
LEMMA AppendStoredKeepsInv ==
  ASSUME RingInv, NEW recs \in Batches, AppendStored(recs)
  PROVE  RingInv'
<1>1. PICK k \in 0 .. ackedCount :
           /\ ackedCount' = ackedCount - k
           /\ evictedAcked' = evictedAcked + k
           /\ items' \in Seq(Entry)
           /\ Len(items') = Len(items) - k + Len(recs)
           /\ \A i \in 1 .. Len(items) - k : items'[i] = items[k + i]
           /\ \A i \in 1 .. Len(recs) :
                items'[Len(items) - k + i]
                  = [seq |-> nextSeq + i - 1, size |-> recs[i].size]
           /\ usedBytes' = BytesOf(items')
           /\ usedBytes' \in 0 .. CapacityBytes
  BY AppendStoredEffect
<1> DEFINE n == Len(items)
           m == Len(recs)
<1>2. /\ n \in Nat /\ ackedCount \in 0 .. n
      /\ m \in Nat \ {0} /\ BytesOf(recs) \in Nat
  BY ItemsFacts, BatchFacts
<1>3. /\ nextSeq' = nextSeq + m
      /\ totalIngestedCount' = totalIngestedCount + m
      /\ totalIngestedBytes' = totalIngestedBytes + BytesOf(recs)
      /\ epoch' = epoch /\ ackedUpTo' = ackedUpTo /\ backpressure' = backpressure
  BY DEF AppendStored
<1>4. /\ epoch \in Nat /\ nextSeq \in Nat \ {0} /\ ackedUpTo \in Nat
      /\ totalIngestedCount \in Nat /\ totalIngestedBytes \in Nat
      /\ evictedAcked \in Nat /\ backpressure \in Nat
  BY DEF RingInv, TypeOK
<1>5. /\ totalIngestedCount = nextSeq - 1
      /\ totalIngestedCount = evictedAcked + n
      /\ \A i \in 1 .. n : items[i].seq = evictedAcked + i
      /\ n - ackedCount = nextSeq - 1 - ackedUpTo
  BY DEF RingInv, RecordsAccounted, Pending
<1>6. Len(items') = n - k + m
  BY <1>1
<1>7. k \in Nat /\ k <= ackedCount /\ k <= n /\ n - k \in Nat
  BY <1>1, <1>2
<1>8. \A i \in 1 .. n - k : items'[i] = items[k + i]
  BY <1>1
<1>9. \A i \in 1 .. m : items'[n - k + i].seq = nextSeq + i - 1
  <2> TAKE i \in 1 .. m
  <2>1. items'[n - k + i] = [seq |-> nextSeq + i - 1, size |-> recs[i].size]
    BY <1>1
  <2> QED
    BY <2>1
<1>10. ackedCount' = ackedCount - k /\ evictedAcked' = evictedAcked + k
  BY <1>1
<1> HIDE DEF n, m
<1>11. TypeOK'
  <2>1. ackedCount' \in 0 .. Len(items')
    BY <1>1, <1>2, <1>6
  <2>2. nextSeq' \in Nat \ {0} /\ totalIngestedCount' \in Nat
    BY <1>2, <1>3, <1>4
  <2>3. totalIngestedBytes' \in Nat /\ evictedAcked' \in Nat
    BY <1>7, <1>10, <1>2, <1>3, <1>4
  <2> QED
    BY <1>1, <1>3, <1>4, <2>1, <2>2, <2>3 DEF TypeOK, Entry
<1>12. RecordsAccounted'
  <2>1. totalIngestedCount' = nextSeq' - 1
    BY <1>2, <1>3, <1>4, <1>5
  <2>2. totalIngestedCount' = evictedAcked' + Len(items')
    <3>1. totalIngestedCount = evictedAcked + n
      BY <1>5
    <3>2. totalIngestedCount + m = (evictedAcked + k) + (n - k + m)
      BY <3>1, <1>2, <1>4, <1>7
    <3> QED
      BY <3>2, <1>3, <1>6, <1>10
  <2>3. ASSUME NEW i \in 1 .. Len(items')
        PROVE  items'[i].seq = evictedAcked' + i
    <3>1. CASE i <= n - k
      <4>1. i \in 1 .. n - k /\ k + i \in 1 .. n
        BY <1>2, <1>7, <1>6, <2>3, <3>1
      <4>2. items'[i] = items[k + i] /\ items[k + i].seq = evictedAcked + (k + i)
        BY <1>5, <1>8, <4>1
      <4>3. items'[i].seq = (evictedAcked + k) + i
        BY <1>4, <1>7, <4>1, <4>2
      <4> QED
        BY <1>10, <4>3
    <3>2. CASE i > n - k
      <4> DEFINE j == i - (n - k)
      <4>1. j \in 1 .. m /\ n - k + j = i
        BY <1>2, <1>7, <1>6, <2>3, <3>2
      <4>2. items'[n - k + j].seq = nextSeq + j - 1
        <5> HIDE DEF j
        <5> QED BY <1>9, <4>1
      <4>3. nextSeq = evictedAcked + n + 1
        BY <1>4, <1>5
      <4>4. nextSeq + j - 1 = (evictedAcked + k) + i
        BY <4>3, <1>2, <1>4, <1>7
      <4> QED
        BY <1>10, <4>1, <4>2, <4>4
    <3> QED
      BY <1>2, <1>7, <1>6, <2>3, <3>1, <3>2
  <2>4. Len(items') - ackedCount' = nextSeq' - 1 - ackedUpTo'
    <3>1. n - ackedCount = nextSeq - 1 - ackedUpTo
      BY <1>5
    <3>2. (n - k + m) - (ackedCount - k) = (nextSeq + m) - 1 - ackedUpTo
      BY <3>1, <1>2, <1>4, <1>7
    <3>3. ackedUpTo' = ackedUpTo /\ nextSeq' = nextSeq + m
      BY <1>3
    <3> QED
      BY <3>2, <3>3, <1>6, <1>10
  <2> QED
    BY <2>1, <2>2, <2>3, <2>4 DEF RecordsAccounted, Pending
<1>13. BytesExact'
  BY <1>1 DEF BytesExact
<1> QED
  BY <1>11, <1>12, <1>13 DEF RingInv

\* A refusal only counts.
LEMMA AppendRefusedKeepsInv ==
  ASSUME RingInv, NEW recs \in Batches, AppendRefused(recs)
  PROVE  RingInv'
<1>1. backpressure' \in Nat
  BY DEF AppendRefused, RingInv, TypeOK
<1> QED
  BY <1>1 DEF AppendRefused, RingInv, TypeOK, RecordsAccounted, Pending, BytesExact

\* An acknowledgement moves both the watermark and the count by as much.
LEMMA AckKeepsInv ==
  ASSUME RingInv, NEW e, NEW upTo \in Nat, Ack(e, upTo)
  PROVE  /\ RingInv'
         /\ ackedCount' = ackedCount + (upTo - ackedUpTo)
<1>1. /\ upTo < nextSeq /\ upTo > ackedUpTo
      /\ ackedCount' = ackedCount + NewlyAcked(upTo)
      /\ ackedUpTo' = upTo
      /\ UNCHANGED << epoch, items, nextSeq, usedBytes, totalIngestedCount,
                      totalIngestedBytes, evictedAcked, backpressure >>
  <2>1. AckStatus(e, upTo) = "new" /\ ackedUpTo \in Nat /\ nextSeq \in Nat
    BY DEF Ack, RingInv, TypeOK
  <2>2. upTo < nextSeq /\ upTo > ackedUpTo
    BY <2>1 DEF AckStatus
  <2> QED
    BY <2>2 DEF Ack
<1>2. /\ Len(items) \in Nat /\ ackedCount \in 0 .. Len(items)
      /\ nextSeq \in Nat \ {0} /\ ackedUpTo \in Nat
      /\ Len(items) - ackedCount = nextSeq - 1 - ackedUpTo
  BY ItemsFacts DEF RingInv, TypeOK, RecordsAccounted, Pending
<1>3. NewlyAcked(upTo) = upTo - ackedUpTo
  BY <1>1, <1>2, NewlyAckedValue
<1>4. ackedCount' \in 0 .. Len(items) /\ ackedUpTo' \in Nat
  BY <1>1, <1>2, <1>3
<1>5. TypeOK'
  BY <1>1, <1>4 DEF RingInv, TypeOK
<1>6. Len(items) - ackedCount' = nextSeq - 1 - ackedUpTo'
  BY <1>1, <1>2, <1>3
<1>7. RecordsAccounted'
  BY <1>1, <1>6 DEF RingInv, RecordsAccounted, Pending
<1>8. BytesExact'
  BY <1>1 DEF RingInv, BytesExact
<1> QED
  BY <1>1, <1>3, <1>5, <1>7, <1>8 DEF RingInv

\* EvictAcked removes the acknowledged prefix.
LEMMA EvictAckedKeepsInv ==
  ASSUME RingInv, EvictAcked
  PROVE  /\ RingInv'
         /\ Len(items') = Len(items) - ackedCount
         /\ \A i \in 1 .. Len(items) - ackedCount : items'[i] = items[ackedCount + i]
<1>1. /\ items' = AfterEvicting(ackedCount)
      /\ usedBytes' = usedBytes - Cumulative(items)[ackedCount]
      /\ evictedAcked' = evictedAcked + ackedCount
      /\ ackedCount' = 0
      /\ UNCHANGED << epoch, nextSeq, ackedUpTo, totalIngestedCount,
                      totalIngestedBytes, backpressure >>
  BY DEF EvictAcked, EvictedBytes
<1>2. /\ Len(items) \in Nat /\ ackedCount \in 0 .. Len(items)
      /\ Cumulative(items)[ackedCount] \in Nat
      /\ Cumulative(items)[ackedCount] <= usedBytes
  BY ItemsFacts
<1>3. /\ items' \in Seq(Entry)
      /\ Len(items') = Len(items) - ackedCount
      /\ \A i \in 1 .. Len(items) - ackedCount : items'[i] = items[ackedCount + i]
      /\ BytesOf(items') = usedBytes - Cumulative(items)[ackedCount]
  BY <1>1, <1>2, EvictedItems
<1>4. TypeOK'
  <2>1. usedBytes' \in 0 .. CapacityBytes
    BY <1>1, <1>2, CapacityAssumption DEF RingInv, TypeOK
  <2>2. evictedAcked' \in Nat
    BY <1>1, <1>2 DEF RingInv, TypeOK
  <2>3. ackedCount' \in 0 .. Len(items')
    BY <1>1, <1>2, <1>3
  <2> QED
    BY <1>1, <1>3, <2>1, <2>2, <2>3 DEF RingInv, TypeOK, Entry
<1>5. RecordsAccounted'
  <2>1. /\ totalIngestedCount = nextSeq - 1
        /\ totalIngestedCount = evictedAcked + Len(items)
        /\ \A i \in 1 .. Len(items) : items[i].seq = evictedAcked + i
        /\ Len(items) - ackedCount = nextSeq - 1 - ackedUpTo
        /\ evictedAcked \in Nat
    BY DEF RingInv, RecordsAccounted, Pending, TypeOK
  <2>2. totalIngestedCount' = evictedAcked' + Len(items')
    BY <1>1, <1>2, <1>3, <2>1
  <2>3. \A i \in 1 .. Len(items') : items'[i].seq = evictedAcked' + i
    <3> TAKE i \in 1 .. Len(items')
    <3>1. i \in 1 .. Len(items) - ackedCount /\ ackedCount + i \in 1 .. Len(items)
      BY <1>2, <1>3
    <3>2. items'[i].seq = evictedAcked + (ackedCount + i)
      BY <1>3, <2>1, <3>1
    <3>3. evictedAcked' = evictedAcked + ackedCount
      BY <1>1
    <3> QED
      BY <1>2, <2>1, <3>1, <3>2, <3>3
  <2>4. Len(items') - ackedCount' = nextSeq' - 1 - ackedUpTo'
    BY <1>1, <1>2, <1>3, <2>1
  <2> QED
    BY <1>1, <2>1, <2>2, <2>3, <2>4 DEF RecordsAccounted, Pending
<1>6. BytesExact'
  BY <1>1, <1>3 DEF BytesExact
<1> QED
  BY <1>3, <1>4, <1>5, <1>6 DEF RingInv

\* An empty buffer is charged nothing.
LEMMA EmptyHasNoBytes == BytesOf(<< >>) = 0
<1>1. Sized(<< >>) /\ Len(<< >>) = 0
  BY DEF Sized
<1> QED
  BY <1>1, CumulativeUnfolds DEF BytesOf

\* The steps of RingNext, one by one, keep the invariant.
LEMMA StepKeepsInv ==
  ASSUME RingInv, [RingNext]_ringVars
  PROVE  RingInv'
<1>1. ASSUME NEW recs \in Batches, AppendStored(recs) PROVE RingInv'
  BY <1>1, AppendStoredKeepsInv
<1>2. ASSUME NEW recs \in Batches, AppendRefused(recs) PROVE RingInv'
  BY <1>2, AppendRefusedKeepsInv
<1>3. ASSUME NEW e \in 1 .. MaxEpoch, NEW upTo \in 0 .. MaxSeq + 1, Ack(e, upTo)
      PROVE  RingInv'
  BY <1>3, AckKeepsInv, BoundsAssumption
<1>4. ASSUME EvictAcked PROVE RingInv'
  BY <1>4, EvictAckedKeepsInv
<1>5. ASSUME Restart PROVE RingInv'
  <2>1. /\ epoch' = epoch + 1 /\ items' = << >> /\ nextSeq' = 1 /\ ackedUpTo' = 0
        /\ ackedCount' = 0 /\ usedBytes' = 0 /\ totalIngestedCount' = 0
        /\ totalIngestedBytes' = 0 /\ evictedAcked' = 0 /\ backpressure' = 0
    BY <1>5 DEF Restart
  <2>2. TypeOK'
    BY <2>1, CapacityAssumption DEF TypeOK, RingInv
  <2>3. RecordsAccounted'
    BY <2>1 DEF RecordsAccounted, Pending
  <2>4. BytesExact'
    BY <2>1, EmptyHasNoBytes DEF BytesExact
  <2> QED
    BY <2>2, <2>3, <2>4 DEF RingInv
<1>6. CASE UNCHANGED ringVars
  BY <1>6 DEF ringVars, RingInv, TypeOK, RecordsAccounted, Pending, BytesExact
<1> QED
  BY <1>1, <1>2, <1>3, <1>4, <1>5, <1>6 DEF RingNext

\* A new buffer satisfies the invariant.
LEMMA InitHasInv ==
  ASSUME RingInit PROVE RingInv
<1>1. TypeOK
  BY CapacityAssumption DEF RingInit, TypeOK
<1>2. RecordsAccounted
  BY DEF RingInit, RecordsAccounted, Pending
<1>3. BytesExact
  BY EmptyHasNoBytes DEF RingInit, BytesExact
<1> QED
  BY <1>1, <1>2, <1>3 DEF RingInv

\* The inductive invariant holds in every reachable state.
THEOREM RingInvariance == RingSpec => []RingInv
<1>1. RingInit => RingInv
  BY InitHasInv
<1>2. RingInv /\ [RingNext]_ringVars => RingInv'
  BY StepKeepsInv
<1> QED
  BY <1>1, <1>2, PTL DEF RingSpec

\* Type correctness, which includes that the buffer never holds more bytes than
\* its capacity and never counts more acknowledged records than it retains.
THEOREM TypeCorrect == RingSpec => []TypeOK
<1>1. RingInv => TypeOK
  BY DEF RingInv
<1> QED
  BY <1>1, RingInvariance, PTL

\* The counters Stats reports always account for every record stored.
THEOREM RecordsAlwaysAccounted == RingSpec => []RecordsAccounted
<1>1. RingInv => RecordsAccounted
  BY DEF RingInv
<1> QED
  BY <1>1, RingInvariance, PTL

\* usedBytes is always the exact sum of the retained sizes.
THEOREM BytesAlwaysExact == RingSpec => []BytesExact
<1>1. RingInv => BytesExact
  BY DEF RingInv
<1> QED
  BY <1>1, RingInvariance, PTL

\* Consecutive numbers and the count of pending records fix where the watermark
\* cuts the buffer.
LEMMA InvSplitsItems ==
  ASSUME RingInv PROVE WatermarkSplitsItems
<1>1. /\ Len(items) \in Nat /\ ackedCount \in 0 .. Len(items)
      /\ ackedUpTo \in Nat /\ evictedAcked \in Nat /\ nextSeq \in Nat
      /\ evictedAcked + ackedCount = ackedUpTo
      /\ \A i \in 1 .. Len(items) : items[i].seq = evictedAcked + i
  BY ItemsFacts DEF RingInv, TypeOK, RecordsAccounted, Pending
<1> QED
  BY <1>1 DEF WatermarkSplitsItems

\* The watermark and the count of acknowledged records always agree on which
\* records are acknowledged.
THEOREM WatermarkAlwaysSplits == RingSpec => []WatermarkSplitsItems
<1> QED
  BY InvSplitsItems, RingInvariance, PTL

-----------------------------------------------------------------------------
(* What a step may never do *)

\* One step of a live process keeps every unacknowledged record.
LEMMA StepKeepsUnacked ==
  ASSUME RingInv, [RingNext]_ringVars, epoch' = epoch,
         NEW i \in ackedCount + 1 .. Len(items)
  PROVE  \E j \in 1 .. Len(items') : items'[j] = items[i]
<1>1. Len(items) \in Nat /\ ackedCount \in 0 .. Len(items)
  BY ItemsFacts
<1>2. ASSUME NEW recs \in Batches, AppendStored(recs)
      PROVE  \E j \in 1 .. Len(items') : items'[j] = items[i]
  <2>1. PICK k \in 0 .. ackedCount :
          /\ Len(items') = Len(items) - k + Len(recs)
          /\ \A j \in 1 .. Len(items) - k : items'[j] = items[k + j]
    BY <1>2, AppendStoredEffect
  <2>2. Len(recs) \in Nat
    BY BatchFacts
  <2>3. /\ i - k \in 1 .. Len(items) - k
        /\ i - k \in 1 .. Len(items')
        /\ k + (i - k) = i
    BY <1>1, <2>1, <2>2
  <2> QED
    BY <2>1, <2>3
<1>3. ASSUME EvictAcked
      PROVE  \E j \in 1 .. Len(items') : items'[j] = items[i]
  <2>1. /\ Len(items') = Len(items) - ackedCount
        /\ \A j \in 1 .. Len(items) - ackedCount : items'[j] = items[ackedCount + j]
    BY <1>3, EvictAckedKeepsInv
  <2>2. i - ackedCount \in 1 .. Len(items') /\ ackedCount + (i - ackedCount) = i
    BY <1>1, <2>1
  <2> QED
    BY <2>1, <2>2
<1>4. ASSUME items' = items
      PROVE  \E j \in 1 .. Len(items') : items'[j] = items[i]
  BY <1>1, <1>4
<1>5. ASSUME Restart PROVE FALSE
  BY <1>5 DEF Restart, RingInv, TypeOK
<1>6. \/ \E recs \in Batches : AppendStored(recs)
      \/ EvictAcked
      \/ items' = items
      \/ Restart
  BY DEF RingNext, AppendRefused, Ack, AckStatus, ringVars
<1> QED
  BY <1>2, <1>3, <1>4, <1>5, <1>6

\* The buffer never loses an unacknowledged record while the process lives.
THEOREM NeverDropsUnackedHolds == RingSpec => NeverDropsUnacked
<1>1. RingInv /\ [RingNext]_ringVars
        => [epoch' = epoch =>
              \A i \in ackedCount + 1 .. Len(items) :
                \E j \in 1 .. Len(items') : items'[j] = items[i]]_ringVars
  BY StepKeepsUnacked
<1> QED
  BY <1>1, RingInvariance, PTL DEF RingSpec, NeverDropsUnacked

\* An append that evicts would not have fitted with the last evicted record
\* kept: acknowledged records stay readable until their space is needed.
THEOREM EvictsOnlyWhenNeededHolds == RingSpec => EvictsOnlyWhenNeeded
<1>1. ASSUME RingInv, [RingNext]_ringVars, nextSeq' > nextSeq, evictedAcked' > evictedAcked
      PROVE  usedBytes' + items[evictedAcked' - evictedAcked].size > CapacityBytes
  <2>1. PICK recs \in Batches : AppendStored(recs)
    <3>1. nextSeq \in Nat \ {0} /\ evictedAcked \in Nat
      BY <1>1 DEF RingInv, TypeOK
    <3> QED
      BY <1>1, <3>1 DEF RingNext, AppendRefused, Ack, AckStatus, EvictAcked, Restart, ringVars
  <2>2. PICK k \in 0 .. ackedCount :
          /\ evictedAcked' = evictedAcked + k
          /\ \A j \in 0 .. k - 1 : Free + Cumulative(items)[j] < BytesOf(recs)
          /\ usedBytes' = usedBytes - Cumulative(items)[k] + BytesOf(recs)
    BY <1>1, <2>1, AppendStoredEffect
  <2>3. /\ ackedCount \in 0 .. Len(items) /\ Len(items) \in Nat
        /\ evictedAcked \in Nat
    BY <1>1, ItemsFacts DEF RingInv, TypeOK
  <2>4. k \in 1 .. Len(items) /\ evictedAcked' - evictedAcked = k
    BY <1>1, <2>2, <2>3
  <2>5. /\ Cumulative(items)[k] = Cumulative(items)[k - 1] + items[k].size
        /\ Cumulative(items)[k - 1] \in Nat
        /\ items[k].size \in Nat
    <3>1. Sized(items)
      BY <1>1, ItemsFacts
    <3>2. k - 1 \in 0 .. Len(items)
      BY <2>3, <2>4
    <3>3. items[k] \in Entry
      BY <1>1, <2>4, ItemsFacts
    <3> QED
      BY <2>4, <3>1, <3>2, <3>3, CumulativeUnfolds DEF Entry
  <2>6. Free + Cumulative(items)[k - 1] < BytesOf(recs)
    <3>1. k - 1 \in 0 .. k - 1
      BY <2>4
    <3> QED
      BY <2>2, <3>1
  <2>7. BytesOf(recs) \in Nat /\ usedBytes \in Nat /\ CapacityBytes \in Nat
    BY <1>1, BatchFacts, CapacityAssumption DEF RingInv, TypeOK
  <2> DEFINE c == Cumulative(items)[k - 1]
             sz == items[k].size
             needed == BytesOf(recs)
  <2>8. CapacityBytes - usedBytes + c < needed
    BY <2>6 DEF Free
  <2>9. usedBytes' = usedBytes - (c + sz) + needed
    BY <2>2, <2>5
  <2>10. c \in Nat /\ sz \in Nat /\ needed \in Nat
    BY <2>5, <2>7
  <2> HIDE DEF c, sz, needed
  <2>11. usedBytes' + sz > CapacityBytes
    BY <2>7, <2>8, <2>9, <2>10
  <2> QED
    BY <2>4, <2>11 DEF sz
<1>2. RingInv /\ [RingNext]_ringVars
        => [(nextSeq' > nextSeq /\ evictedAcked' > evictedAcked) =>
              usedBytes' + items[evictedAcked' - evictedAcked].size
                > CapacityBytes]_ringVars
  BY <1>1
<1> QED
  BY <1>2, RingInvariance, PTL DEF RingSpec, EvictsOnlyWhenNeeded

\* Back-pressure is exact for every batch in every reachable state: a batch is
\* refused if and only if it does not fit beside the unacknowledged records.
THEOREM BackpressureAlwaysExact == RingSpec => []BackpressureExact
<1>1. ASSUME RingInv, NEW recs \in Batches
      PROVE  TooLarge(recs) \/ Full(recs)
               <=> BytesOf(recs) + BytesOf(Unacked) > CapacityBytes
  <2> DEFINE c == Cumulative(items)[ackedCount]
             needed == BytesOf(recs)
             unacked == BytesOf(Unacked)
  <2>1. needed \in Nat /\ CapacityBytes \in Nat
    BY BatchFacts, CapacityAssumption
  <2>2. c \in Nat /\ usedBytes \in Nat /\ ackedCount \in 0 .. Len(items) /\ c <= usedBytes
    <3>1. usedBytes \in Nat
      BY <1>1, <2>1 DEF RingInv, TypeOK
    <3> QED
      BY <1>1, <3>1, ItemsFacts
  <2>3. unacked = usedBytes - c
    BY <1>1, <2>2, EvictedItems DEF Unacked, AfterEvicting
  <2>4. TooLarge(recs) <=> needed > CapacityBytes
    BY DEF TooLarge
  <2>5. Full(recs) <=> needed > CapacityBytes - usedBytes + c
    BY DEF Full, Free, Reclaimable
  <2> HIDE DEF c, needed, unacked
  <2>6. (needed > CapacityBytes \/ needed > CapacityBytes - usedBytes + c)
           <=> needed + unacked > CapacityBytes
    BY <2>1, <2>2, <2>3
  <2> QED
    BY <2>4, <2>5, <2>6 DEF needed, unacked
<1>2. RingInv => BackpressureExact
  BY <1>1 DEF BackpressureExact
<1> QED
  BY <1>2, RingInvariance, PTL

-----------------------------------------------------------------------------
(* The buffer implements ChunkLog *)

\* In terms of the log, what is readable is one interval of numbers that ends
\* with the last number issued.
LEMMA ReadableIsInterval ==
  ASSUME RingInv
  PROVE  {items[i].seq : i \in 1 .. Len(items)} = evictedAcked + 1 .. nextSeq - 1
<1>1. /\ Len(items) \in Nat /\ evictedAcked \in Nat /\ nextSeq \in Nat
      /\ evictedAcked + Len(items) = nextSeq - 1
      /\ \A i \in 1 .. Len(items) : items[i].seq = evictedAcked + i
  BY ItemsFacts DEF RingInv, TypeOK, RecordsAccounted
<1>2. ASSUME NEW s \in evictedAcked + 1 .. nextSeq - 1
      PROVE  \E i \in 1 .. Len(items) : items[i].seq = s
  <2>1. s - evictedAcked \in 1 .. Len(items) /\ evictedAcked + (s - evictedAcked) = s
    BY <1>1
  <2> QED
    BY <1>1, <2>1
<1>3. \A i \in 1 .. Len(items) : items[i].seq \in evictedAcked + 1 .. nextSeq - 1
  BY <1>1
<1> QED
  BY <1>2, <1>3

\* The counters of one state, without the records.
LEMMA CounterFacts ==
  ASSUME RingInv
  PROVE  /\ evictedAcked \in Nat /\ nextSeq \in Nat \ {0} /\ ackedUpTo \in Nat
         /\ ackedCount \in Nat /\ evictedAcked + ackedCount = ackedUpTo
         /\ ackedUpTo <= nextSeq - 1
<1>1. /\ evictedAcked \in Nat /\ nextSeq \in Nat \ {0} /\ ackedUpTo \in Nat
      /\ evictedAcked + Len(items) = nextSeq - 1
      /\ Len(items) - ackedCount = nextSeq - 1 - ackedUpTo
  BY DEF RingInv, TypeOK, RecordsAccounted, Pending
<1>2. Len(items) \in Nat /\ ackedCount \in 0 .. Len(items)
  BY ItemsFacts
<1> QED
  BY <1>1, <1>2

\* Both facts hold after a step whenever the invariant does.
LEMMA FactsAfterStep ==
  RingInv' => /\ {items'[i].seq : i \in 1 .. Len(items')}
                   = evictedAcked' + 1 .. nextSeq' - 1
              /\ evictedAcked' \in Nat /\ nextSeq' \in Nat \ {0} /\ ackedUpTo' \in Nat
              /\ ackedCount' \in Nat /\ evictedAcked' + ackedCount' = ackedUpTo'
              /\ ackedUpTo' <= nextSeq' - 1
<1> DEFINE Facts == /\ {items[i].seq : i \in 1 .. Len(items)}
                         = evictedAcked + 1 .. nextSeq - 1
                    /\ evictedAcked \in Nat /\ nextSeq \in Nat \ {0} /\ ackedUpTo \in Nat
                    /\ ackedCount \in Nat /\ evictedAcked + ackedCount = ackedUpTo
                    /\ ackedUpTo <= nextSeq - 1
<1>1. RingInv => Facts
  BY CounterFacts, ReadableIsInterval
<1>2. RingInv' => Facts'
  <2> HIDE DEF Facts
  <2> QED BY <1>1, PTL
<1> QED
  BY <1>2

\* Every step of the buffer is a step of the log or leaves the log as it was.
LEMMA StepImplementsLog ==
  ASSUME RingInv, RingInv', [RingNext]_ringVars
  PROVE  [Log!LogNext]_(Log!logVars)
<1> DEFINE readable == {items[i].seq : i \in 1 .. Len(items)}
<1>1. readable = evictedAcked + 1 .. nextSeq - 1
  BY ReadableIsInterval
<1>2. readable' = evictedAcked' + 1 .. nextSeq' - 1
  BY FactsAfterStep
<1>3. /\ evictedAcked \in Nat /\ nextSeq \in Nat \ {0} /\ ackedUpTo \in Nat
      /\ ackedCount \in Nat /\ evictedAcked + ackedCount = ackedUpTo
      /\ ackedUpTo <= nextSeq - 1
  BY CounterFacts
<1>4. /\ evictedAcked' \in Nat /\ nextSeq' \in Nat \ {0} /\ ackedUpTo' \in Nat
      /\ evictedAcked' <= ackedUpTo' /\ ackedUpTo' <= nextSeq' - 1
  BY FactsAfterStep
<1> HIDE DEF readable
<1>5. evictedAcked' >= evictedAcked
        => readable' \subseteq readable \cup (nextSeq - 1 + 1 .. nextSeq' - 1)
  <2> DEFINE lo == evictedAcked
             lo2 == evictedAcked'
             hi == nextSeq
             hi2 == nextSeq'
  <2>1. lo \in Nat /\ lo2 \in Nat /\ hi \in Nat /\ hi2 \in Nat
    BY <1>3, <1>4
  <2>2. readable = lo + 1 .. hi - 1 /\ readable' = lo2 + 1 .. hi2 - 1
    BY <1>1, <1>2
  <2> HIDE DEF lo, lo2, hi, hi2
  <2>3. lo2 >= lo => readable' \subseteq readable \cup (hi - 1 + 1 .. hi2 - 1)
    BY <2>1, <2>2
  <2> QED
    BY <2>3 DEF lo, lo2, hi, hi2
<1>6. ackedUpTo' + 1 .. nextSeq' - 1 \subseteq readable'
  <2> DEFINE lo == evictedAcked'
             mid == ackedUpTo'
             hi == nextSeq'
  <2>1. lo \in Nat /\ mid \in Nat /\ hi \in Nat /\ lo <= mid
    BY <1>4
  <2>2. readable' = lo + 1 .. hi - 1
    BY <1>2
  <2> HIDE DEF lo, mid, hi
  <2>3. mid + 1 .. hi - 1 \subseteq readable'
    BY <2>1, <2>2
  <2> QED
    BY <2>3 DEF mid, hi
<1>7. ASSUME NEW recs \in Batches, AppendStored(recs) PROVE Log!LogNext
  <2> DEFINE m == Len(recs)
  <2>0. m \in Nat \ {0} /\ nextSeq' = nextSeq + m
    BY <1>7, BatchFacts DEF AppendStored
  <2> HIDE DEF m
  <2>1. /\ nextSeq' > nextSeq /\ epoch' = epoch /\ ackedUpTo' = ackedUpTo
    BY <1>3, <1>7, <2>0 DEF AppendStored
  <2>2. evictedAcked' >= evictedAcked
    <3>1. PICK k \in 0 .. ackedCount : evictedAcked' = evictedAcked + k
      BY <1>7, AppendStoredEffect
    <3> QED
      BY <1>3, <3>1
  <2>3. nextSeq' - 1 \in Nat /\ nextSeq' - 1 > nextSeq - 1
    BY <1>3, <2>0
  <2>4. readable' \subseteq readable \cup (nextSeq - 1 + 1 .. nextSeq' - 1)
    BY <1>5, <2>2
  <2> QED
    BY <1>6, <2>1, <2>3, <2>4 DEF Log!LogNext, Log!Accept, Log!Unconfirmed, readable
<1>8. ASSUME NEW e, NEW upTo \in Nat, Ack(e, upTo) PROVE Log!LogNext
  <2>1. /\ ackedUpTo' \in ackedUpTo + 1 .. nextSeq - 1
        /\ UNCHANGED << epoch, items, nextSeq >>
    BY <1>3, <1>8 DEF Ack, AckStatus
  <2> QED
    BY <2>1 DEF Log!LogNext, Log!Confirm, Log!Unconfirmed
<1>9. ASSUME EvictAcked PROVE Log!LogNext
  <2>1. /\ UNCHANGED << epoch, nextSeq, ackedUpTo >>
        /\ evictedAcked' = evictedAcked + ackedCount
    BY <1>9 DEF EvictAcked
  <2>2. readable' \subseteq readable
    BY <1>1, <1>2, <1>3, <2>1
  <2>3. ackedUpTo + 1 .. nextSeq - 1 \subseteq readable'
    BY <1>2, <1>3, <1>4, <2>1
  <2> QED
    BY <2>1, <2>2, <2>3 DEF Log!LogNext, Log!Discard, Log!Unconfirmed, readable
<1>10. ASSUME Restart PROVE Log!LogNext
  <2>1. /\ epoch' = epoch + 1 /\ nextSeq' - 1 = 0 /\ ackedUpTo' = 0
    BY <1>10 DEF Restart
  <2>2. readable' = {}
    BY <1>2, <1>10 DEF Restart
  <2> QED
    BY <2>1, <2>2 DEF Log!LogNext, Log!NewLifetime, readable
<1>11. ASSUME UNCHANGED << epoch, items, nextSeq, ackedUpTo >>
      PROVE  UNCHANGED Log!logVars
  BY <1>11 DEF Log!logVars
<1>12. \/ \E recs \in Batches : AppendStored(recs)
       \/ \E e \in 1 .. MaxEpoch, upTo \in Nat : Ack(e, upTo)
       \/ EvictAcked
       \/ Restart
       \/ UNCHANGED << epoch, items, nextSeq, ackedUpTo >>
  BY BoundsAssumption DEF RingNext, AppendRefused, ringVars
<1> QED
  BY <1>7, <1>8, <1>9, <1>10, <1>11, <1>12

\* The buffer implements the log that its callers are promised.
THEOREM RingImplementsLog == RingSpec => ImplementsLog
<1>1. RingInit => Log!LogInit
  BY DEF RingInit, Log!LogInit
<1>2. RingInv /\ RingInv' /\ [RingNext]_ringVars => [Log!LogNext]_(Log!logVars)
  BY StepImplementsLog
<1> QED
  BY <1>1, <1>2, RingInvariance, PTL DEF RingSpec, ImplementsLog, Log!LogSpec

-----------------------------------------------------------------------------
(* Reading the buffer *)

\* Where a page begins: the number just below the first that it may hold.
PageFloor(afterSeq) == IF afterSeq > ackedUpTo THEN afterSeq ELSE ackedUpTo

\* How many numbers above b are issued.
IssuedAbove(b) == IF b < nextSeq THEN nextSeq - 1 - b ELSE 0

\* A page holds the records with the consecutive numbers above PageFloor(afterSeq), as
\* many as are stored and at most max; after_seq may be any number, also one that
\* a consumer kept from before a restart.
LEMMA DrainedPage ==
  ASSUME RingInv, NEW afterSeq \in Nat, NEW max \in Nat \ {0}
  PROVE  LET page  == Drain(afterSeq, max)
             b     == PageFloor(afterSeq)
             above == IssuedAbove(b)
         IN  /\ page.epoch = epoch
             /\ page.chunks \in Seq(Entry)
             /\ Len(page.chunks) = IF above < max THEN above ELSE max
             /\ \A i \in 1 .. Len(page.chunks) : page.chunks[i].seq = b + i
             /\ page.lastSeq = IF above = 0 THEN 0 ELSE b + Len(page.chunks)
             /\ page.more <=> above > max
<1> DEFINE n == Len(items)
           b == PageFloor(afterSeq)
           above == IssuedAbove(b)
           from == FirstAbove(b)
           to == IF from + max - 1 < n THEN from + max - 1 ELSE n
           chunks == SubSeq(items, from, to)
           last == IF to < from THEN 0 ELSE items[to].seq
           page == Drain(afterSeq, max)
<1>1. /\ n \in Nat /\ ackedCount \in 0 .. n
      /\ nextSeq \in Nat \ {0} /\ ackedUpTo \in Nat /\ evictedAcked \in Nat
      /\ \A i \in 1 .. n : items[i].seq = evictedAcked + i
      /\ \A i \in 1 .. n : items[i] \in Entry
      /\ evictedAcked + n = nextSeq - 1
      /\ evictedAcked + ackedCount = ackedUpTo
  <2>1. /\ Len(items) \in Nat /\ ackedCount \in 0 .. Len(items)
        /\ \A i \in 1 .. Len(items) : items[i] \in Entry
    BY ItemsFacts
  <2>2. /\ evictedAcked + Len(items) = nextSeq - 1
        /\ \A i \in 1 .. Len(items) : items[i].seq = evictedAcked + i
    BY DEF RingInv, RecordsAccounted
  <2> QED
    BY <2>1, <2>2, CounterFacts
<1>2. b \in Nat /\ b >= ackedUpTo
  BY <1>1 DEF PageFloor
<1>3. /\ page.epoch = epoch
      /\ page.chunks = chunks
      /\ page.lastSeq = last
      /\ page.more <=> to < n
  <2>1. b = IF ackedUpTo > afterSeq THEN ackedUpTo ELSE afterSeq
    BY <1>1 DEF PageFloor
  <2> QED
    BY <2>1 DEF Drain
<1>4. from = IF b < nextSeq THEN ackedCount + (b - ackedUpTo) + 1 ELSE n + 1
  <2> HIDE DEF b
  <2> QED BY <1>2, FirstAboveValue
<1> HIDE DEF n, b, from, page
<1>5. above = IF b < nextSeq THEN nextSeq - 1 - b ELSE 0
  BY DEF IssuedAbove
<1> HIDE DEF above
<1>6. above \in Nat
  BY <1>1, <1>2, <1>5
<1>7. /\ from \in 1 .. n + 1
      /\ to \in 0 .. n
      /\ \A i \in from .. to : i \in 1 .. n
      /\ (IF from <= to THEN to - from + 1 ELSE 0) = IF above < max THEN above ELSE max
      /\ to < from <=> above = 0
      /\ to < n <=> above > max
      /\ above > 0 => evictedAcked + from = b + 1
  BY <1>1, <1>2, <1>4, <1>5, <1>6
<1>8. /\ chunks \in Seq(Entry)
      /\ Len(chunks) = IF from <= to THEN to - from + 1 ELSE 0
      /\ \A i \in 1 .. to - from + 1 : chunks[i] = items[from + i - 1]
  <2>1. from \in Int /\ to \in Int /\ \A i \in from .. to : items[i] \in Entry
    BY <1>1, <1>7
  <2> HIDE DEF to
  <2> QED
    BY <2>1, SubSeqProperties
<1> HIDE DEF chunks
<1>9. ASSUME NEW i \in 1 .. Len(chunks)
      PROVE  chunks[i].seq = b + i
  <2>1. i \in 1 .. to - from + 1 /\ from + i - 1 \in 1 .. n /\ from <= to
    BY <1>7, <1>8, <1>9
  <2>2. chunks[i].seq = evictedAcked + (from + i - 1)
    BY <1>1, <1>8, <2>1
  <2> QED
    BY <1>1, <1>2, <1>7, <1>5, <1>6, <2>1, <2>2
<1>10. last = IF above = 0 THEN 0 ELSE b + Len(chunks)
  <2>1. CASE above = 0
    BY <1>7, <2>1
  <2>2. CASE above # 0
    <3>1. from <= to /\ to \in 1 .. n /\ evictedAcked + from = b + 1
      BY <1>1, <1>2, <1>7, <1>6, <2>2
    <3>2. last = evictedAcked + to
      BY <1>1, <1>7, <3>1
    <3>3. Len(chunks) = to - from + 1
      BY <1>8, <3>1
    <3>4. evictedAcked \in Nat /\ b \in Nat /\ from \in Nat /\ to \in Nat
      BY <1>1, <1>2, <1>7
    <3>5. b + Len(chunks) = evictedAcked + to
      BY <3>1, <3>3, <3>4
    <3> QED
      BY <2>2, <3>2, <3>5
  <2> QED
    BY <2>1, <2>2
<1> QED
  BY <1>3, <1>7, <1>8, <1>9, <1>10 DEF page, above, b

\* Pages are exact, for every after_seq and every max.
THEOREM DrainAlwaysExact == RingSpec => []DrainIsExact
<1>1. ASSUME RingInv, NEW afterSeq \in 0 .. nextSeq, NEW max \in 1 .. MaxSeq
      PROVE  LET page  == Drain(afterSeq, max)
                 above == (IF afterSeq > ackedUpTo THEN afterSeq ELSE ackedUpTo) + 1
                            .. nextSeq - 1
             IN  /\ \A i \in 1 .. Len(page.chunks) :
                      page.chunks[i].seq
                        = i + (IF afterSeq > ackedUpTo THEN afterSeq ELSE ackedUpTo)
                 /\ {page.chunks[i].seq : i \in 1 .. Len(page.chunks)} \subseteq above
                 /\ page.more <=> Len(page.chunks) < Cardinality(above)
                 /\ page.more => Len(page.chunks) = max
                 /\ page.chunks # << >> =>
                      page.lastSeq = page.chunks[Len(page.chunks)].seq
  <2> DEFINE page == Drain(afterSeq, max)
             b == PageFloor(afterSeq)
             above == b + 1 .. nextSeq - 1
             size == IssuedAbove(b)
             len == Len(page.chunks)
  <2>1. /\ nextSeq \in Nat \ {0} /\ ackedUpTo \in Nat /\ ackedUpTo <= nextSeq - 1
        /\ afterSeq \in Nat /\ max \in Nat \ {0}
    BY <1>1, CounterFacts, BoundsAssumption
  <2>2. b \in Nat
    BY <2>1 DEF PageFloor
  <2>3. /\ page.chunks \in Seq(Entry)
        /\ len = IF size < max THEN size ELSE max
        /\ \A i \in 1 .. len : page.chunks[i].seq = b + i
        /\ page.lastSeq = IF size = 0 THEN 0 ELSE b + len
        /\ page.more <=> size > max
    <3> HIDE DEF page, b, size, len
    <3>1. RingInv /\ afterSeq \in Nat /\ max \in Nat \ {0}
      BY <1>1, <2>1
    <3>2. page.chunks \in Seq(Entry)
      BY <3>1, DrainedPage DEF page
    <3>3. len = IF size < max THEN size ELSE max
      BY <3>1, DrainedPage DEF page, b, size, len
    <3>4. \A i \in 1 .. len : page.chunks[i].seq = b + i
      BY <3>1, DrainedPage DEF page, b, len
    <3>5. page.lastSeq = IF size = 0 THEN 0 ELSE b + len
      BY <3>1, DrainedPage DEF page, b, size, len
    <3>6. page.more <=> size > max
      BY <3>1, DrainedPage DEF page, b, size
    <3> QED
      BY <3>2, <3>3, <3>4, <3>5, <3>6
  <2> HIDE DEF page, b
  <2>0. size = IF b < nextSeq THEN nextSeq - 1 - b ELSE 0
    BY DEF IssuedAbove
  <2> HIDE DEF size
  <2>4. size \in Nat /\ len \in Nat /\ len <= size
    BY <2>0, <2>1, <2>2, <2>3
  <2>5. Cardinality(above) = size
    <3>1. b + 1 \in Int /\ nextSeq - 1 \in Int
      BY <2>1, <2>2
    <3>2. Cardinality(above) = IF b + 1 > nextSeq - 1 THEN 0 ELSE nextSeq - 1 - (b + 1) + 1
      BY <3>1, FS_Interval
    <3> QED
      BY <2>0, <2>1, <2>2, <3>2
  <2>6. \A i \in 1 .. len : page.chunks[i].seq \in above /\ page.chunks[i].seq = i + b
    BY <2>0, <2>1, <2>2, <2>3, <2>4
  <2>7. page.chunks # << >> => len \in 1 .. len /\ size # 0
    <3>1. page.chunks # << >> => len # 0
      BY <2>3, EmptySeq
    <3> QED
      BY <2>4, <3>1
  <2>8. page.chunks # << >> => page.lastSeq = page.chunks[len].seq
    BY <2>3, <2>7
  <2>9. page.more <=> len < Cardinality(above)
    BY <2>1, <2>3, <2>4, <2>5
  <2>10. page.more => len = max
    BY <2>1, <2>3, <2>4
  <2> QED
    BY <2>6, <2>8, <2>9, <2>10 DEF page, b, PageFloor
<1>2. RingInv => DrainIsExact
  BY <1>1 DEF DrainIsExact
<1> QED
  BY <1>2, RingInvariance, PTL

-----------------------------------------------------------------------------
(* For the modules that compose the buffer with its callers *)

\* The bounds of the model are kept: the acks and epochs that RingNext offers
\* are all there can be.
WithinBounds == epoch \in 1 .. MaxEpoch /\ nextSeq - 1 <= MaxSeq

LEMMA InitWithinBounds ==
  ASSUME RingInit PROVE WithinBounds
  BY BoundsAssumption DEF RingInit, WithinBounds

\* An Ack that changes the buffer is one that RingNext offers, whoever sends it.
LEMMA AckIsRingStep ==
  ASSUME RingInv, WithinBounds, NEW e, NEW upTo \in Nat, Ack(e, upTo)
  PROVE  RingNext
<1>1. AckStatus(e, upTo) = "new" /\ nextSeq \in Nat /\ MaxSeq \in Nat
  BY BoundsAssumption DEF Ack, RingInv, TypeOK
<1>2. e = epoch /\ ~ (upTo >= nextSeq)
  BY <1>1 DEF AckStatus
<1>3. e \in 1 .. MaxEpoch /\ upTo \in 0 .. MaxSeq + 1
  BY <1>1, <1>2 DEF WithinBounds
<1> QED
  BY <1>3 DEF RingNext

\* What a step may do to the epoch, the numbering and the watermark.
LEMMA StepMoves ==
  ASSUME RingInv, [RingNext]_ringVars
  PROVE  \/ /\ UNCHANGED << epoch, ackedUpTo >>
            /\ nextSeq' \in Nat /\ nextSeq' >= nextSeq
         \/ /\ UNCHANGED << epoch, nextSeq >>
            /\ ackedUpTo' \in ackedUpTo + 1 .. nextSeq - 1
         \/ Restart
<1>1. nextSeq \in Nat /\ ackedUpTo \in Nat
  BY CounterFacts
<1>2. ASSUME NEW recs \in Batches, AppendStored(recs)
      PROVE  /\ UNCHANGED << epoch, ackedUpTo >>
             /\ nextSeq' \in Nat /\ nextSeq' >= nextSeq
  <2>1. Len(recs) \in Nat
    BY BatchFacts
  <2>2. UNCHANGED << epoch, ackedUpTo >> /\ nextSeq' = nextSeq + Len(recs)
    BY <1>2 DEF AppendStored
  <2> QED
    BY <1>1, <2>1, <2>2
<1>3. ASSUME NEW e \in 1 .. MaxEpoch, NEW u \in 0 .. MaxSeq + 1, Ack(e, u)
      PROVE  /\ UNCHANGED << epoch, nextSeq >>
             /\ ackedUpTo' \in ackedUpTo + 1 .. nextSeq - 1
  <2>1. u \in Int
    OBVIOUS
  <2> QED
    BY <1>1, <1>3, <2>1 DEF Ack, AckStatus
<1>4. ASSUME UNCHANGED << epoch, nextSeq, ackedUpTo >>
      PROVE  /\ UNCHANGED << epoch, ackedUpTo >>
             /\ nextSeq' \in Nat /\ nextSeq' >= nextSeq
  BY <1>1, <1>4
<1>5. \/ \E recs \in Batches : AppendStored(recs)
      \/ \E e \in 1 .. MaxEpoch, u \in 0 .. MaxSeq + 1 : Ack(e, u)
      \/ UNCHANGED << epoch, nextSeq, ackedUpTo >>
      \/ Restart
  BY DEF RingNext, AppendRefused, EvictAcked, ringVars
<1> QED
  BY <1>2, <1>3, <1>4, <1>5

LEMMA StepWithinBounds ==
  ASSUME RingInv, WithinBounds, [RingNext]_ringVars
  PROVE  WithinBounds'
<1>1. nextSeq \in Nat \ {0} /\ MaxSeq \in Nat /\ MaxEpoch \in Nat
  BY CounterFacts, BoundsAssumption
<1>2. ASSUME NEW recs \in Batches, AppendStored(recs) PROVE WithinBounds'
  <2> DEFINE m == Len(recs)
  <2>1. m \in Nat
    BY BatchFacts
  <2>2. nextSeq + m - 1 <= MaxSeq /\ nextSeq' = nextSeq + m /\ epoch' = epoch
    BY <1>2 DEF AppendStored
  <2> HIDE DEF m
  <2>3. nextSeq' - 1 = nextSeq + m - 1
    BY <1>1, <2>1, <2>2
  <2> QED
    BY <2>2, <2>3 DEF WithinBounds
<1>3. ASSUME Restart PROVE WithinBounds'
  BY <1>1, <1>3 DEF Restart, WithinBounds
<1>4. ASSUME UNCHANGED << epoch, nextSeq >> PROVE WithinBounds'
  BY <1>4 DEF WithinBounds
<1>5. \/ \E recs \in Batches : AppendStored(recs)
      \/ Restart
      \/ UNCHANGED << epoch, nextSeq >>
  BY DEF RingNext, AppendRefused, Ack, EvictAcked, ringVars
<1> QED
  BY <1>2, <1>3, <1>4, <1>5

-----------------------------------------------------------------------------
(* What the callers of the buffer carry away: batches of chunks on their   *)
(* way from Node 3 to Node 2, and what Node 2 has of each epoch.  In both  *)
(* modes a chunk is stored before it is confirmed because every batch that *)
(* is under way, also one of an earlier epoch, is in order and begins right*)
(* behind a prefix that Node 2 has already: it can be cut anywhere and     *)
(* stored at any time without leaving a gap.  Of a batch only epoch, chunks*)
(* and lastSeq are used: pages of GET /drain are batches too.              *)

\* Node 2 has the first n chunks of epoch e.
HasPrefix(e, n, stored) == \A m \in 1 .. n : << e, m >> \in stored

\* The numbers of a batch are consecutive.
InOrder(b) ==
  /\ Len(b.chunks) \in Nat \ {0}
  /\ b.chunks[1].seq \in Nat \ {0}
  /\ \A i \in 1 .. Len(b.chunks) : b.chunks[i].seq = b.chunks[1].seq + i - 1
  /\ b.lastSeq = b.chunks[1].seq + Len(b.chunks) - 1

\* A batch that was made in an epoch up to e, where next is the next number of
\* e, and that Node 2, if it has stored this much, may take or cut anywhere.
GoodBatch(b, e, next, stored) ==
  /\ InOrder(b)
  /\ b.epoch \in 1 .. e
  /\ b.epoch = e => b.lastSeq < next
  /\ HasPrefix(b.epoch, b.chunks[1].seq - 1, stored)

\* The first n chunks of a batch, as Node 2 stores them.
FirstChunks(b, n) == {<< b.epoch, b.chunks[i].seq >> : i \in 1 .. n}

\* A batch stays good while more is stored and accepted, and over a restart.
LEMMA GoodBatchStays ==
  ASSUME NEW b, NEW e \in Nat, NEW e2 \in Nat, NEW next \in Nat, NEW next2 \in Nat,
         NEW stored, NEW stored2, GoodBatch(b, e, next, stored),
         stored \subseteq stored2,
         (e2 = e /\ next <= next2) \/ e2 = e + 1
  PROVE  GoodBatch(b, e2, next2, stored2)
<1>1. InOrder(b) /\ b.epoch \in 1 .. e
  BY DEF GoodBatch
<1>2. b.epoch \in 1 .. e2
  BY <1>1
<1>3. b.lastSeq \in Nat
  <2> DEFINE f == b.chunks[1].seq
             l == Len(b.chunks)
  <2>1. f \in Nat \ {0} /\ l \in Nat \ {0} /\ b.lastSeq = f + l - 1
    BY <1>1 DEF InOrder
  <2> HIDE DEF f, l
  <2> QED
    BY <2>1
<1>4. b.epoch = e2 => b.lastSeq < next2
  BY <1>1, <1>3 DEF GoodBatch
<1>5. HasPrefix(b.epoch, b.chunks[1].seq - 1, stored2)
  BY DEF GoodBatch, HasPrefix
<1> QED
  BY <1>1, <1>2, <1>4, <1>5 DEF GoodBatch

\* The batch is stored up to its chunk n, if its first n chunks are.
LEMMA PrefixGrows ==
  ASSUME NEW b, NEW e \in Nat, NEW next, NEW stored, NEW stored2,
         GoodBatch(b, e, next, stored), stored \subseteq stored2,
         NEW u \in Nat, u <= b.lastSeq,
         \A i \in 1 .. Len(b.chunks) :
           b.chunks[i].seq <= u => << b.epoch, b.chunks[i].seq >> \in stored2
  PROVE  HasPrefix(b.epoch, u, stored2)
<1> DEFINE f == b.chunks[1].seq
           l == Len(b.chunks)
           seq(i) == b.chunks[i].seq
<1>1. /\ f \in Nat \ {0} /\ l \in Nat \ {0} /\ b.lastSeq = f + l - 1
      /\ \A i \in 1 .. l : seq(i) = f + i - 1
      /\ \A m \in 1 .. f - 1 : << b.epoch, m >> \in stored
  BY DEF GoodBatch, InOrder, HasPrefix
<1>2. \A i \in 1 .. l : seq(i) <= u => << b.epoch, seq(i) >> \in stored2
  OBVIOUS
<1> HIDE DEF f, l, seq
<1>3. ASSUME NEW m \in 1 .. u PROVE << b.epoch, m >> \in stored2
  <2>1. CASE m < f
    BY <1>1, <2>1
  <2>2. CASE m >= f
    <3>1. m - f + 1 \in 1 .. l /\ seq(m - f + 1) = m
      BY <1>1, <2>2
    <3> QED
      BY <1>2, <3>1
  <2> QED
    BY <1>1, <2>1, <2>2
<1> QED
  BY <1>3 DEF HasPrefix

\* Storing any part of a good batch leaves no gap.
LEMMA StoringLeavesNoGap ==
  ASSUME NEW b, NEW e \in Nat, NEW next \in Nat, NEW stored,
         GoodBatch(b, e, next, stored), NEW n \in 0 .. Len(b.chunks),
         NEW c \in FirstChunks(b, n)
  PROVE  /\ c[1] \in 1 .. e
         /\ c[1] = e => c[2] \in 1 .. next - 1
         /\ \A m \in 1 .. c[2] : << c[1], m >> \in stored \cup FirstChunks(b, n)
<1> DEFINE f == b.chunks[1].seq
           l == Len(b.chunks)
           seq(j) == b.chunks[j].seq
           new == FirstChunks(b, n)
<1>1. PICK i \in 1 .. n : c = << b.epoch, seq(i) >>
  BY DEF FirstChunks
<1>2. /\ f \in Nat \ {0} /\ l \in Nat \ {0} /\ b.lastSeq = f + l - 1
      /\ \A j \in 1 .. l : seq(j) = f + j - 1
      /\ \A m \in 1 .. f - 1 : << b.epoch, m >> \in stored
      /\ b.epoch \in 1 .. e
      /\ b.epoch = e => b.lastSeq < next
  BY DEF GoodBatch, InOrder, HasPrefix
<1>3. \A j \in 1 .. n : << b.epoch, seq(j) >> \in new
  BY DEF FirstChunks
<1>4. n \in 0 .. l
  OBVIOUS
<1> HIDE DEF f, l, seq, new
<1>5. i \in 1 .. l /\ seq(i) = f + i - 1
  BY <1>1, <1>2, <1>4
<1>6. c[1] = b.epoch /\ c[2] = seq(i)
  BY <1>1
<1>7. c[1] = e => c[2] \in 1 .. next - 1
  BY <1>2, <1>5, <1>6
<1>8. ASSUME NEW m \in 1 .. seq(i) PROVE << b.epoch, m >> \in stored \cup new
  <2>1. CASE m < f
    BY <1>2, <2>1
  <2>2. CASE m >= f
    <3>1. m - f + 1 \in 1 .. n /\ m - f + 1 \in 1 .. l
      BY <1>1, <1>2, <1>4, <1>5, <2>2
    <3>2. seq(m - f + 1) = m
      BY <1>2, <3>1
    <3> QED
      BY <1>3, <3>1, <3>2
  <2> QED
    BY <1>2, <1>5, <2>1, <2>2
<1> QED
  BY <1>2, <1>6, <1>7, <1>8 DEF new

=============================================================================
