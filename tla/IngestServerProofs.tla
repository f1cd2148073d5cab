------------------------- MODULE IngestServerProofs -------------------------
(***************************************************************************)
(* Proofs about IngestServer, for every finite set of clients.             *)
(*                                                                         *)
(* Neither lock makes the two halves of a request atomic, so what holds of *)
(* the two halves holds only with what is between them counted in: the     *)
(* records that are stored and not counted yet (CountsInv), and the ranges *)
(* of numbers that are issued and not answered yet (SeqsInv).  That no     *)
(* range is given twice, also to two requests that are both under way, is  *)
(* more than AnswersPartitionSeqs says, and what makes it inductive.       *)
(***************************************************************************)
EXTENDS IngestServer, RingBufferProofs

ServerTypeOK ==
  /\ stage \in [Clients -> {"idle", "scoring", "stored", "refused"}]
  /\ job \in [Clients -> [recs : Batches \cup {<< >>}, first : Nat]]
  /\ tele \in [accepted : Nat, backpressure : Nat]

CountsInv ==
  /\ IsFiniteSet(UncountedRecords)
  /\ TelemetryAccountsForBuffer

StatsInv ==
  /\ stats \in [read : {"nothing", "one", "both"}, total : Nat, accepted : Nat, uncounted : Nat]
  /\ stats.read = "one" => stats.total <= tele.accepted + stats.uncounted
  /\ StatsLagBounded

\* The requests that were given numbers and are not answered yet.
Underway == {c \in Clients : stage[c] = "stored" /\ job[c].recs # << >>}

\* A range of numbers that are issued where next is the next one, and two
\* ranges that do not meet.
Issued(r, next) == r[1] \in Nat \ {0} /\ r[2] \in Nat /\ r[1] <= r[2] /\ r[2] < next
Apart(r, q) == r[2] < q[1] \/ q[2] < r[1]

SeqsInv ==
  /\ \A r \in answered : Issued(r, nextSeq)
  /\ \A c \in Underway : Issued(Answer(c), nextSeq)
  /\ \A r, q \in answered : r = q \/ Apart(r, q)
  /\ \A c \in Underway, r \in answered : Apart(Answer(c), r)
  /\ \A c, d \in Underway : c = d \/ Apart(Answer(c), Answer(d))
  /\ \A s \in 1 .. nextSeq - 1 :
       \/ \E r \in answered : s \in SeqsFrom(r)
       \/ \E c \in Underway : s \in SeqsFrom(Answer(c))

ServerInv == RingInv /\ WithinBounds /\ ServerTypeOK /\ CountsInv /\ StatsInv /\ SeqsInv

-----------------------------------------------------------------------------
(* Counting what is between the two locks *)

\* What a step of request c leaves of the others.
OnlyMoves(c) == \A d \in Clients : d # c => stage'[d] = stage[d] /\ job'[d] = job[d]

LEMMA RecordsOfFacts ==
  ASSUME ServerTypeOK, NEW c \in Clients
  PROVE  /\ Len(job[c].recs) \in Nat
         /\ IsFiniteSet(RecordsOf(c))
         /\ Cardinality(RecordsOf(c)) = Len(job[c].recs)
<1> DEFINE n == Len(job[c].recs)
<1>1. n \in Nat
  <2>1. job[c].recs \in Batches \/ job[c].recs = << >>
    BY DEF ServerTypeOK
  <2> QED
    BY <2>1, BatchFacts, EmptySeq
<1> HIDE DEF n
<1>2. IsFiniteSet(1 .. n) /\ Cardinality(1 .. n) = n
  <2>1. 1 \in Int /\ n \in Int
    BY <1>1
  <2>2. IsFiniteSet(1 .. n) /\ Cardinality(1 .. n) = IF 1 > n THEN 0 ELSE n - 1 + 1
    BY <2>1, FS_Interval
  <2> QED
    BY <1>1, <2>2
<1>3. IsFiniteSet({c}) /\ Cardinality({c}) = 1
  BY FS_Singleton
<1>4. IsFiniteSet({c} \X (1 .. n)) /\ Cardinality({c} \X (1 .. n)) = 1 * n
  BY <1>2, <1>3, FS_Product, ZenonT(30)
<1> QED
  BY <1>1, <1>4 DEF RecordsOf, n

\* The records of a request whose Append was just made are counted in ...
LEMMA UncountedGains ==
  ASSUME ServerTypeOK, ServerTypeOK', IsFiniteSet(UncountedRecords),
         NEW c \in Clients, OnlyMoves(c), stage[c] # "stored", stage'[c] = "stored",
         job'[c].recs = job[c].recs
  PROVE  /\ IsFiniteSet(UncountedRecords')
         /\ Uncounted' = Uncounted + Len(job[c].recs)
<1> DEFINE R == RecordsOf(c)
<1>1. UncountedRecords' = UncountedRecords \cup R
  BY DEF UncountedRecords, RecordsOf, OnlyMoves
<1>2. UncountedRecords \cap R = {}
  BY DEF UncountedRecords, RecordsOf
<1>3. IsFiniteSet(R) /\ Cardinality(R) = Len(job[c].recs) /\ Len(job[c].recs) \in Nat
  BY RecordsOfFacts
<1> HIDE DEF R
<1>4. /\ IsFiniteSet(UncountedRecords \cup R)
      /\ Cardinality(UncountedRecords \cup R)
           = Cardinality(UncountedRecords) + Cardinality(R) - Cardinality({})
  BY <1>2, <1>3, FS_Union
<1>5. Cardinality({}) = 0 /\ Cardinality(UncountedRecords) \in Nat
  BY FS_EmptySet, FS_CardinalityType
<1> QED
  BY <1>1, <1>3, <1>4, <1>5 DEF Uncounted

\* ... until telemetryMu was taken.
LEMMA UncountedLoses ==
  ASSUME ServerTypeOK, IsFiniteSet(UncountedRecords),
         NEW c \in Clients, OnlyMoves(c), stage[c] = "stored", stage'[c] # "stored"
  PROVE  /\ IsFiniteSet(UncountedRecords')
         /\ Uncounted' = Uncounted - Len(job[c].recs)
         /\ Uncounted' \in Nat
<1> DEFINE R == RecordsOf(c)
<1>1. UncountedRecords' = UncountedRecords \ R
  BY DEF UncountedRecords, RecordsOf, OnlyMoves
<1>2. UncountedRecords \cap R = R
  BY DEF UncountedRecords
<1>3. IsFiniteSet(R) /\ Cardinality(R) = Len(job[c].recs)
  BY RecordsOfFacts
<1> HIDE DEF R
<1>4. /\ IsFiniteSet(UncountedRecords \ R)
      /\ Cardinality(UncountedRecords \ R) = Cardinality(UncountedRecords) - Cardinality(R)
  BY <1>2, FS_Difference, ZenonT(30)
<1>5. Cardinality(UncountedRecords \ R) \in Nat
  BY <1>4, FS_CardinalityType
<1> QED
  BY <1>1, <1>3, <1>4, <1>5 DEF Uncounted

LEMMA UncountedStays ==
  ASSUME NEW c \in Clients, OnlyMoves(c), stage[c] # "stored", stage'[c] # "stored"
  PROVE  UncountedRecords' = UncountedRecords
  BY DEF UncountedRecords, RecordsOf, OnlyMoves

\* The refusals that are not counted yet.
Refusals == {c \in Clients : stage[c] = "refused"}

LEMMA RefusalsCounted ==
  ASSUME NEW c \in Clients, OnlyMoves(c)
  PROVE  /\ Cardinality(Refusals) \in Nat
         /\ (stage[c] # "refused" /\ stage'[c] = "refused") =>
              Cardinality(Refusals') = Cardinality(Refusals) + 1
         /\ (stage[c] = "refused" /\ stage'[c] # "refused") =>
              Cardinality(Refusals') = Cardinality(Refusals) - 1
         /\ (stage[c] # "refused" /\ stage'[c] # "refused") => Refusals' = Refusals
<1>1. IsFiniteSet(Refusals)
  BY ServerAssumption, FS_Subset DEF Refusals
<1>2. ASSUME stage[c] # "refused", stage'[c] = "refused"
      PROVE  Cardinality(Refusals') = Cardinality(Refusals) + 1
  <2>1. Refusals' = Refusals \cup {c} /\ c \notin Refusals
    BY <1>2 DEF Refusals, OnlyMoves
  <2> QED
    BY <1>1, <2>1, FS_AddElement
<1>3. ASSUME stage[c] = "refused", stage'[c] # "refused"
      PROVE  Cardinality(Refusals') = Cardinality(Refusals) - 1
  <2>1. Refusals' = Refusals \ {c} /\ c \in Refusals
    BY <1>3 DEF Refusals, OnlyMoves
  <2> QED
    BY <1>1, <2>1, FS_RemoveElement
<1>4. ASSUME stage[c] # "refused", stage'[c] # "refused"
      PROVE  Refusals' = Refusals
  BY <1>4 DEF Refusals, OnlyMoves
<1> QED
  BY <1>1, <1>2, <1>3, <1>4, FS_CardinalityType

-----------------------------------------------------------------------------
(* Steps *)

\* Each step of a request moves that request alone.
LEMMA RequestSteps ==
  ASSUME ServerTypeOK, RingInv, NEW c \in Clients
  PROVE  /\ Arrive(c) => /\ OnlyMoves(c) /\ stage[c] = "idle" /\ stage'[c] = "scoring"
                         /\ job'[c].recs \in Batches \cup {<< >>} /\ job'[c].first \in Nat
                         /\ UNCHANGED << ringVars, tele, stats, answered >>
         /\ Store(c) => /\ OnlyMoves(c) /\ stage[c] = "scoring" /\ stage'[c] = "stored"
                        /\ job'[c].recs = job[c].recs /\ job'[c].first = nextSeq
                        /\ UNCHANGED << tele, stats, answered >>
         /\ Refuse(c) => /\ OnlyMoves(c) /\ stage[c] = "scoring" /\ stage'[c] = "refused"
                         /\ UNCHANGED << job, tele, stats, answered >>
         /\ CountRefusal(c) => /\ OnlyMoves(c) /\ stage[c] = "refused" /\ stage'[c] = "idle"
                               /\ job'[c] = NoJob
                               /\ UNCHANGED << ringVars, stats, answered >>
         /\ CountStored(c) => /\ OnlyMoves(c) /\ stage[c] = "stored" /\ stage'[c] = "idle"
                              /\ job'[c] = NoJob
                              /\ UNCHANGED << ringVars, stats >>
<1>1. /\ DOMAIN stage = Clients /\ DOMAIN job = Clients
      /\ stage = [d \in Clients |-> stage[d]] /\ job = [d \in Clients |-> job[d]]
      /\ job[c] \in [recs : Batches \cup {<< >>}, first : Nat]
  BY DEF ServerTypeOK
<1>2. ASSUME Arrive(c)
      PROVE  /\ OnlyMoves(c) /\ stage[c] = "idle" /\ stage'[c] = "scoring"
             /\ job'[c].recs \in Batches \cup {<< >>} /\ job'[c].first \in Nat
             /\ UNCHANGED << ringVars, tele, stats, answered >>
  <2>1. PICK recs \in Batches \cup {<< >>} : job' = [job EXCEPT ![c].recs = recs]
    BY <1>2 DEF Arrive
  <2>2. job'[c] = [job[c] EXCEPT !.recs = recs] /\ \A d \in Clients : d # c => job'[d] = job[d]
    BY <1>1, <2>1
  <2>3. job'[c].recs = recs /\ job'[c].first = job[c].first
    BY <1>1, <2>2
  <2> QED
    BY <1>1, <1>2, <2>2, <2>3 DEF Arrive, OnlyMoves
<1>3. ASSUME Store(c)
      PROVE  /\ OnlyMoves(c) /\ stage[c] = "scoring" /\ stage'[c] = "stored"
             /\ job'[c].recs = job[c].recs /\ job'[c].first = nextSeq
             /\ UNCHANGED << tele, stats, answered >>
  <2>1. job' = [job EXCEPT ![c].first = nextSeq] /\ stage' = [stage EXCEPT ![c] = "stored"]
        /\ stage[c] = "scoring" /\ UNCHANGED << tele, stats, answered >>
    BY <1>3 DEF Store
  <2>2. job'[c] = [job[c] EXCEPT !.first = nextSeq] /\ \A d \in Clients : d # c => job'[d] = job[d]
    BY <1>1, <2>1
  <2>3. job'[c].recs = job[c].recs /\ job'[c].first = nextSeq
    BY <1>1, <2>2
  <2> QED
    BY <1>1, <2>1, <2>2, <2>3 DEF OnlyMoves
<1>4. ASSUME Refuse(c)
      PROVE  /\ OnlyMoves(c) /\ stage[c] = "scoring" /\ stage'[c] = "refused"
             /\ UNCHANGED << job, tele, stats, answered >>
  BY <1>1, <1>4 DEF Refuse, OnlyMoves
<1>5. ASSUME CountRefusal(c)
      PROVE  /\ OnlyMoves(c) /\ stage[c] = "refused" /\ stage'[c] = "idle"
             /\ job'[c] = NoJob
             /\ UNCHANGED << ringVars, stats, answered >>
  BY <1>1, <1>5 DEF CountRefusal, OnlyMoves
<1>6. ASSUME CountStored(c)
      PROVE  /\ OnlyMoves(c) /\ stage[c] = "stored" /\ stage'[c] = "idle"
             /\ job'[c] = NoJob
             /\ UNCHANGED << ringVars, stats >>
  BY <1>1, <1>6 DEF CountStored, OnlyMoves
<1> QED
  BY <1>2, <1>3, <1>4, <1>5, <1>6

\* The steps that are no request's.
Aside == Consume \/ StatsFirst \/ StatsSecond \/ StatsAnswer
           \/ Signal \/ LogLoss \/ CloseListener \/ Exit \/ UNCHANGED vars

LEMMA AsideLeavesRequests ==
  ASSUME Aside
  PROVE  UNCHANGED << nextSeq, totalIngestedCount, backpressure, stage, job, tele, answered >>
  BY DEF Aside, Consume, Ack, StatsFirst, StatsSecond, StatsAnswer, Signal, LogLoss,
         CloseListener, Exit, vars, ringVars, serverVars

LEMMA StepsOfServer ==
  ASSUME [ServerNext]_vars
  PROVE  \/ \E c \in Clients :
              Arrive(c) \/ Store(c) \/ Refuse(c) \/ CountRefusal(c) \/ CountStored(c)
         \/ Aside
         \/ Reboot
  BY DEF ServerNext, Aside

\* Every step does to the buffer what a caller of it may do.
LEMMA ServerStepOfRing ==
  ASSUME RingInv, WithinBounds, ServerTypeOK, [ServerNext]_vars
  PROVE  [RingNext]_ringVars
<1>1. ASSUME NEW c \in Clients, Store(c) PROVE [RingNext]_ringVars
  <2>1. job[c].recs \in Batches \/ job[c].recs = << >>
    BY DEF ServerTypeOK
  <2> QED
    BY <1>1, <2>1 DEF Store, RingNext
<1>2. ASSUME NEW c \in Clients, Refuse(c) PROVE RingNext
  <2>1. job[c].recs \in Batches
    BY <1>2 DEF ServerTypeOK, Refuse
  <2> QED
    BY <1>2, <2>1 DEF Refuse, RingNext
<1>3. ASSUME Consume PROVE RingNext
  <2>1. PICK upTo \in 1 .. MaxSeq : Ack(epoch, upTo)
    BY <1>3 DEF Consume
  <2> QED
    BY <2>1, AckIsRingStep
<1>4. ASSUME Reboot PROVE RingNext
  BY <1>4 DEF Reboot, RingNext
<1>5. \/ \E c \in Clients : Store(c) \/ Refuse(c)
      \/ Consume \/ Reboot
      \/ UNCHANGED ringVars
  BY DEF ServerNext, Arrive, CountRefusal, CountStored, StatsFirst, StatsSecond, StatsAnswer,
         Signal, LogLoss, CloseListener, Exit, vars
<1> QED
  BY <1>1, <1>2, <1>3, <1>4, <1>5

LEMMA TypesKept ==
  ASSUME RingInv, ServerTypeOK, [ServerNext]_vars
  PROVE  ServerTypeOK'
<1> DEFINE Jobs == [recs : Batches \cup {<< >>}, first : Nat]
<1>1. NoJob \in Jobs /\ nextSeq \in Nat
  BY CounterFacts DEF NoJob
<1>2. ASSUME NEW c \in Clients, Arrive(c) PROVE ServerTypeOK'
  <2>1. PICK recs \in Batches \cup {<< >>} : job' = [job EXCEPT ![c].recs = recs]
    BY <1>2 DEF Arrive
  <2>2. [job[c] EXCEPT !.recs = recs] \in Jobs
    BY DEF ServerTypeOK
  <2> QED
    BY <1>2, <2>1, <2>2 DEF ServerTypeOK, Arrive
<1>3. ASSUME NEW c \in Clients, Store(c) PROVE ServerTypeOK'
  <2>1. [job[c] EXCEPT !.first = nextSeq] \in Jobs
    BY <1>1 DEF ServerTypeOK
  <2> QED
    BY <1>3, <2>1 DEF ServerTypeOK, Store
<1>4. ASSUME NEW c \in Clients, Refuse(c) PROVE ServerTypeOK'
  <2>1. stage' = [stage EXCEPT ![c] = "refused"] /\ UNCHANGED << job, tele >>
    BY <1>4 DEF Refuse
  <2> QED
    BY <2>1 DEF ServerTypeOK
<1>5. ASSUME NEW c \in Clients, CountRefusal(c) PROVE ServerTypeOK'
  <2>1. /\ tele' = [tele EXCEPT !.backpressure = @ + 1]
        /\ stage' = [stage EXCEPT ![c] = "idle"] /\ job' = [job EXCEPT ![c] = NoJob]
    BY <1>5 DEF CountRefusal
  <2>2. tele' \in [accepted : Nat, backpressure : Nat]
    BY <2>1 DEF ServerTypeOK
  <2> QED
    BY <1>1, <2>1, <2>2 DEF ServerTypeOK
<1>6. ASSUME NEW c \in Clients, CountStored(c) PROVE ServerTypeOK'
  <2>1. Len(job[c].recs) \in Nat
    BY RecordsOfFacts
  <2>2. tele' \in [accepted : Nat, backpressure : Nat]
    BY <1>6, <2>1 DEF ServerTypeOK, CountStored
  <2> QED
    BY <1>1, <1>6, <2>2 DEF ServerTypeOK, CountStored
<1>7. ASSUME Aside PROVE ServerTypeOK'
  BY <1>7, AsideLeavesRequests DEF ServerTypeOK
<1>8. ASSUME Reboot PROVE ServerTypeOK'
  BY <1>1, <1>8 DEF ServerTypeOK, Reboot, NoCounts
<1> QED
  BY <1>2, <1>3, <1>4, <1>5, <1>6, <1>7, <1>8, StepsOfServer

\* The telemetry and the buffer stay accounted for.
LEMMA CountsKept ==
  ASSUME RingInv, ServerTypeOK, CountsInv, ServerTypeOK', [ServerNext]_vars
  PROVE  CountsInv'
<1>1. /\ IsFiniteSet(UncountedRecords)
      /\ totalIngestedCount = tele.accepted + Uncounted
      /\ backpressure = tele.backpressure + Cardinality(Refusals)
      /\ totalIngestedCount \in Nat /\ backpressure \in Nat
      /\ Uncounted \in Nat
      /\ tele \in [accepted : Nat, backpressure : Nat]
  BY FS_CardinalityType
     DEF CountsInv, TelemetryAccountsForBuffer, Refusals, RingInv, TypeOK, Uncounted, ServerTypeOK
<1> DEFINE Balanced(u, r) ==
             /\ totalIngestedCount' = tele'.accepted + u
             /\ backpressure' = tele'.backpressure + r
<1>2. ASSUME IsFiniteSet(UncountedRecords'), Balanced(Uncounted', Cardinality(Refusals'))
      PROVE  CountsInv'
  BY <1>2 DEF CountsInv, TelemetryAccountsForBuffer, Refusals
<1>3. ASSUME NEW c \in Clients, Arrive(c) PROVE CountsInv'
  <2>1. /\ OnlyMoves(c) /\ stage[c] = "idle" /\ stage'[c] = "scoring"
        /\ UNCHANGED << ringVars, tele >>
    BY <1>3, RequestSteps
  <2>2. UncountedRecords' = UncountedRecords
    BY <2>1, UncountedStays
  <2>3. Refusals' = Refusals
    BY <2>1, RefusalsCounted
  <2>4. Balanced(Uncounted', Cardinality(Refusals'))
    BY <1>1, <2>1, <2>2, <2>3 DEF Uncounted, ringVars
  <2> QED
    BY <1>1, <1>2, <2>2, <2>4
<1>4. ASSUME NEW c \in Clients, Store(c) PROVE CountsInv'
  <2> DEFINE n == Len(job[c].recs)
             u == Uncounted
             v == Uncounted'
  <2>1. /\ OnlyMoves(c) /\ stage[c] = "scoring" /\ stage'[c] = "stored"
        /\ job'[c].recs = job[c].recs
        /\ UNCHANGED tele
    BY <1>4, RequestSteps
  <2>2. IsFiniteSet(UncountedRecords') /\ v = u + n
    BY <1>1, <2>1, UncountedGains
  <2>3. Refusals' = Refusals
    BY <2>1, RefusalsCounted
  <2>4. totalIngestedCount' = totalIngestedCount + n /\ backpressure' = backpressure
    <3>1. CASE job[c].recs = << >>
      <4>1. n = 0
        BY <3>1, EmptySeq
      <4> QED
        BY <1>1, <1>4, <3>1, <4>1 DEF Store, ringVars
    <3>2. CASE job[c].recs # << >>
      BY <1>4, <3>2 DEF Store, AppendStored
    <3> QED
      BY <3>1, <3>2
  <2>5. n \in Nat /\ u \in Nat
    BY <1>1, RecordsOfFacts
  <2> HIDE DEF n, v
  <2>6. totalIngestedCount' = tele'.accepted + v
    BY <1>1, <2>1, <2>2, <2>4, <2>5
  <2>7. Balanced(Uncounted', Cardinality(Refusals'))
    BY <1>1, <2>1, <2>3, <2>4, <2>6 DEF v
  <2> QED
    BY <1>2, <2>2, <2>7
<1>5. ASSUME NEW c \in Clients, Refuse(c) PROVE CountsInv'
  <2>1. /\ OnlyMoves(c) /\ stage[c] = "scoring" /\ stage'[c] = "refused"
        /\ UNCHANGED tele
    BY <1>5, RequestSteps
  <2>2. UncountedRecords' = UncountedRecords
    BY <2>1, UncountedStays
  <2>3. Cardinality(Refusals') = Cardinality(Refusals) + 1 /\ Cardinality(Refusals) \in Nat
    BY <2>1, RefusalsCounted
  <2>4. totalIngestedCount' = totalIngestedCount /\ backpressure' = backpressure + 1
    BY <1>5 DEF Refuse, AppendRefused
  <2>5. totalIngestedCount' = tele'.accepted + Uncounted'
    BY <1>1, <2>1, <2>2, <2>4 DEF Uncounted
  <2>6. backpressure' = tele'.backpressure + Cardinality(Refusals')
    BY <1>1, <2>1, <2>3, <2>4
  <2> QED
    BY <1>1, <1>2, <2>2, <2>5, <2>6
<1>6. ASSUME NEW c \in Clients, CountRefusal(c) PROVE CountsInv'
  <2>1. /\ OnlyMoves(c) /\ stage[c] = "refused" /\ stage'[c] = "idle"
        /\ UNCHANGED ringVars
    BY <1>6, RequestSteps
  <2>2. UncountedRecords' = UncountedRecords
    BY <2>1, UncountedStays
  <2>3. Cardinality(Refusals') = Cardinality(Refusals) - 1 /\ Cardinality(Refusals) \in Nat
    BY <2>1, RefusalsCounted
  <2>4. tele'.accepted = tele.accepted /\ tele'.backpressure = tele.backpressure + 1
    BY <1>1, <1>6 DEF CountRefusal
  <2>5. totalIngestedCount' = tele'.accepted + Uncounted'
    BY <1>1, <2>1, <2>2, <2>4 DEF Uncounted, ringVars
  <2>6. backpressure' = tele'.backpressure + Cardinality(Refusals')
    <3>1. backpressure' = backpressure
      BY <2>1 DEF ringVars
    <3> QED
      BY <1>1, <2>3, <2>4, <3>1
  <2> QED
    BY <1>1, <1>2, <2>2, <2>5, <2>6
<1>7. ASSUME NEW c \in Clients, CountStored(c) PROVE CountsInv'
  <2> DEFINE n == Len(job[c].recs)
             u == Uncounted
             v == Uncounted'
  <2>1. /\ OnlyMoves(c) /\ stage[c] = "stored" /\ stage'[c] = "idle"
        /\ UNCHANGED ringVars
    BY <1>7, RequestSteps
  <2>2. IsFiniteSet(UncountedRecords') /\ v = u - n /\ v \in Nat
    BY <1>1, <2>1, UncountedLoses
  <2>3. Refusals' = Refusals
    BY <2>1, RefusalsCounted
  <2>4. tele'.accepted = tele.accepted + n /\ tele'.backpressure = tele.backpressure
    BY <1>1, <1>7 DEF CountStored
  <2>5. n \in Nat /\ u \in Nat
    BY <1>1, RecordsOfFacts
  <2> HIDE DEF n, v
  <2>6. totalIngestedCount' = tele'.accepted + v
    <3>1. totalIngestedCount' = totalIngestedCount
      BY <2>1 DEF ringVars
    <3> QED
      BY <1>1, <2>2, <2>4, <2>5, <3>1
  <2>7. Balanced(Uncounted', Cardinality(Refusals'))
    BY <1>1, <2>1, <2>3, <2>4, <2>6 DEF v, ringVars
  <2> QED
    BY <1>2, <2>2, <2>7
<1>8. ASSUME Aside PROVE CountsInv'
  <2>1. UNCHANGED << totalIngestedCount, backpressure, stage, job, tele >>
    BY <1>8, AsideLeavesRequests
  <2>2. UncountedRecords' = UncountedRecords /\ Refusals' = Refusals
    BY <2>1 DEF UncountedRecords, RecordsOf, Refusals
  <2>3. Balanced(Uncounted', Cardinality(Refusals'))
    BY <1>1, <2>1, <2>2 DEF Uncounted
  <2> QED
    BY <1>1, <1>2, <2>2, <2>3
<1>9. ASSUME Reboot PROVE CountsInv'
  <2>1. /\ \A c \in Clients : stage'[c] = "idle"
        /\ totalIngestedCount' = 0 /\ backpressure' = 0
        /\ tele' = NoCounts
    BY <1>9 DEF Reboot, Restart
  <2>2. UncountedRecords' = {} /\ Refusals' = {}
    BY <2>1 DEF UncountedRecords, Refusals
  <2>3. IsFiniteSet({}) /\ Cardinality({}) = 0
    BY FS_EmptySet
  <2>4. Balanced(0, 0)
    BY <2>1 DEF NoCounts
  <2> QED
    BY <1>2, <2>2, <2>3, <2>4 DEF Uncounted
<1> QED
  BY <1>3, <1>4, <1>5, <1>6, <1>7, <1>8, <1>9, StepsOfServer

\* A /\stats reply stays within the lag that it was begun with.
LEMMA StatsKept ==
  ASSUME ServerTypeOK, RingInv, CountsInv, StatsInv, [ServerNext]_vars
  PROVE  StatsInv'
<1>1. /\ tele.accepted \in Nat
      /\ totalIngestedCount = tele.accepted + Uncounted
      /\ totalIngestedCount \in Nat /\ Uncounted \in Nat
  BY FS_CardinalityType
     DEF CountsInv, TelemetryAccountsForBuffer, RingInv, TypeOK, Uncounted, ServerTypeOK
<1>2. /\ stats \in [read : {"nothing", "one", "both"}, total : Nat, accepted : Nat, uncounted : Nat]
      /\ stats.read = "one" => stats.total <= tele.accepted + stats.uncounted
      /\ stats.read = "both" => stats.total <= stats.accepted + stats.uncounted
  BY DEF StatsInv, StatsLagBounded
<1>3. ASSUME UNCHANGED stats, tele'.accepted \in Nat, tele.accepted <= tele'.accepted
      PROVE  StatsInv'
  <2> DEFINE a == tele'.accepted
  <2>1. stats.total \in Nat /\ stats.uncounted \in Nat
    BY <1>2
  <2>2. a \in Nat /\ tele.accepted <= a
    BY <1>3
  <2> HIDE DEF a
  <2>3. stats.read = "one" => stats.total <= a + stats.uncounted
    BY <1>1, <1>2, <2>1, <2>2
  <2> QED
    BY <1>2, <1>3, <2>3 DEF StatsInv, StatsLagBounded, a
<1>4. ASSUME NEW c \in Clients, CountStored(c) PROVE StatsInv'
  <2>1. Len(job[c].recs) \in Nat /\ UNCHANGED stats
    BY <1>4, RecordsOfFacts DEF CountStored
  <2>2. tele'.accepted = tele.accepted + Len(job[c].recs)
    BY <1>4 DEF CountStored, ServerTypeOK
  <2>3. tele'.accepted \in Nat /\ tele.accepted <= tele'.accepted
    BY <1>1, <2>1, <2>2
  <2> QED
    BY <1>3, <2>1, <2>3
<1>5. ASSUME NEW c \in Clients, CountRefusal(c) PROVE StatsInv'
  <2>1. UNCHANGED stats /\ tele'.accepted = tele.accepted
    BY <1>5 DEF CountRefusal, ServerTypeOK
  <2> QED
    BY <1>1, <1>3, <2>1
<1>6. ASSUME UNCHANGED << stats, tele >> PROVE StatsInv'
  BY <1>1, <1>3, <1>6
<1>7. ASSUME StatsFirst PROVE StatsInv'
  <2>1. stats' = [NoStats EXCEPT !.read = "one", !.total = totalIngestedCount,
                                 !.uncounted = Uncounted] /\ tele' = tele
    BY <1>7 DEF StatsFirst
  <2>2. stats' = [read |-> "one", total |-> totalIngestedCount, accepted |-> 0,
                  uncounted |-> Uncounted]
    BY <2>1 DEF NoStats
  <2>3. /\ stats'.read = "one" /\ stats'.total = totalIngestedCount
        /\ stats'.uncounted = Uncounted /\ tele'.accepted = tele.accepted
    BY <2>1, <2>2
  <2>4. stats' \in [read : {"nothing", "one", "both"}, total : Nat, accepted : Nat, uncounted : Nat]
    BY <1>1, <2>2
  <2>5. stats'.total <= tele'.accepted + stats'.uncounted
    BY <1>1, <2>3
  <2> QED
    BY <2>3, <2>4, <2>5 DEF StatsInv, StatsLagBounded
<1>8. ASSUME StatsSecond PROVE StatsInv'
  <2>1. stats.read = "one" /\ stats' = [stats EXCEPT !.read = "both", !.accepted = tele.accepted]
    BY <1>8 DEF StatsSecond
  <2>2. /\ stats' \in [read : {"nothing", "one", "both"}, total : Nat, accepted : Nat, uncounted : Nat]
        /\ stats'.read = "both" /\ stats'.total = stats.total
        /\ stats'.accepted = tele.accepted /\ stats'.uncounted = stats.uncounted
    BY <1>1, <1>2, <2>1
  <2> QED
    BY <1>2, <2>1, <2>2 DEF StatsInv, StatsLagBounded
<1>9. ASSUME stats' = NoStats PROVE StatsInv'
  BY <1>9 DEF StatsInv, StatsLagBounded, NoStats
<1>10. \/ \E c \in Clients : CountStored(c) \/ CountRefusal(c)
       \/ StatsFirst \/ StatsSecond
       \/ stats' = NoStats
       \/ UNCHANGED << stats, tele >>
  BY DEF ServerNext, Arrive, Store, Refuse, Consume, StatsAnswer, Signal, LogLoss,
         CloseListener, Exit, Reboot, vars, serverVars
<1> QED
  BY <1>4, <1>5, <1>6, <1>7, <1>8, <1>9, <1>10

\* A step that neither issues a number nor answers leaves the ranges alone.
LEMMA SeqsUndisturbed ==
  ASSUME SeqsInv, UNCHANGED << nextSeq, answered >>,
         \A c \in Clients : c \in Underway' <=> c \in Underway,
         \A c \in Underway : job'[c] = job[c]
  PROVE  SeqsInv'
<1>1. Underway' = Underway
  BY DEF Underway
<1>2. \A c \in Underway : Answer(c)' = Answer(c)
  BY DEF Answer
<1> QED
  BY <1>1, <1>2 DEF SeqsInv, Issued, Apart, SeqsFrom

\* An append issues the next range of numbers, which meets no earlier one.
LEMMA StoreKeepsSeqs ==
  ASSUME RingInv, ServerTypeOK, ServerTypeOK', SeqsInv, NEW c \in Clients, Store(c)
  PROVE  SeqsInv'
<1> DEFINE n == Len(job[c].recs)
           new == << nextSeq, nextSeq + n - 1 >>
<1>1. /\ OnlyMoves(c) /\ stage[c] = "scoring" /\ stage'[c] = "stored"
      /\ job'[c].recs = job[c].recs /\ job'[c].first = nextSeq
      /\ UNCHANGED answered
  BY RequestSteps
<1>2. nextSeq \in Nat \ {0}
  BY CounterFacts
<1>3. CASE job[c].recs = << >>
  <2>1. UNCHANGED nextSeq
    BY <1>3 DEF Store, ringVars
  <2>2. \A d \in Clients : d \in Underway' <=> d \in Underway
    BY <1>1, <1>3 DEF Underway, OnlyMoves
  <2>3. \A d \in Underway : job'[d] = job[d]
    BY <1>1 DEF Underway, OnlyMoves
  <2> QED
    BY <1>1, <2>1, <2>2, <2>3, SeqsUndisturbed
<1>4. CASE job[c].recs # << >>
  <2>1. n \in Nat \ {0} /\ nextSeq' = nextSeq + n
    <3>1. job[c].recs \in Batches /\ AppendStored(job[c].recs)
      BY <1>4 DEF ServerTypeOK, Store
    <3> QED
      BY <3>1, BatchFacts DEF AppendStored
  <2>2. Underway' = Underway \cup {c} /\ c \notin Underway
    BY <1>1, <1>4 DEF Underway, OnlyMoves
  <2>3. Answer(c)' = new /\ \A d \in Underway : Answer(d)' = Answer(d)
    BY <1>1 DEF Answer, OnlyMoves, Underway
  <2> HIDE DEF n
  <2>4. Issued(new, nextSeq')
    BY <1>2, <2>1 DEF Issued
  <2>5. \A r : Issued(r, nextSeq) => Issued(r, nextSeq') /\ Apart(new, r) /\ Apart(r, new)
    BY <1>2, <2>1 DEF Issued, Apart
  <2>6. \A s \in 1 .. nextSeq' - 1 : s \in 1 .. nextSeq - 1 \/ s \in SeqsFrom(new)
    BY <1>2, <2>1 DEF SeqsFrom
  <2> HIDE DEF new
  <2>7. \A r \in answered' : Issued(r, nextSeq')
    BY <1>1, <2>5 DEF SeqsInv
  <2>8. \A d \in Underway' : Issued(Answer(d)', nextSeq')
    BY <2>2, <2>3, <2>4, <2>5 DEF SeqsInv
  <2>9. \A r, q \in answered' : r = q \/ Apart(r, q)
    BY <1>1 DEF SeqsInv
  <2>10. \A d \in Underway', r \in answered' : Apart(Answer(d)', r)
    BY <1>1, <2>2, <2>3, <2>5 DEF SeqsInv
  <2>11. \A d, e \in Underway' : d = e \/ Apart(Answer(d)', Answer(e)')
    BY <2>2, <2>3, <2>5 DEF SeqsInv
  <2>12. \A s \in 1 .. nextSeq' - 1 :
           \/ \E r \in answered' : s \in SeqsFrom(r)
           \/ \E d \in Underway' : s \in SeqsFrom(Answer(d)')
    BY <1>1, <2>2, <2>3, <2>6 DEF SeqsInv
  <2> QED
    BY <2>7, <2>8, <2>9, <2>10, <2>11, <2>12 DEF SeqsInv, Apart, SeqsFrom, Issued
<1> QED
  BY <1>3, <1>4

\* An answer names a range that was issued to the request it answers.
LEMMA AnswerKeepsSeqs ==
  ASSUME RingInv, ServerTypeOK, SeqsInv, NEW c \in Clients, CountStored(c)
  PROVE  SeqsInv'
<1>1. /\ OnlyMoves(c) /\ stage[c] = "stored" /\ stage'[c] = "idle"
      /\ UNCHANGED nextSeq
      /\ answered' = IF job[c].recs = << >> THEN answered ELSE answered \cup {Answer(c)}
  BY RequestSteps DEF CountStored, ringVars
<1>2. \A d \in Underway \ {c} : job'[d] = job[d] /\ Answer(d)' = Answer(d)
  BY <1>1 DEF OnlyMoves, Underway, Answer
<1>3. CASE job[c].recs = << >>
  <2>1. c \notin Underway /\ UNCHANGED answered
    BY <1>1, <1>3 DEF Underway
  <2>2. \A d \in Clients : d \in Underway' <=> d \in Underway
    BY <1>1, <1>3 DEF Underway, OnlyMoves
  <2> QED
    BY <1>1, <1>2, <2>1, <2>2, SeqsUndisturbed
<1>4. CASE job[c].recs # << >>
  <2> DEFINE new == Answer(c)
  <2>1. Underway' = Underway \ {c} /\ c \in Underway
    BY <1>1, <1>4 DEF Underway, OnlyMoves
  <2>2. answered' = answered \cup {new}
    BY <1>1, <1>4
  <2>3. /\ Issued(new, nextSeq)
        /\ \A r \in answered : Apart(new, r)
        /\ \A d \in Underway \ {c} : Apart(Answer(d), new)
    BY <2>1 DEF SeqsInv
  <2>4. \A s \in 1 .. nextSeq - 1 :
          \/ \E r \in answered : s \in SeqsFrom(r)
          \/ s \in SeqsFrom(new)
          \/ \E d \in Underway \ {c} : s \in SeqsFrom(Answer(d))
    BY DEF SeqsInv
  <2> HIDE DEF new
  <2>5. \A r \in answered' : Issued(r, nextSeq')
    BY <1>1, <2>2, <2>3 DEF SeqsInv
  <2>6. \A d \in Underway' : Issued(Answer(d)', nextSeq')
    BY <1>1, <1>2, <2>1 DEF SeqsInv
  <2>7. \A r, q \in answered' : r = q \/ Apart(r, q)
    <3>1. \A r \in answered : Apart(r, new)
      BY <2>3 DEF Apart
    <3> QED
      BY <2>2, <2>3, <3>1 DEF SeqsInv
  <2>8. \A d \in Underway', r \in answered' : Apart(Answer(d)', r)
    BY <1>2, <2>1, <2>2, <2>3 DEF SeqsInv
  <2>9. \A d, e \in Underway' : d = e \/ Apart(Answer(d)', Answer(e)')
    BY <1>2, <2>1 DEF SeqsInv
  <2>10. \A s \in 1 .. nextSeq' - 1 :
           \/ \E r \in answered' : s \in SeqsFrom(r)
           \/ \E d \in Underway' : s \in SeqsFrom(Answer(d)')
    BY <1>1, <1>2, <2>1, <2>2, <2>4
  <2> QED
    BY <2>5, <2>6, <2>7, <2>8, <2>9, <2>10 DEF SeqsInv, Apart, SeqsFrom, Issued
<1> QED
  BY <1>3, <1>4

LEMMA SeqsKept ==
  ASSUME RingInv, ServerTypeOK, ServerTypeOK', SeqsInv, [ServerNext]_vars
  PROVE  SeqsInv'
<1>1. ASSUME NEW c \in Clients, OnlyMoves(c), stage[c] # "stored", stage'[c] # "stored",
             UNCHANGED << nextSeq, answered >>
      PROVE  SeqsInv'
  <2>1. \A d \in Clients : d \in Underway' <=> d \in Underway
    BY <1>1 DEF Underway, OnlyMoves
  <2>2. \A d \in Underway : job'[d] = job[d]
    BY <1>1 DEF Underway, OnlyMoves
  <2> QED
    BY <1>1, <2>1, <2>2, SeqsUndisturbed
<1>2. ASSUME NEW c \in Clients, Arrive(c) \/ Refuse(c) \/ CountRefusal(c) PROVE SeqsInv'
  <2>1. OnlyMoves(c) /\ stage[c] # "stored" /\ stage'[c] # "stored" /\ UNCHANGED answered
    BY <1>2, RequestSteps
  <2>2. UNCHANGED nextSeq
    BY <1>2 DEF Arrive, Refuse, AppendRefused, CountRefusal, ringVars
  <2> QED
    BY <1>1, <2>1, <2>2
<1>3. ASSUME Aside PROVE SeqsInv'
  <2>1. UNCHANGED << nextSeq, answered, stage, job >>
    BY <1>3, AsideLeavesRequests
  <2>2. \A d \in Clients : d \in Underway' <=> d \in Underway
    BY <2>1 DEF Underway
  <2> QED
    BY <2>1, <2>2, SeqsUndisturbed
<1>4. ASSUME Reboot PROVE SeqsInv'
  <2>1. nextSeq' = 1 /\ answered' = {} /\ \A c \in Clients : stage'[c] = "idle"
    BY <1>4 DEF Reboot, Restart
  <2>2. Underway' = {} /\ 1 .. nextSeq' - 1 = {}
    BY <2>1 DEF Underway
  <2> QED
    BY <2>1, <2>2 DEF SeqsInv
<1> QED
  BY <1>2, <1>3, <1>4, StoreKeepsSeqs, AnswerKeepsSeqs, StepsOfServer

LEMMA ServerStepKeepsInv ==
  ASSUME ServerInv, [ServerNext]_vars
  PROVE  ServerInv'
<1>1. RingInv /\ WithinBounds /\ ServerTypeOK /\ CountsInv /\ StatsInv /\ SeqsInv
  BY DEF ServerInv
<1>2. RingInv' /\ WithinBounds'
  BY <1>1, ServerStepOfRing, StepKeepsInv, StepWithinBounds
<1>3. ServerTypeOK'
  BY <1>1, TypesKept
<1>4. CountsInv' /\ StatsInv' /\ SeqsInv'
  BY <1>1, <1>3, CountsKept, StatsKept, SeqsKept
<1> QED
  BY <1>2, <1>3, <1>4 DEF ServerInv

LEMMA ServerInitHasInv ==
  ASSUME ServerInit PROVE ServerInv
<1>1. /\ RingInit
      /\ stage = [c \in Clients |-> "idle"] /\ job = [c \in Clients |-> NoJob]
      /\ tele = NoCounts /\ stats = NoStats /\ answered = {}
  BY DEF ServerInit
<1>2. RingInv /\ WithinBounds
  BY <1>1, InitHasInv, InitWithinBounds
<1>3. ServerTypeOK
  BY <1>1 DEF ServerTypeOK, NoJob, NoCounts
<1>4. CountsInv
  <2>1. UncountedRecords = {} /\ {c \in Clients : stage[c] = "refused"} = {}
    BY <1>1 DEF UncountedRecords
  <2>2. IsFiniteSet({}) /\ Cardinality({}) = 0
    BY FS_EmptySet
  <2>3. totalIngestedCount = 0 /\ backpressure = 0 /\ tele.accepted = 0 /\ tele.backpressure = 0
    BY <1>1 DEF RingInit, NoCounts
  <2> QED
    BY <2>1, <2>2, <2>3 DEF CountsInv, TelemetryAccountsForBuffer, Uncounted
<1>5. StatsInv
  BY <1>1 DEF StatsInv, StatsLagBounded, NoStats
<1>6. SeqsInv
  <2>1. nextSeq = 1 /\ Underway = {}
    BY <1>1 DEF RingInit, Underway
  <2>2. 1 .. nextSeq - 1 = {}
    BY <2>1
  <2> QED
    BY <1>1, <2>1, <2>2 DEF SeqsInv
<1> QED
  BY <1>2, <1>3, <1>4, <1>5, <1>6 DEF ServerInv

-----------------------------------------------------------------------------
(* Theorems *)

\* The invariant of the server.
THEOREM ServerInvariance == ServerSpec => []ServerInv
<1>1. ServerInit => ServerInv
  BY ServerInitHasInv
<1>2. ServerInv /\ [ServerNext]_vars => ServerInv'
  BY ServerStepKeepsInv
<1> QED
  BY <1>1, <1>2, PTL DEF ServerSpec

\* The server is one of the callers that RingBuffer was proved correct for, so
\* each theorem of RingBufferProofs holds of it, up to and after its shutdown.
THEOREM ServerUsesTheBuffer == ServerSpec => RingSpec
<1>1. ServerInit => RingInit
  BY DEF ServerInit
<1>2. ServerInv /\ [ServerNext]_vars => [RingNext]_ringVars
  BY ServerStepOfRing DEF ServerInv
<1> QED
  BY <1>1, <1>2, ServerInvariance, PTL DEF ServerSpec, RingSpec

\* The telemetry and the buffer never lose track of each other, however many
\* requests are between their two locks.
THEOREM TelemetryAlwaysAccounts == ServerSpec => []TelemetryAccountsForBuffer
<1>1. ServerInv => TelemetryAccountsForBuffer
  BY DEF ServerInv, CountsInv
<1> QED
  BY <1>1, ServerInvariance, PTL

\* A /stats reply never shows more chunks ingested than accepted beyond those
\* that were being counted when it was begun.
THEOREM StatsLagAlwaysBounded == ServerSpec => []StatsLagBounded
<1>1. ServerInv => StatsLagBounded
  BY DEF ServerInv, StatsInv
<1> QED
  BY <1>1, ServerInvariance, PTL

\* Concurrent requests are always told disjoint ranges of numbers, which
\* together are the numbers issued.
THEOREM AnswersAlwaysPartition == ServerSpec => []AnswersPartitionSeqs
<1>1. ASSUME ServerInv PROVE AnswersPartitionSeqs
  <2> DEFINE ranges == answered \cup {Answer(c) : c \in Underway}
  <2>1. \A r \in ranges : Issued(r, nextSeq)
    BY <1>1 DEF ServerInv, SeqsInv
  <2>2. \A r, q \in ranges : r = q \/ Apart(r, q)
    <3>1. \A r, q : Apart(r, q) <=> Apart(q, r)
      BY DEF Apart
    <3> QED
      BY <1>1, <3>1 DEF ServerInv, SeqsInv
  <2>3. \A s \in 1 .. nextSeq - 1 : \E r \in ranges : s \in SeqsFrom(r)
    BY <1>1 DEF ServerInv, SeqsInv
  <2>4. \A c \in Underway : Answer(c) \notin answered
    <3>1. \A r : Issued(r, nextSeq) => ~ Apart(r, r)
      BY DEF Issued, Apart
    <3> QED
      BY <1>1, <3>1 DEF ServerInv, SeqsInv
  <2> HIDE DEF ranges
  <2>5. \A r \in ranges : SeqsFrom(r) \subseteq 1 .. nextSeq - 1
    <3>1. nextSeq \in Nat
      BY <1>1, CounterFacts DEF ServerInv
    <3> QED
      BY <2>1, <3>1 DEF Issued, SeqsFrom
  <2>6. UNION {SeqsFrom(r) : r \in ranges} = 1 .. nextSeq - 1
    BY <2>3, <2>5
  <2>7. \A r, q \in ranges : r = q \/ SeqsFrom(r) \cap SeqsFrom(q) = {}
    BY <2>1, <2>2 DEF Issued, Apart, SeqsFrom
  <2> QED
    BY <2>4, <2>6, <2>7 DEF AnswersPartitionSeqs, Underway, ranges
<1> QED
  BY <1>1, ServerInvariance, PTL

=============================================================================
