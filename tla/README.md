# Sekha sensory buffer: a TLA+ model

The sensory buffer ("Node 3") takes labelled input over HTTP, cuts it into
chunks, drops noise, scores the rest for a task, holds the chunks in RAM, and
hands them to a working memory ("Node 2"), which acknowledges them. Delivery is
at least once, to a single consumer, in one of two modes: Node 3 pushes, or
Node 2 pulls. Nothing is persisted.

This directory models the parts of the service whose correctness depends on the
order in which things happen, and the algorithms whose correctness depends on
many cases. TLC checks them on small instances. For every instance, TLAPS proves
the safety properties of the ring buffer, both delivery modes, concurrent ingest,
start-up, scoring, the classifier, queries and the rate, and that each delivery mode implements the
channel it promises. Paths below are relative to the repository; `ring.go` and
the like are under `internal/`.

Contents: [Inventory](#inventory) ·
[Modules](#modules-and-the-code-they-model) · [Runs](#runs) ·
[Fairness](#fairness) · [Proofs](#proofs) · [Assumptions](#assumptions) ·
[Findings](#findings) · [Observations](#other-observations) ·
[Not modelled](#what-is-not-modelled) · [Plan](#plan)

To repeat a run: `tlc -config MCRingBuffer.cfg MCRingBuffer.tla`. To repeat the
proofs of a module: `tlapm RingBufferProofs.tla`, and likewise for the other
modules named `...Proofs`. `PROJECT.json` lists all runs, the source
lines of every definition, and for every property a mutation of the model, as a
plausible bug would make it, under which TLC finds the property violated.

## Inventory

### Ring buffer (`buffer/ring.go`)

State: the records, oldest first; `nextSeq`; the watermark `ackedUpTo`;
`ackedCount`, how many of the records are acknowledged (always a prefix);
`usedBytes`; counters; an epoch drawn at start; the slots of the rate tracker.
Operations: `Append` (all or nothing, evicting acknowledged records if it has
to), `Ack`, `EvictAcked`, `Drain`, `Query`, `Pending`, `Stats`. Each takes
`rb.mu` for its whole body.

Hard: "acknowledged" is kept twice, as a watermark and as a count, and
`usedBytes` is moved by differences on three paths; eviction panics if they
disagree. Correct if every sequence number is evicted, retained or pending
exactly once, bytes are exact, unacknowledged records are never dropped, and a
batch is refused exactly when it does not fit beside them.

### Push loop (`push/push.go`)

State: where the loop stands, the batch it posts, the kind of the current
failure and the retry delay. One goroutine: drain, post, judge the reply, ack,
evict. The lock is free between those steps, so ingest comes in between.

Hard: a post may fail after Node 2 stored the batch; an abandoned post may still
arrive; a reply may quote another epoch, a part of the batch, or more than the
batch; a batch may be cut to the body limit; the process restarts and numbers
from 1 again. Correct if nothing is acknowledged that Node 2 does not have, Node
2 never has a gap, everything gets there, and the loop stops when told to.

### Pull API (`api/ingest.go`: `handleDrain`, `handleAck`)

No state of its own. `handleAck` takes the buffer's lock twice: for `Ack`, and
for the `Stats` of its reply. The consumer keeps a cursor (`after_seq`).

Hard: acks arrive late, twice, overtaken by newer ones or after a restart; pages
are fetched ahead while the watermark moves. Correct if nothing is acknowledged
that the consumer has not stored, paging never skips, and a restart always shows
as `409`, not as `400`.

### Ingest (`api/ingest.go`: `handleIngest`, `readIngest`, `ingest`)

State: the telemetry, under a lock of its own. A request is read and its labels
checked, chunked, floored, scored, appended to the buffer and counted. Requests
run concurrently.

Hard: the buffer and the telemetry are updated under different locks, after a
call to an embedder that takes any time; shutdown and acknowledgements come in
between. Correct if the two never lose track of each other and every reply names
its own records.

### Chunker, parsers, splitter, floor (`chunker/`, `parser/`, `floor/`)

Pure functions with loops that carry state: the open fence and the stack of
headings; the element that is open, the text and the fields read so far, and
where one record ends; the text that remains to be split; the keys seen so far
and the question a dialogue turn answers. Correct if every line and every text
ends up in one chunk, in order, under its headings or in its record, the
splitter ends and loses nothing, and the floor drops exactly noise and repeats.

### Embedding client and scores (`embed/`, `api/ingest.go`: `score`)

A sequence of calls per ingest: the task, batches, and after a rejection every
text by itself. Hard: the server comes and goes between the calls, and answers
in any order. Correct if a chunk has its own score or none, and the three places
that report on scores agree.

### Server (`api/handlers.go`, `cmd/server/main.go`)

`/stats` (two locks, one after the other), `/buffer`, the deprecated `/filter`,
`/health`; the order of shutdown: cancel the push loop and wait for it, log how
many chunks will be lost, close the listener and wait for requests up to five
seconds.

### Heuristic classifier (`classifier/classifier.go`)

The gate of `/filter`: a score from the features of a text, penalties and
floors, a verdict against a threshold that may come from the URL, the body or
the configuration, and counters. Hard: the verdict is about the score before it
is rounded, the reply shows it rounded; the threshold may be NaN. Correct if
verdict, reason, reply and counters fit together.

### Configuration and start-up (`config/config.go`, `cmd/server/main.go`)

`Load` reads 30 keys with a rule each and four rules between keys or about one,
and reports all violations together; `main` lets flags override, opens the
buffer, wires embedder and push loop, and listens. Hard: products overflow, NaN
passes every comparison, flags pass no rule. Correct if what starts works as the
environment says, and meets what the other parts take for granted.

### The rest

Two load generators and a report tool. See [below](#what-is-not-modelled).

### How they interact

```
 clients --/ingest--> labels -> chunker -> floor -> scores ---Append---> ring buffer
                                                      |                  |  |  |
                                              embedding server           |  |  +-- Query, Stats: readers
                                                                         |  +-- Drain, Ack: handlers <-- Node 2 pulls
                                                                         +-- Drain, Ack, EvictAcked: push loop --> Node 2
```

All sharing goes through the ring buffer's lock, and through the telemetry's.

## Modules and the code they model

| module | code | state and actions |
| :--- | :--- | :--- |
| `ByteSums` | the loops of `Append` that add sizes | running totals of a sequence of records |
| `RingBuffer` | `buffer/ring.go` | one action per method that writes (`AppendStored`, `AppendRefused`, `Ack`, `EvictAcked`), `Restart`; one operator per method that reads (`Drain`, `Pending`) |
| `ChunkLog` | the promises in the comments of `ring.go` and in the README | abstract: accepted and confirmed numbers, and what is readable; `RingBuffer` implements it |
| `DeliveryChannel` | the README's promises of delivery | abstract: what was accepted and confirmed in this lifetime, and what Node 2 has stored of any; `PushDelivery` and `PullDelivery` implement it |
| `PushDelivery` | `push/push.go`, on `RingBuffer` | the loop cut where it touches the lock or the network; `Retry-After` with wrapping integers; Node 2, late requests, `Ingest`, `Cancel`, `Crash` |
| `PullDelivery` | `handleDrain`, `handleAck`, on `RingBuffer` | `handleAck` as two critical sections; the consumer of `cmd/stress_test` (`Ask`), one that also pages ahead (`AskFurther`), crashes |
| `IngestServer` | `ingest`, `handleStats`, `main`, on `RingBuffer` | one request per client, cut at its two locks; the shutdown |
| `Scoring` | `embed/embed.go`, `score`, the record loop of `ingest` | one action per call to the embedder |
| `LineChunker` | `Log`, `markdown`, `paragraphs` | one action per kind of line |
| `ItemParser` | `ParseCSV`, `ParseXML`, `ParseJSON`, `ParsePDF` | documents are sequences of tokens; one action per kind of token |
| `Floor` | `Dialogue`, `split`, `floor.Apply`, on `LineChunker` and `ItemParser` | one action per rule and candidate |
| `IngestInput` | `readIngest`, `validateLabels`, `DetectFormat`, on `Floor` | a request is refused, or becomes the input of the chunker |
| `TextSplit` | `splitAtSemanticBoundaries` | one action per cut |
| `Configuration` | `config.Load`, `main` up to the server that listens | environment and flags; one action per step of `main` that may end the process |
| `Classifier` | `Score`, `FilterChunks`, threshold and telemetry of `handleFilter`, on `Configuration` | one action per chunk |
| `FirstIngest` | one process: `Configuration`, then `TextSplit` and `Scoring`, or `Classifier` | the stages of a process and its first request |
| `BufferReads` | `Query`, the rate tracker, `handleBufferQuery` | records with the times of clock or caller, and a clock that may be set at any time |
| `LegacyFilter` | `handleFilter`, `partitionOversizedChunks`, on `BufferReads` | which chunks are filtered, and under which ids |
| `RingBufferProofs`, `PushDeliveryProofs`, `PullDeliveryProofs`, `IngestServerProofs`, `FirstIngestProofs`, `IngestInputProofs`, `BufferReadsProofs` | | theorems about the modules they are named for, and those these compose |
| `SequenceFacts` | | lemmas about sequences that several of them need |

`RingBuffer` has names and structure of the code: `items`, `nextSeq`,
`ackedUpTo`, `ackedCount`, `usedBytes` and the counters are the fields; the early
returns of `Append` are `TooLarge` and `Full`, its eviction loop is the number
`Evictions` of records it pops; `Ack` judges its arguments in `AckStatus`, in the
order of the code. Because every method holds the lock throughout, a method is a
single action. The modules that extend `RingBuffer` say who calls what, and cut
their callers wherever the lock is free.

Data is abstracted to what properties tell apart. A record of `RingBuffer` is
its size and number. A line is its kind, depth and a word. A text that is scored
is what its embedding would say of it; a text that is classified is its features,
in thousandths. An epoch is a number that grows; the code draws 64 random bits.
The byte of a text in `TextSplit` is one of seven classes. A structured document
is the tokens its parser reads. The text of a variable of the environment is
what the parsers of `Load` tell apart, and the width of integers is scaled down
together with the units they are multiplied by.

## Runs

Each run asks one question. "States" are distinct ones.

| run | states | bounds |
| :--- | ---: | :--- |
| `ring_buffer` | 18,888 | 6 bytes, records of 1 to 4, batches of one and two, 7 records, two lifetimes |
| `push_safety` | 1,984,629 | 5 bytes, 3 records, POSTs of two, 1 late request, two lifetimes, words of 6 bits |
| `push_liveness` | 63,243 | the same, one lifetime, no late request |
| `pull_safety` | 711,724 | 4 bytes, 3 records, pages of one and two, two acks handled at once, two lifetimes |
| `pull_liveness` | 18,913 | the same, one lifetime, one ack at once |
| `ingest_server` | 737,146 | 4 bytes, 3 records, two clients, two lifetimes |
| `shutdown_loss` | (violation) | the same |
| `first_ingest` | 85,599 | one or two keys set to every kind of value; all texts of up to four tokens of up to ten bytes, limits 1, 5 and 10; up to five inputs of the embedder in batches of two; one chunk with every combination of features, or two |
| `ingest_input` | 401,702 | documents of up to five lines, logs of four, dialogues of four turns; xml of nine tokens, csv of three rows, json of four values, pdf of two streams; all labels |
| `items_dropped` | (violation) | the JSON lines among these |
| `floor_named_turns` | (violation) | dialogues of up to four turns, some with ids |
| `buffer_reads` | 92,272 | eight seconds, three records |

**`ring_buffer`** calls every operation with every argument in any order.
`RecordsAccounted`, `BytesExact` and `TypeOK` say that the counters agree with
the records. `BackpressureExact` says when a batch is refused, with no reference
to the counters the code decides by. `DrainIsExact` says what a page is for every
cursor and size. `NeverDropsUnacked` and `EvictsOnlyWhenNeeded` restrict what one
step may remove. `ImplementsLog` is refinement of `ChunkLog`. The bounds let the
buffer fill up exactly, be refused with and without acknowledged records in it,
evict one, several and part of the acknowledged records, and be filled and
emptied more than once.

**`push_safety`**, **`pull_safety`** compose the buffer with a delivery mode, the
other side and restarts, and show that each implements `DeliveryChannel`
(`PushDelivers`, `PullDelivers`): what is confirmed is stored, what Node 2 holds
is a prefix of every lifetime, an acknowledgement never takes effect in a
lifetime it was not meant for, and nothing confirmed is taken back. The mapping
is the same for both: `lifetime` is the epoch, `accepted` is `nextSeq - 1`,
`confirmed` is `ackedUpTo`, `stored` is Node 2's store. `AckCannotFail` is the
comment at `push.go:114`. `RetriesPaced` says how long the loop sleeps after each
kind of failure, overflowed `Retry-After` headers included: always a positive
time; longer than the maximum backoff only if the reply of this very failure asked
for it; the maximum after a bug of this side; the interval after any other first
failure, and at most twice the delay before after a later one. The delay before
may be one that Node 2 asked for: the code does double it. `AckReplyCoversRequest`
and `EachChunkAckedOnce` are about overlapping acks, `RestartIsConflict` about
the order of the tests in `Ack`. Two lifetimes are needed for stale epochs; three
records let a batch be cut and a second page follow the first; one late request
is enough to be overtaken by its own repetition; 6-bit words let a product
overflow to a negative delay and to a short one.

**`push_liveness`**, **`pull_liveness`**: everything that was accepted is
delivered, delivered chunks leave RAM without further ingest, the loop stops
when cancelled, and a refused batch fits again some day. A chunk that alone
exceeds the body limit is in the run; what is behind it (`HeldBack`) is exempt
from delivery, as the README has it, and everything before it is not. They use
one lifetime, because a restart loses chunks, as documented.

**`ingest_server`** has two requests at any stage, refusals, `/stats` between its
locks, acknowledgements, shutdown and restart. Two clients are enough for each
property: each relates one request, or one `/stats`, to what others did meanwhile.

**`first_ingest`** follows one process from its start. `StartsSound`: a process that
gets as far as its buffer meets the assumptions of the other modules on their
constants. `RunsAsWritten` is the comment of `config.go`, that invalid values are "a
startup error rather than a silent fallback", as far as the code keeps it: what
runs has what was written, the product for a duration and for the capacity, unless
that product is no word, and NaN if that was written. The two exceptions are
written into the property; see the [observations](#other-observations). Each key
takes values on both sides of its bounds, texts of every kind, and values whose product
wraps to a negative number, to zero and to a small one; two keys are set together
where `Load` compares them. The texts to split reach each of the six rules, a
rune longer than the limit, and words that end in the look-ahead and past it
(`PiecesSound`, `NothingLost`). A piece may exceed the limit in one case, which
`TakenWhole` describes: a single word without a comma or the like, which ends less
than a fifth behind it. The code's own comments exclude this case (see the
observations). The embedder is given up to three batches, the
last one short, a bad text anywhere, every order of the vectors in an answer, and
a server that stops and starts between any two calls (`RoutedByOwnScore`,
`OnlyBadUnscored`, `ReportsAgree`). `GateSound` relates verdict, reason, rounded
score and counters of a filter request, for features on both sides of every
limit. `WorkEnds`: the start-up comes to an end, and so does every request.

**`ingest_input`**: five lines hold two nested sections and a return to the outer
one, or a fence with a blank line and a heading in it; four turns are what it
takes to give the same answer to two questions. The references the code is
compared with (`FenceAfter`, `Around`, `Begins`, `Answered`, `SameMemory`) look
at the whole input instead of the state of a loop. Apart from these, all
combinations of labels go through validation, so that only what it lets pass is
chunked. `ItemsFaithful` compares the items of a csv, xml, json or pdf document
with a definition over all of its tokens: which text belongs to which record is
read off depths and tag names (`Depth`, `RecordEnd`, `Apart`, `StreamAt`) instead
of a stack. Nine tokens hold a record inside a record, text on both sides of a
child, and a document four elements deep.

**`buffer_reads`**: eight seconds reuse a slot of five. The clock may be set to any
of them at any time, so that a record can be made up to seven seconds behind the
last one. `RateIsWindow` says what the rate is in every such history; it is not
always the rolling window of the comment (see the observations). `FilterIdsUnique` quantifies over
filter requests in every state of the buffer, so ids from the buffer start
anywhere and meet parts of split chunks.

Bounds are constants of the modules (`MaxSeq`, `MaxEpoch`, `MaxRefusals`,
`MaxLate`, `MaxHandlers`, `Start`, `End`) and guard the actions that would
exceed them. The runs do not check for deadlock where the bounds, a finished
function or an exited process stop the system; `buffer_reads` has none.

## Fairness

* `PushFairness`. Weak fairness of the goroutine's own steps: it is scheduled,
  `time.After` fires, and the client's timeout bounds every POST (`GiveUp` is a
  step of the goroutine). Strong fairness of `Node2Accepts` and of
  `ReceiveDelivered`: Node 2 may refuse, and the network may lose answers, any
  number of times, but a sender that tries for ever is accepted, and hears of it,
  again and again. The code cannot guarantee this; delivery means nothing
  without it.
* `PullFairness`. The consumer keeps asking (weak), and acknowledges again and
  again although it may page ahead or crash (strong); an ack that is sent for
  ever arrives (strong); `net/http` runs a handler to its end (weak).
* `FairWorkSpec`. Weak fairness of the start-up, and of the work on a request that
  has arrived: a goroutine runs until its function returns, and every call to the
  embedder returns, because its client has a timeout. That a request arrives is
  not assumed.

No fairness is assumed of ingest, restarts, cancellation or late requests.

## Proofs

The proofs are about the modules themselves and hold for every value of their
constants that meets the assumptions stated there: every capacity, every set of
batches, every page and batch size, every finite set of clients, every
environment, and all bounds. So the bounds of the runs matter only to what is
left to TLC.

| theorem | property | says |
| :--- | :--- | :--- |
| **`RingBufferProofs`** | | about `RingSpec` |
| `RingInvariance` | | `RingInv` holds always |
| `TypeCorrect`, `RecordsAlwaysAccounted`, `BytesAlwaysExact` | `TypeOK`, `RecordsAccounted`, `BytesExact` | its three parts |
| `WatermarkAlwaysSplits` | | watermark and count agree on what is acknowledged |
| `NeverDropsUnackedHolds`, `EvictsOnlyWhenNeededHolds` | `NeverDropsUnacked`, `EvictsOnlyWhenNeeded` | what a step may remove |
| `BackpressureAlwaysExact` | `BackpressureExact` | when a batch is refused |
| `DrainAlwaysExact` | `DrainIsExact` | what a page is, for every cursor and limit |
| `RingImplementsLog` | `ImplementsLog` | `RingBuffer` implements `ChunkLog` |
| **`PushDeliveryProofs`** | | about `PushSpec` |
| `PushInvariance` | | `PushInv` holds always |
| `PushUsesTheBuffer` | | `PushSpec => RingSpec` |
| `AckNeverFails` | `AckCannotFail` | the `Ack` of the loop is never refused |
| `PushAlwaysDelivers` | `PushDelivers` | push mode implements `DeliveryChannel` |
| `RetriesAlwaysPaced` | `RetriesPaced` | how long the loop waits after a failure |
| **`PullDeliveryProofs`** | | about `PullSpec` |
| `PullInvariance` | | `PullInv` holds always |
| `PullUsesTheBuffer` | | `PullSpec => RingSpec` |
| `PullAlwaysDelivers` | `PullDelivers` | pull mode implements `DeliveryChannel` |
| `EachChunkAlwaysAckedOnce` | `EachChunkAckedOnce` | the counts of overlapping acks add up |
| `AckReplyAlwaysCovers` | `AckReplyCoversRequest` | a `200` covers its request |
| `RestartIsAlwaysConflict` | `RestartIsConflict` | a restart shows as `409` |
| **`IngestServerProofs`** | | about `ServerSpec` |
| `ServerInvariance` | | `ServerInv` holds always |
| `ServerUsesTheBuffer` | | `ServerSpec => RingSpec` |
| `TelemetryAlwaysAccounts` | `TelemetryAccountsForBuffer` | telemetry and buffer keep track of each other |
| `StatsLagAlwaysBounded` | `StatsLagBounded` | what `/stats` may show |
| `AnswersAlwaysPartition` | `AnswersPartitionSeqs` | every reply names its own records |
| **`FirstIngestProofs`** | | about `StartupSpec` |
| `StartInvariance` | | `StartInv` holds always |
| `StartsAlwaysSound`, `AlwaysRunsAsWritten` | `StartsSound`, `RunsAsWritten` | what a process that starts runs with, and the two exceptions |
| | | about `WorkSpec` |
| `WorkInvariance` | | `WorkInv` holds always |
| `WorkStartsSound`, `WorkRunsAsWritten` | `StartsSound`, `RunsAsWritten` | the start-up again, in the composition |
| `AlwaysRoutedByOwnScore`, `OnlyBadAlwaysUnscored`, `ReportsAlwaysAgree` | `RoutedByOwnScore`, `OnlyBadUnscored`, `ReportsAgree` | the scores of one ingest |
| `GateAlwaysSound` | `GateSound` | verdicts, reasons and scores of the filter |
| `CutInvariance` | | `CutInv`, the splitter's own, holds always |
| `PiecesAlwaysSound`, `NothingEverLost` | `PiecesSound`, `NothingLost` | the pieces of a text, and which of them may exceed the limit |
| **`IngestInputProofs`** | | about `IngestSpec` |
| `ChunkerInvariance` | | `ChunkerInv` holds always |
| `LinesAlwaysOnceInOrder`, `ChunksAlwaysBeginRight`, `PathsAlwaysEnclose` | `LinesOnceInOrder`, `ChunksBeginRight`, `PathIsEnclosing` | the chunks of a log or a document |
| `FloorInvariance` | | `StageInv` and `KeepInv` hold always |
| `AlwaysKeepsExactlyTheNew` | `KeepsExactlyTheNew` | what the floor keeps, if no turn borrows the id of another |
| **`BufferReadsProofs`** | | about `ReadsSpec` |
| `ReadsInvariance` | | `ReadsInv` holds always |
| `RateAlwaysOfWindow` | `RateIsWindow` | what the rate counts, for every way the clock is set |
| `QueryAlwaysNewest` | `QueryIsNewestMatching` | what a reply of `/buffer` has |
| `FilterIdsAlwaysUnique` | `FilterIdsUnique` | the ids in a reply of `/filter` |

What they are proved from, apart from the definitions: `CapacityAssumption` (`New`
panics on a capacity that is not positive), `BatchesAssumption` (`Append` ignores
an empty batch, and every record costs at least its overhead), `BoundsAssumption`
(the bounds are numbers, and there is a first lifetime), `PushAssumption` and
`PullAssumption` (the constants are of their types, and sizes positive, as
`Load` makes sure), `ServerAssumption` (clients are finitely many),
`ConfigurationAssumption` (environments are texts of the kinds that the parsers
tell apart; the defaults, in their units, fit into a word), `ScoringAssumption`
(a batch has at least one text; `Load` again, as `StartsAlwaysSound` shows) and
`FilterAssumption` of `FirstIngest` (the features of a text are ratios up to 1,
which the code cuts off there), `ReadsAssumption` (the clock is far from 0),
`TextAssumption`
(callers of the splitter trim, and the limit is positive), `FloorAssumption` and
`RequestsAssumption` (what a decoded request looks like).

The arguments:

* **`RingBuffer`.** None of the invariants is inductive alone. That `Append` stops
  its eviction within the acknowledged records needs `usedBytes` to be the exact
  sum of the sizes, because only then "it does not fit without eviction, and fits
  with all of it" bounds how many records go (`EvictionStopsInAcked`; in the code,
  the panic in `evictOldestAckedLocked` is unreachable). That the sum stays exact
  needs to know that the evicted records are the first ones. That an
  acknowledgement counts the right records needs sequence numbers to be
  consecutive, so that the scan of `Ack` stops at a place that arithmetic can name
  (`FirstAboveValue`). Their conjunction, `RingInv == TypeOK /\ RecordsAccounted /\
  BytesExact`, is inductive. There is a lemma per action that it is kept. The
  action properties, the pages and the refinement follow from it.
  `SequenceFacts` has the facts about running totals, which are a recursive
  function; what it computes is proved by induction on the natural numbers.
* **The modules on top of `RingBuffer`** are shown to take only steps that its own
  specification allows (`...UsesTheBuffer`). All theorems of `RingBufferProofs`
  therefore hold of them, and `RingInv` is a part of their invariants for free.
* **Delivery.** That a chunk is stored before it is confirmed rests on every batch
  and every ack that is under way, those of earlier epochs included, because each
  may still arrive. `GoodBatch` (in `RingBufferProofs`, for both modes) says that a batch
  is in order and begins right behind a prefix of its epoch that Node 2 has
  already; so any part of it may be stored at any time without leaving a gap.
  `GoodAck` says the same of an ack. Both survive a restart, because epochs grow:
  what was made in an earlier epoch says nothing of this one. `PushInv` adds where
  the loop stands: what it posted begins just above the watermark, since no one
  else acknowledges, and what it is about to acknowledge is stored. `PullInv` adds
  the consumer's page and cursor, and the handlers between `Ack` and `Stats`: the
  watermark covers what they were asked, and only grows while they wait.
  Refinement is then a step-by-step simulation, in which a restart of Node 3, a
  reply and an ack are the steps of `DeliveryChannel` they claim to be.
* **`IngestServer`.** What holds of the two halves of a request holds only with what
  is between them counted in. `CountsInv` sums the records that are stored and
  not counted yet, over all clients; `StatsInv` has the same for a `/stats` that has
  read one half. `SeqsInv` says that no range of numbers is given twice, also to
  two requests of which neither is answered yet, and that nothing issued is
  missing.
* **Start-up.** Each key that passes its rule is within the bounds that the other
  modules assume, multiplication with its unit included: a product that wraps is
  still a word, and what `main` checks later is the wrapped value. The
  invariant `StartInv` carries this from `Load` to the server that listens.
* **Scores.** `ScoringInv` knows how far the batches have come, that the vectors so
  far are those of the first texts, and whether anything but a bad text went
  wrong. `SortedIsBatch` shows that an answer sorted by index is the batch in its
  order, for every permutation: increasing indices from 1 to n count
  (`IncreasingCounts`).
* **The gate.** Each verdict in the reply is the score of its chunk
  (`GateInv`); the rest is arithmetic: rounding is monotone, and without the boost
  of an alert, a boilerplate line stays under 0.6 even with every other part at
  its best.

* **The rate.** A slot does not say which second it is for. `SlotsInv` says that each
  of the five seconds up to the last record has one to itself, with all its bytes
  and with those that landed in it while the clock was five seconds or more behind
  (`LandsIn`), and that nothing arrived later. `ClearedFacts` is the heart of it:
  emptying the slots of the seconds in between leaves each second in the new
  window what it had, and empties the slots of those that enter it.
* **Queries.** The scan stops at one position (`QueryShape`); behind it everything
  matches, and no more than the limit. That nothing before it is among the newest
  needs the numbers, and the times, to increase over the whole buffer.
* **The legacy filter.** What is chosen has increasing numbers, wherever it comes
  from (`ChosenInOrder`): from the buffer by `ReadsInv`, from a body by its count. If
  nothing is split it stays so. Otherwise each chunk has at least one part, the
  parts stand in the order of their chunks (`FlattenNeighbours`), and they are
  numbered by position.
* **The splitter.** What remains never begins or ends with white space (`SplitInv`),
  so every cut leaves something solid in front of it; a cut inside a rune is
  impossible because each of the six rules cuts at a first byte, or, with a limit
  of at least four bytes, finds one. A cut past the limit is one of the look-ahead,
  so the rules before it found nothing (`BeforeLastFacts`): what is cut off is one
  word (`OneWord`).
* **The chunker.** Its loop decides from what it carries along: the lines being
  collected, the open fence, the stack. `ChunkerInv` says what each of these is in
  terms of the lines that were read: the collected lines are the interval up to
  the next line, and collecting means that nothing has ended the chunk there
  (`CurInv`); the fence is `FenceAfter`, the stack are the headings that no later
  heading has closed, in increasing order (`MarkdownInv`). What was emitted are
  intervals of lines one behind the other, and with the interval being collected
  they hold the content so far, and begin where a chunk is to begin (`Layout`).
  None of the three properties is inductive: an emitted chunk is right because of
  what was collected, and that because of the fence. Paragraphs are made in one
  step, and `LayoutParagraphs` gives the same layout for them. The end is a fact
  about concatenations: if intervals follow each other, all their elements in a
  row increase (`FlattenNeighbours`).
* **The floor.** By `KeepInv` the keys that it remembers are those of the
  candidates it kept, and it kept what was new *by its key*. What remains is that
  keys are equal exactly if the memories are the same (`KeyIsMemory`), that is,
  that `questionContexts`, which sees candidates with turn ids, finds the question
  that the turns of the request have (`QuestionIsAnswered`): parts of a turn are
  together and in order, a blank turn has blank parts only or one, and the first
  candidate with a new id is the head of its turn. This needs the ids of the turns
  to be distinct. `validateLabels` makes sure of that for ids that were given
  (`GivenIds`, a part of the invariant), not for those that `Dialogue` makes up. So the
  theorem has the hypothesis `NoBorrowedId`, which is a state predicate and not an
  assumption on the requests: the theorem is about every request, and says
  nothing of those that give a turn the id another turn will get. For these the
  property is false, as the run `floor_named_turns` shows; the proof attempt
  without the hypothesis stops at this very point.

Induction over data. The induction theorems of the library take the property as
an operator, which the provers cannot instantiate. `SetInduction` is the same
principle with the property given as a set; it follows from the least element of a
set of naturals (`LeastNatural`). With it `SequenceFacts` has what the recursive
functions compute for every length: running totals (`CumulativeOfWindow`), the
fences of module `IngestInputProofs` (`FenceAfterFacts`) and concatenations, of
which it says what their elements are and in which order (`FlattenElements`,
`FlattenOrder`).

Every inductive invariant was checked by TLC on the instances of the runs before
it was proved, in the form in which TLC can evaluate it (sequences over a bounded
set).

Left to model checking:

* Liveness (`EventuallyAcked` and the like), and whatever speaks of `ENABLED`: out
  of the prover's reach.
* `ItemsFaithful`. It identifies a text of a document by its words, so it is true of
  documents whose texts differ, as those of the run, and not of all; and its
  reference (depths, sorted positions) is defined by choices over sets for which
  there are no theorems. What the parsers do for every document stays bounded by
  the run.
* `AnswersKeptByQuestion`, `ChunkerDropsNothing` and `LossIsLogged` are refuted, not
  proved: see the findings.

## Assumptions

* Epochs never repeat. The code draws 64 random bits.
* Node 2 stores a prefix of the batch it is sent, and a `200` for an epoch with
  `accepted_up_to_seq = a` means that the chunks of this batch up to `a` are
  stored. Its replies are otherwise arbitrary.
* One consumer. In pull mode it stores a page before it acknowledges it. `Ask` is
  the consumer of the README's steps and of `drainLoop`, which drains from the
  watermark and looks at no epoch. A consumer that pages ahead with `after_seq`
  (`AskFurther`, not in the repository) is assumed to compare the epoch of a page
  with that of its cursor. Without this, a page of a new lifetime that was asked
  for with the cursor of the old one would be acknowledged including the chunks it
  skipped, and those be lost; the README, which offers `after_seq`, does not ask
  for it. No run covers that case.
* The embedder labels vectors with the right indices, and rejects a text it
  cannot take every time.
* In `LineChunker` and `Floor`, a blank line is empty, and chunks of logs and
  documents are within the size limit; turns of a dialogue are split. A line of
  white space counts as blank to `Paragraphs`; in the code one that stands beside
  the separator stays in its chunk, as white space (`chunker.go:46`, `149`). In
  `ItemParser`, the line "--- PDF Section i ---" that `pdf.go:42` puts in front of
  the text of a stream is left out, items are within the limit, and what the text parser makes of a
  document that a parser gave up on is one item.
* In `FirstIngest`, `SEKHA_CHUNK_MAX_BYTES` is scaled down to the limits of the
  splitter, and any pieces of a text may be the ones that the floor keeps.
* Overflow wraps in two's complement, as the Go specification says.

## Findings

**`shutdown_loss`** (documentation and code diverge). `main` reads `rb.Pending()`
for the message "initiating graceful shutdown (%d unacknowledged chunks will be
lost)" (`main.go:91`) before `httpServer.Shutdown` (`main.go:96`). Requests are
served in between, and for up to five seconds after. An ingest that stores then
is answered `201` and lost without being counted; an ack makes the number too
large. The README says that "the shutdown log line records how many were
pending". `LossIsLogged` states it and is violated.

**`floor_named_turns`** (bug). `Dialogue` names a turn without an id `t<N>`
(`chunker.go:88`), and `validateLabels` compares only ids that were given. If the
caller gives a turn the id `t2` beside an unnamed second turn,
`questionContexts` (`floor.go:91`) takes the two for the parts of one turn,
although different speakers spoke them, and judges answers against the wrong
question. An answer to another question is then dropped as a duplicate, against
README:44. `AnswersKeptByQuestion` states the README's rule and is violated.

**`items_dropped`** (bug). `ParseJSON` reads JSON lines with a `bufio.Scanner` of the
default size (`json.go:65`), which stops at a line of 64 KiB, and never looks at
`scanner.Err()`. The lines before it are returned as the whole document; the long
line and all that follow are neither stored nor counted, and the answer is `201`.
The comment at `chunker.go:5` says that the chunker "itself never drops anything".
`ChunkerDropsNothing` states it and is violated: of two lines the second is long
and is lost.

## Other observations

Seen while modelling, and not stated as properties:

* After a `503`, README:159 has "the same batch" resent. The loop drains anew, so
  the batch may have grown. The model does what the code does.
* README:235 calls the maximum backoff the cap of retry delays, apart from a
  `503`. `deliver` honours a `Retry-After` on any other status as well, up to an
  hour (`push.go:155`).
* A `Retry-After` in seconds is multiplied before it is capped (`push.go:201`): a
  huge value overflows `int64`, and 18446744074 seconds are honoured as 0.29.
* The retry delay is carried from one failure to the next of another kind
  (`push.go:99`): after a `503` with `Retry-After: 10`, a timeout waits 20 seconds,
  not the interval. `RetriesPaced` allows for both: what it excludes is a retry
  without a pause, a delay that outlives a success, and one beyond its cap.
* `NaN` passes the range check of a threshold (`config.go:142`): nothing is below a
  minimum or above a maximum. With a NaN `SEKHA_STRONG_THRESHOLD` no chunk is
  strong, and the reply to an ingest, which quotes the threshold, cannot be encoded:
  `writeJSON` ignores the error, and the client gets a `201` without a body. With a
  NaN `SEKHA_FILTER_THRESHOLD` the filter discards everything.
  README:220 has "Invalid values stop the service at startup". `StartsSound` and
  `RunsAsWritten` name NaN as an exception.
* Durations and the capacity are multiplied without a check (`config.go:192` and
  following, `main.go:38`). A large value wraps to a negative duration, which is a
  timer that has expired, or to another capacity: `New` panics, or the buffer is
  smaller than asked for. This is a silent fallback of the kind that `config.go:2`
  excludes; `RunsAsWritten` has the exception. `-port` is not validated; listening fails instead.
* In xml, text before a child element is dropped with the reset at `xml.go:43`,
  attributes are not read, and text after a child is labelled with the child's
  name. Keys beside `items` in a JSON object are dropped. `ItemsFaithful` exempts
  these; they are lost to `ChunkerDropsNothing` as well.
* A text object of a pdf that is still open at the end of a stream ends there;
  direct text is read only if no stream shows any (`pdf.go:48`).
* README:166 says that `/buffer` shows only undelivered chunks in push mode.
  Between `Ack` and `EvictAcked` it shows delivered ones.
* `SplitAtBoundaries` promises "pieces of at most maxBytes" (`txt.go:206`), the
  chunker that `split` "bounds a unit to maxBytes" (`chunker.go:48`), README:237 has
  "Chunk size limit", and `chunker_test.go:79` fails on a longer part. The
  look-ahead (`txt.go:54`) precedes the hard cut and lets a word without any
  separator in the first `maxBytes` bytes be up to a fifth longer. The text of the
  test does not reach it. `PiecesSound` states the limit with this exception.
* The rate of `/stats` is not always that of the "rolling 5-second window". A record
  made while the clock is five seconds or more behind the last one is added to the
  slot of the later second that has the same remainder (`ring.go:147`): with a
  record at 13, one at 8, and the clock at 13 again, the rate has both.
  `RateIsWindow` says exactly which bytes are counted so.
* A paragraph repeated within one long dialogue turn is dropped as a duplicate, so
  the parts of the turn do not join to the original.
* `Query` scans back from the newest record and stops at the first that is older
  than `since_ms` allows. Caller timestamps need not be in order, so newer records
  behind it are missed. `QueryIsNewestMatching` promises all of them only for
  times in order.
* A `limit` above 10000 gives 100 records, not 10000 (`ring.go:380`).
* The check that a PDF is not sent inside JSON (`ingest.go:160`) precedes both the
  trimming of labels and the detection of the format. A JSON document that is
  detected as PDF passes.
* `/filter` with `from_buffer` in its body, for which the buffer has nothing,
  filters the text of the request instead (`handlers.go:302`). `FromBody` has this.

## What is not modelled

* **Command-line tools**: not part of the service, except that the consumer of
  `PullDelivery` follows `drainLoop`.
* **Within modelled parts**: JSON, HTTP and multipart decoding (only whether it
  succeeds), `Cosine` and rounding, log messages, the telemetry of floor and
  scores, the `409 push_mode` answer, uptime and percentages of `/stats`. Time is
  modelled where behaviour depends on it (`BufferReads`, retry delays); how long
  an ingest waits for an embedder is not, so that a request may take as many
  timeouts as it has chunks (`embed.go:173`) is not stated.
* **How the classifier computes its features** (entropy, regular expressions,
  keyword lists): floating point over single texts. `Classifier` has everything
  that is done with them.
* **Inside a format**: the escapes of pdf strings, decompression, how numbers in
  JSON are written out again, and what `ParseTXT` and `ParseMarkdown` make of a
  plain text for `/filter` or for a parser that gave up.

## Plan

Order of the work, most important first; the list is done.

1. `RingBuffer` with `ChunkLog`, and its proofs.
2. `PushDelivery`, `PullDelivery`: the two delivery modes, safety and liveness.
3. `IngestServer`: concurrent ingest, telemetry, `/stats`, shutdown.
4. `Scoring`: the sequence of embedder calls.
5. `LineChunker`, `Floor`, `IngestInput`, `TextSplit`: the way from a request to
   chunks.
6. `BufferReads`, `LegacyFilter`: readers.
7. `DeliveryChannel`, which both delivery modules implement.
8. `ItemParser`, and its items in `Floor`.
9. `Configuration`, `Classifier`, and `FirstIngest`, which composes them with the
   splitter and the scorer.
10. Proofs of the safety of the ring buffer, push, pull, ingest, start-up, scores,
    the gate, the rate and the queries: the modules named `...Proofs`.
11. Proofs of the splitter, the chunker, the floor and the legacy filter.

What could follow: `ItemsFaithful` restated over positions instead of words, and
proved format by format, csv and json first, whose loops carry no state from item
to item but the position; the telemetry of floor and scores, summed over requests.
