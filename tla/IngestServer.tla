---------------------------- MODULE IngestServer ----------------------------
(***************************************************************************)
(* The HTTP server's ingest path and its shutdown: ingest and handleIngest *)
(* of internal/api/ingest.go, with the telemetry of internal/api, and main *)
(* of cmd/server/main.go, around the buffer of RingBuffer.                 *)
(*                                                                         *)
(* Every request runs in a goroutine of its own.  It takes two locks, one  *)
(* after the other: rb.mu for Append, telemetryMu for its counters.  Before*)
(* that it calls the embedder, which takes any time.  What it stores is    *)
(* abstracted to a batch of RingBuffer; its scores and the counters of     *)
(* them are those of module Scoring.  A request that is refused before     *)
(* Append (400, 413 on the body) changes no state and is left out.         *)
(*                                                                         *)
(* GET /stats reads the buffer under rb.mu and then the telemetry under    *)
(* telemetryMu.  The consumer is one that pulls (see PullDelivery): it     *)
(* acknowledges whenever it likes, as long as the server answers.          *)
(***************************************************************************)
EXTENDS RingBuffer

CONSTANT Clients    \* each has at most one request at a time

ASSUME ServerAssumption == IsFiniteSet(Clients)

VARIABLES
  stage,     \* of each client's request
  job,       \* what it stores, and what it reports of it
  tele,      \* s.ingestTele
  stats,     \* the /stats request, if there is one
  main,      \* where main stands
  logged,    \* the number of chunks main said will be lost
  answered   \* history: the << first, last >> seqs of each request answered 201

serverVars == << stage, job, tele, stats, main, logged, answered >>
vars       == << ringVars, serverVars >>

NoJob == [recs |-> << >>, first |-> 0]

NoCounts == [accepted |-> 0, backpressure |-> 0]

\* What of a /stats reply is known so far, and (history) how many records were
\* stored and not counted yet when it was begun.
NoStats == [read |-> "nothing", total |-> 0, accepted |-> 0, uncounted |-> 0]

\* The records of the requests that are between their Append and their counters.
RecordsOf(c)     == {c} \X (1 .. Len(job[c].recs))
UncountedRecords == UNION {RecordsOf(c) : c \in {d \in Clients : stage[d] = "stored"}}
Uncounted        == Cardinality(UncountedRecords)

Serving == main # "exited"

-----------------------------------------------------------------------------
(* One request *)

\* Labels are valid, the input is chunked, and the floor has been applied.  The
\* listener is open until Shutdown closes it.
Arrive(c) ==
  /\ stage[c] = "idle"
  /\ main \notin {"closing", "exited"}
  /\ \E recs \in Batches \cup {<< >>} : job' = [job EXCEPT ![c].recs = recs]
  /\ stage' = [stage EXCEPT ![c] = "scoring"]
  /\ UNCHANGED << ringVars, tele, stats, main, logged, answered >>

\* Scoring ends, however it ends, and Append stores the batch; Append does
\* nothing with an empty one.
Store(c) ==
  /\ Serving
  /\ stage[c] = "scoring"
  /\ IF job[c].recs = << >> THEN UNCHANGED ringVars ELSE AppendStored(job[c].recs)
  /\ job' = [job EXCEPT ![c].first = nextSeq]
  /\ stage' = [stage EXCEPT ![c] = "stored"]
  /\ UNCHANGED << tele, stats, main, logged, answered >>

Refuse(c) ==
  /\ Serving
  /\ stage[c] = "scoring"
  /\ job[c].recs # << >>
  /\ AppendRefused(job[c].recs)
  /\ stage' = [stage EXCEPT ![c] = "refused"]
  /\ UNCHANGED << job, tele, stats, main, logged, answered >>

\* (mutant) the return after the error is missing: the request is counted and
\* answered as if it had been stored.
CountRefusal_FallsThrough(c) ==
  /\ Serving
  /\ stage[c] = "refused"
  /\ tele' = [tele EXCEPT !.backpressure = @ + 1]
  /\ stage' = [stage EXCEPT ![c] = "stored"]
  /\ UNCHANGED << ringVars, job, stats, main, logged, answered >>

\* BackpressureHits, and the 503 or 413.
CountRefusal(c) ==
  /\ Serving
  /\ stage[c] = "refused"
  /\ tele' = [tele EXCEPT !.backpressure = @ + 1]
  /\ stage' = [stage EXCEPT ![c] = "idle"]
  /\ job' = [job EXCEPT ![c] = NoJob]
  /\ UNCHANGED << ringVars, stats, main, logged, answered >>

\* (mutant) the seqs of the reply are read off the buffer after Append.
Answer_ReadsLastSeq(c) == << nextSeq - Len(job[c].recs), nextSeq - 1 >>

\* first_seq and last_seq of the reply, from what Append returned.
Answer(c) == << job[c].first, job[c].first + Len(job[c].recs) - 1 >>

\* The counters of a stored request, under one lock, and the 201.
CountStored(c) ==
  /\ Serving
  /\ stage[c] = "stored"
  /\ tele' = [tele EXCEPT !.accepted = @ + Len(job[c].recs)]
  /\ answered' = IF job[c].recs = << >> THEN answered ELSE answered \cup {Answer(c)}
  /\ stage' = [stage EXCEPT ![c] = "idle"]
  /\ job' = [job EXCEPT ![c] = NoJob]
  /\ UNCHANGED << ringVars, stats, main, logged >>

\* The consumer's acknowledgements.
Consume ==
  /\ Serving
  /\ \E upTo \in 1 .. MaxSeq : Ack(epoch, upTo)
  /\ UNCHANGED serverVars

-----------------------------------------------------------------------------
(* GET /stats *)

\* RingBuffer.Stats ...
StatsFirst ==
  /\ Serving
  /\ stats.read = "nothing"
  /\ stats' = [NoStats EXCEPT !.read = "one", !.total = totalIngestedCount,
                              !.uncounted = Uncounted]
  /\ UNCHANGED << ringVars, stage, job, tele, main, logged, answered >>

\* (mutant) the buffer is read after the telemetry.
StatsSecond_Buffer ==
  /\ Serving
  /\ stats.read = "one"
  /\ stats' = [stats EXCEPT !.read = "both", !.total = totalIngestedCount,
                             !.accepted = stats.total - stats.uncounted]
  /\ UNCHANGED << ringVars, stage, job, tele, main, logged, answered >>

\* ... and then the snapshot of the telemetry.
StatsSecond ==
  /\ Serving
  /\ stats.read = "one"
  /\ stats' = [stats EXCEPT !.read = "both", !.accepted = tele.accepted]
  /\ UNCHANGED << ringVars, stage, job, tele, main, logged, answered >>

\* The reply is written; another request may follow.
StatsAnswer ==
  /\ Serving
  /\ stats.read = "both"
  /\ stats' = NoStats
  /\ UNCHANGED << ringVars, stage, job, tele, main, logged, answered >>

-----------------------------------------------------------------------------
(* The process *)

\* SIGTERM or SIGINT; in pull mode there is no push loop to wait for.
Signal ==
  /\ main = "running"
  /\ main' = "signalled"
  /\ UNCHANGED << ringVars, stage, job, tele, stats, logged, answered >>

\* "initiating graceful shutdown (%d unacknowledged chunks will be lost)"
LogLoss ==
  /\ main = "signalled"
  /\ main' = "logged"
  /\ logged' = Pending
  /\ UNCHANGED << ringVars, stage, job, tele, stats, answered >>

\* Shutdown closes the listener and waits for the requests that are running,
CloseListener ==
  /\ main = "logged"
  /\ main' = "closing"
  /\ UNCHANGED << ringVars, stage, job, tele, stats, logged, answered >>

\* for five seconds at most: main returns although some may still run.
Exit ==
  /\ main = "closing"
  /\ main' = "exited"
  /\ UNCHANGED << ringVars, stage, job, tele, stats, logged, answered >>

\* A new process, after an exit or a crash at any point.
Reboot ==
  /\ Restart
  /\ stage' = [c \in Clients |-> "idle"]
  /\ job' = [c \in Clients |-> NoJob]
  /\ tele' = NoCounts
  /\ stats' = NoStats
  /\ main' = "running"
  /\ logged' = 0
  /\ answered' = {}

ServerInit ==
  /\ RingInit
  /\ stage = [c \in Clients |-> "idle"]
  /\ job = [c \in Clients |-> NoJob]
  /\ tele = NoCounts
  /\ stats = NoStats
  /\ main = "running"
  /\ logged = 0
  /\ answered = {}

ServerNext ==
  \/ \E c \in Clients :
       Arrive(c) \/ Store(c) \/ Refuse(c) \/ CountRefusal(c) \/ CountStored(c)
  \/ Consume
  \/ StatsFirst \/ StatsSecond \/ StatsAnswer
  \/ Signal \/ LogLoss \/ CloseListener \/ Exit
  \/ Reboot

ServerSpec == ServerInit /\ [][ServerNext]_vars

-----------------------------------------------------------------------------
(* What makes the server correct *)

\* The telemetry and the buffer, which are updated under different locks, never
\* lose track of each other: they differ exactly by the requests that have
\* passed Append and not yet telemetryMu.
TelemetryAccountsForBuffer ==
  /\ totalIngestedCount = tele.accepted + Uncounted
  /\ backpressure = tele.backpressure + Cardinality({c \in Clients : stage[c] = "refused"})

\* The seqs a request reported or is about to report.
SeqsFrom(pair) == pair[1] .. pair[2]

\* Concurrent requests are told disjoint ranges of seqs which together are
\* exactly the seqs issued: first_seq .. last_seq of a reply names the records
\* of that request and no other's.
AnswersPartitionSeqs ==
  LET underway == {c \in Clients : stage[c] = "stored" /\ job[c].recs # << >>}
      ranges   == answered \cup {Answer(c) : c \in underway}
  IN  /\ UNION {SeqsFrom(r) : r \in ranges} = 1 .. nextSeq - 1
      /\ \A r, q \in ranges : r = q \/ SeqsFrom(r) \cap SeqsFrom(q) = {}
      /\ \A c \in underway : Answer(c) \notin answered

\* The halves of a /stats reply belong to different moments, but only one way
\* round: it never shows more chunks ingested than accepted beyond those that
\* were being counted when the request came, however long it waits between its locks.
StatsLagBounded == stats.read = "both" => stats.total <= stats.accepted + stats.uncounted

\* The message "%d unacknowledged chunks will be lost" (and the README: "The
\* shutdown log line records how many were pending") gives the number that is
\* lost.  It is read before the listener is closed.
LossIsLogged == main = "exited" => Pending = logged

=============================================================================
