------------------------------ MODULE Scoring ------------------------------
(***************************************************************************)
(* Task scoring of one ingest: Scores and Embed of internal/embed/embed.go,*)
(* score and the per-record part of ingest of internal/api/ingest.go.      *)
(*                                                                         *)
(* One ingest makes a sequence of calls to the embedding server: the task, *)
(* then the texts in batches, then, if the server rejected a batch, every  *)
(* text by itself.  The server (external) may start or stop working        *)
(* between any two calls, and the ingest client may hang up, which cancels *)
(* the calls but not the ingest.                                           *)
(*                                                                         *)
(* A text is abstracted to what its embedding would say of it, "strong" or *)
(* "weak", or to "bad": an input that the server rejects, because it is    *)
(* too long, say, and with it the whole batch it is in.                    *)
(***************************************************************************)
EXTENDS Naturals, Sequences, FiniteSets, Functions

CONSTANTS
  Inputs,     \* the sequences of texts an ingest may score, after the floor
  BatchSize   \* o.BatchSize, SEKHA_EMBED_BATCH_SIZE

Kinds == {"strong", "weak", "bad"}

ASSUME ScoringAssumption ==
  /\ Inputs \subseteq Seq(Kinds)
  /\ BatchSize \in Nat \ {0}

VARIABLES
  texts,    \* the kept chunks
  mode,     \* "task": to be scored; "no_task"; "disabled": no embedder
  phase,    \* the call that comes next: of the task ("start"), "batch", "single"; "done"
  next,     \* index of the next text to send
  vecs,     \* the vectors the batches returned so far, as kinds
  scores,   \* one per text; "nil": not scored
  status,   \* the status that score returned, "" before
  trouble   \* history: a call failed for another reason than a bad text in it

scoringVars == << texts, mode, phase, next, vecs, scores, status, trouble >>

N == Len(texts)

Nils == [i \in 1 .. N |-> "nil"]

-----------------------------------------------------------------------------
(* The calls *)

\* What the server may answer to a call with these inputs: vectors only if all
\* of them are good; a rejection (a StatusError) at any time, for an overload
\* say; no answer ("down": unreachable, timeout, cancelled), or one that cannot
\* be used, which the code treats alike.
Answers(inputs) ==
  {"status", "down"} \cup (IF "bad" \in inputs THEN {} ELSE {"ok"})

\* Bookkeeping of the history variable.
Observe(inputs, answer) ==
  trouble' = (trouble \/ answer = "down" \/ (answer = "status" /\ "bad" \notin inputs))

\* score: nothing to call for.
NothingToScore ==
  /\ phase = "start"
  /\ mode # "task" \/ N = 0
  /\ status' = IF mode = "task" THEN "scored" ELSE mode
  /\ phase' = "done"
  /\ UNCHANGED << texts, mode, next, vecs, scores, trouble >>

EmbedTask ==
  /\ phase = "start"
  /\ mode = "task"
  /\ N > 0
  /\ \E answer \in Answers({}) :
       /\ IF answer = "ok"
            THEN phase' = "batch" /\ UNCHANGED status
            ELSE phase' = "done" /\ status' = "embedder_unavailable"
       /\ Observe({}, answer)
  /\ UNCHANGED << texts, mode, next, vecs, scores >>

\* Index of the last text of the next batch.
BatchEnd == IF next + BatchSize - 1 < N THEN next + BatchSize - 1 ELSE N

Batch == SubSeq(texts, next, BatchEnd)

\* The answers to a batch: the vectors of its texts with their indices, in
\* whatever order the server finished them.
Data ==
  LET size == Len(Batch) IN
  {[i \in 1 .. size |-> [index |-> order[i], vector |-> Batch[order[i]]]] :
     order \in {f \in [1 .. size -> 1 .. size] : Range(f) = 1 .. size}}

\* (mutant) the vectors are taken in the order they came in.
ByIndex_AsReceived(data) == [i \in DOMAIN data |-> data[i].vector]

\* An answer, sorted by index.
Sorted(data) ==
  CHOOSE s \in [DOMAIN data -> Range(data)] :
    Range(s) = Range(data) /\ \A i, j \in DOMAIN data : i < j => s[i].index < s[j].index

\* The vectors of an answer, in the order of their texts.
ByIndex(data) == [i \in DOMAIN data |-> Sorted(data)[i].vector]

\* (mutant) a rejected batch is not retried text by text.
AfterRejection_NoRetry == "done"

\* A rejected batch is retried text by text, unless it was a single text.
AfterRejection == IF N = 1 THEN "done" ELSE "single"

BatchTexts == {Batch[i] : i \in 1 .. Len(Batch)}

\* A batch that is embedded, with more to come.
EmbedBatch ==
  /\ phase = "batch"
  /\ BatchEnd < N
  /\ "ok" \in Answers(BatchTexts)
  /\ \E data \in Data : vecs' = vecs \o ByIndex(data)
  /\ next' = BatchEnd + 1
  /\ UNCHANGED << texts, mode, phase, scores, status, trouble >>

EmbedLastBatch ==
  /\ phase = "batch"
  /\ BatchEnd = N
  /\ "ok" \in Answers(BatchTexts)
  /\ \E data \in Data : scores' = vecs \o ByIndex(data)
  /\ phase' = "done"
  /\ status' = "scored"
  /\ UNCHANGED << texts, mode, next, vecs, trouble >>

\* Embed returns an error and drops the vectors it has.
BatchRejected ==
  /\ phase = "batch"
  /\ phase' = AfterRejection
  /\ status' = IF AfterRejection = "done" THEN "scored" ELSE ""
  /\ next' = 1
  /\ vecs' = << >>
  /\ Observe(BatchTexts, "status")
  /\ UNCHANGED << texts, mode, scores >>

\* Server unreachable or timing out: nothing is scored, and nothing retried.
BatchUnanswered ==
  /\ phase = "batch"
  /\ phase' = "done"
  /\ status' = "scored"
  /\ vecs' = << >>
  /\ Observe(BatchTexts, "down")
  /\ UNCHANGED << texts, mode, next, scores >>

\* One text by itself; a failure, of whatever kind, moves on to the next text.
EmbedSingle ==
  /\ phase = "single"
  /\ \E answer \in Answers({texts[next]}) :
       /\ scores' = IF answer = "ok" THEN [scores EXCEPT ![next] = texts[next]] ELSE scores
       /\ Observe({texts[next]}, answer)
  /\ IF next < N THEN next' = next + 1 /\ UNCHANGED << phase, status >>
                 ELSE phase' = "done" /\ status' = "scored" /\ UNCHANGED next
  /\ UNCHANGED << texts, mode, vecs >>

-----------------------------------------------------------------------------
(* What ingest makes of the scores *)

\* rec.ScoreStatus and rec.Strong of the i-th record.
RecordStatus(i) ==
  IF status # "scored" THEN status
  ELSE IF scores[i] = "nil" THEN "embedder_unavailable" ELSE "scored"

Strong(i) == RecordStatus(i) = "scored" /\ scores[i] = "strong"

\* (mutant) the count is not corrected when the task itself could not be embedded.
Unscored_OnlyNils ==
  IF status = "scored" THEN Cardinality({i \in 1 .. N : scores[i] = "nil"}) ELSE 0

\* The count of unscored chunks that the telemetry is given.
Unscored ==
  IF status = "embedder_unavailable" THEN N
  ELSE IF status = "scored" THEN Cardinality({i \in 1 .. N : scores[i] = "nil"})
  ELSE 0

\* The status of the response.
ResponseStatus ==
  IF status = "scored" /\ Unscored > 0
    THEN IF Unscored = N THEN "embedder_unavailable" ELSE "partial"
    ELSE status

-----------------------------------------------------------------------------

ScoringInit ==
  /\ texts \in Inputs
  /\ mode \in {"task", "no_task", "disabled"}
  /\ phase = "start"
  /\ next = 1
  /\ vecs = << >>
  /\ scores = Nils
  /\ status = ""
  /\ trouble = FALSE

ScoringNext ==
  \/ NothingToScore
  \/ EmbedTask
  \/ EmbedBatch \/ EmbedLastBatch \/ BatchRejected \/ BatchUnanswered
  \/ EmbedSingle

ScoringSpec == ScoringInit /\ [][ScoringNext]_scoringVars

-----------------------------------------------------------------------------
(* What makes scoring correct *)

\* A chunk is routed by its own score, whichever of the calls it came from and
\* whatever happened to the calls before: strong exactly if it was scored, as
\* strong.
RoutedByOwnScore ==
  phase = "done" =>
    \A i \in 1 .. N :
      /\ Strong(i) => texts[i] = "strong"
      /\ RecordStatus(i) = "scored" => /\ mode = "task"
                                       /\ scores[i] = texts[i]

\* README: "only the failing chunk is left unscored".  If the server was up
\* throughout and rejected bad texts only, the bad texts, and no others, are unscored.
OnlyBadUnscored ==
  (phase = "done" /\ mode = "task" /\ ~trouble) =>
    \A i \in 1 .. N : RecordStatus(i) = "scored" <=> texts[i] # "bad"

\* The three ways in which an ingest reports on scoring agree: the statuses of
\* its records, the count in the telemetry, and the status of the response.
ReportsAgree ==
  phase = "done" =>
    LET unavailable == {i \in 1 .. N : RecordStatus(i) = "embedder_unavailable"} IN
    /\ Unscored = Cardinality(unavailable)
    /\ ResponseStatus = "partial" <=> unavailable \notin {{}, 1 .. N}
    /\ (ResponseStatus = "embedder_unavailable" /\ N > 0) => unavailable = 1 .. N
    /\ ResponseStatus = "scored" => unavailable = {}

=============================================================================
