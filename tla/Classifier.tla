----------------------------- MODULE Classifier -----------------------------
(***************************************************************************)
(* The gate of the deprecated POST /filter: Score and FilterChunks of      *)
(* internal/classifier/classifier.go, the threshold that handleFilter of   *)
(* internal/api/handlers.go gives them, and its telemetry.  Which chunks   *)
(* it gives them is in module LegacyFilter.                                *)
(*                                                                         *)
(* A chunk is the features of its text:                                    *)
(*   tokens     the number of its words; -1 if it is blank                 *)
(*   unique, content, entropy, entities   ratios, in thousandths           *)
(*   repeats    it has five equal runes in a row                           *)
(*   alert, boilerplate   it matches the patterns of the one or the other  *)
(*   long       it has 70 bytes or more, and punctuation                   *)
(*   hits       how many words of the task are among its words             *)
(* Scores are exact, in units of 1/100000; thresholds are in hundredths.   *)
(* A request has the thresholds of its URL and its body (0: not given, -1: *)
(* of no use) and the number of words of its task (-1: no task).           *)
(***************************************************************************)
EXTENDS Configuration, SequencesExt

\* What the features of a text may be; the code cuts ratios off at 1.
Ratios == 0 .. 1000

Chunks == [tokens : Nat \cup {-1}, hits : Nat,
           unique : Ratios, content : Ratios, entropy : Ratios, entities : Ratios,
           repeats : BOOLEAN, alert : BOOLEAN, boilerplate : BOOLEAN, long : BOOLEAN]

VARIABLES
  window,    \* the chunks to filter
  gate,      \* the threshold
  task,      \* the words of the task
  verdicts,  \* of the first chunks, [score, salient, reason]
  telemetry  \* chunks evaluated, salient and discarded in all requests

gateVars == << window, gate, task, verdicts, telemetry >>

Usable(threshold) == 0 < threshold /\ threshold < 100

\* New, given what Load accepts: NaN is neither below 0 nor above 1.
DefaultThreshold(configured) ==
  IF Usable(configured) \/ configured = NaN THEN configured ELSE 75

\* A threshold in the URL, even one of no use, hides that of the body.
Threshold(url, body, configured) ==
  IF Usable(url) THEN url
  ELSE IF url = 0 /\ Usable(body) THEN body
  ELSE DefaultThreshold(configured)

-----------------------------------------------------------------------------
(* Score *)

LexicalDensity(t) == (6 * t.unique + 4 * t.content) \div 10

IsProse(t) == t.long /\ t.tokens >= 10 /\ LexicalDensity(t) >= 500

Repetition(t) ==
  IF t.alert THEN 0
  ELSE (IF t.repeats THEN 35000 ELSE 0) + (IF t.unique < 350 /\ t.tokens >= 6 THEN 35000 ELSE 0)

\* (mutant) boilerplate counts against an alert as well.
Boilerplate_Alerts(t) == IF t.boilerplate THEN 60000 ELSE 0

Boilerplate(t) == IF t.boilerplate /\ ~t.alert THEN 60000 ELSE 0

\* The words of the task that the text has, out of two; a task without words, or
\* no task, is half relevant.
TaskRelevance(t, words) ==
  IF words <= 0 THEN 500 ELSE Min({1000, (1000 * t.hits) \div Min({2, words})})

Parts(t, words) ==
  IF words >= 0 THEN 20 * t.entropy + 25 * LexicalDensity(t) + 20 * t.entities
                       + 25 * TaskRelevance(t, words)
                ELSE 35 * t.entropy + 35 * LexicalDensity(t) + 30 * t.entities

Boost(t) == (IF IsProse(t) THEN 20000 ELSE 0) + (IF t.alert THEN 30000 ELSE 0)

Salience(t, words) ==
  Max({0, Min({100000, Parts(t, words) + Boost(t) - Repetition(t) - Boilerplate(t)})})

Reason(t, words) ==
  IF Boilerplate(t) > 0 THEN "boilerplate_system_log"
  ELSE IF Repetition(t) > 0 THEN "high_repetition_low_entropy"
  ELSE IF t.entropy < 400 THEN "low_shannon_entropy"
  ELSE IF words >= 0 /\ TaskRelevance(t, words) < 200 /\ ~IsProse(t) THEN "low_task_relevance"
  ELSE IF LexicalDensity(t) < 300 THEN "low_lexical_density_boilerplate"
  ELSE "below_salience_threshold"

\* The gate compares the score before it is rounded for the reply; nothing passes NaN.
Passes(t, words, threshold) == threshold # NaN /\ Salience(t, words) >= 1000 * threshold

Rounded(t, words) == (Salience(t, words) + 50) \div 100

Admitted(score) == [score |-> score, salient |-> TRUE, reason |-> ""]

Discarded(score, reason) == [score |-> score, salient |-> FALSE, reason |-> reason]

Score(t, words, threshold) ==
  IF t.tokens = -1 THEN Discarded(0, "empty_text")
  ELSE IF t.tokens = 0 THEN Discarded(0, "no_alphanumeric_tokens")
  ELSE IF Passes(t, words, threshold) THEN Admitted(Rounded(t, words))
  ELSE Discarded(Rounded(t, words), Reason(t, words))

-----------------------------------------------------------------------------
(* FilterChunks *)

GateIdle ==
  /\ window = << >> /\ verdicts = << >>
  /\ gate = 0 /\ task = -1
  /\ telemetry = [evaluated |-> 0, salient |-> 0, discarded |-> 0]

\* handleFilter has chosen its chunks.
BeginGate(r) ==
  /\ window' = r.window
  /\ gate' = Threshold(r.url, r.body, cfg.floats["SEKHA_FILTER_THRESHOLD"])
  /\ task' = r.task
  /\ UNCHANGED << verdicts, telemetry >>

GateChunk ==
  /\ Len(verdicts) < Len(window)
  /\ verdicts' = Append(verdicts, Score(window[Len(verdicts) + 1], task, gate))
  /\ UNCHANGED << window, gate, task, telemetry >>

Judged(salient) == {i \in 1 .. Len(verdicts) : verdicts[i].salient = salient}

\* The reply lists the salient chunks, counts the rest as discarded, and
\* recordClassifierMetrics adds both up.  Bound: one request, of some chunks.
GateReply ==
  /\ window # << >> /\ Len(verdicts) = Len(window)
  /\ telemetry.evaluated = 0
  /\ telemetry' = [evaluated |-> telemetry.evaluated + Len(window),
                   salient   |-> telemetry.salient + Cardinality(Judged(TRUE)),
                   discarded |-> telemetry.discarded + Len(window) - Cardinality(Judged(TRUE))]
  /\ UNCHANGED << window, gate, task, verdicts >>

GateNext == GateChunk \/ GateReply

-----------------------------------------------------------------------------

\* Of the chunks of one request none that is kept looks less salient in the reply
\* than one that is discarded, though the reply has rounded scores and the gate
\* has not; an alert is never discarded as boilerplate or for its repetitions,
\* whatever else it is; and a boilerplate line that is no alert does not get in at
\* a threshold over 0.6, whatever entropy, density and task do for it.  The
\* weights, boosts and penalties have to work together for this.
GateSound ==
  \A i \in 1 .. Len(verdicts) :
    /\ verdicts[i].salient <=> verdicts[i].reason = ""
    /\ verdicts[i].salient => \A j \in Judged(FALSE) : verdicts[j].score <= verdicts[i].score
    /\ window[i].alert =>
         verdicts[i].reason \notin {"boilerplate_system_log", "high_repetition_low_entropy"}
    /\ window[i].boilerplate /\ ~window[i].alert /\ gate > 60 => ~verdicts[i].salient

=============================================================================
