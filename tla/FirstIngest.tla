----------------------------- MODULE FirstIngest -----------------------------
(***************************************************************************)
(* One process from its start to the scores of an ingest: Configuration,   *)
(* then TextSplit on a paragraph that is too long, then Scoring of what    *)
(* the floor keeps of the pieces; or else to the reply to a request to the *)
(* deprecated filter, by module Classifier.                                *)
(*                                                                         *)
(* main hands the configuration to the server, and ingest the pieces to    *)
(* the scorer; each of them runs to its end before the next begins.        *)
(* What a stage leaves behind that no later one reads is cleared when the  *)
(* next begins.  The limit of the splitter is SEKHA_CHUNK_MAX_BYTES, scaled*)
(* down to Limits; what the floor drops is left open here.                 *)
(***************************************************************************)
EXTENDS Configuration, TextSplit, Scoring, Classifier

CONSTANT FilterRequests  \* the requests to the filter

ASSUME FilterAssumption ==
  FilterRequests \subseteq [url : Int, body : Int, task : Nat \cup {-1}, window : Seq(Chunks)]

VARIABLES
  stage,  \* "startup", "ready", "split", "kept", "score"; "filter"
  kept    \* the number of pieces that the floor keeps

workVars == << startupVars, splitVars, scoringVars, gateVars, stage, kept >>

SplitIdle == text = << >> /\ maxBytes = 1 /\ remaining = << >> /\ chunks = << >> /\ done = TRUE

ScoringIdle ==
  /\ texts = << >>
  /\ mode = "no_task"
  /\ phase = "start"
  /\ next = 1
  /\ vecs = << >>
  /\ scores = << >>
  /\ status = ""
  /\ trouble = FALSE

WorkInit == StartupInit /\ SplitIdle /\ ScoringIdle /\ GateIdle /\ stage = "startup" /\ kept = 0

Start ==
  /\ stage = "startup"
  /\ StartupNext
  /\ UNCHANGED << splitVars, scoringVars, gateVars, stage, kept >>

\* The server serves; of the configuration, the embedder and the threshold of the
\* filter matter from here.
Ready ==
  /\ stage = "startup"
  /\ startup = "serving"
  /\ stage' = "ready"
  /\ startup' = "done"
  /\ env' = << >>
  /\ flags' = << >>
  /\ cfg' = [NoConfig EXCEPT !.provider = cfg.provider,
                           !.floats["SEKHA_FILTER_THRESHOLD"] = cfg.floats["SEKHA_FILTER_THRESHOLD"]]
  /\ buffer' = 0
  /\ UNCHANGED << errs, splitVars, scoringVars, gateVars, kept >>

\* A request arrives that has one paragraph to split.
BeginSplit ==
  /\ stage = "ready"
  /\ stage' = "split"
  /\ text' \in Texts
  /\ maxBytes' \in Limits
  /\ remaining' = text'
  /\ done' = FALSE
  /\ cfg' = [NoConfig EXCEPT !.provider = cfg.provider]
  /\ UNCHANGED << env, flags, errs, buffer, startup, chunks, scoringVars, gateVars, kept >>

CutUp ==
  /\ stage = "split"
  /\ SplitNext
  /\ UNCHANGED << startupVars, scoringVars, gateVars, stage, kept >>

\* The floor keeps some of the pieces.
Keep ==
  /\ stage = "split"
  /\ done
  /\ stage' = "kept"
  /\ kept' \in 0 .. Len(chunks)
  /\ \E inputs \in Inputs : Len(inputs) = kept'
  /\ text' = << >> /\ maxBytes' = 1 /\ chunks' = << >>
  /\ UNCHANGED << startupVars, remaining, done, scoringVars, gateVars >>

\* score looks for the task first, and then for the embedder.
Modes == {"no_task", IF cfg.provider = "none" THEN "disabled" ELSE "task"}

BeginScoring ==
  /\ stage = "kept"
  /\ stage' = "score"
  /\ texts' \in {inputs \in Inputs : Len(inputs) = kept}
  /\ mode' \in Modes
  /\ scores' = [i \in 1 .. kept |-> "nil"]
  /\ UNCHANGED << startupVars, splitVars, gateVars, phase, next, vecs, status, trouble, kept >>

ScoreUp ==
  /\ stage = "score"
  /\ ScoringNext
  /\ UNCHANGED << startupVars, splitVars, gateVars, stage, kept >>

\* A request to the filter arrives instead.
BeginFilter ==
  /\ stage = "ready"
  /\ stage' = "filter"
  /\ \E r \in FilterRequests : BeginGate(r)
  /\ cfg' = NoConfig
  /\ UNCHANGED << env, flags, errs, buffer, startup, splitVars, scoringVars, kept >>

Filter ==
  /\ stage = "filter"
  /\ GateNext
  /\ UNCHANGED << startupVars, splitVars, scoringVars, stage, kept >>

WorkNext ==
  \/ Start \/ Ready
  \/ BeginSplit \/ CutUp \/ Keep \/ BeginScoring \/ ScoreUp
  \/ BeginFilter \/ Filter

WorkSpec == WorkInit /\ [][WorkNext]_workVars

\* main and the handler run on, and an embedding call ends by its timeout at the
\* latest.  That a request arrives is not assumed.
WorkFairness ==
  /\ WF_workVars(Start \/ Ready)
  /\ WF_workVars(CutUp \/ Keep \/ BeginScoring \/ ScoreUp \/ Filter)

FairWorkSpec == WorkSpec /\ WorkFairness

-----------------------------------------------------------------------------

\* A process either refuses to start or serves, and every ingest is completed: the
\* splitter ends for every text and limit (each cut takes something away), and so
\* do the calls to the embedder, whatever it answers.  A filter request is answered.
WorkEnds ==
  /\ stage = "startup" ~> startup \in {"refused", "panic"} \/ stage = "ready"
  /\ stage = "split" ~> stage = "score" /\ phase = "done"
  /\ stage = "filter" ~> telemetry.evaluated > 0

=============================================================================
