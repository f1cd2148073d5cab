------------------------------ MODULE ChunkLog ------------------------------
(***************************************************************************)
(* What the sensory buffer promises to its callers, without bytes, counts  *)
(* or layout: the doc comments of type RingBuffer and of its methods, and  *)
(* the "Eviction" and "Restart loss" paragraphs of the README.             *)
(*                                                                         *)
(* In one process lifetime, chunks are accepted under the consecutive      *)
(* numbers 1 .. accepted.  A cumulative confirmation covers the chunks     *)
(* 1 .. confirmed and only moves forward, never past what was accepted.    *)
(* The set readable holds the chunks that can still be read.  A chunk may  *)
(* leave it only after it was confirmed, or with the whole lifetime.       *)
(***************************************************************************)
EXTENDS Naturals

VARIABLES lifetime, accepted, confirmed, readable

logVars == << lifetime, accepted, confirmed, readable >>

LogInit ==
  /\ lifetime = 1
  /\ accepted = 0
  /\ confirmed = 0
  /\ readable = {}

Unconfirmed == confirmed + 1 .. accepted

\* A batch is accepted; room may be made with confirmed chunks only.
Accept ==
  /\ accepted' \in Nat
  /\ accepted' > accepted
  /\ readable' \subseteq readable \cup (accepted + 1 .. accepted')
  /\ Unconfirmed' \subseteq readable'
  /\ UNCHANGED << lifetime, confirmed >>

Confirm ==
  /\ confirmed' \in Unconfirmed
  /\ UNCHANGED << lifetime, accepted, readable >>

\* Confirmed chunks are dropped.
Discard ==
  /\ readable' \subseteq readable
  /\ Unconfirmed \subseteq readable'
  /\ UNCHANGED << lifetime, accepted, confirmed >>

\* The process ends and with it everything it held.
NewLifetime ==
  /\ lifetime' = lifetime + 1
  /\ accepted' = 0
  /\ confirmed' = 0
  /\ readable' = {}

LogNext == Accept \/ Confirm \/ Discard \/ NewLifetime

LogSpec == LogInit /\ [][LogNext]_logVars

=============================================================================
