--------------------------- MODULE DeliveryChannel ---------------------------
(***************************************************************************)
(* What Node 3 and Node 2 together promise of delivery, whichever mode is  *)
(* configured and whatever the network does: the "Delivery" section of the *)
(* README, without requests, pages, batches or delays.                     *)
(*                                                                         *)
(* In one lifetime of Node 3, chunks are accepted under the consecutive    *)
(* numbers 1 .. accepted.  Node 2 stores them at least once and in order:  *)
(* of every lifetime it has a prefix, which only grows.  Only then are     *)
(* they confirmed.  A restart forgets what was accepted and confirmed, and *)
(* nothing of what is stored; chunks of an earlier lifetime may still      *)
(* arrive after it.                                                        *)
(***************************************************************************)
EXTENDS Naturals

VARIABLES
  lifetime,   \* which lifetime of Node 3 this is
  accepted,   \* chunks accepted in it: 1 .. accepted
  confirmed,  \* chunks confirmed in it: 1 .. confirmed
  stored      \* what Node 2 has: pairs << lifetime, number >>

channelVars == << lifetime, accepted, confirmed, stored >>

ChannelInit ==
  /\ lifetime = 1
  /\ accepted = 0
  /\ confirmed = 0
  /\ stored = {}

AcceptChunks ==
  /\ accepted' \in Nat
  /\ accepted' > accepted
  /\ UNCHANGED << lifetime, confirmed, stored >>

\* Node 2 stores more of one or several lifetimes, never what does not exist.
StoreChunks ==
  /\ stored \subseteq stored'
  /\ \A c \in stored' \ stored :
       /\ c[1] \in 1 .. lifetime
       /\ c[1] = lifetime => c[2] \in 1 .. accepted
       /\ \A n \in 1 .. c[2] : << c[1], n >> \in stored'
  /\ UNCHANGED << lifetime, accepted, confirmed >>

ConfirmChunks ==
  /\ confirmed' \in confirmed + 1 .. accepted
  /\ \A n \in 1 .. confirmed' : << lifetime, n >> \in stored
  /\ UNCHANGED << lifetime, accepted, stored >>

NewLifetime ==
  /\ lifetime' = lifetime + 1
  /\ accepted' = 0
  /\ confirmed' = 0
  /\ UNCHANGED stored

ChannelNext == AcceptChunks \/ StoreChunks \/ ConfirmChunks \/ NewLifetime

ChannelSpec == ChannelInit /\ [][ChannelNext]_channelVars

=============================================================================
