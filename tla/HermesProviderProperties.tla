----------------------- MODULE HermesProviderProperties -----------------------
(* What the Hermes provider and the working memory under it promise. *)
EXTENDS HermesProvider

(* The shape of Redis, of the two objects, of a snapshot in progress and of *)
(* the cache; a loop only has keys that are there to visit.                 *)
TypeOK ==
  /\ DOMAIN buffer \subseteq 0 .. MaxCalls - 1 /\ Range(buffer) \subseteq Entry
  /\ note \in BOOLEAN /\ annotated \in BOOLEAN /\ resumed \in BOOLEAN
  /\ index \in 0 .. MaxCalls /\ patterns \subseteq Tool
  /\ {turn, last, number, asked} \subseteq 0 .. MaxCalls + MaxFaults + 1
  /\ pc \in {"idle", "fire", "flush", "note", "post", "raised"}
  /\ todo \subseteq DOMAIN buffer
  /\ held \subseteq Entry /\ dropped \subseteq Entry /\ stranded \subseteq Entry
  /\ sent \in Seq(SUBSET Entry)
  /\ calls \in 0 .. MaxCalls /\ faults \in 0 .. MaxFaults
  /\ phase \in {"off", "rest", "started", "reading", "working", "synced", "ending", "closing"}
  /\ {cache, context} \subseteq {NoRecall} \cup 0 .. asked
  /\ recalls \subseteq 1 .. asked /\ used \subseteq 1 .. asked

Delivered == UNION Range(sent)

(* A turn is in at most one checkpoint: flush deletes an entry before the   *)
(* POST, so an answer that is lost, a crash or a new process never sends it *)
(* again, and what waits in Redis was never sent.                           *)
AtMostOnce ==
  /\ \A i, j \in DOMAIN sent : i # j => sent[i] \cap sent[j] = {}
  /\ \A i \in DOMAIN sent : sent[i] \cap (Range(buffer) \cup stranded) = {}

(* Without a fault every turn that sync_turn buffered is in Redis, under    *)
(* this session's keys or an earlier one's, in a snapshot's hand, in a      *)
(* checkpoint, or was dropped by a pattern; unless a session was taken up   *)
(* again, whose first turns then overwrite what was left of it.             *)
TurnsAccounted ==
  (faults = 0 /\ ~resumed) =>
    \A id \in 1 .. calls :
      \E e \in Range(buffer) \cup held \cup Delivered \cup dropped \cup stranded : e.id = id

(* The trigger keeps the buffer short: between turns fewer than Threshold   *)
(* entries wait, as long as no snapshot failed.                             *)
BufferStaysShort ==
  (faults = 0 /\ ~resumed /\ phase = "rest") => Cardinality(DOMAIN buffer) < Threshold

(* The answer of a recall is injected into one turn at most: what was used  *)
(* is neither in the cache nor about to be, although its thread may write   *)
(* the cache between prefetch's read and its clearing.                      *)
RecallUsedOnce == (recalls \cup {cache, context}) \cap used = {}

=============================================================================
