--------------------------- MODULE ToolCallLedger ---------------------------
(***************************************************************************)
(* What the server-side working memory of one agent session promises: the  *)
(* tool calls an agent buffers wait in arrival order, and whatever takes   *)
(* them away - a checkpoint, a flush, a snapshot whose write failed -      *)
(* takes ALL that wait, in that order, in one step.                        *)
(***************************************************************************)
EXTENDS Sequences

CONSTANTS
  Entry,   \* tool call results an agent may buffer, each at most once
  Fate     \* the ways a batch of entries leaves the working memory

VARIABLES
  pending, \* entries that wait, in arrival order
  batches  \* [fate, entries] records of what was taken

vars == <<pending, batches>>

(* Entries that were taken by some batch. *)
Taken == UNION {{b.entries[i] : i \in DOMAIN b.entries} : b \in batches}

Waiting == {pending[i] : i \in DOMAIN pending}

Init ==
  /\ pending = <<>>
  /\ batches = {}

(* POST /hooks/buffer. *)
Buffer(e) ==
  /\ e \notin Waiting \cup Taken
  /\ pending' = Append(pending, e)
  /\ UNCHANGED batches

(* POST /hooks/check that fires, /hooks/snapshot or /hooks/flush. *)
Take(fate) ==
  /\ batches' = batches \cup {[fate |-> fate, entries |-> pending]}
  /\ pending' = <<>>

Next ==
  \/ \E e \in Entry : Buffer(e)
  \/ \E fate \in Fate : Take(fate)

Spec == Init /\ [][Next]_vars

=============================================================================
