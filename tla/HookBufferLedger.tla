-------------------------- MODULE HookBufferLedger --------------------------
(***************************************************************************)
(* The handlers of HookBuffer, one request at a time, implement the atomic *)
(* working memory of ToolCallLedger.                                       *)
(***************************************************************************)
EXTENDS HookBufferProperties

Batches(fate, contents) == {[fate |-> fate, entries |-> c] : c \in contents}

(* An entry waits until the batch it belongs to exists: from its SET until  *)
(* the commit or failure of the snapshot that read it, or until the answer  *)
(* of the flush that read it, however far the deletes have come.  As many   *)
(* entries as were taken do not wait any more, the first ones to arrive.    *)
TakenPlaces == {i \in DOMAIN accepted : accepted[i] \in Taken}
Out == Cardinality(TakenPlaces)
Waiting == SubSeq(accepted, Out + 1, Len(accepted))

TakenBatches ==
  Batches("checkpoint", checkpoints) \cup Batches("flushed", flushed)
    \cup Batches("unsaved", unsaved)

Ledger == INSTANCE ToolCallLedger WITH
  Fate    <- {"checkpoint", "flushed", "unsaved"},
  pending <- Waiting,
  batches <- TakenBatches

(* Snapshots and flushes are atomic: each takes all the entries that wait,  *)
(* in arrival order, none twice and none left behind, although the handlers *)
(* read and delete key by key.                                              *)
ImplementsLedger == Ledger!Spec

=============================================================================
