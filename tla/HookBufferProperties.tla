------------------------ MODULE HookBufferProperties ------------------------
(* What the hooks API promises, and what its comments and docs say it does. *)
EXTENDS HookBuffer

(* The steps at which an async handler runs, between awaits. *)
Running(h) ==
  \/ op[h] = "check" /\ pc[h] \in {"read", "finish"}
  \/ op[h] = "force" /\ pc[h] \in {"get", "del", "finish"}

(* Exactly the handlers between two awaits own the event loop, and there is *)
(* at most one: two checks of a session never interleave their reads, their *)
(* deletes or their update of the last key (hooks.py runs on one loop).     *)
OneLoopOwner ==
  /\ \A h \in Handler : Running(h) <=> h \in loop
  /\ \A g, h \in loop : g = h

(* Write before delete: by the time check_trigger starts to clear the       *)
(* buffer, and both snapshots record the turn, what they read is either a   *)
(* committed checkpoint or the content of a failed upsert.                  *)
SavedBeforeCleared ==
  \A h \in Handler : pc[h] \in {"resume", "finish"} =>
    held[h] \in checkpoints \cup unsaved

Entries(batches) == UNION {Range(b) : b \in batches}
Taken == Entries(checkpoints) \cup Entries(flushed) \cup Entries(unsaved)

(* Entries a flush or a forced snapshot read and will answer with. *)
InHand ==
  UNION {Range(held[h]) : h \in {g \in Handler : op[g] \in {"flush", "force"}}}

(* No tool call gets lost: every entry /hooks/buffer stored is still in     *)
(* Redis, in the hand of a flush or forced snapshot, or was handed out by   *)
(* one of them, by a checkpoint or by a failed snapshot's answer.           *)
NothingLost == Range(accepted) \subseteq Range(buffer) \cup InHand \cup Taken

(* hooks.py:281: a snapshot that failed does not clear the buffer. *)
FailedSnapshotKeepsBuffer ==
  \A h \in Handler : At(h, "check", "finish") /\ held[h] \notin checkpoints =>
    Range(held[h]) \subseteq Range(buffer)

(* Every request in progress is answered: no handler waits forever for the  *)
(* event loop or its own loop over the keys.                                *)
RequestAnswered ==
  \A h \in Handler : (pc[h] # "idle") ~> (pc[h] = "idle")

=============================================================================
