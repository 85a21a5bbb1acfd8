----------------------------- MODULE ClaudeAgent -----------------------------
(* An agent with its own working memory, as the Claude Agent SDK adapter     *)
(* (app/integrations/claude_agent_sdk.py, buffer_tool_call) drives it: every *)
(* tool call is buffered and the trigger asked, and between calls the agent  *)
(* may annotate or forget, as app/hooks describes.                           *)
EXTENDS WorkingMemory

vars == memory

ToolCall == \E t \in Tool : Buffer(t, turn + 1)

Forgets == \E tools \in SUBSET Tool : pc = "idle" /\ Forget(tools) /\ UNCHANGED pc

(* The exception of a snapshot reaches the agent's hook, which goes on. *)
GoOn ==
  /\ pc = "raised" /\ pc' = "idle"
  /\ UNCHANGED <<redis, object, todo, held, annotated, history>>

Restart ==
  /\ Fault /\ NewObjects
  /\ pc' = "idle" /\ todo' = {} /\ held' = {}
  /\ UNCHANGED <<redis, annotated, sent, calls, dropped>>

Next ==
  \/ ToolCall \/ Annotate \/ Forgets \/ GoOn \/ Restart
  \/ Snapshot(TRUE) \/ PostFails \/ RedisError

Spec == InitMemory /\ [][Next]_vars

(* working_memory.py:152: an annotation is picked up by the next snapshot   *)
(* and then cleared: no snapshot call that met no fault ends with the       *)
(* annotation still in Redis.                                               *)
AnnotationIsPickedUp ==
  [][/\ pc \notin {"idle", "raised"} /\ pc' \in {"idle", "raised"}
     /\ faults' = faults
     => ~note']_vars

=============================================================================
