---------------------------- MODULE WorkingMemory ----------------------------
(* The agent-side buffer of tool calls and its trigger: WorkingMemory in     *)
(* app/hooks/working_memory.py and SnapshotTrigger in app/hooks/trigger.py.  *)
(*                                                                           *)
(* One session, one single-threaded process at a time. Redis outlives the    *)
(* process, the attributes of the two objects do not. A snapshot is a loop   *)
(* over what KEYS returned, in any order, and then a POST to the server;     *)
(* either may raise. Modules that use the buffer say when it takes a         *)
(* snapshot: this one has the state and the operations.                      *)
EXTENDS Integers, Sequences, FiniteSets, Functions

CONSTANTS
  Tool,         \* names of tools, matched by forget patterns
  Threshold,    \* SnapshotTrigger.threshold, of mode call_count
  MaxCalls,     \* bound: tool calls
  MaxFaults     \* bound: errors of Redis or the server, crashes

ConstantsAssumption ==
  /\ Threshold \in Nat \ {0} /\ MaxCalls \in Nat /\ MaxFaults \in Nat

ASSUME ConstantsAssumption

VARIABLES
  buffer,     \* Redis: the entry under working:<session>:tool:<index>
  note,       \* Redis: is there an annotation?
  index,      \* WorkingMemory._turn_index
  patterns,   \* tools that _forget_patterns match
  turn,       \* the agent's own _turn_index
  last,       \* SnapshotTrigger.last_snapshot_turn
  pc,         \* where a snapshot is
  todo,       \* keys its loop has still to visit
  held,       \* entries it has read
  sent,       \* checkpoints the server stored: their entries
  annotated,  \* whether the checkpoint in the making, or the last, has a note
  calls,      \* tool calls so far
  dropped,    \* history: entries that a pattern excluded
  faults

redis == <<buffer, note>>
object == <<index, patterns, turn, last>>
snapshot == <<pc, todo, held, annotated>>
history == <<sent, calls, dropped, faults>>
memory == <<redis, object, snapshot, history>>

Entry == [id : 1 .. MaxCalls, tool : Tool]
NoteKey == -1     \* working:<session>:annotation, which KEYS returns as well

InitMemory ==
  /\ buffer = [k \in {} |-> 0] /\ note = FALSE
  /\ index = 0 /\ patterns = {} /\ turn = 0 /\ last = 0
  /\ pc = "idle" /\ todo = {} /\ held = {} /\ annotated = FALSE
  /\ sent = <<>> /\ calls = 0 /\ dropped = {} /\ faults = 0

-----------------------------------------------------------------------------
(* should_fire of mode call_count, the only one the integrations use. *)
FiresLate(now) == now - last > Threshold    \* mutant: > for >=

ShouldFire(now) == now - last >= Threshold

(* WorkingMemory.buffer, and the trigger if the agent then asks it. *)
BufferSameIndex(t, now) ==    \* mutant: _turn_index is not incremented
  /\ pc = "idle" /\ calls < MaxCalls
  /\ calls' = calls + 1
  /\ buffer' = [k \in DOMAIN buffer \cup {index} |->
                  IF k = index THEN [id |-> calls', tool |-> t] ELSE buffer[k]]
  /\ turn' = now
  /\ pc' = IF ShouldFire(now) THEN "fire" ELSE "idle"
  /\ UNCHANGED <<note, index, patterns, last, todo, held, annotated, sent, dropped, faults>>

Buffer(t, now) ==
  /\ pc = "idle" /\ calls < MaxCalls
  /\ calls' = calls + 1
  /\ buffer' = [k \in DOMAIN buffer \cup {index} |->
                  IF k = index THEN [id |-> calls', tool |-> t] ELSE buffer[k]]
  /\ index' = index + 1
  /\ turn' = now
  /\ pc' = IF ShouldFire(now) THEN "fire" ELSE "idle"
  /\ UNCHANGED <<note, patterns, last, todo, held, annotated, sent, dropped, faults>>

Annotate ==
  /\ pc = "idle" /\ note' = TRUE
  /\ UNCHANGED <<buffer, object, snapshot, history>>

Forget(tools) ==
  /\ patterns' = patterns \cup tools
  /\ UNCHANGED <<redis, index, turn, last, todo, held, annotated, history>>

-----------------------------------------------------------------------------
(* flush: KEYS, then GET and DEL of one key after the other. *)
FlushList ==
  /\ pc = "fire" /\ pc' = "flush"
  /\ todo' = DOMAIN buffer \cup (IF note THEN {NoteKey} ELSE {})
  /\ held' = {}
  /\ UNCHANGED <<redis, object, annotated, history>>

FlushKeepsKey ==    \* mutant: the key is not deleted
  /\ pc = "flush"
  /\ \E k \in todo \cap DOMAIN buffer : held' = held \cup {buffer[k]} /\ todo' = todo \ {k}
  /\ UNCHANGED <<redis, object, pc, annotated, history>>

FlushKey ==
  /\ pc = "flush"
  /\ \E k \in todo \cap DOMAIN buffer :
       /\ held' = held \cup {buffer[k]}
       /\ buffer' = Restrict(buffer, DOMAIN buffer \ {k})
       /\ todo' = todo \ {k}
  /\ UNCHANGED <<note, object, pc, annotated, history>>

(* The call raises: what it has read is gone with it. *)
Raise == pc' = "raised" /\ todo' = {} /\ held' = {}

(* The annotation is text, so json.loads raises and its key stays. *)
FlushNote ==
  /\ pc = "flush" /\ NoteKey \in todo /\ Raise
  /\ UNCHANGED <<redis, object, annotated, history>>

FlushEnd ==
  /\ pc = "flush" /\ todo = {} /\ pc' = "note"
  /\ index' = 0
  /\ held' = {e \in held : e.tool \notin patterns}
  /\ dropped' = dropped \cup (held \ held')
  /\ UNCHANGED <<redis, patterns, turn, last, todo, annotated, sent, calls, faults>>

(* _get_and_clear_annotation. *)
TakeNote ==
  /\ pc = "note" /\ pc' = "post"
  /\ annotated' = note /\ note' = FALSE
  /\ UNCHANGED <<buffer, object, todo, held, history>>

(* POST /memories/remember; mark_fired, if the agent calls it, comes only    *)
(* after the answer.                                                         *)
Post(marks) ==
  /\ pc = "post" /\ pc' = "idle"
  /\ sent' = Append(sent, held) /\ held' = {}
  /\ last' = IF marks THEN turn ELSE last
  /\ UNCHANGED <<redis, index, patterns, turn, todo, annotated, calls, dropped, faults>>

(* The server refuses or dies, or stores the checkpoint and the answer is    *)
(* lost; a Redis command raises.                                             *)
Fault == faults < MaxFaults /\ faults' = faults + 1

PostFails ==
  /\ pc = "post" /\ Fault /\ Raise
  /\ sent' \in {sent, Append(sent, held)}
  /\ UNCHANGED <<redis, object, annotated, calls, dropped>>

RedisError ==
  /\ pc \in {"fire", "flush", "note"} /\ Fault /\ Raise
  /\ UNCHANGED <<redis, object, annotated, sent, calls, dropped>>

Snapshot(marks) ==
  FlushList \/ FlushKey \/ FlushNote \/ FlushEnd \/ TakeNote \/ Post(marks)

(* What a process that ended leaves of the two objects, and what a new       *)
(* process starts with.                                                      *)
NewObjects ==
  /\ index' = 0 /\ patterns' = {} /\ turn' = 0 /\ last' = 0

=============================================================================
