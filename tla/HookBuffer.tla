----------------------------- MODULE HookBuffer -----------------------------
(***************************************************************************)
(* The server-side hooks API (app/routes/hooks.py) for one (session_id,    *)
(* agent_id) pair: the Redis keys hooks:trigger, hooks:buffer:* and        *)
(* hooks:last of that pair, and the handlers that read and write them.     *)
(*                                                                         *)
(* One action is one Redis command, or a run of commands no other handler  *)
(* can tell from one.  register_trigger, buffer_entry and flush_buffer are *)
(* "def" endpoints: they run on the thread pool and interleave with        *)
(* everything.  check_trigger and force_snapshot are "async def" and call  *)
(* the synchronous Redis client, so between two awaits they own the event  *)
(* loop of the one uvicorn process; their only await is _upsert_memory.    *)
(*                                                                         *)
(* Left out because the code makes them no-ops: the annotation key and the *)
(* trigger's forget_patterns are read by the handlers but never written.   *)
(***************************************************************************)
EXTENDS Integers, Sequences, FiniteSets, FiniteSetsExt, Functions

CONSTANTS
  Handler,       \* request handlers that can be in progress at once
  Entry,         \* tool call results, each sent to /hooks/buffer at most once
  Turn,          \* turn numbers clients send (current_turn, turn_count)
  Threshold,     \* thresholds a trigger is registered with
  TriggerMode,   \* trigger modes the clients register
  MaxAge,        \* bound: minutes counted since the last snapshot
  MaxSaveFails,  \* bound: upserts that raise
  MaxCrashes,    \* bound: Redis errors and server crashes
  SessionIsUuid  \* may UUID(session_id) parse, may it raise?

ASSUME ConstantsAssumption ==
  /\ Turn \subseteq Nat
  /\ Threshold \subseteq Nat
  /\ TriggerMode \subseteq {"call_count", "token", "time_based"}
  /\ MaxAge \in Nat
  /\ MaxSaveFails \in Nat
  /\ MaxCrashes \in Nat
  /\ SessionIsUuid \subseteq BOOLEAN

VARIABLES
  trigger,     \* hooks:trigger: {} or the one registered rule
  buffer,      \* hooks:buffer:*: key index -> entry
  last,        \* hooks:last: [written, turn, age]; age is minutes since "time"
  checkpoints, \* committed checkpoint memories, each the entries it was made of
  loop,        \* the async handler that owns the event loop, if any
  op,          \* the endpoint each handler serves
  pc,          \* and where it is in it
  keys,        \* the key indices each handler's KEYS returned
  todo,        \* those it has still to process in its current loop
  held,        \* entries each handler was sent or has read
  turn,        \* current_turn of each check in progress
  accepted,    \* history: entries stored by /hooks/buffer, in order
  flushed,     \* history: what /hooks/flush answered
  unsaved,     \* history: what snapshots held when their upsert failed
  isUuid,      \* does UUID(session_id) parse?
  saveFails,   \* upserts that raised so far
  crashes      \* Redis errors and crashes so far

redis   == <<trigger, buffer, last>>
control == <<op, pc>>
locals  == <<keys, todo, held, turn>>
history == <<accepted, flushed, unsaved>>
faults  == <<isUuid, saveFails, crashes>>
vars    == <<redis, checkpoints, loop, control, locals, history, faults>>

-----------------------------------------------------------------------------
Operation == {"none", "buffer", "check", "flush", "force"}
Step == {"idle", "set", "read", "get", "del", "save", "resume", "finish"}

(* GET trigger / GET last: an absent last key reads as turn 0, "now". *)
Rule == [mode : TriggerMode, threshold : Threshold]
NeverSnapshot == [written |-> FALSE, turn |-> 0, age |-> 0]

(* The Redis commands SET and DEL on the buffer keys. *)
SetKey(f, k, v) == [x \in DOMAIN f \cup {k} |-> IF x = k THEN v ELSE f[x]]
DelKey(f, k) == Restrict(f, DOMAIN f \ {k})

At(h, operation, step) == op[h] = operation /\ pc[h] = step
Go(h, operation, step) ==
  /\ op' = [op EXCEPT ![h] = operation]
  /\ pc' = [pc EXCEPT ![h] = step]

(* The handler returns or raises: its frame is gone. *)
Return(h) ==
  /\ Go(h, "none", "idle")
  /\ keys' = [keys EXCEPT ![h] = {}]
  /\ todo' = [todo EXCEPT ![h] = {}]
  /\ held' = [held EXCEPT ![h] = <<>>]
  /\ turn' = [turn EXCEPT ![h] = 0]

-----------------------------------------------------------------------------
Init ==
  /\ trigger = {}
  /\ buffer = [k \in {} |-> k]
  /\ last = NeverSnapshot
  /\ checkpoints = {}
  /\ loop = {}
  /\ op = [h \in Handler |-> "none"]
  /\ pc = [h \in Handler |-> "idle"]
  /\ keys = [h \in Handler |-> {}]
  /\ todo = [h \in Handler |-> {}]
  /\ held = [h \in Handler |-> <<>>]
  /\ turn = [h \in Handler |-> 0]
  /\ accepted = <<>>
  /\ flushed = {}
  /\ unsaved = {}
  /\ isUuid \in SessionIsUuid
  /\ saveFails = 0
  /\ crashes = 0

(* POST /hooks/trigger is a single SET. *)
RegisterTrigger(rule) ==
  /\ trigger' = {rule}
  /\ UNCHANGED <<buffer, last, checkpoints, loop, control, locals, history, faults>>

(* Minutes pass; they only count once "time" is in the last key. *)
MinutePasses ==
  /\ last.written
  /\ last.age < MaxAge
  /\ last' = [last EXCEPT !.age = @ + 1]
  /\ UNCHANGED <<trigger, buffer, checkpoints, loop, control, locals, history, faults>>

-----------------------------------------------------------------------------
(* POST /hooks/buffer: KEYS, whose length becomes the new index ... *)
BufferList(h) ==
  /\ pc[h] = "idle"
  /\ \E e \in Entry \ Range(accepted) :
       /\ \A g \in Handler : At(g, "buffer", "set") => held[g] # <<e>>
       /\ held' = [held EXCEPT ![h] = <<e>>]
  /\ keys' = [keys EXCEPT ![h] = DOMAIN buffer]
  /\ Go(h, "buffer", "set")
  /\ UNCHANGED <<redis, checkpoints, loop, todo, turn, history, faults>>

(* Mutant: the index is one below the number of keys listed. *)
BufferSetOneBelow(h) ==
  /\ At(h, "buffer", "set")
  /\ buffer' = SetKey(buffer, Max({0, Cardinality(keys[h]) - 1}), held[h][1])
  /\ accepted' = Append(accepted, held[h][1])
  /\ Return(h)
  /\ UNCHANGED <<trigger, last, checkpoints, loop, flushed, unsaved, faults>>

(* ... then SET of that index, whatever it holds by now.  The second KEYS   *)
(* only counts for the answer.                                              *)
BufferSet(h) ==
  /\ At(h, "buffer", "set")
  /\ buffer' = SetKey(buffer, Cardinality(keys[h]), held[h][1])
  /\ accepted' = Append(accepted, held[h][1])
  /\ Return(h)
  /\ UNCHANGED <<trigger, last, checkpoints, loop, flushed, unsaved, faults>>

-----------------------------------------------------------------------------
(* The trigger condition of check_trigger, on what it read from Redis. *)
Fires(rule, currentTurn, tokensOver) ==
  \/ rule.mode = "call_count" /\ currentTurn - last.turn >= rule.threshold
  \/ rule.mode = "token" /\ tokensOver
  \/ rule.mode = "time_based" /\ last.age >= rule.threshold

(* POST /hooks/check that fires, up to KEYS.  Its three reads are one step: *)
(* only owners of the loop write the last key, and no other handler can     *)
(* tell in which order the trigger and the buffer were read.  A check that  *)
(* does not fire changes nothing.                                           *)
CheckList(h) ==
  /\ pc[h] = "idle"
  /\ loop = {}
  /\ \E rule \in trigger, t \in Turn, tokensOver \in BOOLEAN :
       /\ Fires(rule, t, tokensOver)
       /\ turn' = [turn EXCEPT ![h] = t]
  /\ loop' = {h}
  /\ keys' = [keys EXCEPT ![h] = DOMAIN buffer]
  /\ todo' = [todo EXCEPT ![h] = DOMAIN buffer]
  /\ Go(h, "check", "read")
  /\ UNCHANGED <<redis, checkpoints, held, history, faults>>

(* GET of the next key in sorted order; a key that is gone is skipped. *)
Fetch(h, k) ==
  held' = IF k \in DOMAIN buffer
            THEN [held EXCEPT ![h] = Append(@, buffer[k])]
            ELSE held

CheckRead(h) ==
  /\ At(h, "check", "read")
  /\ todo[h] # {}
  /\ Fetch(h, Min(todo[h]))
  /\ todo' = [todo EXCEPT ![h] = @ \ {Min(todo[h])}]
  /\ UNCHANGED <<redis, checkpoints, loop, control, keys, turn, history, faults>>

(* Clear buffer entries: DEL of every key that was listed, in no order. *)
CheckClear(h) ==
  /\ At(h, "check", "finish")
  /\ \E k \in todo[h] :
       /\ buffer' = DelKey(buffer, k)
       /\ todo' = [todo EXCEPT ![h] = @ \ {k}]
  /\ UNCHANGED <<trigger, last, checkpoints, loop, control, keys, held, turn,
                 history, faults>>

-----------------------------------------------------------------------------
(* POST /hooks/flush and /hooks/snapshot: KEYS, then GET and DEL per key. *)
FlushList(h) ==
  /\ pc[h] = "idle"
  /\ keys' = [keys EXCEPT ![h] = DOMAIN buffer]
  /\ todo' = [todo EXCEPT ![h] = DOMAIN buffer]
  /\ Go(h, "flush", "get")
  /\ UNCHANGED <<redis, checkpoints, loop, held, turn, history, faults>>

ForceList(h) ==
  /\ pc[h] = "idle"
  /\ loop = {}
  /\ loop' = {h}
  /\ keys' = [keys EXCEPT ![h] = DOMAIN buffer]
  /\ todo' = [todo EXCEPT ![h] = DOMAIN buffer]
  /\ Go(h, "force", "get")
  /\ UNCHANGED <<redis, checkpoints, held, turn, history, faults>>

TakeGet(h, operation) ==
  /\ At(h, operation, "get")
  /\ todo[h] # {}
  /\ Fetch(h, Min(todo[h]))
  /\ Go(h, operation, "del")
  /\ UNCHANGED <<redis, checkpoints, loop, keys, todo, turn, history, faults>>

(* Mutant: the loop over the keys does not advance. *)
TakeDelForever(h, operation) ==
  /\ At(h, operation, "del")
  /\ buffer' = DelKey(buffer, Min(todo[h]))
  /\ Go(h, operation, "get")
  /\ UNCHANGED <<trigger, last, checkpoints, loop, locals, history, faults>>

TakeDel(h, operation) ==
  /\ At(h, operation, "del")
  /\ buffer' = DelKey(buffer, Min(todo[h]))
  /\ todo' = [todo EXCEPT ![h] = @ \ {Min(todo[h])}]
  /\ Go(h, operation, "get")
  /\ UNCHANGED <<trigger, last, checkpoints, loop, keys, held, turn, history,
                 faults>>

FlushReply(h) ==
  /\ At(h, "flush", "get")
  /\ todo[h] = {}
  /\ flushed' = flushed \cup {held[h]}
  /\ Return(h)
  /\ UNCHANGED <<redis, checkpoints, loop, accepted, unsaved, faults>>

-----------------------------------------------------------------------------
(* The snapshot write of check ("read" done) and force ("get" done).       *)
ReadyToSave(h, operation) ==
  /\ todo[h] = {}
  /\ \/ operation = "check" /\ At(h, "check", "read")
     \/ operation = "force" /\ At(h, "force", "get")

(* Mutant: check_trigger forgets to clear the buffer. *)
ClearNothing(h, operation) == {}

(* The keys the handler deletes after the write: only check's. *)
ToClear(h, operation) == IF operation = "check" THEN keys[h] ELSE {}

(* UUID(session_id) raises before anything is awaited; it is swallowed. *)
BadSession(h, operation) ==
  /\ ReadyToSave(h, operation)
  /\ ~isUuid
  /\ unsaved' = unsaved \cup {held[h]}
  /\ todo' = [todo EXCEPT ![h] = ToClear(h, operation)]
  /\ Go(h, operation, "finish")
  /\ UNCHANGED <<redis, checkpoints, loop, keys, held, turn, accepted, flushed,
                 faults>>

(* Mutant: the upsert is scheduled but not awaited. *)
AwaitNothing(h, operation) ==
  /\ ReadyToSave(h, operation)
  /\ isUuid
  /\ loop' = {}
  /\ Go(h, operation, "resume")
  /\ UNCHANGED <<redis, checkpoints, locals, history, faults>>

(* await _upsert_memory: the event loop is free for other handlers. *)
Await(h, operation) ==
  /\ ReadyToSave(h, operation)
  /\ isUuid
  /\ loop' = {}
  /\ Go(h, operation, "save")
  /\ UNCHANGED <<redis, checkpoints, locals, history, faults>>

(* The transaction commits.  _upsert_memory may still raise afterwards; the *)
(* handlers do the same next either way.                                    *)
SaveCommit(h, operation) ==
  /\ At(h, operation, "save")
  /\ checkpoints' = checkpoints \cup {held[h]}
  /\ Go(h, operation, "resume")
  /\ UNCHANGED <<redis, loop, locals, history, faults>>

(* The upsert or the embedding call raises; the exception is swallowed. *)
SaveFail(h, operation) ==
  /\ At(h, operation, "save")
  /\ saveFails < MaxSaveFails
  /\ saveFails' = saveFails + 1
  /\ unsaved' = unsaved \cup {held[h]}
  /\ Go(h, operation, "resume")
  /\ UNCHANGED <<redis, checkpoints, loop, locals, accepted, flushed, isUuid,
                 crashes>>

(* Mutant: the handlers are "def" endpoints and run beside the loop. *)
ResumeBesideLoop(h, operation) ==
  /\ At(h, operation, "resume")
  /\ loop' = loop \cup {h}
  /\ todo' = [todo EXCEPT ![h] = ToClear(h, operation)]
  /\ Go(h, operation, "finish")
  /\ UNCHANGED <<redis, checkpoints, keys, held, turn, history, faults>>

Resume(h, operation) ==
  /\ At(h, operation, "resume")
  /\ loop = {}
  /\ loop' = {h}
  /\ todo' = [todo EXCEPT ![h] = ToClear(h, operation)]
  /\ Go(h, operation, "finish")
  /\ UNCHANGED <<redis, checkpoints, keys, held, turn, history, faults>>

(* Mutant: the turn before the current one is recorded. *)
FinishTurnBefore(h, operation) ==
  /\ At(h, operation, "finish")
  /\ todo[h] = {}
  /\ last' = [written |-> TRUE, turn |-> turn[h] - 1, age |-> 0]
  /\ loop' = {}
  /\ Return(h)
  /\ UNCHANGED <<trigger, buffer, checkpoints, history, faults>>

(* SET of the last key, then the answer.  force_snapshot without a          *)
(* turn_count records the number of entries as the turn.                    *)
Finish(h, operation) ==
  /\ At(h, operation, "finish")
  /\ todo[h] = {}
  /\ \E t \in IF operation = "check" THEN {turn[h]} ELSE Turn \cup {Len(held[h])} :
       last' = [written |-> TRUE, turn |-> t, age |-> 0]
  /\ loop' = {}
  /\ Return(h)
  /\ UNCHANGED <<trigger, buffer, checkpoints, history, faults>>

-----------------------------------------------------------------------------
(* A Redis command raises: nothing catches it, the request ends with 500. *)
RedisError(h) ==
  /\ pc[h] # "idle"
  /\ pc[h] \notin {"save", "resume"}
  /\ crashes < MaxCrashes
  /\ crashes' = crashes + 1
  /\ loop' = loop \ {h}
  /\ Return(h)
  /\ UNCHANGED <<redis, checkpoints, history, isUuid, saveFails>>

(* The server process dies and is restarted: every frame is gone, an open   *)
(* transaction is rolled back, Redis and Postgres keep what they have.      *)
Crash ==
  /\ \E h \in Handler : pc[h] # "idle"
  /\ crashes < MaxCrashes
  /\ crashes' = crashes + 1
  /\ loop' = {}
  /\ op' = [h \in Handler |-> "none"]
  /\ pc' = [h \in Handler |-> "idle"]
  /\ keys' = [h \in Handler |-> {}]
  /\ todo' = [h \in Handler |-> {}]
  /\ held' = [h \in Handler |-> <<>>]
  /\ turn' = [h \in Handler |-> 0]
  /\ UNCHANGED <<redis, checkpoints, history, isUuid, saveFails>>

-----------------------------------------------------------------------------
Snapshot == {"check", "force"}
Taker    == {"flush", "force"}

(* The next step of a request in progress. *)
Proceed(h) ==
  \/ BufferSet(h)
  \/ CheckRead(h)
  \/ CheckClear(h)
  \/ FlushReply(h)
  \/ \E o \in Taker : TakeGet(h, o) \/ TakeDel(h, o)
  \/ \E o \in Snapshot :
       \/ BadSession(h, o)
       \/ Await(h, o)
       \/ SaveCommit(h, o)
       \/ SaveFail(h, o)
       \/ Finish(h, o)

Next ==
  \/ \E rule \in Rule : RegisterTrigger(rule)
  \/ MinutePasses
  \/ \E h \in Handler :
       \/ BufferList(h)
       \/ CheckList(h)
       \/ FlushList(h)
       \/ ForceList(h)
       \/ Proceed(h)
       \/ \E o \in Snapshot : Resume(h, o)
       \/ RedisError(h)
  \/ Crash

Spec == Init /\ [][Next]_vars

(* A handler that has started keeps running, and asyncio's ready queue is   *)
(* first in, first out: a handler that waits for the loop gets it although  *)
(* other requests keep arriving.                                            *)
Fairness ==
  \A h \in Handler :
    /\ WF_vars(Proceed(h))
    /\ SF_vars(\E o \in Snapshot : Resume(h, o))

FairSpec == Spec /\ Fairness

-----------------------------------------------------------------------------
TypeOK ==
  /\ trigger \subseteq Rule
  /\ DOMAIN buffer \subseteq Nat
  /\ IsFiniteSet(DOMAIN buffer)
  /\ buffer \in [DOMAIN buffer -> Entry]
  /\ last \in [written : BOOLEAN, turn : Nat, age : 0 .. MaxAge]
  /\ checkpoints \subseteq Seq(Entry)
  /\ loop \subseteq Handler
  /\ op \in [Handler -> Operation]
  /\ pc \in [Handler -> Step]
  /\ keys \in [Handler -> SUBSET Nat]
  /\ todo \in [Handler -> SUBSET Nat]
  /\ \A h \in Handler : IsFiniteSet(keys[h]) /\ todo[h] \subseteq keys[h]
  /\ held \in [Handler -> Seq(Entry)]
  /\ \A h \in Handler : At(h, "buffer", "set") => Len(held[h]) = 1
  /\ \A h \in Handler : pc[h] = "idle" => todo[h] = {}
  /\ turn \in [Handler -> Nat]
  /\ accepted \in Seq(Entry)
  /\ flushed \subseteq Seq(Entry)
  /\ unsaved \subseteq Seq(Entry)
  /\ isUuid \in BOOLEAN
  /\ saveFails \in 0 .. MaxSaveFails
  /\ crashes \in 0 .. MaxCrashes

=============================================================================
