---------------------------- MODULE HermesProvider ----------------------------
(* LogiosMemoryProvider in app/integrations/hermes.py: the working memory as *)
(* Hermes drives it, and the recall of memories it prefetches.               *)
(*                                                                           *)
(* Hermes calls the provider from one thread: on_turn_start, prefetch,       *)
(* sync_turn and queue_prefetch in each turn, on_session_end and shutdown    *)
(* between turns. The recalls that queue_prefetch starts run in threads of   *)
(* their own and write the cache whenever their answer comes.                *)
EXTENDS WorkingMemory

CONSTANTS
  NoRecall,       \* _cached_prefetch = None
  MaxRecalls      \* bound: recalls in progress at a time

RecallAssumption == MaxRecalls \in Nat /\ NoRecall \notin Nat

ASSUME RecallAssumption

VARIABLES
  phase,      \* where Hermes is in its life cycle
  number,     \* the turn_number that Hermes counts
  cache,      \* _cached_prefetch: the recall whose answer it holds
  recalls,    \* recalls in progress, by number; 0 is one that failed
  asked,      \* recalls queued so far
  context,    \* the recall whose answer prefetch has read
  used,       \* history: recalls whose answers were injected
  stranded,   \* history: entries under keys of earlier sessions
  resumed     \* history: was a session with buffered entries taken up again?

provider == <<phase, number, cache, recalls, asked, context, used, stranded, resumed>>
vars == <<memory, provider>>

Init ==
  /\ InitMemory
  /\ phase = "off" /\ number = 0
  /\ cache = NoRecall /\ recalls = {} /\ asked = 0
  /\ context = NoRecall /\ used = {}
  /\ stranded = {} /\ resumed = FALSE

-----------------------------------------------------------------------------
(* initialize: new objects and no cache. The session is a new one, whose     *)
(* keys are others, or one whose keys may still be in Redis.                 *)
Initialize ==
  /\ phase = "off" /\ phase' = "rest" /\ number' = 0
  /\ NewObjects
  /\ cache' = NoRecall
  /\ \/ /\ buffer' = Restrict(buffer, {}) /\ stranded' = stranded \cup Range(buffer)
        /\ UNCHANGED resumed
     \/ /\ DOMAIN buffer # {} /\ resumed' = TRUE
        /\ UNCHANGED <<buffer, stranded>>
  /\ UNCHANGED <<note, snapshot, history, recalls, asked, context, used>>

(* on_turn_start takes over the number that Hermes counts. *)
TurnAdds ==    \* mutant: += for =
  /\ phase = "rest" /\ calls < MaxCalls /\ phase' = "started"
  /\ number' = number + 1 /\ turn' = turn + number'
  /\ UNCHANGED <<redis, index, patterns, last, snapshot, history>>
  /\ UNCHANGED <<cache, recalls, asked, context, used, stranded, resumed>>

TurnStart ==
  /\ phase = "rest" /\ calls < MaxCalls /\ phase' = "started"
  /\ number' = number + 1 /\ turn' = number'
  /\ UNCHANGED <<redis, index, patterns, last, snapshot, history>>
  /\ UNCHANGED <<cache, recalls, asked, context, used, stranded, resumed>>

(* prefetch: read the cache and clear it, two steps of this thread, or, if   *)
(* there is nothing in it, ask the server and wait.                          *)
PrefetchRead ==
  /\ phase = "started" /\ cache # NoRecall
  /\ phase' = "reading" /\ context' = cache
  /\ UNCHANGED <<memory, number, cache, recalls, asked, used, stranded, resumed>>

PrefetchKeeps ==    \* mutant: the cache is not cleared
  /\ phase = "reading" /\ phase' = "working"
  /\ used' = used \cup ({context} \ {0}) /\ context' = NoRecall
  /\ UNCHANGED <<memory, number, cache, recalls, asked, stranded, resumed>>

PrefetchClear ==
  /\ phase = "reading" /\ phase' = "working"
  /\ cache' = NoRecall /\ used' = used \cup ({context} \ {0})
  /\ context' = NoRecall
  /\ UNCHANGED <<memory, number, recalls, asked, stranded, resumed>>

PrefetchBlocking ==
  /\ phase = "started" /\ cache = NoRecall /\ phase' = "working"
  /\ UNCHANGED <<memory, number, cache, recalls, asked, context, used, stranded, resumed>>

(* sync_turn: buffer the turn and take a snapshot when it is due. *)
SyncTurn ==
  /\ phase = "working" /\ phase' = "synced"
  /\ \E t \in Tool : Buffer(t, turn + 1)
  /\ UNCHANGED <<number, cache, recalls, asked, context, used, stranded, resumed>>

(* The turn counts even if Redis refuses its entry. *)
SyncFails ==
  /\ phase = "working" /\ phase' = "synced"
  /\ turn' = turn + 1 /\ Fault
  /\ UNCHANGED <<redis, index, patterns, last, snapshot, sent, calls, dropped>>
  /\ UNCHANGED <<number, cache, recalls, asked, context, used, stranded, resumed>>

(* queue_prefetch starts a recall; what sync_turn raised is Hermes' affair.  *)
QueuePrefetch ==
  /\ phase = "synced" /\ pc \in {"idle", "raised"} /\ pc' = "idle"
  /\ phase' = "rest" /\ Cardinality(recalls) < MaxRecalls
  /\ asked' = asked + 1 /\ recalls' = recalls \cup {asked'}
  /\ UNCHANGED <<redis, object, todo, held, annotated, history>>
  /\ UNCHANGED <<number, cache, context, used, stranded, resumed>>

(* The thread of a recall ends: its answer, or "" if it failed, is cached    *)
(* whatever the cache holds.                                                 *)
Recalled ==
  /\ \E r \in recalls : recalls' = recalls \ {r} /\ cache' \in {r, 0}
  /\ UNCHANGED <<memory, phase, number, asked, context, used, stranded, resumed>>

-----------------------------------------------------------------------------
(* on_session_end: a snapshot if one is due, and forget("*") unless it       *)
(* raised.                                                                   *)
SessionEnd ==
  /\ phase = "rest" /\ phase' = "ending"
  /\ pc' = IF ShouldFire(turn) THEN "fire" ELSE "idle"
  /\ UNCHANGED <<redis, object, todo, held, annotated, history>>
  /\ UNCHANGED <<number, cache, recalls, asked, context, used, stranded, resumed>>

SessionEnded ==
  /\ phase = "ending" /\ phase' = "rest"
  /\ \/ pc = "idle" /\ Forget(Tool) /\ UNCHANGED pc
     \/ pc = "raised" /\ pc' = "idle" /\ UNCHANGED <<redis, object, todo, held, annotated, history>>
  /\ UNCHANGED <<number, cache, recalls, asked, context, used, stranded, resumed>>

(* shutdown: a snapshot if one is due, which is not marked. *)
Shutdown ==
  /\ phase = "rest" /\ phase' = "closing"
  /\ pc' = IF turn > 0 /\ ShouldFire(turn) THEN "fire" ELSE "idle"
  /\ UNCHANGED <<redis, object, todo, held, annotated, history>>
  /\ UNCHANGED <<number, cache, recalls, asked, context, used, stranded, resumed>>

ShutDown ==
  /\ phase = "closing" /\ pc \in {"idle", "raised"} /\ pc' = "idle"
  /\ phase' = "off"
  /\ UNCHANGED <<redis, object, todo, held, annotated, history>>
  /\ UNCHANGED <<number, cache, recalls, asked, context, used, stranded, resumed>>

(* The process dies, its threads with it. *)
Crash ==
  /\ phase # "off" /\ phase' = "off" /\ Fault
  /\ pc' = "idle" /\ todo' = {} /\ held' = {}
  /\ recalls' = {} /\ cache' = NoRecall /\ context' = NoRecall
  /\ UNCHANGED <<redis, object, annotated, sent, calls, dropped>>
  /\ UNCHANGED <<number, asked, used, stranded, resumed>>

SnapshotStep ==
  /\ Snapshot(phase # "closing") \/ PostFails \/ RedisError
  /\ UNCHANGED provider

Next ==
  \/ Initialize \/ TurnStart \/ PrefetchRead \/ PrefetchClear \/ PrefetchBlocking
  \/ SyncTurn \/ SyncFails \/ QueuePrefetch \/ Recalled
  \/ SessionEnd \/ SessionEnded \/ Shutdown \/ ShutDown \/ Crash
  \/ SnapshotStep

Spec == Init /\ [][Next]_vars

=============================================================================
