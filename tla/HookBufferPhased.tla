-------------------------- MODULE HookBufferPhased --------------------------
(***************************************************************************)
(* HookBuffer under a client that buffers one call at a time and nothing   *)
(* beside it, and the inductive invariant that keeps its calls safe.       *)
(***************************************************************************)
EXTENDS HookBufferProperties

(* An agent that never overlaps a buffer call with any other request of its *)
(* session; checks, flushes and snapshots may still overlap one another.    *)
Phased ==
  \A h \in Handler : At(h, "buffer", "set") =>
    \A g \in Handler \ {h} : pc[g] = "idle"

PhasedSpec == Init /\ [][Next /\ Phased']_vars

-----------------------------------------------------------------------------
(* The handlers that will have deleted every key by the time they answer. *)
Draining(h) == op[h] \in {"check", "flush", "force"}

(* The keys such a handler has still to delete: check_trigger deletes all   *)
(* the keys it listed, after the write; the others as they go.              *)
Undeleted(h) ==
  IF op[h] = "check" /\ pc[h] # "finish" THEN keys[h] ELSE todo[h]

(* What a handler's frame says of the buffer it empties:                    *)
(*   - a drainer is in progress, and saves once it has gone over all keys;  *)
(*   - nobody adds a key it has not listed;                                 *)
(*   - flush and force hold the entry they delete next;                     *)
(*   - check holds every entry it has not still to read.                    *)
FrameOK(h) ==
  /\ Draining(h) => pc[h] # "idle"
  /\ pc[h] \in {"save", "resume"} => todo[h] = {}
  /\ Draining(h) => DOMAIN buffer \subseteq Undeleted(h)
  /\ pc[h] = "del" /\ Min(todo[h]) \in DOMAIN buffer =>
       buffer[Min(todo[h])] \in Range(held[h])
  /\ op[h] = "check" => \A k \in DOMAIN buffer :
       (pc[h] = "read" /\ k \in todo[h]) \/ buffer[k] \in Range(held[h])

(* So when nobody drains the indices have no gap and their number is free, *)
IndicesDense ==
  (\A h \in Handler : ~Draining(h)) =>
    DOMAIN buffer = 0 .. Cardinality(DOMAIN buffer) - 1

(* ... which is what the handler that is about to store an entry counts on. *)
IndexIsFree ==
  \A h \in Handler : At(h, "buffer", "set") =>
    keys[h] = DOMAIN buffer /\ \A g \in Handler \ {h} : pc[g] = "idle"

DrainInvariant ==
  /\ \A h \in Handler : FrameOK(h)
  /\ IndicesDense
  /\ IndexIsFree

(* However checks, flushes and forced snapshots of a session overlap, until *)
(* a crash or a Redis error: each empties the buffer of what it holds or    *)
(* has handed over, the next index is always unused, and so no call is lost *)
(* (hooks.py:156-169, 240-286, 326-330, 352-356).                           *)
PhasedInvariant == crashes = 0 => DrainInvariant /\ SavedBeforeCleared /\ NothingLost

=============================================================================
