-------------------------- MODULE HookBufferProofs --------------------------
(***************************************************************************)
(* Theorems of HookBuffer, for every set of handlers and entries.          *)
(***************************************************************************)
EXTENDS HookBufferProperties, FiniteSetTheorems, TLAPS

(* What DEL and SET of one buffer key leave: all other keys keep their      *)
(* entries, and the buffer stays a finite function from Nat to Entry.       *)
BufferType ==
  /\ DOMAIN buffer \subseteq Nat
  /\ IsFiniteSet(DOMAIN buffer)
  /\ buffer \in [DOMAIN buffer -> Entry]

LEMMA DelBuffer ==
  ASSUME BufferType, NEW k, buffer' = DelKey(buffer, k)
  PROVE  /\ BufferType'
         /\ DOMAIN buffer' = DOMAIN buffer \ {k}
         /\ \A x \in DOMAIN buffer' : buffer'[x] = buffer[x]
<1>1. DOMAIN buffer' = DOMAIN buffer \ {k}
  BY DEF DelKey, Restrict
<1>2. IsFiniteSet(DOMAIN buffer \ {k})
  BY FS_Subset DEF BufferType
<1>3. \A x \in DOMAIN buffer' : buffer'[x] = buffer[x]
  BY DEF DelKey, Restrict
<1>4. buffer' \in [DOMAIN buffer' -> Entry]
  BY <1>1, <1>3 DEF DelKey, Restrict, BufferType
<1> QED
  BY <1>1, <1>2, <1>3, <1>4 DEF BufferType

LEMMA SetBuffer ==
  ASSUME BufferType, NEW k \in Nat, NEW v \in Entry, buffer' = SetKey(buffer, k, v)
  PROVE  /\ BufferType'
         /\ DOMAIN buffer' = DOMAIN buffer \cup {k}
         /\ buffer'[k] = v
         /\ \A x \in DOMAIN buffer \ {k} : buffer'[x] = buffer[x]
<1>1. DOMAIN buffer' = DOMAIN buffer \cup {k}
  BY DEF SetKey
<1>2. IsFiniteSet(DOMAIN buffer \cup {k})
  BY FS_AddElement DEF BufferType
<1>3. /\ buffer'[k] = v
      /\ \A x \in DOMAIN buffer \ {k} : buffer'[x] = buffer[x]
  BY DEF SetKey
<1>4. buffer' \in [DOMAIN buffer' -> Entry]
  BY <1>1, <1>3 DEF SetKey, BufferType
<1> QED
  BY <1>1, <1>2, <1>3, <1>4 DEF BufferType

LEMMA TypeInit == Init => TypeOK
BY ConstantsAssumption, FS_EmptySet
   DEF Init, TypeOK, Operation, Step, NeverSnapshot, At

(* The frame a handler leaves behind when it returns is well typed. *)
LEMMA ReturnType ==
  ASSUME TypeOK, NEW h \in Handler, Return(h)
  PROVE  /\ op' \in [Handler -> Operation] /\ pc' \in [Handler -> Step]
         /\ keys' \in [Handler -> SUBSET Nat] /\ todo' \in [Handler -> SUBSET Nat]
         /\ \A g \in Handler : IsFiniteSet(keys'[g]) /\ todo'[g] \subseteq keys'[g]
         /\ held' \in [Handler -> Seq(Entry)]
         /\ \A g \in Handler : At(g, "buffer", "set")' => Len(held'[g]) = 1
         /\ \A g \in Handler : pc'[g] = "idle" => todo'[g] = {}
         /\ turn' \in [Handler -> Nat]
BY FS_EmptySet DEF TypeOK, Return, Go, At, Operation, Step

THEOREM TypeStep == TypeOK /\ [Next]_vars => TypeOK'
<1> SUFFICES ASSUME TypeOK, [Next]_vars PROVE TypeOK'
  OBVIOUS
<1> USE ConstantsAssumption
<1>1. ASSUME NEW rule \in Rule, RegisterTrigger(rule) PROVE TypeOK'
  BY <1>1 DEF RegisterTrigger, TypeOK, control, locals, history, faults, At
<1>2. CASE MinutePasses
  <2>1. last' \in [written : BOOLEAN, turn : Nat, age : 0 .. MaxAge]
    BY <1>2 DEF MinutePasses, TypeOK
  <2> QED
    BY <1>2, <2>1 DEF MinutePasses, TypeOK, control, locals, history, faults, At
<1>3. ASSUME NEW h \in Handler, BufferList(h) PROVE TypeOK'
  <2>1. PICK e \in Entry : held' = [held EXCEPT ![h] = <<e>>]
    BY <1>3 DEF BufferList
  <2>2. /\ held' \in [Handler -> Seq(Entry)]
        /\ \A g \in Handler : At(g, "buffer", "set")' => Len(held'[g]) = 1
    BY <1>3, <2>1 DEF BufferList, TypeOK, At, Go
  <2>3. /\ keys' \in [Handler -> SUBSET Nat]
        /\ todo' \in [Handler -> SUBSET Nat]
        /\ \A g \in Handler : IsFiniteSet(keys'[g]) /\ todo'[g] \subseteq keys'[g]
    <3>1. todo[h] = {}
      BY <1>3 DEF BufferList, TypeOK
    <3> QED
      BY <1>3, <3>1 DEF BufferList, TypeOK
  <2> QED
    BY <1>3, <2>2, <2>3 DEF BufferList, TypeOK, redis, history, faults, Go,
                            Operation, Step
<1>4. ASSUME NEW h \in Handler, BufferSet(h) PROVE TypeOK'
  <2>1. Cardinality(keys[h]) \in Nat /\ held[h][1] \in Entry
    BY <1>4, FS_CardinalityType DEF BufferSet, TypeOK
  <2>2. BufferType'
    BY <1>4, <2>1, SetBuffer DEF BufferSet, TypeOK, BufferType
  <2>3. accepted' \in Seq(Entry)
    BY <1>4, <2>1 DEF BufferSet, TypeOK
  <2> QED
    BY <1>4, <2>2, <2>3, ReturnType DEF BufferSet, TypeOK, faults, BufferType
<1>5. ASSUME NEW h \in Handler, CheckList(h) PROVE TypeOK'
  BY <1>5 DEF CheckList, TypeOK, redis, history, faults, At, Go, Operation, Step
<1>6. ASSUME NEW h \in Handler, CheckRead(h) PROVE TypeOK'
  BY <1>6 DEF CheckRead, Fetch, TypeOK, redis, control, history, faults, At
<1>7. ASSUME NEW h \in Handler, CheckClear(h) PROVE TypeOK'
  <2>1. PICK k \in todo[h] : /\ buffer' = DelKey(buffer, k)
                             /\ todo' = [todo EXCEPT ![h] = @ \ {k}]
    BY <1>7 DEF CheckClear
  <2>2. BufferType'
    BY <2>1, DelBuffer DEF TypeOK, BufferType
  <2> QED
    BY <1>7, <2>1, <2>2 DEF CheckClear, TypeOK, control, history, faults, At, BufferType
<1>8. ASSUME NEW h \in Handler, FlushList(h) PROVE TypeOK'
  BY <1>8 DEF FlushList, TypeOK, redis, history, faults, At, Go, Operation, Step
<1>9. ASSUME NEW h \in Handler, ForceList(h) PROVE TypeOK'
  BY <1>9 DEF ForceList, TypeOK, redis, history, faults, At, Go, Operation, Step
<1>10. ASSUME NEW h \in Handler, NEW o \in Taker, TakeGet(h, o) PROVE TypeOK'
  BY <1>10 DEF TakeGet, Taker, Fetch, TypeOK, redis, history, faults, At, Go,
               Operation, Step
<1>11. ASSUME NEW h \in Handler, NEW o \in Taker, TakeDel(h, o) PROVE TypeOK'
  <2>1. BufferType'
    BY <1>11, DelBuffer DEF TakeDel, TypeOK, BufferType
  <2> QED
    BY <1>11, <2>1 DEF TakeDel, Taker, TypeOK, BufferType, history,
                       faults, At, Go, Operation, Step
<1>12. ASSUME NEW h \in Handler, FlushReply(h) PROVE TypeOK'
  <2>1. flushed' \subseteq Seq(Entry)
    BY <1>12 DEF FlushReply, TypeOK
  <2> QED
    BY <1>12, <2>1, ReturnType DEF FlushReply, TypeOK, redis, faults
<1>13. ASSUME NEW h \in Handler, NEW o \in Snapshot, BadSession(h, o) PROVE TypeOK'
  BY <1>13 DEF BadSession, Snapshot, ToClear, TypeOK, redis, faults, At, Go,
               Operation, Step
<1>14. ASSUME NEW h \in Handler, NEW o \in Snapshot, Await(h, o) PROVE TypeOK'
  BY <1>14 DEF Await, Snapshot, TypeOK, redis, locals, history, faults, At, Go,
               Operation, Step
<1>15. ASSUME NEW h \in Handler, NEW o \in Snapshot, SaveCommit(h, o) PROVE TypeOK'
  BY <1>15 DEF SaveCommit, Snapshot, TypeOK, redis, locals, history, faults, At,
               Go, Operation, Step
<1>16. ASSUME NEW h \in Handler, NEW o \in Snapshot, SaveFail(h, o) PROVE TypeOK'
  BY <1>16 DEF SaveFail, Snapshot, TypeOK, redis, locals, At, Go, Operation, Step
<1>17. ASSUME NEW h \in Handler, NEW o \in Snapshot, Resume(h, o) PROVE TypeOK'
  BY <1>17 DEF Resume, Snapshot, ToClear, TypeOK, redis, history, faults, At, Go,
               Operation, Step
<1>18. ASSUME NEW h \in Handler, NEW o \in Snapshot, Finish(h, o) PROVE TypeOK'
  <2>1. last' \in [written : BOOLEAN, turn : Nat, age : 0 .. MaxAge]
    BY <1>18 DEF Finish, TypeOK
  <2> QED
    BY <1>18, <2>1, ReturnType DEF Finish, TypeOK, history, faults
<1>19. ASSUME NEW h \in Handler, RedisError(h) PROVE TypeOK'
  <2>1. crashes' \in 0 .. MaxCrashes /\ loop' \subseteq Handler
    BY <1>19 DEF RedisError, TypeOK
  <2> QED
    BY <1>19, <2>1, ReturnType DEF RedisError, TypeOK, redis, history
<1>20. CASE Crash
  BY <1>20, FS_EmptySet DEF Crash, TypeOK, redis, history, At, Operation, Step
<1>21. CASE UNCHANGED vars
  BY <1>21 DEF vars, TypeOK, redis, control, locals, history, faults, At
<1> QED
  BY <1>1, <1>2, <1>3, <1>4, <1>5, <1>6, <1>7, <1>8, <1>9, <1>10, <1>11, <1>12,
     <1>13, <1>14, <1>15, <1>16, <1>17, <1>18, <1>19, <1>20, <1>21
  DEF Next, Proceed

(* Every reachable state is well typed, whatever overlaps or fails. *)
THEOREM TypeCorrect == Spec => []TypeOK
BY TypeInit, TypeStep, PTL DEF Spec

-----------------------------------------------------------------------------
(* What a handler's move changes about who runs between two awaits. *)
Async == {<<"check", "read">>, <<"check", "finish">>, <<"force", "get">>,
          <<"force", "del">>, <<"force", "finish">>}

LEMMA RunningAfterGo ==
  ASSUME TypeOK, NEW h \in Handler, NEW o, NEW s, Go(h, o, s)
  PROVE  /\ Running(h)' <=> <<o, s>> \in Async
         /\ \A g \in Handler \ {h} : Running(g)' <=> Running(g)
BY DEF TypeOK, Go, Running, Async

(* The three ways a step treats the loop: kept, acquired, given back. *)
LEMMA LoopKept ==
  ASSUME OneLoopOwner, loop' = loop, \A g \in Handler : Running(g)' <=> Running(g)
  PROVE  OneLoopOwner'
BY DEF OneLoopOwner

LEMMA LoopAcquired ==
  ASSUME OneLoopOwner, NEW h \in Handler, loop = {}, loop' = {h}, Running(h)',
         \A g \in Handler \ {h} : Running(g)' <=> Running(g)
  PROVE  OneLoopOwner'
BY DEF OneLoopOwner

LEMMA LoopGivenBack ==
  ASSUME OneLoopOwner, NEW h \in Handler, loop' = loop \ {h}, ~Running(h)',
         \A g \in Handler \ {h} : Running(g)' <=> Running(g)
  PROVE  OneLoopOwner'
BY DEF OneLoopOwner

LEMMA LoopStep == TypeOK /\ OneLoopOwner /\ [Next]_vars => OneLoopOwner'
<1> SUFFICES ASSUME TypeOK, OneLoopOwner, [Next]_vars PROVE OneLoopOwner'
  OBVIOUS
<1>1. ASSUME NEW rule \in Rule, RegisterTrigger(rule) PROVE OneLoopOwner'
  BY <1>1, LoopKept DEF RegisterTrigger, control, Running
<1>2. CASE MinutePasses
  BY <1>2, LoopKept DEF MinutePasses, control, Running
<1>3. ASSUME NEW h \in Handler, BufferList(h) \/ FlushList(h) PROVE OneLoopOwner'
  <2>1. loop' = loop /\ ~Running(h) /\ (Go(h, "buffer", "set") \/ Go(h, "flush", "get"))
    BY <1>3 DEF BufferList, FlushList, Running
  <2> QED
    BY <2>1, RunningAfterGo, LoopKept DEF Async
<1>4. ASSUME NEW h \in Handler, BufferSet(h) \/ FlushReply(h) PROVE OneLoopOwner'
  <2>1. loop' = loop /\ ~Running(h) /\ Go(h, "none", "idle")
    BY <1>4 DEF BufferSet, FlushReply, Return, Running, At
  <2> QED
    BY <2>1, RunningAfterGo, LoopKept DEF Async
<1>5. ASSUME NEW h \in Handler, CheckList(h) \/ ForceList(h) PROVE OneLoopOwner'
  <2>1. /\ loop = {} /\ loop' = {h}
        /\ Go(h, "check", "read") \/ Go(h, "force", "get")
    BY <1>5 DEF CheckList, ForceList
  <2> QED
    BY <2>1, RunningAfterGo, LoopAcquired DEF Async
<1>6. ASSUME NEW h \in Handler, CheckRead(h) \/ CheckClear(h) PROVE OneLoopOwner'
  BY <1>6, LoopKept DEF CheckRead, CheckClear, control, Running
<1>7. ASSUME NEW h \in Handler, NEW o \in Taker, TakeGet(h, o) \/ TakeDel(h, o)
      PROVE  OneLoopOwner'
  <2>1. loop' = loop /\ (Running(h) <=> o = "force")
    BY <1>7 DEF TakeGet, TakeDel, Taker, At, Running
  <2>2. Go(h, o, "del") \/ Go(h, o, "get")
    BY <1>7 DEF TakeGet, TakeDel
  <2> QED
    BY <2>1, <2>2, RunningAfterGo, LoopKept DEF Async, Taker
<1>8. ASSUME NEW h \in Handler, NEW o \in Snapshot, BadSession(h, o)
      PROVE  OneLoopOwner'
  <2>1. loop' = loop /\ Running(h) /\ Go(h, o, "finish")
    BY <1>8 DEF BadSession, ReadyToSave, At, Running
  <2> QED
    BY <2>1, RunningAfterGo, LoopKept DEF Async, Snapshot
<1>9. ASSUME NEW h \in Handler, NEW o \in Snapshot, Await(h, o)
      PROVE  OneLoopOwner'
  <2>1. Running(h) /\ loop' = {} /\ Go(h, o, "save")
    BY <1>9 DEF Await, ReadyToSave, At, Running
  <2>2. loop' = loop \ {h}
    BY <2>1 DEF OneLoopOwner
  <2> QED
    BY <2>1, <2>2, RunningAfterGo, LoopGivenBack DEF Async
<1>10. ASSUME NEW h \in Handler, NEW o \in Snapshot,
             SaveCommit(h, o) \/ SaveFail(h, o)
      PROVE  OneLoopOwner'
  <2>1. loop' = loop /\ ~Running(h) /\ Go(h, o, "resume")
    BY <1>10 DEF SaveCommit, SaveFail, At, Running
  <2> QED
    BY <2>1, RunningAfterGo, LoopKept DEF Async
<1>11. ASSUME NEW h \in Handler, NEW o \in Snapshot, Resume(h, o)
       PROVE  OneLoopOwner'
  <2>1. loop = {} /\ loop' = {h} /\ Go(h, o, "finish")
    BY <1>11 DEF Resume
  <2> QED
    BY <2>1, RunningAfterGo, LoopAcquired DEF Async, Snapshot
<1>12. ASSUME NEW h \in Handler, NEW o \in Snapshot, Finish(h, o)
       PROVE  OneLoopOwner'
  <2>1. Running(h) /\ loop' = {} /\ Go(h, "none", "idle")
    BY <1>12 DEF Finish, Return, At, Running, Snapshot
  <2>2. loop' = loop \ {h}
    BY <2>1 DEF OneLoopOwner
  <2> QED
    BY <2>1, <2>2, RunningAfterGo, LoopGivenBack DEF Async
<1>13. ASSUME NEW h \in Handler, RedisError(h) PROVE OneLoopOwner'
  <2>1. loop' = loop \ {h} /\ Go(h, "none", "idle")
    BY <1>13 DEF RedisError, Return
  <2> QED
    BY <2>1, RunningAfterGo, LoopGivenBack DEF Async
<1>14. CASE Crash
  BY <1>14 DEF Crash, OneLoopOwner, Running
<1>15. CASE UNCHANGED vars
  BY <1>15, LoopKept DEF vars, control, Running
<1> QED
  BY <1>1, <1>2, <1>3, <1>4, <1>5, <1>6, <1>7, <1>8, <1>9, <1>10, <1>11, <1>12,
     <1>13, <1>14, <1>15 DEF Next, Proceed

(* At most one check or forced snapshot runs between two awaits, for any    *)
(* number of overlapping requests, Redis errors and crashes.                *)
THEOREM LoopIsExclusive == Spec => []OneLoopOwner
<1>1. Init => OneLoopOwner
  BY DEF Init, OneLoopOwner, Running
<1> QED
  BY <1>1, LoopStep, TypeCorrect, PTL DEF Spec

LEMMA SavedStep ==
  TypeOK /\ SavedBeforeCleared /\ [Next]_vars => SavedBeforeCleared'
<1> SUFFICES ASSUME TypeOK, SavedBeforeCleared, [Next]_vars
             PROVE  SavedBeforeCleared'
  OBVIOUS
<1> USE DEF SavedBeforeCleared, TypeOK
<1>1. ASSUME NEW rule \in Rule, RegisterTrigger(rule) PROVE SavedBeforeCleared'
  BY <1>1 DEF RegisterTrigger, control, locals, history
<1>2. CASE MinutePasses
  BY <1>2 DEF MinutePasses, control, locals, history
<1>3. ASSUME NEW h \in Handler, BufferList(h) PROVE SavedBeforeCleared'
  BY <1>3 DEF BufferList, Go, history
<1>4. ASSUME NEW h \in Handler,
             FlushList(h) \/ CheckList(h) \/ ForceList(h)
      PROVE  SavedBeforeCleared'
  BY <1>4 DEF FlushList, CheckList, ForceList, Go, history
<1>5. ASSUME NEW h \in Handler, BufferSet(h) \/ FlushReply(h)
      PROVE  SavedBeforeCleared'
  BY <1>5 DEF BufferSet, FlushReply, Return, Go
<1>6. ASSUME NEW h \in Handler, CheckRead(h) PROVE SavedBeforeCleared'
  BY <1>6 DEF CheckRead, Fetch, At, control, history
<1>7. ASSUME NEW h \in Handler, CheckClear(h) PROVE SavedBeforeCleared'
  BY <1>7 DEF CheckClear, control, history
<1>8. ASSUME NEW h \in Handler, NEW o \in Taker, TakeGet(h, o) \/ TakeDel(h, o)
      PROVE  SavedBeforeCleared'
  BY <1>8 DEF TakeGet, TakeDel, Fetch, At, Go, history
<1>9. ASSUME NEW h \in Handler, NEW o \in Snapshot,
             BadSession(h, o) \/ Await(h, o)
      PROVE  SavedBeforeCleared'
  BY <1>9 DEF BadSession, Await, Go, locals, history
<1>10. ASSUME NEW h \in Handler, NEW o \in Snapshot,
              SaveCommit(h, o) \/ SaveFail(h, o)
       PROVE  SavedBeforeCleared'
  BY <1>10 DEF SaveCommit, SaveFail, Go, locals, history
<1>11. ASSUME NEW h \in Handler, NEW o \in Snapshot, Resume(h, o)
       PROVE  SavedBeforeCleared'
  BY <1>11 DEF Resume, At, Go, history
<1>12. ASSUME NEW h \in Handler, NEW o \in Snapshot, Finish(h, o)
       PROVE  SavedBeforeCleared'
  BY <1>12 DEF Finish, Return, Go, history
<1>13. ASSUME NEW h \in Handler, RedisError(h) PROVE SavedBeforeCleared'
  BY <1>13 DEF RedisError, Return, Go, history
<1>14. CASE Crash
  BY <1>14 DEF Crash
<1>15. CASE UNCHANGED vars
  BY <1>15 DEF vars, control, locals, history
<1> QED
  BY <1>1, <1>2, <1>3, <1>4, <1>5, <1>6, <1>7, <1>8, <1>9, <1>10, <1>11, <1>12,
     <1>13, <1>14, <1>15 DEF Next, Proceed

(* check_trigger and force_snapshot only move on to clearing the buffer and *)
(* to the last key when the write of what they read has been decided.       *)
THEOREM WriteIsDecidedFirst == Spec => []SavedBeforeCleared
<1>1. Init => SavedBeforeCleared
  BY DEF Init, SavedBeforeCleared
<1> QED
  BY <1>1, SavedStep, TypeCorrect, PTL DEF Spec

=============================================================================
