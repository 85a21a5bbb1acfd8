----------------------- MODULE HookBufferPhasedProofs -----------------------
(***************************************************************************)
(* No tool call is lost by a client that buffers one call at a time, for   *)
(* every set of handlers and entries.                                      *)
(***************************************************************************)
EXTENDS HookBufferPhased, HookBufferProofs

(* A step of one handler leaves the frames of the others alone ...         *)
Kept(g) ==
  /\ op'[g] = op[g] /\ pc'[g] = pc[g]
  /\ keys'[g] = keys[g] /\ todo'[g] = todo[g] /\ held'[g] = held[g]

(* ... and, unless it stores an entry, at most removes keys.               *)
Shrinks ==
  /\ DOMAIN buffer' \subseteq DOMAIN buffer
  /\ \A k \in DOMAIN buffer' : buffer'[k] = buffer[k]

LEMMA KeptFrame ==
  ASSUME NEW g \in Handler, FrameOK(g), Kept(g), Shrinks
  PROVE  FrameOK(g)'
BY DEF FrameOK, Kept, Shrinks, Draining, Undeleted

(* A step of a drainer: only its own frame is left to look at. *)
LEMMA DrainerMoves ==
  ASSUME DrainInvariant, Phased', NEW h \in Handler, Shrinks,
         \A g \in Handler \ {h} : Kept(g),
         pc[h] # "idle" \/ pc'[h] # "idle",
         op'[h] # "buffer",
         Draining(h)' \/ DOMAIN buffer' = {},
         FrameOK(h)'
  PROVE  DrainInvariant'
<1>1. \A g \in Handler : FrameOK(g)'
  BY KeptFrame DEF DrainInvariant
<1>2. IndicesDense'
  <2>1. CASE Draining(h)'
    BY <2>1 DEF IndicesDense
  <2>2. CASE DOMAIN buffer' = {}
    BY <2>2, FS_EmptySet DEF IndicesDense
  <2> QED
    BY <2>1, <2>2
<1>3. IndexIsFree'
  <2> SUFFICES ASSUME NEW g \in Handler, At(g, "buffer", "set")' PROVE FALSE
    BY DEF IndexIsFree
  <2>1. g # h /\ At(g, "buffer", "set")
    BY DEF At, Kept
  <2>2. pc'[h] = "idle" /\ pc[h] = "idle"
    BY <2>1 DEF DrainInvariant, IndexIsFree, Phased
  <2> QED
    BY <2>2
<1> QED
  BY <1>1, <1>2, <1>3 DEF DrainInvariant

(* The index a buffer call computed is the first one nobody uses. *)
LEMMA FreshIndex ==
  ASSUME TypeOK, DrainInvariant, NEW h \in Handler, At(h, "buffer", "set")
  PROVE  /\ Cardinality(keys[h]) \in Nat
         /\ DOMAIN buffer = 0 .. Cardinality(keys[h]) - 1
<1>1. keys[h] = DOMAIN buffer /\ \A g \in Handler \ {h} : pc[g] = "idle"
  BY DEF DrainInvariant, IndexIsFree
<1>2. \A g \in Handler : ~Draining(g)
  BY <1>1 DEF DrainInvariant, FrameOK, Draining, At
<1>3. IsFiniteSet(DOMAIN buffer)
  BY DEF TypeOK
<1> QED
  BY <1>1, <1>2, <1>3, FS_CardinalityType DEF DrainInvariant, IndicesDense

(* The step from one crash-free state to the next. *)
LEMMA DrainStep ==
  ASSUME TypeOK, crashes = 0, crashes' = 0, DrainInvariant, Next, Phased'
  PROVE  DrainInvariant'
<1>1. ASSUME NEW rule \in Rule, RegisterTrigger(rule) PROVE DrainInvariant'
  BY <1>1 DEF RegisterTrigger, control, locals, DrainInvariant, FrameOK,
              IndicesDense, IndexIsFree, Draining, Undeleted, At
<1>2. CASE MinutePasses
  BY <1>2 DEF MinutePasses, control, locals, DrainInvariant, FrameOK,
              IndicesDense, IndexIsFree, Draining, Undeleted, At
<1>3. ASSUME NEW h \in Handler, BufferList(h) PROVE DrainInvariant'
  <2>1. /\ Shrinks /\ \A g \in Handler \ {h} : Kept(g)
        /\ op'[h] = "buffer" /\ pc'[h] = "set" /\ keys'[h] = DOMAIN buffer
        /\ buffer' = buffer
    BY <1>3 DEF BufferList, Go, Kept, Shrinks, redis, TypeOK
  <2>2. \A g \in Handler \ {h} : pc'[g] = "idle" /\ pc[g] = "idle"
    BY <2>1 DEF Phased, At, Kept
  <2>3. \A g \in Handler : ~Draining(g)
    BY <1>3, <2>2 DEF BufferList, DrainInvariant, FrameOK
  <2>4. \A g \in Handler : FrameOK(g)'
    <3>1. FrameOK(h)'
      BY <2>1 DEF FrameOK, Draining
    <3> QED
      BY <2>1, <3>1, KeptFrame DEF DrainInvariant
  <2>5. IndicesDense'
    BY <2>1, <2>3 DEF IndicesDense, DrainInvariant
  <2>6. IndexIsFree'
    BY <2>1, <2>2 DEF IndexIsFree, At
  <2> QED
    BY <2>4, <2>5, <2>6 DEF DrainInvariant
<1>4. ASSUME NEW h \in Handler, BufferSet(h) PROVE DrainInvariant'
  <2> DEFINE n == Cardinality(keys[h])
  <2>1. /\ \A g \in Handler \ {h} : pc[g] = "idle" /\ Kept(g)
        /\ op'[h] = "none" /\ pc'[h] = "idle"
    BY <1>4 DEF BufferSet, Return, Go, Kept, DrainInvariant, IndexIsFree, TypeOK
  <2>2. n \in Nat /\ DOMAIN buffer = 0 .. n - 1
    BY <1>4, FreshIndex DEF BufferSet
  <2>3. DOMAIN buffer' = 0 .. n
    <3>1. buffer' = SetKey(buffer, n, held[h][1])
      BY <1>4, <2>1 DEF BufferSet
    <3>2. DOMAIN buffer' = DOMAIN buffer \cup {n}
      BY <3>1 DEF SetKey
    <3> HIDE DEF n
    <3> QED
      BY <2>2, <3>2
  <2>4. Cardinality(0 .. n) = n + 1
    <3> HIDE DEF n
    <3> QED
      BY <2>2, FS_Interval
  <2>5. \A g \in Handler : pc'[g] = "idle" /\ ~Draining(g)'
    BY <2>1 DEF Kept, DrainInvariant, FrameOK, Draining
  <2>6. \A g \in Handler : FrameOK(g)'
    BY <2>5 DEF FrameOK, Draining
  <2>7. DOMAIN buffer' = 0 .. Cardinality(DOMAIN buffer') - 1
    <3> HIDE DEF n
    <3> QED
      BY <2>2, <2>3, <2>4
  <2> QED
    BY <2>5, <2>6, <2>7 DEF DrainInvariant, IndicesDense, IndexIsFree, At
<1>5. ASSUME NEW h \in Handler, CheckList(h) \/ FlushList(h) \/ ForceList(h)
      PROVE  DrainInvariant'
  <2>1. /\ Shrinks /\ \A g \in Handler \ {h} : Kept(g)
        /\ keys'[h] = DOMAIN buffer /\ todo'[h] = DOMAIN buffer
        /\ <<op'[h], pc'[h]>> \in {<<"check", "read">>, <<"flush", "get">>,
                                   <<"force", "get">>}
        /\ buffer' = buffer
    BY <1>5 DEF CheckList, FlushList, ForceList, Go, Kept, Shrinks, redis, TypeOK
  <2>2. Draining(h)' /\ FrameOK(h)'
    BY <2>1 DEF Draining, FrameOK, Undeleted
  <2> QED
    BY <2>1, <2>2, DrainerMoves
<1>6. ASSUME NEW h \in Handler, CheckRead(h) PROVE DrainInvariant'
  <2> DEFINE m == Min(todo[h])
  <2>1. /\ buffer' = buffer /\ \A g \in Handler \ {h} : Kept(g)
        /\ op'[h] = op[h] /\ pc'[h] = pc[h] /\ keys'[h] = keys[h]
        /\ At(h, "check", "read") /\ todo'[h] = todo[h] \ {m}
    BY <1>6 DEF CheckRead, Fetch, Kept, redis, control, TypeOK
  <2>2. /\ Range(held[h]) \subseteq Range(held'[h])
        /\ m \in DOMAIN buffer => buffer[m] \in Range(held'[h])
    <3>1. held' = IF m \in DOMAIN buffer
                  THEN [held EXCEPT ![h] = Append(@, buffer[m])] ELSE held
      BY <1>6 DEF CheckRead, Fetch
    <3>2. CASE m \in DOMAIN buffer
      <4>1. held'[h] = Append(held[h], buffer[m]) /\ held[h] \in Seq(Entry)
        BY <3>1, <3>2 DEF TypeOK
      <4> QED
        BY <3>2, <4>1 DEF Range
    <3>3. CASE m \notin DOMAIN buffer
      BY <3>1, <3>3
    <3> QED
      BY <3>2, <3>3
  <2>3. FrameOK(h)'
    <3> HIDE DEF m
    <3>1. FrameOK(h)
      BY DEF DrainInvariant
    <3> QED
      BY <2>1, <2>2, <3>1 DEF FrameOK, Draining, Undeleted, At
  <2>4. Draining(h)' /\ pc[h] # "idle" /\ op'[h] # "buffer" /\ Shrinks
    BY <2>1 DEF Draining, At, Shrinks
  <2> QED
    BY <2>1, <2>3, <2>4, DrainerMoves
<1>7. ASSUME NEW h \in Handler, CheckClear(h) PROVE DrainInvariant'
  <2>1. PICK k \in todo[h] : /\ buffer' = DelKey(buffer, k)
                             /\ todo' = [todo EXCEPT ![h] = @ \ {k}]
    BY <1>7 DEF CheckClear
  <2>2. Shrinks /\ DOMAIN buffer' = DOMAIN buffer \ {k}
    BY <2>1, DelBuffer DEF Shrinks, BufferType, TypeOK
  <2>3. /\ \A g \in Handler \ {h} : Kept(g)
        /\ op'[h] = op[h] /\ pc'[h] = pc[h] /\ held'[h] = held[h]
        /\ At(h, "check", "finish") /\ todo'[h] = todo[h] \ {k}
    BY <1>7, <2>1 DEF CheckClear, Kept, control, TypeOK
  <2>4. FrameOK(h)'
    <3>1. FrameOK(h)
      BY DEF DrainInvariant
    <3> QED
      BY <2>2, <2>3, <3>1 DEF FrameOK, Draining, Undeleted, At, Shrinks
  <2>5. Draining(h)' /\ pc[h] # "idle" /\ op'[h] # "buffer"
    BY <2>3 DEF Draining, At
  <2> QED
    BY <2>2, <2>3, <2>4, <2>5, DrainerMoves
<1>8. ASSUME NEW h \in Handler, NEW o \in Taker, TakeGet(h, o)
      PROVE  DrainInvariant'
  <2> DEFINE m == Min(todo[h])
  <2>1. /\ buffer' = buffer /\ \A g \in Handler \ {h} : Kept(g)
        /\ op'[h] = o /\ pc'[h] = "del" /\ todo'[h] = todo[h]
        /\ At(h, o, "get") /\ o # "check" /\ o # "buffer" /\ Draining(h)
    BY <1>8 DEF TakeGet, Fetch, Taker, Go, Kept, redis, TypeOK, At, Draining
  <2>2. m \in DOMAIN buffer => buffer[m] \in Range(held'[h])
    <3>1. SUFFICES ASSUME m \in DOMAIN buffer PROVE buffer[m] \in Range(held'[h])
      OBVIOUS
    <3>2. held'[h] = Append(held[h], buffer[m]) /\ held[h] \in Seq(Entry)
      BY <1>8, <3>1 DEF TakeGet, Fetch, TypeOK
    <3> QED
      BY <3>1, <3>2 DEF Range
  <2>3. FrameOK(h)'
    <3> HIDE DEF m
    <3>1. FrameOK(h)
      BY DEF DrainInvariant
    <3>2. DOMAIN buffer \subseteq todo[h]
      BY <2>1, <3>1 DEF FrameOK, Draining, Undeleted, At
    <3>3. m = Min(todo[h])
      BY DEF m
    <3> QED
      BY <2>1, <2>2, <3>2, <3>3 DEF FrameOK, Draining, Undeleted
  <2>4. Draining(h)' /\ pc[h] # "idle" /\ op'[h] # "buffer" /\ Shrinks
    BY <2>1 DEF Draining, At, Shrinks
  <2> QED
    BY <2>1, <2>3, <2>4, DrainerMoves
<1>9. ASSUME NEW h \in Handler, NEW o \in Taker, TakeDel(h, o)
      PROVE  DrainInvariant'
  <2> DEFINE m == Min(todo[h])
  <2>1. Shrinks /\ DOMAIN buffer' = DOMAIN buffer \ {m}
    BY <1>9, DelBuffer DEF TakeDel, Shrinks, BufferType, TypeOK
  <2>2. /\ \A g \in Handler \ {h} : Kept(g)
        /\ op'[h] = o /\ pc'[h] = "get" /\ todo'[h] = todo[h] \ {m}
        /\ At(h, o, "del") /\ o # "check" /\ o # "buffer" /\ Draining(h)
    BY <1>9 DEF TakeDel, Taker, Go, Kept, TypeOK, At, Draining
  <2>3. FrameOK(h)'
    <3> HIDE DEF m
    <3>1. DOMAIN buffer \subseteq todo[h]
      BY <2>2 DEF DrainInvariant, FrameOK, Draining, Undeleted, At
    <3> QED
      BY <2>1, <2>2, <3>1 DEF FrameOK, Draining, Undeleted
  <2>4. Draining(h)' /\ pc[h] # "idle" /\ op'[h] # "buffer"
    BY <2>2 DEF Draining, At
  <2> QED
    BY <2>1, <2>2, <2>3, <2>4, DrainerMoves
<1>10. ASSUME NEW h \in Handler,
              FlushReply(h) \/ \E o \in Snapshot : Finish(h, o)
       PROVE  DrainInvariant'
  <2>1. /\ buffer' = buffer /\ \A g \in Handler \ {h} : Kept(g)
        /\ op'[h] = "none" /\ pc'[h] = "idle" /\ todo[h] = {}
        /\ pc[h] \in {"get", "finish"} /\ Draining(h)
        /\ op[h] = "check" => pc[h] = "finish"
    BY <1>10 DEF FlushReply, Finish, Return, Go, Kept, redis, TypeOK, At, Draining,
                 Snapshot
  <2>2. DOMAIN buffer = {}
    BY <2>1 DEF DrainInvariant, FrameOK, Undeleted
  <2>3. FrameOK(h)' /\ Shrinks
    BY <2>1, <2>2 DEF FrameOK, Draining, Shrinks
  <2> QED
    BY <2>1, <2>2, <2>3, DrainerMoves
<1>11. ASSUME NEW h \in Handler, NEW o \in Snapshot,
              \/ BadSession(h, o) \/ Await(h, o)
              \/ SaveCommit(h, o) \/ SaveFail(h, o) \/ Resume(h, o)
       PROVE  DrainInvariant'
  <2>1. /\ buffer' = buffer /\ \A g \in Handler \ {h} : Kept(g)
        /\ op'[h] = o /\ op[h] = o /\ held'[h] = held[h] /\ keys'[h] = keys[h]
        /\ o \in {"check", "force"} /\ pc[h] # "idle"
    BY <1>11 DEF BadSession, Await, SaveCommit, SaveFail, Resume, ReadyToSave, Go,
                 Kept, redis, locals, TypeOK, At, Snapshot
  <2>2. FrameOK(h) /\ Draining(h)
    BY <2>1 DEF DrainInvariant, Draining
  <2>3. todo[h] = {}
    BY <1>11, <2>2 DEF BadSession, Await, SaveCommit, SaveFail, Resume,
                       ReadyToSave, FrameOK, At
  <2>4. pc[h] # "finish" /\ pc[h] # "del"
    BY <1>11 DEF BadSession, Await, SaveCommit, SaveFail, Resume, ReadyToSave, At
  <2>5. \/ pc'[h] \in {"save", "resume"} /\ todo'[h] = {}
        \/ pc'[h] = "finish" /\ todo'[h] = ToClear(h, o)
    BY <1>11, <2>3 DEF BadSession, Await, SaveCommit, SaveFail, Resume, Go,
                       locals, TypeOK
  <2>6. FrameOK(h)'
    <3>1. DOMAIN buffer \subseteq ToClear(h, o)
      BY <2>1, <2>2, <2>3, <2>4 DEF FrameOK, Undeleted, ToClear
    <3> QED
      BY <2>1, <2>2, <2>3, <2>4, <2>5, <3>1
      DEF FrameOK, Draining, Undeleted, ToClear
  <2>7. Draining(h)' /\ op'[h] # "buffer" /\ Shrinks
    BY <2>1 DEF Draining, Shrinks
  <2> QED
    BY <2>1, <2>6, <2>7, DrainerMoves
<1>12. ASSUME (\E h \in Handler : RedisError(h)) \/ Crash PROVE FALSE
  BY <1>12 DEF RedisError, Crash
<1> QED
  BY <1>1, <1>2, <1>3, <1>4, <1>5, <1>6, <1>7, <1>8, <1>9, <1>10, <1>11, <1>12
  DEF Next, Proceed

-----------------------------------------------------------------------------
LEMMA TakenGrows ==
  ASSUME checkpoints \subseteq checkpoints', flushed \subseteq flushed',
         unsaved \subseteq unsaved'
  PROVE  Taken \subseteq Taken'
BY DEF Taken, Entries

LEMMA BatchTaken ==
  ASSUME NEW b \in checkpoints \cup flushed \cup unsaved
  PROVE  Range(b) \subseteq Taken
BY DEF Taken, Entries

(* A step of one handler loses nothing if what it lets go of, from its hand *)
(* or from the buffer, is handed out or stays in its hand.                  *)
LEMMA NothingDropped ==
  ASSUME NothingLost, NEW h \in Handler, \A g \in Handler \ {h} : Kept(g),
         accepted' = accepted, Taken \subseteq Taken',
         op[h] \in Taker =>
           \/ op'[h] = op[h] /\ Range(held[h]) \subseteq Range(held'[h])
           \/ Range(held[h]) \subseteq Taken',
         \A k \in DOMAIN buffer :
           \/ k \in DOMAIN buffer' /\ buffer'[k] = buffer[k]
           \/ op'[h] \in Taker /\ buffer[k] \in Range(held'[h])
           \/ buffer[k] \in Taken'
  PROVE  NothingLost'
<1>1. InHand \subseteq InHand' \cup Taken'
  BY DEF InHand, Kept, Taker
<1>2. Range(buffer) \subseteq Range(buffer') \cup InHand' \cup Taken'
  <2> SUFFICES ASSUME NEW k \in DOMAIN buffer
               PROVE  buffer[k] \in Range(buffer') \cup InHand' \cup Taken'
    BY DEF Range
  <2>1. CASE op'[h] \in Taker /\ buffer[k] \in Range(held'[h])
    BY <2>1 DEF InHand, Taker
  <2> QED
    BY <2>1 DEF Range
<1> QED
  BY <1>1, <1>2 DEF NothingLost

LEMMA LostStep ==
  ASSUME TypeOK, crashes = 0, crashes' = 0, DrainInvariant, SavedBeforeCleared,
         NothingLost, Next
  PROVE  NothingLost'
<1>1. ASSUME NEW rule \in Rule, RegisterTrigger(rule) PROVE NothingLost'
  BY <1>1 DEF RegisterTrigger, control, locals, history, NothingLost, InHand,
              Taken, Entries
<1>2. CASE MinutePasses
  BY <1>2 DEF MinutePasses, control, locals, history, NothingLost, InHand,
              Taken, Entries
<1>3. ASSUME NEW h \in Handler,
             BufferList(h) \/ CheckList(h) \/ FlushList(h) \/ ForceList(h)
      PROVE  NothingLost'
  <2>1. /\ \A g \in Handler \ {h} : Kept(g)
        /\ pc[h] = "idle" /\ buffer' = buffer /\ checkpoints' = checkpoints
        /\ accepted' = accepted /\ flushed' = flushed /\ unsaved' = unsaved
    BY <1>3 DEF BufferList, CheckList, FlushList, ForceList, Go, Kept, redis,
                history, TypeOK
  <2>2. op[h] \notin Taker
    BY <2>1 DEF DrainInvariant, FrameOK, Draining, Taker
  <2> QED
    BY <2>1, <2>2, TakenGrows, NothingDropped
<1>4. ASSUME NEW h \in Handler, BufferSet(h) PROVE NothingLost'
  <2> DEFINE n == Cardinality(keys[h])
             v == held[h][1]
  <2>1. n \notin DOMAIN buffer /\ At(h, "buffer", "set")
    <3>1. At(h, "buffer", "set")
      BY <1>4 DEF BufferSet
    <3>2. n \in Nat /\ DOMAIN buffer = 0 .. n - 1
      BY <3>1, FreshIndex
    <3> HIDE DEF n
    <3> QED
      BY <3>1, <3>2
  <2>2. Range(buffer') = Range(buffer) \cup {v}
    <3>1. buffer' = SetKey(buffer, n, v)
      BY <1>4 DEF BufferSet
    <3> HIDE DEF n, v
    <3> QED
      BY <2>1, <3>1 DEF SetKey, Range
  <2>3. Range(accepted') = Range(accepted) \cup {v}
    <3>1. accepted' = Append(accepted, v) /\ accepted \in Seq(Entry)
      BY <1>4 DEF BufferSet, TypeOK
    <3> HIDE DEF v
    <3> QED
      BY <3>1 DEF Range
  <2>4. InHand' = InHand
    BY <1>4, <2>1 DEF BufferSet, Return, Go, InHand, At, TypeOK
  <2>5. Taken' = Taken
    BY <1>4 DEF BufferSet, Taken, Entries
  <2> QED
    BY <2>2, <2>3, <2>4, <2>5 DEF NothingLost
<1>5. ASSUME NEW h \in Handler, CheckRead(h) PROVE NothingLost'
  <2>1. /\ \A g \in Handler \ {h} : Kept(g)
        /\ op[h] \notin Taker /\ buffer' = buffer /\ checkpoints' = checkpoints
        /\ accepted' = accepted /\ flushed' = flushed /\ unsaved' = unsaved
    BY <1>5 DEF CheckRead, Fetch, Kept, redis, control, history, TypeOK, At, Taker
  <2> QED
    BY <2>1, TakenGrows, NothingDropped
<1>6. ASSUME NEW h \in Handler, CheckClear(h) PROVE NothingLost'
  <2>1. PICK k \in todo[h] : /\ buffer' = DelKey(buffer, k)
                             /\ todo' = [todo EXCEPT ![h] = @ \ {k}]
    BY <1>6 DEF CheckClear
  <2>2. /\ \A g \in Handler \ {h} : Kept(g)
        /\ At(h, "check", "finish") /\ op[h] \notin Taker
        /\ checkpoints' = checkpoints
        /\ accepted' = accepted /\ flushed' = flushed /\ unsaved' = unsaved
    BY <1>6, <2>1 DEF CheckClear, Kept, control, history, TypeOK, At, Taker
  <2>3. Range(held[h]) \subseteq Taken
    BY <2>2, BatchTaken DEF SavedBeforeCleared, At
  <2>4. \A x \in DOMAIN buffer : buffer[x] \in Taken
    BY <2>2, <2>3 DEF DrainInvariant, FrameOK, At
  <2> QED
    BY <2>2, <2>4, TakenGrows, NothingDropped
<1>7. ASSUME NEW h \in Handler, NEW o \in Taker, TakeGet(h, o)
      PROVE  NothingLost'
  <2>1. /\ \A g \in Handler \ {h} : Kept(g)
        /\ op[h] = o /\ op'[h] = o /\ buffer' = buffer
        /\ checkpoints' = checkpoints
        /\ accepted' = accepted /\ flushed' = flushed /\ unsaved' = unsaved
    BY <1>7 DEF TakeGet, Fetch, Go, Kept, redis, history, TypeOK, At
  <2>2. Range(held[h]) \subseteq Range(held'[h])
    <3> DEFINE m == Min(todo[h])
    <3>1. \/ held'[h] = held[h]
          \/ m \in DOMAIN buffer /\ held'[h] = Append(held[h], buffer[m])
      BY <1>7 DEF TakeGet, Fetch, TypeOK
    <3>2. held[h] \in Seq(Entry)
      BY DEF TypeOK
    <3> HIDE DEF m
    <3> QED
      BY <3>1, <3>2 DEF Range
  <2> QED
    BY <2>1, <2>2, TakenGrows, NothingDropped
<1>8. ASSUME NEW h \in Handler, NEW o \in Taker, TakeDel(h, o)
      PROVE  NothingLost'
  <2> DEFINE m == Min(todo[h])
  <2>1. /\ \A g \in Handler \ {h} : Kept(g)
        /\ op[h] = o /\ op'[h] = o /\ held'[h] = held[h] /\ pc[h] = "del"
        /\ buffer' = DelKey(buffer, m) /\ checkpoints' = checkpoints
        /\ accepted' = accepted /\ flushed' = flushed /\ unsaved' = unsaved
    BY <1>8 DEF TakeDel, Go, Kept, history, TypeOK, At
  <2>2. m \in DOMAIN buffer => buffer[m] \in Range(held[h])
    BY <2>1 DEF DrainInvariant, FrameOK
  <2>3. \A k \in DOMAIN buffer \ {m} : k \in DOMAIN buffer' /\ buffer'[k] = buffer[k]
    <3> HIDE DEF m
    <3> QED
      BY <2>1, DelBuffer DEF TypeOK, BufferType
  <2> HIDE DEF m
  <2> QED
    BY <2>1, <2>2, <2>3, TakenGrows, NothingDropped
<1>9. ASSUME NEW h \in Handler,
             FlushReply(h) \/ \E o \in Snapshot : Finish(h, o)
      PROVE  NothingLost'
  <2>1. /\ \A g \in Handler \ {h} : Kept(g)
        /\ buffer' = buffer /\ accepted' = accepted
        /\ checkpoints' = checkpoints /\ unsaved' = unsaved
        /\ flushed \subseteq flushed'
        /\ held[h] \in flushed' \/ pc[h] = "finish"
    BY <1>9 DEF FlushReply, Finish, Return, Go, Kept, redis, history, TypeOK, At
  <2>2. held[h] \in checkpoints' \cup flushed' \cup unsaved'
    BY <2>1 DEF SavedBeforeCleared
  <2>3. Range(held[h]) \subseteq Taken'
    BY <2>2 DEF Taken, Entries
  <2> QED
    BY <2>1, <2>3, TakenGrows, NothingDropped
<1>10. ASSUME NEW h \in Handler, NEW o \in Snapshot,
              \/ BadSession(h, o) \/ Await(h, o)
              \/ SaveCommit(h, o) \/ SaveFail(h, o) \/ Resume(h, o)
       PROVE  NothingLost'
  <2>1. /\ \A g \in Handler \ {h} : Kept(g)
        /\ op'[h] = op[h] /\ held'[h] = held[h] /\ buffer' = buffer
        /\ accepted' = accepted /\ flushed' = flushed
        /\ checkpoints \subseteq checkpoints' /\ unsaved \subseteq unsaved'
    BY <1>10 DEF BadSession, Await, SaveCommit, SaveFail, Resume, ReadyToSave, Go,
                 Kept, redis, locals, history, TypeOK, At, Snapshot
  <2> QED
    BY <2>1, TakenGrows, NothingDropped
<1>11. ASSUME (\E h \in Handler : RedisError(h)) \/ Crash PROVE FALSE
  BY <1>11 DEF RedisError, Crash
<1> QED
  BY <1>1, <1>2, <1>3, <1>4, <1>5, <1>6, <1>7, <1>8, <1>9, <1>10, <1>11
  DEF Next, Proceed

-----------------------------------------------------------------------------
(* Faults are counted and never forgotten: before the first one there was none. *)
LEMMA CrashesGrow == TypeOK /\ [Next]_vars /\ crashes' = 0 => crashes = 0
<1> SUFFICES ASSUME TypeOK, [Next]_vars, crashes' = 0 PROVE crashes = 0
  OBVIOUS
<1>1. crashes \in Nat
  BY ConstantsAssumption DEF TypeOK
<1>2. crashes' = crashes \/ crashes' = crashes + 1
  BY DEF Next, Proceed, RegisterTrigger, MinutePasses, BufferList, BufferSet,
         CheckList, CheckRead, CheckClear, FlushList, ForceList, TakeGet, TakeDel,
         FlushReply, BadSession, Await, SaveCommit, SaveFail, Resume, Finish,
         RedisError, Crash, faults, vars
<1> QED
  BY <1>1, <1>2

LEMMA PhasedInit == Init => PhasedInvariant
<1> SUFFICES ASSUME Init PROVE DrainInvariant /\ SavedBeforeCleared /\ NothingLost
  BY DEF PhasedInvariant
<1>1. DOMAIN buffer = {}
  BY DEF Init
<1>2. DrainInvariant
  BY <1>1, FS_EmptySet DEF Init, DrainInvariant, FrameOK, IndicesDense,
     IndexIsFree, Draining, At
<1>3. SavedBeforeCleared
  BY DEF Init, SavedBeforeCleared
<1>4. NothingLost
  BY DEF Init, NothingLost, Range
<1> QED
  BY <1>2, <1>3, <1>4

LEMMA PhasedStep ==
  TypeOK /\ PhasedInvariant /\ [Next /\ Phased']_vars => PhasedInvariant'
<1> SUFFICES ASSUME TypeOK, PhasedInvariant, [Next /\ Phased']_vars, crashes' = 0
             PROVE  DrainInvariant' /\ SavedBeforeCleared' /\ NothingLost'
  BY DEF PhasedInvariant
<1>1. crashes = 0
  BY CrashesGrow
<1>2. DrainInvariant /\ SavedBeforeCleared /\ NothingLost
  BY <1>1 DEF PhasedInvariant
<1>3. SavedBeforeCleared'
  BY <1>2, SavedStep
<1>4. CASE Next /\ Phased'
  BY <1>1, <1>2, <1>3, <1>4, DrainStep, LostStep
<1>5. CASE UNCHANGED vars
  <2>1. DrainInvariant'
    BY <1>2, <1>5 DEF vars, redis, control, locals, DrainInvariant, FrameOK,
       IndicesDense, IndexIsFree, Draining, Undeleted, At
  <2>2. NothingLost'
    BY <1>2, <1>5 DEF vars, redis, control, locals, history, NothingLost, InHand,
       Taken, Entries
  <2> QED
    BY <1>3, <2>1, <2>2
<1> QED
  BY <1>4, <1>5

(* However checks, flushes and forced snapshots of a session overlap, until *)
(* a fault each empties the buffer of what it holds or has handed over, the *)
(* next index is unused, and nothing is cleared before it was saved.        *)
THEOREM PhasedDrains == PhasedSpec => []PhasedInvariant
<1>1. [Next /\ Phased']_vars => [Next]_vars
  OBVIOUS
<1> QED
  BY <1>1, TypeInit, TypeStep, PhasedInit, PhasedStep, PTL DEF PhasedSpec

(* An agent that sends one buffer call at a time, and nothing beside it,    *)
(* loses no tool call, whatever else overlaps, as long as no Redis command  *)
(* fails and the server does not crash.                                     *)
THEOREM PhasedAgentLosesNothing == PhasedSpec => [](crashes = 0 => NothingLost)
<1>1. PhasedInvariant => (crashes = 0 => NothingLost)
  BY DEF PhasedInvariant
<1> QED
  BY <1>1, PhasedDrains, PTL

=============================================================================
