------------------------ MODULE HermesProviderProofs ------------------------
(* Theorems about HermesProvider for any number of turns, faults and         *)
(* recalls and every threshold.                                              *)
EXTENDS HermesProviderProperties, FiniteSetTheorems, TLAPS

MemoryType ==
  /\ DOMAIN buffer \subseteq Nat /\ buffer \in [DOMAIN buffer -> Entry]
  /\ index \in Nat /\ calls \in 0 .. MaxCalls
  /\ held \subseteq Entry /\ stranded \subseteq Entry
  /\ sent \in Seq(SUBSET Entry)

(* Entries that wait in Redis, under keys of this or of an earlier session. *)
Waiting == Range(buffer) \cup stranded

(* Every entry is in one place. *)
OnePlace ==
  /\ \A j, k \in DOMAIN buffer : buffer[j] = buffer[k] => j = k
  /\ Range(buffer) \cap stranded = {} /\ Waiting \cap held = {}
  /\ \A i \in DOMAIN sent : sent[i] \cap (Waiting \cup held) = {}
  /\ \A i, j \in DOMAIN sent : i # j => sent[i] \cap sent[j] = {}
  /\ \A e \in Waiting \cup held : e.id <= calls
  /\ \A i \in DOMAIN sent : \A e \in sent[i] : e.id <= calls

PlaceInvariant == MemoryType /\ OnePlace

LEMMA InitPlace == Init => PlaceInvariant
  BY ConstantsAssumption
  DEF Init, InitMemory, PlaceInvariant, MemoryType, OnePlace, Waiting, Range, ConstantsAssumption

-----------------------------------------------------------------------------
(* What the steps do to the places of entries: a new entry is buffered, a    *)
(* key is taken in hand, the hand is delivered, or entries only vanish.      *)
NewEntry ==
  /\ \E t \in Tool : Buffer(t, turn + 1)
  /\ stranded' = stranded

TakeEntry == FlushKey /\ stranded' = stranded

Deliver ==
  /\ sent' = Append(sent, held) /\ held' = {}
  /\ UNCHANGED <<buffer, index, calls, stranded>>

Vanish ==
  /\ held' \subseteq held /\ sent' = sent /\ calls' = calls
  /\ \/ buffer' = buffer /\ stranded' = stranded
     \/ buffer' = Restrict(buffer, {}) /\ stranded' = stranded \cup Range(buffer)
  /\ index' \in {index, 0}

LEMMA NewEntryPlace ==
  ASSUME PlaceInvariant, NewEntry PROVE PlaceInvariant'
<1>1. PICK t \in Tool : Buffer(t, turn + 1)
  BY DEF NewEntry
<1> DEFINE e == [id |-> calls + 1, tool |-> t]
<1>2. e \in Entry /\ calls + 1 \in 0 .. MaxCalls
  BY <1>1, ConstantsAssumption DEF Buffer, PlaceInvariant, MemoryType, Entry, ConstantsAssumption
<1>3. /\ calls' = calls + 1 /\ index' = index + 1
      /\ held' = held /\ sent' = sent /\ stranded' = stranded
      /\ DOMAIN buffer' = DOMAIN buffer \cup {index}
      /\ buffer'[index] = e
      /\ \A k \in DOMAIN buffer \ {index} : buffer'[k] = buffer[k]
      /\ buffer' = [k \in DOMAIN buffer \cup {index} |-> IF k = index THEN e ELSE buffer[k]]
  BY <1>1 DEF Buffer, NewEntry
<1>e. e.id = calls + 1
  OBVIOUS
<1> HIDE DEF e
<1>4. MemoryType'
  BY <1>2, <1>3 DEF PlaceInvariant, MemoryType
<1>5. \A x \in Range(buffer') : x = e \/ x \in Range(buffer)
  BY <1>3 DEF Range
<1>6. e \notin Waiting \cup held /\ \A i \in DOMAIN sent : e \notin sent[i]
  BY <1>e DEF PlaceInvariant, OnePlace, MemoryType
<1>7. \A j, k \in DOMAIN buffer' : buffer'[j] = buffer'[k] => j = k
  <2>1. \A j \in DOMAIN buffer : buffer[j] # e
    BY <1>6 DEF Waiting, Range
  <2> QED
    BY <1>3, <2>1 DEF PlaceInvariant, OnePlace
<1>8. \A x \in Waiting' : x = e \/ x \in Waiting
  BY <1>3, <1>5 DEF Waiting
<1>9. Range(buffer') \cap stranded' = {}
  BY <1>3, <1>5, <1>6 DEF Waiting, PlaceInvariant, OnePlace
<1>10. Waiting' \cap held' = {} /\ \A i \in DOMAIN sent' : sent'[i] \cap (Waiting' \cup held') = {}
  BY <1>3, <1>6, <1>8 DEF PlaceInvariant, OnePlace
<1>11. /\ \A x \in Waiting' \cup held' : x.id <= calls'
       /\ \A i \in DOMAIN sent' : \A x \in sent'[i] : x.id <= calls'
  <2>1. calls \in Nat /\ e.id = calls'
    BY <1>3, <1>e DEF PlaceInvariant, MemoryType
  <2>2. \A x \in Entry : x.id \in Nat
    BY DEF Entry
  <2>3. Waiting \cup held \subseteq Entry /\ \A i \in DOMAIN sent : sent[i] \subseteq Entry
    BY DEF PlaceInvariant, MemoryType, Waiting, Range
  <2> QED
    BY <1>3, <1>8, <2>1, <2>2, <2>3 DEF PlaceInvariant, OnePlace
<1> QED
  BY <1>3, <1>4, <1>7, <1>9, <1>10, <1>11 DEF PlaceInvariant, OnePlace

LEMMA TakeEntryPlace ==
  ASSUME PlaceInvariant, TakeEntry PROVE PlaceInvariant'
<1>1. PICK k \in DOMAIN buffer :
        /\ held' = held \cup {buffer[k]}
        /\ buffer' = Restrict(buffer, DOMAIN buffer \ {k})
  BY DEF TakeEntry, FlushKey
<1>2. /\ DOMAIN buffer' = DOMAIN buffer \ {k}
      /\ \A j \in DOMAIN buffer' : buffer'[j] = buffer[j]
      /\ buffer' = [j \in DOMAIN buffer \ {k} |-> buffer[j]]
      /\ UNCHANGED <<index, calls, sent, stranded>>
  BY <1>1 DEF Restrict, TakeEntry, FlushKey, object, history
<1>3. buffer[k] \in Range(buffer) /\ buffer[k] \notin stranded
  BY DEF Range, PlaceInvariant, OnePlace
<1>4. Range(buffer') = Range(buffer) \ {buffer[k]}
  BY <1>2 DEF Range, PlaceInvariant, OnePlace
<1>5. Waiting' = Waiting \ {buffer[k]} /\ Waiting' \cup held' = Waiting \cup held
  BY <1>1, <1>2, <1>3, <1>4 DEF Waiting
<1>6. MemoryType'
  BY <1>1, <1>2 DEF PlaceInvariant, MemoryType
<1>7. OnePlace'
  BY <1>1, <1>2, <1>4, <1>5 DEF PlaceInvariant, OnePlace
<1> QED
  BY <1>6, <1>7 DEF PlaceInvariant

LEMMA DeliverPlace ==
  ASSUME PlaceInvariant, Deliver PROVE PlaceInvariant'
<1> DEFINE n == Len(sent)
<1>1. /\ n \in Nat /\ DOMAIN sent = 1 .. n /\ DOMAIN sent' = 1 .. n + 1
      /\ \A i \in 1 .. n : sent'[i] = sent[i]
      /\ sent'[n + 1] = held
      /\ sent' \in Seq(SUBSET Entry)
  BY DEF PlaceInvariant, MemoryType, Deliver
<1>2. Waiting' = Waiting /\ held' = {} /\ calls' = calls /\ buffer' = buffer /\ stranded' = stranded
  BY DEF Deliver, Waiting
<1> HIDE DEF n
<1>3. \A i \in DOMAIN sent' : i \in DOMAIN sent \/ sent'[i] = held
  BY <1>1
<1>4. \A i \in DOMAIN sent' : sent'[i] \cap (Waiting' \cup held') = {}
  BY <1>1, <1>2, <1>3 DEF PlaceInvariant, OnePlace
<1>5. \A i, j \in DOMAIN sent' : i # j => sent'[i] \cap sent'[j] = {}
  <2> SUFFICES ASSUME NEW i \in DOMAIN sent', NEW j \in DOMAIN sent', i # j
               PROVE  sent'[i] \cap sent'[j] = {}
    OBVIOUS
  <2>1. CASE i \in 1 .. n /\ j \in 1 .. n
    BY <1>1, <2>1 DEF PlaceInvariant, OnePlace
  <2>2. CASE i = n + 1 /\ j \in 1 .. n
    BY <1>1, <2>2 DEF PlaceInvariant, OnePlace
  <2>3. CASE i \in 1 .. n /\ j = n + 1
    BY <1>1, <2>3 DEF PlaceInvariant, OnePlace
  <2> QED
    BY <1>1, <2>1, <2>2, <2>3
<1>6. /\ \A e \in Waiting' \cup held' : e.id <= calls'
      /\ \A i \in DOMAIN sent' : \A e \in sent'[i] : e.id <= calls'
  BY <1>1, <1>2, <1>3 DEF PlaceInvariant, OnePlace
<1>7. MemoryType'
  BY <1>1, <1>2 DEF PlaceInvariant, MemoryType, Deliver
<1> QED
  BY <1>2, <1>4, <1>5, <1>6, <1>7 DEF PlaceInvariant, OnePlace

LEMMA VanishPlace ==
  ASSUME PlaceInvariant, Vanish PROVE PlaceInvariant'
<1>1. CASE buffer' = buffer /\ stranded' = stranded
  <2>1. MemoryType'
    BY <1>1 DEF Vanish, PlaceInvariant, MemoryType
  <2> QED
    BY <1>1, <2>1 DEF Vanish, PlaceInvariant, OnePlace, Waiting
<1>2. CASE buffer' = Restrict(buffer, {}) /\ stranded' = stranded \cup Range(buffer)
  <2>1. DOMAIN buffer' = {} /\ Range(buffer') = {} /\ Waiting' = Waiting
    BY <1>2 DEF Restrict, Range, Waiting
  <2>2. Range(buffer) \subseteq Entry
    BY DEF PlaceInvariant, MemoryType, Range
  <2>3. MemoryType'
    BY <1>2, <2>1, <2>2 DEF Vanish, PlaceInvariant, MemoryType, Restrict
  <2> QED
    BY <1>2, <2>1, <2>3 DEF Vanish, PlaceInvariant, OnePlace
<1> QED
  BY <1>1, <1>2 DEF Vanish

-----------------------------------------------------------------------------
(* Every step of a snapshot is of one of those kinds. *)
LEMMA SnapshotKind ==
  ASSUME SnapshotStep PROVE TakeEntry \/ Deliver \/ Vanish
<1> USE DEF redis, object, snapshot, history, provider, Raise
<1>1. CASE FlushList
  BY <1>1 DEF FlushList, SnapshotStep, Vanish
<1>2. CASE FlushKey
  BY <1>2 DEF SnapshotStep, TakeEntry
<1>3. CASE FlushNote \/ RedisError
  BY <1>3 DEF FlushNote, RedisError, SnapshotStep, Vanish
<1>4. CASE FlushEnd
  BY <1>4 DEF FlushEnd, SnapshotStep, Vanish
<1>5. CASE TakeNote
  BY <1>5 DEF TakeNote, SnapshotStep, Vanish
<1>6. CASE Post(phase # "closing")
  BY <1>6 DEF Post, SnapshotStep, Deliver
<1>7. CASE PostFails
  BY <1>7 DEF PostFails, SnapshotStep, Deliver, Vanish
<1> QED
  BY <1>1, <1>2, <1>3, <1>4, <1>5, <1>6, <1>7 DEF SnapshotStep, Snapshot

LEMMA StepKind ==
  ASSUME [Next]_vars PROVE NewEntry \/ TakeEntry \/ Deliver \/ Vanish
<1> USE DEF redis, object, snapshot, history, provider, memory, Vanish
<1>1. CASE Initialize
  BY <1>1 DEF Initialize, NewObjects
<1>2. CASE TurnStart \/ PrefetchRead \/ PrefetchClear \/ PrefetchBlocking
  BY <1>2 DEF TurnStart, PrefetchRead, PrefetchClear, PrefetchBlocking
<1>3. CASE SyncTurn
  BY <1>3 DEF SyncTurn, NewEntry
<1>4. CASE SyncFails \/ QueuePrefetch \/ Recalled
  BY <1>4 DEF SyncFails, QueuePrefetch, Recalled
<1>5. CASE SessionEnd \/ SessionEnded \/ Shutdown \/ ShutDown \/ Crash
  BY <1>5 DEF SessionEnd, SessionEnded, Forget, Shutdown, ShutDown, Crash
<1>6. CASE SnapshotStep
  BY <1>6, SnapshotKind
<1>7. CASE UNCHANGED vars
  BY <1>7 DEF vars
<1> QED
  BY <1>1, <1>2, <1>3, <1>4, <1>5, <1>6, <1>7 DEF Next

(* No turn is ever in two checkpoints, nor still waiting when it is in one. *)
THEOREM SentAtMostOnce == Spec => []AtMostOnce
<1>1. PlaceInvariant /\ [Next]_vars => PlaceInvariant'
  BY StepKind, NewEntryPlace, TakeEntryPlace, DeliverPlace, VanishPlace
<1>2. PlaceInvariant => AtMostOnce
  BY DEF PlaceInvariant, OnePlace, Waiting, AtMostOnce
<1> QED
  BY <1>1, <1>2, InitPlace, PTL DEF Spec

-----------------------------------------------------------------------------
(* The numbers of recalls so far. A recall that failed is 0 in the cache and *)
(* never counts as used.                                                     *)
Recall == {r \in Nat : 0 < r /\ r <= asked}

(* A recall is in progress, or cached or being read, or used. *)
RecallPlaces ==
  /\ asked \in Nat
  /\ \A r \in recalls : r \in Recall /\ r \notin used
  /\ \A r \in used : r \in Recall
  /\ cache = NoRecall \/ cache = 0 \/ cache \in Recall
  /\ context = NoRecall \/ context = 0 \/ context \in Recall
  /\ cache \notin recalls /\ cache \notin used
  /\ context \notin recalls /\ context \notin used
  /\ phase = "reading" => context # NoRecall

LEMMA RecallStep ==
  ASSUME RecallPlaces, [Next]_vars PROVE RecallPlaces'
<1> USE RecallAssumption DEF RecallPlaces, Recall, RecallAssumption
<1>1. CASE Initialize
  BY <1>1 DEF Initialize
<1>2. CASE TurnStart \/ PrefetchBlocking \/ SyncTurn \/ SyncFails
  BY <1>2 DEF TurnStart, PrefetchBlocking, SyncTurn, SyncFails
<1>3. CASE PrefetchRead
  BY <1>3 DEF PrefetchRead
<1>4. CASE PrefetchClear
  BY <1>4 DEF PrefetchClear
<1>5. CASE QueuePrefetch
  BY <1>5 DEF QueuePrefetch
<1>6. CASE Recalled
  BY <1>6 DEF Recalled
<1>7. CASE SessionEnd \/ SessionEnded \/ Shutdown \/ ShutDown
  BY <1>7 DEF SessionEnd, SessionEnded, Shutdown, ShutDown
<1>8. CASE Crash
  BY <1>8 DEF Crash
<1>9. CASE SnapshotStep
  BY <1>9 DEF SnapshotStep, provider
<1>10. CASE UNCHANGED vars
  BY <1>10 DEF vars, provider
<1> QED
  BY <1>1, <1>2, <1>3, <1>4, <1>5, <1>6, <1>7, <1>8, <1>9, <1>10 DEF Next

(* The answer of a recall is injected into at most one turn. *)
THEOREM RecallsAreUsedOnce == Spec => []RecallUsedOnce
<1>1. Init => RecallPlaces
  BY RecallAssumption DEF Init, RecallPlaces, Recall, RecallAssumption
<1>2. RecallPlaces => RecallUsedOnce
  BY DEF RecallPlaces, RecallUsedOnce
<1> QED
  BY <1>1, <1>2, RecallStep, PTL DEF Spec

-----------------------------------------------------------------------------
(* Where a buffered turn can be. *)
Place == Range(buffer) \cup held \cup Delivered \cup dropped \cup stranded

Calm == faults = 0 /\ ~resumed

(* Between turns no snapshot is in progress, and one that has not listed the *)
(* keys holds nothing. Keys are indices, so without a fault a loop ends; it  *)
(* visits every key, and the index is beyond all of them.                    *)
AccountInvariant ==
  /\ faults \in Nat /\ resumed \in BOOLEAN
  /\ phase \in {"off", "rest", "started", "reading", "working"} => pc = "idle"
  /\ pc \in {"idle", "fire", "raised"} => held = {}
  /\ ~note /\ NoteKey \notin todo
  /\ Calm => /\ \A k \in DOMAIN buffer : k < index
             /\ pc = "flush" => DOMAIN buffer \subseteq todo
             /\ \A id \in 1 .. calls : \E e \in Place : e.id = id

LEMMA InitAccount == Init => AccountInvariant
<1> SUFFICES ASSUME Init PROVE AccountInvariant
  OBVIOUS
<1>1. DOMAIN buffer = {} /\ todo = {} /\ held = {} /\ pc = "idle" /\ 1 .. calls = {}
  BY DEF Init, InitMemory
<1>2. faults = 0 /\ resumed \in BOOLEAN /\ ~note
  BY DEF Init, InitMemory
<1> QED
  BY <1>1, <1>2 DEF AccountInvariant

(* A step that keeps every place and buffers nothing keeps the account. *)
LEMMA KeptAccount ==
  ASSUME AccountInvariant, Place \subseteq Place', calls' = calls, Calm
  PROVE  \A id \in 1 .. calls' : \E e \in Place' : e.id = id
  BY DEF AccountInvariant

(* Steps of Hermes and of recalls that leave entries alone. *)
LEMMA ProviderAccount ==
  ASSUME AccountInvariant,
         \/ TurnStart \/ PrefetchRead \/ PrefetchClear \/ PrefetchBlocking
         \/ QueuePrefetch \/ Recalled
         \/ SessionEnd \/ SessionEnded \/ Shutdown \/ ShutDown
         \/ UNCHANGED vars
  PROVE  AccountInvariant'
<1> USE DEF redis, object, snapshot, history, memory, provider
<1>1. /\ UNCHANGED <<buffer, note, index, todo, held, sent, calls, dropped, faults>>
      /\ UNCHANGED <<stranded, resumed>>
  BY DEF TurnStart, PrefetchRead, PrefetchClear, PrefetchBlocking, QueuePrefetch,
         Recalled, SessionEnd, SessionEnded, Forget, Shutdown, ShutDown, vars
<1>2. /\ phase' \in {"off", "rest", "started", "reading", "working"} => pc' = "idle"
      /\ pc' \in {"idle", "fire", "raised"} => held = {}
      /\ pc' = "flush" => pc = "flush"
  <2> USE DEF AccountInvariant
  <2>1. CASE TurnStart \/ PrefetchRead \/ PrefetchClear \/ PrefetchBlocking
    BY <2>1 DEF TurnStart, PrefetchRead, PrefetchClear, PrefetchBlocking
  <2>2. CASE QueuePrefetch \/ Recalled
    BY <2>2 DEF QueuePrefetch, Recalled
  <2>3. CASE SessionEnd \/ SessionEnded
    BY <2>3 DEF SessionEnd, SessionEnded
  <2>4. CASE Shutdown \/ ShutDown
    BY <2>4 DEF Shutdown, ShutDown
  <2>5. CASE UNCHANGED vars
    BY <2>5 DEF vars
  <2> QED
    BY <2>1, <2>2, <2>3, <2>4, <2>5
<1>3. Place' = Place /\ (Calm' <=> Calm)
  BY <1>1 DEF Place, Delivered, Calm
<1> QED
  BY <1>1, <1>2, <1>3 DEF AccountInvariant

(* After a fault, or once a session was taken up again, nothing is claimed   *)
(* of the entries.                                                           *)
LEMMA FaultAccount ==
  ASSUME AccountInvariant, SyncFails \/ Crash \/ (SnapshotStep /\ faults' # faults)
  PROVE  AccountInvariant'
<1> USE DEF redis, object, snapshot, history, memory, provider, AccountInvariant
<1>1. CASE SyncFails
  BY <1>1 DEF SyncFails, Fault, Calm
<1>2. CASE Crash
  BY <1>2 DEF Crash, Fault, Calm
<1>3. CASE PostFails /\ UNCHANGED provider
  BY <1>3 DEF PostFails, Fault, Raise, Calm
<1>4. CASE RedisError /\ UNCHANGED provider
  BY <1>4 DEF RedisError, Fault, Raise, Calm
<1>5. CASE Snapshot(phase # "closing") /\ faults' # faults
  BY <1>5 DEF Snapshot, FlushList, FlushKey, FlushNote, FlushEnd, TakeNote, Post
<1> QED
  BY <1>1, <1>2, <1>3, <1>4, <1>5 DEF SnapshotStep

LEMMA InitializeAccount ==
  ASSUME AccountInvariant, Initialize PROVE AccountInvariant'
<1> USE DEF snapshot, history, Initialize, NewObjects
<1>1. CASE resumed'
  BY <1>1 DEF AccountInvariant, Calm
<1>2. CASE ~resumed'
  <2>1. buffer' = Restrict(buffer, {}) /\ stranded' = stranded \cup Range(buffer) /\ resumed' = resumed
    BY <1>2
  <2>2. DOMAIN buffer' = {} /\ Range(buffer') = {}
    BY <2>1 DEF Restrict, Range
  <2>3. Place' = Place /\ (Calm' <=> Calm)
    BY <2>1, <2>2 DEF Place, Delivered, Calm
  <2> QED
    BY <2>1, <2>2, <2>3 DEF AccountInvariant
<1> QED
  BY <1>1, <1>2

LEMMA SyncAccount ==
  ASSUME PlaceInvariant, AccountInvariant, SyncTurn PROVE AccountInvariant'
<1>1. PICK t \in Tool : Buffer(t, turn + 1)
  BY DEF SyncTurn
<1>2. /\ calls' = calls + 1 /\ index' = index + 1 /\ pc' \in {"fire", "idle"}
      /\ phase' = "synced" /\ pc = "idle"
      /\ UNCHANGED <<note, todo, held, sent, dropped, faults, stranded, resumed>>
      /\ DOMAIN buffer' = DOMAIN buffer \cup {index}
      /\ buffer'[index] = [id |-> calls', tool |-> t]
      /\ \A k \in DOMAIN buffer \ {index} : buffer'[k] = buffer[k]
  BY <1>1 DEF SyncTurn, Buffer
<1>3. index \in Nat /\ calls \in Nat /\ DOMAIN buffer \subseteq Nat
  BY ConstantsAssumption DEF PlaceInvariant, MemoryType, ConstantsAssumption
<1>4. ASSUME Calm'
      PROVE  /\ \A k \in DOMAIN buffer' : k < index'
             /\ \A id \in 1 .. calls' : \E e \in Place' : e.id = id
  <2>1. Calm /\ \A k \in DOMAIN buffer : k < index
    BY <1>2, <1>4 DEF AccountInvariant, Calm
  <2>2. \A k \in DOMAIN buffer' : k < index'
    BY <1>2, <1>3, <2>1
  <2>3. \A k \in DOMAIN buffer : k # index
    BY <1>3, <2>1
  <2>4. Range(buffer) \subseteq Range(buffer')
    BY <1>2, <2>3 DEF Range
  <2>5. Place \subseteq Place'
    BY <1>2, <2>4 DEF Place, Delivered
  <2>6. buffer'[index] \in Place' /\ buffer'[index].id = calls'
    BY <1>2 DEF Place, Range
  <2>7. \A id \in 1 .. calls : \E e \in Place : e.id = id
    BY <2>1 DEF AccountInvariant
  <2>8. \A id \in 1 .. calls' : id = calls' \/ id \in 1 .. calls
    BY <1>2, <1>3
  <2> QED
    BY <2>2, <2>5, <2>6, <2>7, <2>8
<1> QED
  BY <1>2, <1>4 DEF AccountInvariant, Calm

LEMMA SnapshotAccount ==
  ASSUME PlaceInvariant, AccountInvariant, SnapshotStep, faults' = faults
  PROVE  AccountInvariant'
<1> USE DEF redis, object, snapshot, history, provider
<1>1. CASE FlushList
  <2>1. held = {} /\ held' = {} /\ pc' = "flush" /\ DOMAIN buffer \subseteq todo' /\ NoteKey \notin todo'
    <3>1. DOMAIN buffer \subseteq Nat /\ ~note /\ NoteKey \notin Nat
      BY DEF PlaceInvariant, MemoryType, AccountInvariant, NoteKey
    <3> QED
      BY <1>1, <3>1 DEF FlushList, AccountInvariant
  <2>2. Place' = Place /\ (Calm' <=> Calm)
    BY <1>1, <2>1 DEF FlushList, SnapshotStep, Place, Delivered, Calm
  <2> QED
    BY <1>1, <2>1, <2>2 DEF FlushList, SnapshotStep, AccountInvariant
<1>2. CASE FlushKey
  <2>1. PICK k \in todo \cap DOMAIN buffer :
          /\ held' = held \cup {buffer[k]}
          /\ buffer' = Restrict(buffer, DOMAIN buffer \ {k})
          /\ todo' = todo \ {k}
    BY <1>2 DEF FlushKey
  <2>2. /\ DOMAIN buffer' = DOMAIN buffer \ {k}
        /\ \A j \in DOMAIN buffer' : buffer'[j] = buffer[j]
    BY <2>1 DEF Restrict
  <2>3. Range(buffer) \subseteq Range(buffer') \cup {buffer[k]}
    BY <2>2 DEF Range
  <2>4. Place \subseteq Place' /\ (Calm' <=> Calm)
    BY <1>2, <2>1, <2>3 DEF FlushKey, SnapshotStep, Place, Delivered, Calm
  <2> QED
    BY <1>2, <2>1, <2>2, <2>4, KeptAccount DEF FlushKey, SnapshotStep, AccountInvariant
<1>3. CASE FlushNote \/ PostFails \/ RedisError
  BY <1>3 DEF FlushNote, PostFails, RedisError, Fault, AccountInvariant
<1>4. CASE FlushEnd
  <2>1. Place \subseteq Place' /\ (Calm' <=> Calm)
    BY <1>4 DEF FlushEnd, SnapshotStep, Place, Delivered, Calm
  <2>2. Calm => DOMAIN buffer = {}
    BY <1>4 DEF FlushEnd, AccountInvariant
  <2> QED
    BY <1>4, <2>1, <2>2, KeptAccount DEF FlushEnd, SnapshotStep, AccountInvariant
<1>5. CASE TakeNote
  <2>1. Place' = Place /\ (Calm' <=> Calm)
    BY <1>5 DEF TakeNote, SnapshotStep, Place, Delivered, Calm
  <2> QED
    BY <1>5, <2>1 DEF TakeNote, SnapshotStep, AccountInvariant
<1>6. CASE Post(phase # "closing")
  <2>1. Delivered' = Delivered \cup held
    <3>1. sent \in Seq(SUBSET Entry) /\ held \in SUBSET Entry
      BY DEF PlaceInvariant, MemoryType
    <3>2. sent' = Append(sent, held)
      BY <1>6 DEF Post
    <3> QED
      BY <3>1, <3>2 DEF Delivered, Range
  <2>2. Place' = Place /\ (Calm' <=> Calm)
    BY <1>6, <2>1 DEF Post, SnapshotStep, Place, Calm
  <2> QED
    BY <1>6, <2>2 DEF Post, SnapshotStep, AccountInvariant
<1> QED
  BY <1>1, <1>2, <1>3, <1>4, <1>5, <1>6 DEF SnapshotStep, Snapshot

(* Without a fault or a session taken up again no turn disappears. *)
THEOREM NoTurnDisappears == Spec => []TurnsAccounted
<1>1. PlaceInvariant /\ [Next]_vars => PlaceInvariant'
  BY StepKind, NewEntryPlace, TakeEntryPlace, DeliverPlace, VanishPlace
<1>2. PlaceInvariant /\ AccountInvariant /\ [Next]_vars => AccountInvariant'
  BY ProviderAccount, FaultAccount, InitializeAccount, SyncAccount, SnapshotAccount DEF Next
<1>3. AccountInvariant => TurnsAccounted
  BY DEF AccountInvariant, TurnsAccounted, Calm, Place
<1> QED
  BY <1>1, <1>2, <1>3, InitPlace, InitAccount, PTL DEF Spec

-----------------------------------------------------------------------------
(* The trigger counts turns, the index counts entries. Between turns the     *)
(* index is at most the turns since the last checkpoint, and those are fewer *)
(* than Threshold: sync_turn adds one to the number on_turn_start has set,   *)
(* and the next on_turn_start sets that value again.                         *)
Within == index <= turn - last /\ turn - last < Threshold

Steady ==
  /\ turn \in Nat /\ last \in Nat /\ number \in Nat
  /\ Calm =>
       /\ phase \in {"rest", "ending", "closing"} =>
            pc = "idle" /\ Within /\ number <= turn /\ turn <= number + 1
       /\ phase \in {"started", "reading", "working"} =>
            turn = number /\ index <= turn - last
       /\ phase = "synced" =>
            /\ turn = number + 1 /\ pc # "raised"
            /\ pc = "idle" => Within
            /\ pc \in {"note", "post"} => index = 0

LEMMA SteadySession ==
  ASSUME Steady, ~Calm',
         SyncFails \/ Crash \/ SyncTurn \/ SnapshotStep
  PROVE  turn' \in Nat /\ last' \in Nat /\ number' \in Nat
<1> USE DEF object, history, memory, provider, Steady
<1>1. CASE SyncFails \/ Crash \/ SyncTurn
  BY <1>1 DEF SyncFails, Crash, SyncTurn, Buffer
<1>2. CASE SnapshotStep
  BY <1>2 DEF SnapshotStep, Snapshot, FlushList, FlushKey, FlushNote, FlushEnd, TakeNote,
              Post, PostFails, RedisError
<1> QED
  BY <1>1, <1>2

(* The turn is over, and the trigger decides. *)
LEMMA SteadySync ==
  ASSUME PlaceInvariant, Steady, SyncTurn, Calm PROVE Steady'
<1>1. PICK t \in Tool : Buffer(t, turn + 1)
  BY DEF SyncTurn
<1>2. /\ phase = "working" /\ phase' = "synced" /\ number' = number
      /\ index' = index + 1 /\ turn' = turn + 1 /\ last' = last
  BY <1>1 DEF SyncTurn, Buffer
<1>4. pc' \in {"fire", "idle"} /\ (pc' = "idle" => ~ShouldFire(turn + 1))
  BY <1>1 DEF Buffer
<1>3. index \in Nat /\ Threshold \in Nat
  BY ConstantsAssumption DEF PlaceInvariant, MemoryType, ConstantsAssumption
<1> QED
  BY <1>2, <1>3, <1>4 DEF Steady, Within, ShouldFire

LEMMA SteadySnapshot ==
  ASSUME PlaceInvariant, AccountInvariant, Steady, SnapshotStep, Calm, Calm' PROVE Steady'
<1> USE DEF redis, object, snapshot, history, provider
<1>1. /\ UNCHANGED <<phase, number>> /\ faults' = faults /\ faults \in Nat
      /\ pc # "idle" /\ phase \notin {"off", "rest", "started", "reading", "working"}
  <2>1. pc # "idle"
    BY DEF SnapshotStep, Snapshot, FlushList, FlushKey, FlushNote, FlushEnd, TakeNote, Post,
           PostFails, RedisError
  <2> QED
    BY <2>1 DEF SnapshotStep, Calm, AccountInvariant
<1>2. CASE FlushList \/ FlushKey
  BY <1>1, <1>2 DEF FlushList, FlushKey, Steady, Within
<1>3. CASE FlushNote \/ PostFails \/ RedisError
  BY <1>1, <1>3 DEF FlushNote, PostFails, RedisError, Fault, AccountInvariant
<1>4. CASE FlushEnd \/ TakeNote
  BY <1>1, <1>4 DEF FlushEnd, TakeNote, Steady, Within
<1>5. CASE Post(phase # "closing")
  <2>1. Threshold \in Nat \ {0} /\ index \in Nat
    BY ConstantsAssumption DEF ConstantsAssumption, PlaceInvariant, MemoryType
  <2> QED
    BY <1>1, <1>5, <2>1 DEF Post, Steady, Within
<1> QED
  BY <1>2, <1>3, <1>4, <1>5 DEF SnapshotStep, Snapshot

LEMMA SteadyStep ==
  ASSUME PlaceInvariant, AccountInvariant, Steady, [Next]_vars PROVE Steady'
<1> USE DEF redis, object, snapshot, history, memory, provider
<1>0. Calm' => Calm \/ SyncFails \/ Crash \/ SnapshotStep
  <2>1. CASE SyncTurn \/ QueuePrefetch \/ Recalled \/ TurnStart \/ PrefetchRead \/ PrefetchClear \/ PrefetchBlocking
    BY <2>1 DEF SyncTurn, Buffer, QueuePrefetch, Recalled, TurnStart, PrefetchRead, PrefetchClear, PrefetchBlocking, Calm
  <2>2. CASE SessionEnd \/ SessionEnded \/ Shutdown \/ ShutDown
    BY <2>2 DEF SessionEnd, SessionEnded, Forget, Shutdown, ShutDown, Calm
  <2>3. CASE Initialize \/ UNCHANGED vars
    BY <2>3 DEF Initialize, vars, Calm
  <2> QED
    BY <2>1, <2>2, <2>3 DEF Next
<1>1. CASE SyncFails \/ Crash
  <2>1. ~Calm'
    BY <1>1 DEF SyncFails, Crash, Fault, Calm, AccountInvariant
  <2> QED
    BY <1>1, <2>1, SteadySession DEF Steady
<1>2. CASE SnapshotStep
  <2>1. Calm' => Calm
    BY <1>2 DEF SnapshotStep, Snapshot, FlushList, FlushKey, FlushNote, FlushEnd, TakeNote, Post,
                PostFails, RedisError, Fault, Calm, AccountInvariant
  <2> QED
    BY <1>2, <2>1, SteadySession, SteadySnapshot DEF Steady
<1>3. CASE SyncTurn
  <2>1. CASE Calm'
    BY <1>3, <2>1, SteadySync DEF SyncTurn, Buffer, Calm
  <2>2. CASE ~Calm'
    BY <1>3, <2>2, SteadySession DEF Steady
  <2> QED
    BY <2>1, <2>2
<1>4. CASE Initialize
  <2>1. Threshold \in Nat \ {0}
    BY ConstantsAssumption DEF ConstantsAssumption
  <2>2. pc = "idle" /\ pc' = pc
    BY <1>4 DEF Initialize, AccountInvariant
  <2> QED
    BY <1>4, <2>1, <2>2 DEF Initialize, NewObjects, Steady, Within
<1>5. CASE TurnStart
  <2>1. index \in Nat /\ (Calm' <=> Calm)
    BY <1>5 DEF TurnStart, Calm, PlaceInvariant, MemoryType
  <2> QED
    BY <1>5, <2>1 DEF TurnStart, Steady, Within
<1>6. CASE PrefetchRead \/ PrefetchClear \/ PrefetchBlocking \/ Recalled \/ UNCHANGED vars
  BY <1>6 DEF PrefetchRead, PrefetchClear, PrefetchBlocking, Recalled, vars, Steady, Within, Calm
<1>7. CASE QueuePrefetch
  BY <1>7 DEF QueuePrefetch, Steady, Within, Calm
<1>8. CASE SessionEnd \/ Shutdown
  <2>1. Threshold \in Nat /\ (Calm' <=> Calm)
    BY <1>8, ConstantsAssumption DEF SessionEnd, Shutdown, Calm, ConstantsAssumption
  <2> QED
    BY <1>8, <2>1 DEF SessionEnd, Shutdown, ShouldFire, Steady, Within
<1>9. CASE SessionEnded \/ ShutDown
  BY <1>9 DEF SessionEnded, Forget, ShutDown, Steady, Within, Calm
<1> QED
  BY <1>1, <1>2, <1>3, <1>4, <1>5, <1>6, <1>7, <1>8, <1>9 DEF Next

(* Fewer than Threshold turns wait between turns, unless something failed or *)
(* a session was taken up again.                                             *)
THEOREM BufferIsShort == Spec => []BufferStaysShort
<1>1. PlaceInvariant /\ [Next]_vars => PlaceInvariant'
  BY StepKind, NewEntryPlace, TakeEntryPlace, DeliverPlace, VanishPlace
<1>2. PlaceInvariant /\ AccountInvariant /\ [Next]_vars => AccountInvariant'
  BY ProviderAccount, FaultAccount, InitializeAccount, SyncAccount, SnapshotAccount DEF Next
<1>3. Init => Steady
  BY DEF Init, InitMemory, Steady
<1>4. PlaceInvariant /\ AccountInvariant /\ Steady => BufferStaysShort
  <2> SUFFICES ASSUME PlaceInvariant, AccountInvariant, Steady, Calm, phase = "rest"
               PROVE  Cardinality(DOMAIN buffer) < Threshold
    BY DEF BufferStaysShort, Calm
  <2>1. Threshold \in Nat /\ index \in Nat /\ DOMAIN buffer \subseteq Nat
    BY ConstantsAssumption DEF ConstantsAssumption, PlaceInvariant, MemoryType
  <2>2. \A k \in DOMAIN buffer : k < index
    BY DEF AccountInvariant
  <2>3. DOMAIN buffer \subseteq 0 .. index - 1
    BY <2>1, <2>2
  <2>4. IsFiniteSet(0 .. index - 1) /\ Cardinality(0 .. index - 1) = index
    BY <2>1, FS_Interval
  <2>5. Cardinality(DOMAIN buffer) <= index /\ Cardinality(DOMAIN buffer) \in Nat
    BY <2>1, <2>3, <2>4, FS_Subset, FS_CardinalityType
  <2> QED
    BY <2>1, <2>5 DEF Steady, Within
<1> QED
  BY <1>1, <1>2, <1>3, <1>4, SteadyStep, InitPlace, InitAccount, PTL DEF Spec

-----------------------------------------------------------------------------
(* Types. Hermes never annotates, so a loop only visits keys of entries, and *)
(* only a loop has keys to visit.                                            *)
LoopInvariant ==
  /\ pc \in {"idle", "fire", "flush", "note", "post", "raised"}
  /\ phase \in {"off", "rest", "started", "reading", "working", "synced", "ending", "closing"}
  /\ pc # "flush" => todo = {}
  /\ todo \subseteq DOMAIN buffer
  /\ patterns \subseteq Tool /\ dropped \subseteq Entry
  /\ note \in BOOLEAN /\ annotated \in BOOLEAN

(* Every turn ends with a call or a fault and queues one recall at most, so  *)
(* the counters stay below the bounds; the index counts calls, never more.   *)
CounterInvariant ==
  /\ faults \in 0 .. MaxFaults
  /\ index <= calls /\ DOMAIN buffer \subseteq 0 .. MaxCalls - 1
  /\ turn \in Nat /\ turn <= calls + faults + 1
  /\ last \in Nat /\ last <= calls + faults + 1
  /\ number \in Nat /\ number <= calls + faults + 1
  /\ phase \notin {"started", "reading", "working"} => number <= calls + faults
  /\ asked \in Nat /\ asked <= calls + faults
  /\ phase = "synced" => asked + 1 <= calls + faults

LEMMA InitTypes == Init => LoopInvariant /\ CounterInvariant
<1>1. Init => LoopInvariant
  BY DEF Init, InitMemory, LoopInvariant
<1>2. Init => CounterInvariant
  BY ConstantsAssumption DEF Init, InitMemory, CounterInvariant, ConstantsAssumption
<1> QED
  BY <1>1, <1>2

LEMMA LoopStep ==
  ASSUME PlaceInvariant, AccountInvariant, LoopInvariant, [Next]_vars PROVE LoopInvariant'
<1> USE DEF redis, object, snapshot, history, memory, provider, LoopInvariant
<1>1. CASE Initialize
  <2>1. pc = "idle" /\ pc' = pc /\ todo' = {}
    BY <1>1 DEF Initialize, AccountInvariant
  <2> QED
    BY <1>1, <2>1 DEF Initialize, NewObjects
<1>2. CASE TurnStart \/ PrefetchRead \/ PrefetchClear \/ PrefetchBlocking \/ Recalled
  BY <1>2 DEF TurnStart, PrefetchRead, PrefetchClear, PrefetchBlocking, Recalled
<1>3. CASE SyncTurn
  BY <1>3 DEF SyncTurn, Buffer
<1>4. CASE SyncFails \/ Crash
  BY <1>4 DEF SyncFails, Crash, Fault
<1>5. CASE QueuePrefetch \/ SessionEnd \/ Shutdown \/ ShutDown
  BY <1>5 DEF QueuePrefetch, SessionEnd, Shutdown, ShutDown, AccountInvariant
<1>6. CASE SessionEnded
  BY <1>6 DEF SessionEnded, Forget
<1>7. CASE SnapshotStep
  <2>1. CASE FlushList
    BY <1>7, <2>1 DEF FlushList, SnapshotStep, AccountInvariant
  <2>2. CASE FlushKey
    BY <1>7, <2>2 DEF FlushKey, SnapshotStep, Restrict
  <2>3. CASE FlushNote \/ PostFails \/ RedisError
    BY <1>7, <2>3 DEF FlushNote, PostFails, RedisError, Raise, SnapshotStep
  <2>4. CASE FlushEnd
    BY <1>7, <2>4 DEF FlushEnd, SnapshotStep, PlaceInvariant, MemoryType
  <2>5. CASE TakeNote \/ Post(phase # "closing")
    BY <1>7, <2>5 DEF TakeNote, Post, SnapshotStep, AccountInvariant
  <2> QED
    BY <1>7, <2>1, <2>2, <2>3, <2>4, <2>5 DEF SnapshotStep, Snapshot
<1>8. CASE UNCHANGED vars
  BY <1>8 DEF vars
<1> QED
  BY <1>1, <1>2, <1>3, <1>4, <1>5, <1>6, <1>7, <1>8 DEF Next

LEMMA CounterStep ==
  ASSUME PlaceInvariant, AccountInvariant, CounterInvariant, [Next]_vars PROVE CounterInvariant'
<1> USE DEF redis, object, snapshot, history, memory, provider
<1>0. calls \in 0 .. MaxCalls /\ index \in Nat /\ MaxCalls \in Nat /\ MaxFaults \in Nat
  BY ConstantsAssumption DEF PlaceInvariant, MemoryType, ConstantsAssumption
<1>1. CASE Initialize
  <2>1. DOMAIN buffer' \subseteq DOMAIN buffer
    BY <1>1 DEF Initialize, Restrict
  <2>2. index' = 0 /\ turn' = 0 /\ last' = 0 /\ number' = 0 /\ asked' = asked
        /\ calls' = calls /\ faults' = faults /\ phase' = "rest"
    BY <1>1 DEF Initialize, NewObjects
  <2> QED
    BY <1>0, <2>1, <2>2 DEF CounterInvariant
<1>2. CASE TurnStart
  BY <1>0, <1>2 DEF TurnStart, CounterInvariant
<1>3. CASE PrefetchRead \/ PrefetchClear \/ PrefetchBlocking \/ Recalled
  BY <1>0, <1>3 DEF PrefetchRead, PrefetchClear, PrefetchBlocking, Recalled, CounterInvariant
<1>4. CASE SyncTurn
  <2>1. /\ phase = "working" /\ calls < MaxCalls /\ calls' = calls + 1 /\ turn' = turn + 1
        /\ index' = index + 1 /\ DOMAIN buffer' = DOMAIN buffer \cup {index}
        /\ UNCHANGED <<last, number, asked, faults>>
    BY <1>4 DEF SyncTurn, Buffer
  <2>2. DOMAIN buffer' \subseteq 0 .. MaxCalls - 1
    BY <1>0, <2>1 DEF CounterInvariant
  <2> QED
    BY <1>0, <2>1, <2>2 DEF CounterInvariant
<1>5. CASE SyncFails \/ Crash
  <2>1. /\ faults < MaxFaults /\ faults' = faults + 1
        /\ UNCHANGED <<buffer, index, calls, last, number, asked>>
        /\ turn' \in {turn, turn + 1}
    BY <1>5 DEF SyncFails, Crash, Fault
  <2> QED
    BY <1>0, <2>1 DEF CounterInvariant
<1>6. CASE QueuePrefetch
  BY <1>0, <1>6 DEF QueuePrefetch, CounterInvariant
<1>7. CASE SessionEnd \/ SessionEnded \/ Shutdown \/ ShutDown
  <2>1. UNCHANGED <<buffer, index, calls, last, turn, number, asked, faults>>
    BY <1>7 DEF SessionEnd, SessionEnded, Forget, Shutdown, ShutDown
  <2>2. phase \in {"rest", "ending", "closing"} /\ phase' \in {"rest", "ending", "closing", "off"}
    BY <1>7 DEF SessionEnd, SessionEnded, Shutdown, ShutDown
  <2> QED
    BY <1>0, <2>1, <2>2 DEF CounterInvariant
<1>8. CASE SnapshotStep
  <2>1. UNCHANGED <<calls, turn, number, asked, phase>>
    BY <1>8 DEF SnapshotStep, Snapshot, FlushList, FlushKey, FlushNote, FlushEnd, TakeNote, Post,
                PostFails, RedisError
  <2>2. last' \in {last, turn} /\ index' \in {index, 0} /\ DOMAIN buffer' \subseteq DOMAIN buffer
    BY <1>8 DEF SnapshotStep, Snapshot, FlushList, FlushKey, FlushNote, FlushEnd, TakeNote, Post,
                PostFails, RedisError, Restrict
  <2>3. faults' = faults \/ (faults < MaxFaults /\ faults' = faults + 1)
    BY <1>8 DEF SnapshotStep, Snapshot, FlushList, FlushKey, FlushNote, FlushEnd, TakeNote, Post,
                PostFails, RedisError, Fault
  <2> QED
    BY <1>0, <2>1, <2>2, <2>3 DEF CounterInvariant
<1>9. CASE UNCHANGED vars
  BY <1>9 DEF vars, CounterInvariant
<1> QED
  BY <1>1, <1>2, <1>3, <1>4, <1>5, <1>6, <1>7, <1>8, <1>9 DEF Next

(* The shape of Redis, of the two objects, of a snapshot in progress and of  *)
(* the cache, for any number of turns, faults and recalls.                   *)
THEOREM HermesTypes == Spec => []TypeOK
<1>1. PlaceInvariant /\ [Next]_vars => PlaceInvariant'
  BY StepKind, NewEntryPlace, TakeEntryPlace, DeliverPlace, VanishPlace
<1>2. PlaceInvariant /\ AccountInvariant /\ [Next]_vars => AccountInvariant'
  BY ProviderAccount, FaultAccount, InitializeAccount, SyncAccount, SnapshotAccount DEF Next
<1>3. Init => RecallPlaces
  BY RecallAssumption DEF Init, RecallPlaces, Recall, RecallAssumption
<1>4. PlaceInvariant /\ AccountInvariant /\ RecallPlaces /\ LoopInvariant /\ CounterInvariant => TypeOK
  <2> SUFFICES ASSUME PlaceInvariant, AccountInvariant, RecallPlaces, LoopInvariant, CounterInvariant
               PROVE  TypeOK
    OBVIOUS
  <2>1. MaxCalls \in Nat /\ MaxFaults \in Nat /\ calls \in 0 .. MaxCalls
    BY ConstantsAssumption DEF ConstantsAssumption, PlaceInvariant, MemoryType
  <2>2. Range(buffer) \subseteq Entry
    BY DEF PlaceInvariant, MemoryType, Range
  <2>3. index \in 0 .. MaxCalls /\ faults \in 0 .. MaxFaults
        /\ {turn, last, number, asked} \subseteq 0 .. MaxCalls + MaxFaults + 1
    BY <2>1 DEF CounterInvariant, PlaceInvariant, MemoryType
  <2>4. /\ {cache, context} \subseteq {NoRecall} \cup 0 .. asked
        /\ recalls \subseteq 1 .. asked /\ used \subseteq 1 .. asked
    BY DEF RecallPlaces, Recall
  <2>5. note \in BOOLEAN /\ resumed \in BOOLEAN
    BY DEF AccountInvariant, LoopInvariant
  <2> QED
    BY <2>1, <2>2, <2>3, <2>4, <2>5
    DEF TypeOK, LoopInvariant, CounterInvariant, PlaceInvariant, MemoryType
<1> QED
  BY <1>1, <1>2, <1>3, <1>4, InitPlace, InitAccount, InitTypes, RecallStep, LoopStep, CounterStep, PTL
  DEF Spec

=============================================================================
