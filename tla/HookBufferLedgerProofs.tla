----------------------- MODULE HookBufferLedgerProofs -----------------------
(***************************************************************************)
(* The proof that the hooks API, one request at a time and without a crash, *)
(* implements ToolCallLedger, for every set of entries, turns and triggers. *)
(***************************************************************************)
EXTENDS HookBufferLedger, HookBufferProofs, SequenceTheorems

(* How many entries wait. *)
Size == Len(accepted) - Out

(* The keys from first on hold the waiting entries in arrival order, so the *)
(* number of keys is the next free index whenever the first key is 0.       *)
Stored(first) ==
  /\ DOMAIN buffer = first .. (Size - 1)
  /\ \A k \in DOMAIN buffer : buffer[k] = accepted[Out + 1 + k]

(* What a handler has read is a first part of what waits. *)
ReadSoFar(h) ==
  /\ Len(held[h]) <= Size
  /\ \A j \in 1 .. Len(held[h]) : held[h][j] = accepted[Out + j]

(* A snapshot or flush is about to take everything that waits. *)
ReadAll(h) == ReadSoFar(h) /\ Len(held[h]) = Size

(* Where the request in progress is, and how far the keys have come. *)
Progress(h) ==
  /\ pc[h] = "idle" => Stored(0) /\ held[h] = <<>>
  /\ At(h, "buffer", "set") =>
       Stored(0) /\ keys[h] = DOMAIN buffer /\ held[h][1] \notin Range(accepted)
  /\ At(h, "check", "read") =>
       /\ Stored(0) /\ keys[h] = DOMAIN buffer
       /\ ReadSoFar(h) /\ todo[h] = Len(held[h]) .. (Size - 1)
  /\ At(h, "check", "save") => Stored(0) /\ keys[h] = DOMAIN buffer /\ ReadAll(h)
  /\ At(h, "check", "resume") => Size = 0 /\ keys[h] = DOMAIN buffer
  /\ At(h, "check", "finish") => Size = 0 /\ todo[h] = DOMAIN buffer
  /\ \A o \in Taker :
       /\ At(h, o, "get") =>
            Stored(Len(held[h])) /\ ReadSoFar(h) /\ todo[h] = DOMAIN buffer
       /\ At(h, o, "del") =>
            /\ Len(held[h]) > 0 /\ Stored(Len(held[h]) - 1)
            /\ ReadSoFar(h) /\ todo[h] = DOMAIN buffer
  /\ At(h, "force", "save") => DOMAIN buffer = {} /\ ReadAll(h)
  /\ pc[h] \in {"resume", "finish"} /\ op[h] = "force" =>
       Size = 0 /\ DOMAIN buffer = {}

(* Entries are taken in arrival order and each is accepted once. *)
InOrder ==
  /\ Out \in Nat /\ Out <= Len(accepted)
  /\ TakenPlaces = 1 .. Out
  /\ Taken \subseteq Range(accepted)
  /\ \A i, j \in DOMAIN accepted : accepted[i] = accepted[j] => i = j

SerialInvariant(h) == InOrder /\ Progress(h)

-----------------------------------------------------------------------------
(* Smallest keys, and what is taken. *)
LEMMA FirstKey ==
  ASSUME NEW i \in Int, NEW n \in Int, i <= n
  PROVE  Min(i .. n) = i
<1>1. i \in i .. n /\ \A y \in i .. n : i =< y
  OBVIOUS
<1>2. \A x \in i .. n : (\A y \in i .. n : x =< y) => x = i
  OBVIOUS
<1> QED
  BY <1>1, <1>2 DEF Min

LEMMA Suffix ==
  ASSUME NEW s \in Seq(Entry), NEW m \in Nat, m <= Len(s)
  PROVE  /\ SubSeq(s, m + 1, Len(s)) \in Seq(Entry)
         /\ Len(SubSeq(s, m + 1, Len(s))) = Len(s) - m
         /\ \A i \in 1 .. Len(s) - m : SubSeq(s, m + 1, Len(s))[i] = s[m + i]
<1> DEFINE n == Len(s)
<1>1. n \in Nat /\ m <= n /\ \A i \in m + 1 .. n : s[i] \in Entry
  OBVIOUS
<1> HIDE DEF n
<1>2. /\ SubSeq(s, m + 1, n) \in Seq(Entry)
      /\ Len(SubSeq(s, m + 1, n)) = IF m + 1 <= n THEN n - (m + 1) + 1 ELSE 0
      /\ \A i \in 1 .. n - (m + 1) + 1 : SubSeq(s, m + 1, n)[i] = s[m + 1 + i - 1]
  BY <1>1, SubSeqProperties
<1>3. \A i \in 1 .. n - m : i \in 1 .. n - (m + 1) + 1 /\ m + 1 + i - 1 = m + i
  BY <1>1
<1>4. Len(SubSeq(s, m + 1, n)) = n - m
  BY <1>1, <1>2
<1>5. \A i \in 1 .. n - m : SubSeq(s, m + 1, n)[i] = s[m + i]
  BY <1>2, <1>3
<1> QED
  BY <1>2, <1>4, <1>5 DEF n

LEMMA OutIs ==
  ASSUME NEW n \in Nat, TakenPlaces' = 1 .. n
  PROVE  Out' = n
<1>1. Cardinality(1 .. n) = n
  BY FS_Interval
<1> QED
  BY <1>1 DEF Out

(* What the ledger calls taken is what the handlers took. *)
LEMMA LedgerTaken == Ledger!Taken = Taken
<1>1. {b.entries : b \in TakenBatches} = checkpoints \cup flushed \cup unsaved
  <2>1. ASSUME NEW fate, NEW C PROVE {b.entries : b \in Batches(fate, C)} = C
    <3>1. \A c : [fate |-> fate, entries |-> c].entries = c
      OBVIOUS
    <3> QED
      BY <3>1 DEF Batches
  <2>2. \A A, B, C : {b.entries : b \in A \cup B \cup C} =
          {b.entries : b \in A} \cup {b.entries : b \in B} \cup {b.entries : b \in C}
    OBVIOUS
  <2> QED
    BY <2>1, <2>2 DEF TakenBatches
<1>2. Ledger!Taken = UNION {Range(c) : c \in {b.entries : b \in TakenBatches}}
  BY DEF Ledger!Taken, Range
<1>3. Taken = UNION {Range(c) : c \in checkpoints \cup flushed \cup unsaved}
  BY DEF Taken, Entries
<1> QED
  BY <1>1, <1>2, <1>3

(* The books: what was accepted and taken.  While no entry is added to      *)
(* them, nothing the ledger sees changes.                                   *)
LEMMA BooksKept ==
  ASSUME InOrder, UNCHANGED <<checkpoints, history>>
  PROVE  /\ InOrder' /\ Out' = Out /\ Size' = Size
         /\ UNCHANGED Ledger!vars
BY DEF history, InOrder, Out, Size, TakenPlaces, Taken, Waiting, TakenBatches,
       Batches, Ledger!vars

LEMMA BooksBuffer ==
  ASSUME TypeOK, InOrder, NEW e \in Entry, e \notin Range(accepted),
         accepted' = Append(accepted, e),
         UNCHANGED <<checkpoints, flushed, unsaved>>
  PROVE  /\ InOrder' /\ Out' = Out /\ Size' = Size + 1
         /\ Ledger!Buffer(e)
<1> DEFINE n == Len(accepted)
<1>1. /\ n \in Nat /\ accepted \in Seq(Entry) /\ DOMAIN accepted = 1 .. n
      /\ Out \in Nat /\ Out <= n
  BY DEF TypeOK, InOrder
<1>2. /\ Len(accepted') = n + 1 /\ DOMAIN accepted' = 1 .. n + 1
      /\ accepted'[n + 1] = e /\ \A i \in 1 .. n : accepted'[i] = accepted[i]
  BY <1>1
<1>3. Taken' = Taken
  BY DEF Taken
<1>4. e \notin Taken
  BY DEF InOrder
<1>5. TakenPlaces' = TakenPlaces
  BY <1>1, <1>2, <1>3, <1>4 DEF TakenPlaces
<1>6. Out' = Out
  BY <1>5 DEF Out
<1>7. Size' = Size + 1
  BY <1>1, <1>2, <1>6 DEF Size
<1>8. Range(accepted') = Range(accepted) \cup {e}
  BY <1>1, <1>2 DEF Range
<1>9. \A i, j \in DOMAIN accepted' : accepted'[i] = accepted'[j] => i = j
  BY <1>1, <1>2 DEF InOrder, Range
<1>10. InOrder'
  BY <1>1, <1>2, <1>3, <1>5, <1>6, <1>8, <1>9 DEF InOrder
<1>11. Waiting' = Append(Waiting, e)
  <2>1. Waiting \in Seq(Entry) /\ Len(Waiting) = n - Out
        /\ \A i \in 1 .. n - Out : Waiting[i] = accepted[Out + i]
    BY <1>1, Suffix DEF Waiting
  <2>2. /\ Waiting' \in Seq(Entry) /\ Len(Waiting') = n + 1 - Out
        /\ \A i \in 1 .. n + 1 - Out : Waiting'[i] = accepted'[Out + i]
    BY <1>1, <1>2, <1>6, Suffix DEF Waiting
  <2>3. /\ Append(Waiting, e) \in Seq(Entry)
        /\ Len(Append(Waiting, e)) = n + 1 - Out
        /\ \A i \in 1 .. n + 1 - Out : Append(Waiting, e)[i] = accepted'[Out + i]
    BY <1>1, <1>2, <2>1
  <2> QED
    BY <2>2, <2>3, SeqEqual
<1>12. e \notin Ledger!Waiting
  <2>1. \A i \in DOMAIN Waiting : Waiting[i] \in Range(accepted)
    BY <1>1 DEF Waiting, Range
  <2> QED
    BY <2>1 DEF Ledger!Waiting
<1> QED
  BY <1>4, <1>6, <1>7, <1>10, <1>11, <1>12, LedgerTaken DEF Ledger!Buffer, TakenBatches, Batches

LEMMA BooksTake ==
  ASSUME TypeOK, InOrder, NEW h \in Handler, ReadAll(h), accepted' = accepted,
         Taken' = Taken \cup Range(held[h])
  PROVE  /\ InOrder' /\ Size' = 0
         /\ held[h] = Waiting /\ Waiting' = <<>>
<1> DEFINE n == Len(accepted)
<1>1. /\ n = Len(accepted) /\ n = Len(accepted')
      /\ n \in Nat /\ accepted \in Seq(Entry) /\ DOMAIN accepted = 1 .. n
      /\ Out \in Nat /\ Out <= n
      /\ held[h] \in Seq(Entry) /\ Len(held[h]) = n - Out
      /\ DOMAIN held[h] = 1 .. n - Out
  BY DEF TypeOK, InOrder, ReadAll, Size
<1> HIDE DEF n
<1>2. \A i \in 1 .. n - Out : held[h][i] = accepted[Out + i]
  BY <1>1 DEF ReadAll, ReadSoFar
<1>3. \A i \in 1 .. n : accepted[i] \in Taken'
  <2>1. \A i \in 1 .. Out : accepted[i] \in Taken
    BY DEF InOrder, TakenPlaces
  <2>2. \A i \in (Out + 1) .. n : accepted[i] \in Range(held[h])
    <3> TAKE i \in (Out + 1) .. n
    <3>1. i - Out \in 1 .. n - Out /\ Out + (i - Out) = i
      BY <1>1
    <3>2. held[h][i - Out] = accepted[i]
      BY <1>2, <3>1
    <3> QED
      BY <1>1, <3>1, <3>2 DEF Range
  <2>3. \A i \in 1 .. n : i \in 1 .. Out \/ i \in (Out + 1) .. n
    BY <1>1
  <2> QED
    BY <2>1, <2>2, <2>3
<1>4. TakenPlaces' = 1 .. n
  BY <1>1, <1>3 DEF TakenPlaces
<1>5. Out' = n
  BY <1>1, <1>4, OutIs
<1>6. Range(held[h]) \subseteq Range(accepted)
  <2>1. n \in Nat /\ Out \in Nat /\ Out <= n
    BY <1>1
  <2>2. \A i \in 1 .. n - Out : Out + i \in 1 .. n
    BY <2>1
  <2> QED
    BY <1>1, <1>2, <2>2 DEF Range
<1>7. InOrder'
  BY <1>1, <1>4, <1>5, <1>6 DEF InOrder
<1>8. Size' = 0
  BY <1>1, <1>5 DEF Size
<1>9. held[h] = Waiting
  <2>1. Waiting \in Seq(Entry) /\ Len(Waiting) = n - Out
        /\ \A i \in 1 .. n - Out : Waiting[i] = accepted[Out + i]
    BY <1>1, Suffix DEF Waiting
  <2>2. /\ held[h] \in Seq(Entry) /\ Len(held[h]) = Len(Waiting)
        /\ \A i \in 1 .. Len(held[h]) : held[h][i] = Waiting[i]
    BY <1>1, <1>2, <2>1
  <2> QED
    BY <2>1, <2>2, SeqEqual
<1>10. Waiting' = <<>>
  BY <1>1, <1>5, SubSeqEmpty DEF Waiting
<1> QED
  BY <1>7, <1>8, <1>9, <1>10

-----------------------------------------------------------------------------
(* One request at a time: h0 is the only handler. *)
Serial(h0) == Handler = {h0} /\ MaxCrashes = 0

(* A step that adds nothing to the books and a step that moves nothing. *)
LEMMA Untouched ==
  ASSUME NEW h, InOrder, Progress(h),
         UNCHANGED <<buffer, checkpoints, control, keys, todo, held, history>>
  PROVE  InOrder' /\ Progress(h)' /\ UNCHANGED Ledger!vars
<1>1. InOrder' /\ Out' = Out /\ Size' = Size /\ UNCHANGED Ledger!vars
  BY BooksKept
<1>2. Progress(h)'
  BY <1>1 DEF Progress, Stored, ReadSoFar, ReadAll, At, control, history
<1> QED
  BY <1>1, <1>2

LEMMA BufferListProgress ==
  ASSUME TypeOK, NEW h \in Handler, SerialInvariant(h), BufferList(h)
  PROVE  SerialInvariant(h)' /\ UNCHANGED Ledger!vars
<1>1. InOrder' /\ Out' = Out /\ Size' = Size /\ UNCHANGED Ledger!vars
  BY BooksKept DEF SerialInvariant, BufferList
<1>2. PICK e \in Entry \ Range(accepted) : held' = [held EXCEPT ![h] = <<e>>]
  BY DEF BufferList
<1>3. held'[h][1] = e
  BY <1>2 DEF TypeOK
<1>4. Stored(0)
  BY DEF SerialInvariant, Progress, BufferList
<1>5. Stored(0)' /\ keys'[h] = DOMAIN buffer'
  BY <1>1, <1>4 DEF Stored, BufferList, redis, history, TypeOK
<1>6. op'[h] = "buffer" /\ pc'[h] = "set"
  BY DEF BufferList, Go, TypeOK
<1>7. held'[h][1] \notin Range(accepted')
  BY <1>2, <1>3 DEF BufferList, history
<1>8. Progress(h)'
  BY <1>5, <1>6, <1>7 DEF Progress, At, Taker
<1> QED
  BY <1>1, <1>8 DEF SerialInvariant

LEMMA BufferSetProgress ==
  ASSUME TypeOK, NEW h \in Handler, SerialInvariant(h), BufferSet(h)
  PROVE  SerialInvariant(h)' /\ \E e \in Entry : Ledger!Buffer(e)
<1> DEFINE e == held[h][1]
<1>1. e \in Entry
  BY DEF BufferSet, TypeOK
<1>2. e \notin Range(accepted) /\ Stored(0) /\ keys[h] = DOMAIN buffer
  BY DEF SerialInvariant, Progress, BufferSet
<1>3. accepted' = Append(accepted, e) /\ UNCHANGED <<checkpoints, flushed, unsaved>>
  BY DEF BufferSet
<1> HIDE DEF e
<1>4. InOrder' /\ Out' = Out /\ Size' = Size + 1 /\ Ledger!Buffer(e)
  BY <1>1, <1>2, <1>3, BooksBuffer DEF SerialInvariant
<1>5. /\ Size \in Nat /\ Out \in Nat /\ Out + Size = Len(accepted)
      /\ Len(accepted') = Len(accepted) + 1 /\ accepted'[Len(accepted) + 1] = e
      /\ \A i \in 1 .. Len(accepted) : accepted'[i] = accepted[i]
  BY <1>1, <1>3 DEF SerialInvariant, InOrder, Size, TypeOK
<1>6. Cardinality(keys[h]) = Size
  <2>1. \A n \in Nat : Cardinality(0 .. (n - 1)) = n
    <3> TAKE n \in Nat
    <3>1. n - 1 \in Int /\ 0 \in Int
      OBVIOUS
    <3>2. Cardinality(0 .. (n - 1)) = IF 0 > n - 1 THEN 0 ELSE n - 1 - 0 + 1
      BY <3>1, FS_Interval
    <3> QED
      BY <3>2
  <2> QED
    BY <1>2, <1>5, <2>1 DEF Stored
<1>7. /\ DOMAIN buffer' = DOMAIN buffer \cup {Size} /\ buffer'[Size] = e
      /\ \A x \in DOMAIN buffer \ {Size} : buffer'[x] = buffer[x]
  BY <1>1, <1>5, <1>6, SetBuffer DEF BufferSet, BufferType, TypeOK, e
<1>8. Stored(0)'
  <2>1. DOMAIN buffer' = 0 .. (Size' - 1)
    BY <1>2, <1>4, <1>5, <1>7 DEF Stored
  <2>2. buffer'[Size] = accepted'[Out' + 1 + Size]
    BY <1>4, <1>5, <1>7
  <2>3. ASSUME NEW k \in 0 .. (Size - 1)
        PROVE  buffer'[k] = accepted'[Out' + 1 + k]
    <3>1. k \in DOMAIN buffer \ {Size} /\ Out + 1 + k \in 1 .. Len(accepted)
      BY <1>2, <1>5 DEF Stored
    <3> QED
      BY <1>2, <1>4, <1>5, <1>7, <3>1 DEF Stored
  <2> QED
    BY <1>2, <1>5, <1>7, <2>1, <2>2, <2>3 DEF Stored
<1>9. pc'[h] = "idle" /\ held'[h] = <<>>
  BY DEF BufferSet, Return, Go, TypeOK
<1>10. Progress(h)'
  BY <1>8, <1>9 DEF Progress, At, Taker
<1> QED
  BY <1>1, <1>4, <1>10 DEF SerialInvariant

(* The listing of keys with which a check, flush or forced snapshot begins. *)
LEMMA ListProgress ==
  ASSUME TypeOK, NEW h \in Handler, SerialInvariant(h),
         CheckList(h) \/ FlushList(h) \/ ForceList(h)
  PROVE  SerialInvariant(h)' /\ UNCHANGED Ledger!vars
<1>1. pc[h] = "idle" /\ UNCHANGED <<redis, checkpoints, history, held>>
  BY DEF CheckList, FlushList, ForceList
<1>2. InOrder' /\ Out' = Out /\ Size' = Size /\ UNCHANGED Ledger!vars
  BY <1>1, BooksKept DEF SerialInvariant
<1>3. Stored(0) /\ held[h] = <<>> /\ Size >= 0
  BY <1>1 DEF SerialInvariant, Progress, InOrder, Size, TypeOK
<1>4. Stored(0)' /\ Len(held'[h]) = 0 /\ ReadSoFar(h)'
  BY <1>1, <1>2, <1>3 DEF Stored, ReadSoFar, redis, history
<1>5. keys'[h] = DOMAIN buffer' /\ todo'[h] = DOMAIN buffer' /\ pc'[h] \in {"read", "get"}
  BY <1>1 DEF CheckList, FlushList, ForceList, Go, redis, TypeOK
<1>6. Progress(h)'
  BY <1>4, <1>5 DEF Progress, At, Stored
<1> QED
  BY <1>2, <1>6 DEF SerialInvariant

(* A read in key order is a read in arrival order. *)
LEMMA ReadNext ==
  ASSUME TypeOK, InOrder, NEW h \in Handler, ReadSoFar(h), Stored(0) \/ Stored(Len(held[h])),
         Len(held[h]) <= Size - 1, Fetch(h, Len(held[h])),
         UNCHANGED <<checkpoints, history>>
  PROVE  ReadSoFar(h)' /\ Len(held'[h]) = Len(held[h]) + 1
<1> DEFINE g == Len(held[h])
<1>1. g \in Nat /\ Out \in Nat /\ Size \in Nat /\ held[h] \in Seq(Entry) /\ g <= Size - 1
  BY DEF TypeOK, InOrder, Size
<1>2. g \in DOMAIN buffer /\ buffer[g] = accepted[Out + (g + 1)]
  BY <1>1 DEF Stored
<1>3. held'[h] = Append(held[h], buffer[g])
  BY <1>2 DEF Fetch, TypeOK
<1>4. buffer[g] \in Entry
  BY <1>2 DEF TypeOK
<1> HIDE DEF g
<1>5. /\ Len(held'[h]) = g + 1 /\ held'[h][g + 1] = accepted[Out + (g + 1)]
      /\ \A j \in 1 .. g : held'[h][j] = held[h][j]
  BY <1>1, <1>2, <1>3, <1>4 DEF g
<1>6. \A j \in 1 .. g : held[h][j] = accepted[Out + j]
  BY DEF ReadSoFar, g
<1>7. \A j \in 1 .. g + 1 : j \in 1 .. g \/ j = g + 1
  BY <1>1
<1>8. \A j \in 1 .. g + 1 : held'[h][j] = accepted[Out + j]
  BY <1>5, <1>6, <1>7
<1>9. Size' = Size /\ Out' = Out /\ accepted' = accepted
  BY BooksKept DEF history
<1> QED
  BY <1>1, <1>5, <1>8, <1>9 DEF ReadSoFar, g

LEMMA CheckReadProgress ==
  ASSUME TypeOK, NEW h \in Handler, SerialInvariant(h), CheckRead(h)
  PROVE  SerialInvariant(h)' /\ UNCHANGED Ledger!vars
<1> DEFINE g == Len(held[h])
<1>1. InOrder' /\ Out' = Out /\ Size' = Size /\ UNCHANGED Ledger!vars
  BY BooksKept DEF SerialInvariant, CheckRead
<1>2. /\ Stored(0) /\ keys[h] = DOMAIN buffer /\ ReadSoFar(h)
      /\ todo[h] = g .. (Size - 1) /\ todo[h] # {}
  BY DEF SerialInvariant, Progress, CheckRead
<1>3. g \in Nat /\ Size \in Nat /\ g <= Size - 1
  BY <1>2 DEF TypeOK, SerialInvariant, InOrder, Size
<1>4. Min(todo[h]) = g
  BY <1>2, <1>3, FirstKey
<1>5. ReadSoFar(h)' /\ Len(held'[h]) = g + 1
  BY <1>2, <1>3, <1>4, ReadNext DEF CheckRead, SerialInvariant
<1>6. todo'[h] = (g + 1) .. (Size - 1)
  <2>1. todo'[h] = (g .. (Size - 1)) \ {g}
    BY <1>2, <1>4 DEF CheckRead, TypeOK
  <2> HIDE DEF g
  <2> QED
    BY <1>3, <2>1
<1>7. Stored(0)' /\ keys'[h] = DOMAIN buffer'
  BY <1>1, <1>2 DEF Stored, CheckRead, redis, history
<1>8. At(h, "check", "read")'
  BY DEF CheckRead, control, At
<1>9. Progress(h)'
  BY <1>1, <1>5, <1>6, <1>7, <1>8 DEF Progress, At, Taker
<1> QED
  BY <1>1, <1>9 DEF SerialInvariant

LEMMA TakeGetProgress ==
  ASSUME TypeOK, NEW h \in Handler, SerialInvariant(h), NEW o \in Taker, TakeGet(h, o)
  PROVE  SerialInvariant(h)' /\ UNCHANGED Ledger!vars
<1> DEFINE g == Len(held[h])
<1>1. InOrder' /\ Out' = Out /\ Size' = Size /\ UNCHANGED Ledger!vars
  BY BooksKept DEF SerialInvariant, TakeGet
<1>2. /\ Stored(g) /\ ReadSoFar(h)
      /\ todo[h] = DOMAIN buffer /\ todo[h] # {}
  BY DEF SerialInvariant, Progress, TakeGet
<1>3. todo[h] = g .. (Size - 1)
  BY <1>2 DEF Stored
<1>4. g \in Nat /\ Size \in Nat /\ g <= Size - 1
  BY <1>2, <1>3 DEF TypeOK, SerialInvariant, InOrder, Size
<1>5. Min(todo[h]) = g
  BY <1>3, <1>4, FirstKey
<1>6. ReadSoFar(h)' /\ Len(held'[h]) = g + 1
  BY <1>2, <1>4, <1>5, ReadNext DEF TakeGet, SerialInvariant
<1>7. todo'[h] = DOMAIN buffer'
  BY <1>2 DEF TakeGet, redis
<1>8. At(h, o, "del")'
  BY DEF TakeGet, Go, At, TypeOK
<1>9. Len(held'[h]) > 0 /\ Len(held'[h]) - 1 = g
  BY <1>4, <1>6
<1>10. Stored(Len(held[h]) - 1)'
  BY <1>1, <1>2, <1>9 DEF Stored, TakeGet, redis, history
<1>11. Progress(h)'
  BY <1>6, <1>7, <1>8, <1>9, <1>10 DEF Progress, At, Taker
<1> QED
  BY <1>1, <1>11 DEF SerialInvariant

LEMMA TakeDelProgress ==
  ASSUME TypeOK, NEW h \in Handler, SerialInvariant(h), NEW o \in Taker, TakeDel(h, o)
  PROVE  SerialInvariant(h)' /\ UNCHANGED Ledger!vars
<1> DEFINE g == Len(held[h])
<1>1. InOrder' /\ Out' = Out /\ Size' = Size /\ UNCHANGED Ledger!vars
  BY BooksKept DEF SerialInvariant, TakeDel
<1>2. g > 0 /\ Stored(g - 1) /\ ReadSoFar(h) /\ todo[h] = DOMAIN buffer
  BY DEF SerialInvariant, Progress, TakeDel
<1>3. g \in Nat /\ Size \in Nat /\ g - 1 <= Size - 1 /\ g - 1 \in Int /\ Size - 1 \in Int
  BY <1>2 DEF TypeOK, SerialInvariant, InOrder, Size, ReadSoFar
<1>4. todo[h] = (g - 1) .. (Size - 1)
  BY <1>2 DEF Stored
<1>5. Min(todo[h]) = g - 1
  BY <1>3, <1>4, FirstKey
<1>6. /\ DOMAIN buffer' = DOMAIN buffer \ {g - 1}
      /\ \A x \in DOMAIN buffer' : buffer'[x] = buffer[x]
  BY <1>5, DelBuffer DEF TakeDel, BufferType, TypeOK
<1>7. DOMAIN buffer' = g .. (Size - 1)
  <2>1. DOMAIN buffer' = ((g - 1) .. (Size - 1)) \ {g - 1}
    BY <1>2, <1>4, <1>6
  <2> HIDE DEF g
  <2> QED
    BY <1>3, <2>1
<1>8. Stored(g)'
  BY <1>1, <1>2, <1>6, <1>7 DEF Stored, TakeDel, history
<1>9. held' = held /\ ReadSoFar(h)'
  BY <1>1, <1>2 DEF ReadSoFar, TakeDel, history
<1>10. todo'[h] = DOMAIN buffer'
  BY <1>2, <1>5, <1>6 DEF TakeDel, TypeOK
<1>11. At(h, o, "get")'
  BY DEF TakeDel, Go, At, TypeOK
<1>12. Progress(h)'
  BY <1>8, <1>9, <1>10, <1>11 DEF Progress, At, Taker, Stored
<1> QED
  BY <1>1, <1>12 DEF SerialInvariant

LEMMA CheckClearProgress ==
  ASSUME TypeOK, NEW h \in Handler, SerialInvariant(h), CheckClear(h)
  PROVE  SerialInvariant(h)' /\ UNCHANGED Ledger!vars
<1>1. InOrder' /\ Size' = Size /\ UNCHANGED Ledger!vars
  BY BooksKept DEF SerialInvariant, CheckClear
<1>2. Size = 0 /\ todo[h] = DOMAIN buffer
  BY DEF SerialInvariant, Progress, CheckClear
<1>3. PICK k \in todo[h] : /\ buffer' = DelKey(buffer, k)
                           /\ todo' = [todo EXCEPT ![h] = @ \ {k}]
  BY DEF CheckClear
<1>4. DOMAIN buffer' = DOMAIN buffer \ {k}
  BY <1>3, DelBuffer DEF BufferType, TypeOK
<1>5. todo'[h] = DOMAIN buffer'
  BY <1>2, <1>3, <1>4 DEF TypeOK
<1>6. At(h, "check", "finish")'
  BY DEF CheckClear, control, At
<1>7. Progress(h)'
  BY <1>1, <1>2, <1>5, <1>6 DEF Progress, At, Taker
<1> QED
  BY <1>1, <1>7 DEF SerialInvariant

LEMMA BatchAdded ==
  \A fate, C, c : Batches(fate, C \cup {c}) =
                    Batches(fate, C) \cup {[fate |-> fate, entries |-> c]}
BY DEF Batches

LEMMA LedgerTakes ==
  ASSUME NEW fate, NEW batch, batch = Waiting, Waiting' = <<>>,
         TakenBatches' = TakenBatches \cup {[fate |-> fate, entries |-> batch]}
  PROVE  Ledger!Take(fate)
BY DEF Ledger!Take

(* The answer of a flush, and the end of an upsert, take all that waits. *)
LEMMA FlushReplyProgress ==
  ASSUME TypeOK, NEW h \in Handler, SerialInvariant(h), FlushReply(h)
  PROVE  SerialInvariant(h)' /\ Ledger!Take("flushed")
<1>1. /\ Stored(Len(held[h])) /\ ReadSoFar(h)
      /\ todo[h] = DOMAIN buffer /\ todo[h] = {}
  BY DEF SerialInvariant, Progress, FlushReply, Taker
<1>2. ReadAll(h)
  <2>1. Size \in Nat /\ Len(held[h]) \in Nat
    BY DEF TypeOK, SerialInvariant, InOrder, Size
  <2>2. Len(held[h]) .. (Size - 1) = {} /\ Len(held[h]) <= Size
    BY <1>1 DEF Stored, ReadSoFar
  <2>3. Len(held[h]) = Size
    BY <2>1, <2>2
  <2> QED
    BY <1>1, <2>3 DEF ReadAll
<1>3. Taken' = Taken \cup Range(held[h])
  BY DEF FlushReply, Taken, Entries
<1>4. InOrder' /\ Size' = 0 /\ held[h] = Waiting /\ Waiting' = <<>>
  BY <1>2, <1>3, BooksTake DEF FlushReply, SerialInvariant
<1>5. Ledger!Take("flushed")
  <2>1. TakenBatches' = TakenBatches \cup {[fate |-> "flushed", entries |-> held[h]]}
    <3>1. flushed' = flushed \cup {held[h]} /\ UNCHANGED <<checkpoints, unsaved>>
      BY DEF FlushReply
    <3>2. Batches("flushed", flushed') =
            Batches("flushed", flushed) \cup {[fate |-> "flushed", entries |-> held[h]]}
      BY <3>1, BatchAdded
    <3> QED
      BY <3>1, <3>2 DEF TakenBatches, Batches
  <2> QED
    BY <1>4, <2>1, LedgerTakes
<1>6. Stored(0)' /\ pc'[h] = "idle" /\ held'[h] = <<>>
  BY <1>1, <1>4 DEF Stored, FlushReply, Return, Go, redis, TypeOK
<1>7. Progress(h)'
  BY <1>6 DEF Progress, At, Taker
<1> QED
  BY <1>4, <1>5, <1>7 DEF SerialInvariant

(* What a snapshot that is ready to write has read, and left in Redis. *)
LEMMA ReadyHasAll ==
  ASSUME TypeOK, NEW h \in Handler, SerialInvariant(h), NEW o \in Snapshot,
         ReadyToSave(h, o)
  PROVE  /\ ReadAll(h)
         /\ o = "check" => Stored(0) /\ keys[h] = DOMAIN buffer
         /\ o = "force" => DOMAIN buffer = {}
<1>1. Size \in Nat /\ Len(held[h]) \in Nat
  BY DEF TypeOK, SerialInvariant, InOrder, Size
<1>2. CASE o = "check"
  <2>1. /\ Stored(0) /\ keys[h] = DOMAIN buffer /\ ReadSoFar(h)
        /\ Len(held[h]) .. (Size - 1) = {}
    BY <1>2 DEF SerialInvariant, Progress, ReadyToSave
  <2> QED
    BY <1>1, <1>2, <2>1 DEF ReadAll, ReadSoFar
<1>3. CASE o = "force"
  <2>1. /\ Stored(Len(held[h])) /\ ReadSoFar(h) /\ DOMAIN buffer = {}
    BY <1>3 DEF SerialInvariant, Progress, ReadyToSave, Taker
  <2> QED
    BY <1>1, <1>3, <2>1 DEF ReadAll, ReadSoFar, Stored
<1> QED
  BY <1>2, <1>3 DEF Snapshot

LEMMA BadSessionProgress ==
  ASSUME TypeOK, NEW h \in Handler, SerialInvariant(h), NEW o \in Snapshot,
         BadSession(h, o)
  PROVE  SerialInvariant(h)' /\ Ledger!Take("unsaved")
<1>1. /\ ReadAll(h)
      /\ o = "check" => keys[h] = DOMAIN buffer
      /\ o = "force" => DOMAIN buffer = {}
  BY ReadyHasAll DEF BadSession
<1>2. Taken' = Taken \cup Range(held[h])
  BY DEF BadSession, Taken, Entries
<1>3. InOrder' /\ Size' = 0 /\ held[h] = Waiting /\ Waiting' = <<>>
  BY <1>1, <1>2, BooksTake DEF BadSession, SerialInvariant
<1>4. Ledger!Take("unsaved")
  <2>1. TakenBatches' = TakenBatches \cup {[fate |-> "unsaved", entries |-> held[h]]}
    <3>1. unsaved' = unsaved \cup {held[h]} /\ UNCHANGED <<checkpoints, flushed>>
      BY DEF BadSession
    <3>2. Batches("unsaved", unsaved') =
            Batches("unsaved", unsaved) \cup {[fate |-> "unsaved", entries |-> held[h]]}
      BY <3>1, BatchAdded
    <3> QED
      BY <3>1, <3>2 DEF TakenBatches, Batches
  <2> QED
    BY <1>3, <2>1, LedgerTakes
<1>5. At(h, o, "finish")'
  BY DEF BadSession, Go, At, TypeOK
<1>6. /\ o = "check" => todo'[h] = DOMAIN buffer'
      /\ o = "force" => DOMAIN buffer' = {}
  BY <1>1 DEF BadSession, ToClear, redis, TypeOK
<1>7. Progress(h)'
  BY <1>3, <1>5, <1>6 DEF Progress, At, Taker, Snapshot
<1> QED
  BY <1>3, <1>4, <1>7 DEF SerialInvariant

LEMMA AwaitProgress ==
  ASSUME TypeOK, NEW h \in Handler, SerialInvariant(h), NEW o \in Snapshot, Await(h, o)
  PROVE  SerialInvariant(h)' /\ UNCHANGED Ledger!vars
<1>1. InOrder' /\ Out' = Out /\ Size' = Size /\ UNCHANGED Ledger!vars
  BY BooksKept DEF SerialInvariant, Await
<1>2. /\ ReadAll(h)
      /\ o = "check" => Stored(0) /\ keys[h] = DOMAIN buffer
      /\ o = "force" => DOMAIN buffer = {}
  BY ReadyHasAll DEF Await
<1>3. /\ ReadAll(h)'
      /\ o = "check" => Stored(0)' /\ keys'[h] = DOMAIN buffer'
      /\ o = "force" => DOMAIN buffer' = {}
  BY <1>1, <1>2 DEF Await, ReadAll, ReadSoFar, Stored, redis, locals, history
<1>4. At(h, o, "save")'
  BY DEF Await, Go, At, TypeOK
<1>5. Progress(h)'
  BY <1>3, <1>4 DEF Progress, At, Taker, Snapshot
<1> QED
  BY <1>1, <1>5 DEF SerialInvariant

(* The upsert committed or raised. *)
LEMMA SavedProgress ==
  ASSUME TypeOK, NEW h \in Handler, SerialInvariant(h), NEW o \in Snapshot,
         SaveCommit(h, o) \/ SaveFail(h, o)
  PROVE  SerialInvariant(h)' /\ (Ledger!Take("checkpoint") \/ Ledger!Take("unsaved"))
<1>1. /\ At(h, o, "save") /\ UNCHANGED <<redis, locals, accepted, flushed>>
      /\ Go(h, o, "resume")
  BY DEF SaveCommit, SaveFail, history
<1>2. /\ ReadAll(h)
      /\ o = "check" => keys[h] = DOMAIN buffer
      /\ o = "force" => DOMAIN buffer = {}
  BY <1>1 DEF SerialInvariant, Progress, Snapshot
<1>3. Taken' = Taken \cup Range(held[h])
  BY DEF SaveCommit, SaveFail, Taken, Entries, history
<1>4. InOrder' /\ Size' = 0 /\ held[h] = Waiting /\ Waiting' = <<>>
  BY <1>1, <1>2, <1>3, BooksTake DEF SerialInvariant
<1>5. ASSUME SaveCommit(h, o) PROVE Ledger!Take("checkpoint")
  <2>1. TakenBatches' = TakenBatches \cup {[fate |-> "checkpoint", entries |-> held[h]]}
    <3>1. checkpoints' = checkpoints \cup {held[h]} /\ UNCHANGED <<flushed, unsaved>>
      BY <1>5 DEF SaveCommit, history
    <3>2. Batches("checkpoint", checkpoints') =
            Batches("checkpoint", checkpoints) \cup {[fate |-> "checkpoint", entries |-> held[h]]}
      BY <3>1, BatchAdded
    <3> QED
      BY <3>1, <3>2 DEF TakenBatches, Batches
  <2> QED
    BY <1>4, <2>1, LedgerTakes
<1>6. ASSUME SaveFail(h, o) PROVE Ledger!Take("unsaved")
  <2>1. TakenBatches' = TakenBatches \cup {[fate |-> "unsaved", entries |-> held[h]]}
    <3>1. unsaved' = unsaved \cup {held[h]} /\ UNCHANGED <<checkpoints, flushed>>
      BY <1>6 DEF SaveFail
    <3>2. Batches("unsaved", unsaved') =
            Batches("unsaved", unsaved) \cup {[fate |-> "unsaved", entries |-> held[h]]}
      BY <3>1, BatchAdded
    <3> QED
      BY <3>1, <3>2 DEF TakenBatches, Batches
  <2> QED
    BY <1>4, <2>1, LedgerTakes
<1>7. At(h, o, "resume")'
  BY <1>1 DEF Go, At, TypeOK
<1>8. /\ o = "check" => keys'[h] = DOMAIN buffer'
      /\ o = "force" => DOMAIN buffer' = {}
  BY <1>1, <1>2 DEF redis, locals
<1>9. Progress(h)'
  BY <1>4, <1>7, <1>8 DEF Progress, At, Taker, Snapshot
<1> QED
  BY <1>4, <1>5, <1>6, <1>9 DEF SerialInvariant

LEMMA ResumeProgress ==
  ASSUME TypeOK, NEW h \in Handler, SerialInvariant(h), NEW o \in Snapshot, Resume(h, o)
  PROVE  SerialInvariant(h)' /\ UNCHANGED Ledger!vars
<1>1. InOrder' /\ Size' = Size /\ UNCHANGED Ledger!vars
  BY BooksKept DEF SerialInvariant, Resume
<1>2. /\ Size = 0
      /\ o = "check" => keys[h] = DOMAIN buffer
      /\ o = "force" => DOMAIN buffer = {}
  BY DEF SerialInvariant, Progress, Resume, At, Snapshot
<1>3. At(h, o, "finish")'
  BY DEF Resume, Go, At, TypeOK
<1>4. /\ o = "check" => todo'[h] = DOMAIN buffer'
      /\ o = "force" => DOMAIN buffer' = {}
  BY <1>2 DEF Resume, ToClear, redis, TypeOK
<1>5. Progress(h)'
  BY <1>1, <1>2, <1>3, <1>4 DEF Progress, At, Taker, Snapshot
<1> QED
  BY <1>1, <1>5 DEF SerialInvariant

LEMMA FinishProgress ==
  ASSUME TypeOK, NEW h \in Handler, SerialInvariant(h), NEW o \in Snapshot, Finish(h, o)
  PROVE  SerialInvariant(h)' /\ UNCHANGED Ledger!vars
<1>1. InOrder' /\ Size' = Size /\ UNCHANGED Ledger!vars
  BY BooksKept DEF SerialInvariant, Finish
<1>2. Size = 0 /\ DOMAIN buffer = {}
  BY DEF SerialInvariant, Progress, Finish, At, Snapshot
<1>3. Stored(0)' /\ pc'[h] = "idle" /\ held'[h] = <<>>
  BY <1>1, <1>2 DEF Stored, Finish, Return, Go, TypeOK
<1>4. Progress(h)'
  BY <1>3 DEF Progress, At, Taker
<1> QED
  BY <1>1, <1>4 DEF SerialInvariant

-----------------------------------------------------------------------------
LEMMA SerialInit ==
  ASSUME Init
  PROVE  Ledger!Init /\ \A h \in Handler : SerialInvariant(h)
<1>1. /\ accepted = <<>> /\ checkpoints = {} /\ flushed = {} /\ unsaved = {}
      /\ Taken = {} /\ TakenPlaces = {}
  BY DEF Init, Taken, Entries, TakenPlaces
<1>2. Out = 0
  BY <1>1, FS_EmptySet DEF Out
<1>3. InOrder
  BY <1>1, <1>2 DEF InOrder
<1>4. Waiting = <<>>
  BY <1>1, <1>2, SubSeqEmpty DEF Waiting
<1>5. Ledger!Init
  BY <1>1, <1>4 DEF Ledger!Init, TakenBatches, Batches
<1>6. Stored(0)
  BY <1>1, <1>2 DEF Stored, Size, Init
<1>7. \A h \in Handler : Progress(h)
  BY <1>6 DEF Progress, At, Taker, Init
<1> QED
  BY <1>3, <1>5, <1>7 DEF SerialInvariant

LEMMA SerialStep ==
  ASSUME NEW h0, Serial(h0), TypeOK, TypeOK', SerialInvariant(h0), [Next]_vars
  PROVE  SerialInvariant(h0)' /\ [Ledger!Next]_Ledger!vars
<1> USE DEF Serial
<1> DEFINE Goal == SerialInvariant(h0)' /\ [Ledger!Next]_Ledger!vars
<1>1. ASSUME UNCHANGED <<buffer, checkpoints, control, keys, todo, held, history>>
      PROVE  Goal
  BY <1>1, Untouched DEF SerialInvariant
<1>2. ASSUME NEW rule \in Rule, RegisterTrigger(rule) PROVE Goal
  BY <1>1, <1>2 DEF RegisterTrigger, locals
<1>3. ASSUME MinutePasses PROVE Goal
  BY <1>1, <1>3 DEF MinutePasses, locals
<1>4. ASSUME NEW h \in Handler, BufferList(h) PROVE Goal
  BY <1>4, BufferListProgress
<1>5. ASSUME NEW h \in Handler, CheckList(h) \/ FlushList(h) \/ ForceList(h) PROVE Goal
  BY <1>5, ListProgress
<1>6. ASSUME NEW h \in Handler, BufferSet(h) PROVE Goal
  BY <1>6, BufferSetProgress DEF Ledger!Next
<1>7. ASSUME NEW h \in Handler, CheckRead(h) PROVE Goal
  BY <1>7, CheckReadProgress
<1>8. ASSUME NEW h \in Handler, CheckClear(h) PROVE Goal
  BY <1>8, CheckClearProgress
<1>9. ASSUME NEW h \in Handler, FlushReply(h) PROVE Goal
  BY <1>9, FlushReplyProgress DEF Ledger!Next
<1>10. ASSUME NEW h \in Handler, NEW o \in Taker, TakeGet(h, o) PROVE Goal
  BY <1>10, TakeGetProgress
<1>11. ASSUME NEW h \in Handler, NEW o \in Taker, TakeDel(h, o) PROVE Goal
  BY <1>11, TakeDelProgress
<1>12. ASSUME NEW h \in Handler, NEW o \in Snapshot, BadSession(h, o) PROVE Goal
  BY <1>12, BadSessionProgress DEF Ledger!Next
<1>13. ASSUME NEW h \in Handler, NEW o \in Snapshot, Await(h, o) PROVE Goal
  BY <1>13, AwaitProgress
<1>14. ASSUME NEW h \in Handler, NEW o \in Snapshot, SaveCommit(h, o) \/ SaveFail(h, o)
       PROVE  Goal
  BY <1>14, SavedProgress DEF Ledger!Next
<1>15. ASSUME NEW h \in Handler, NEW o \in Snapshot, Resume(h, o) PROVE Goal
  BY <1>15, ResumeProgress
<1>16. ASSUME NEW h \in Handler, NEW o \in Snapshot, Finish(h, o) PROVE Goal
  BY <1>16, FinishProgress
<1>17. crashes = 0
  BY DEF TypeOK
<1>18. /\ \A h \in Handler : ~RedisError(h)
       /\ ~Crash
  BY <1>17 DEF RedisError, Crash
<1>19. CASE UNCHANGED vars
  BY <1>1, <1>19 DEF vars, redis, locals
<1> HIDE DEF Goal, Serial
<1>20. ASSUME NEW h \in Handler, Proceed(h) PROVE Goal
  BY <1>6, <1>7, <1>8, <1>9, <1>10, <1>11, <1>12, <1>13, <1>14, <1>16, <1>20
  DEF Proceed
<1>21. ASSUME Next PROVE Goal
  BY <1>2, <1>3, <1>4, <1>5, <1>15, <1>18, <1>20, <1>21 DEF Next
<1> QED
  BY <1>19, <1>21 DEF Goal

(* One request at a time and no crash: whatever the trigger, however many   *)
(* entries and failing upserts, each checkpoint, flush and failed snapshot  *)
(* takes all the calls that wait, in arrival order, in one step - although  *)
(* the handlers of hooks.py list, read and delete the keys one by one and   *)
(* number a new key by counting the old ones.                               *)
THEOREM HandlersImplementLedger ==
  ASSUME NEW h0, Serial(h0)
  PROVE  Spec => ImplementsLedger
<1>1. Init => TypeOK /\ Ledger!Init /\ SerialInvariant(h0)
  BY TypeInit, SerialInit DEF Serial
<1>2. TypeOK /\ SerialInvariant(h0) /\ [Next]_vars
        => TypeOK' /\ SerialInvariant(h0)' /\ [Ledger!Next]_Ledger!vars
  BY TypeStep, SerialStep
<1> QED
  BY <1>1, <1>2, PTL DEF Spec, ImplementsLedger, Ledger!Spec

=============================================================================
