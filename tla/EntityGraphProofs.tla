-------------------------- MODULE EntityGraphProofs --------------------------
(* Theorems about EntityGraph for any workers, tasks, memories, names and    *)
(* answers of the model, and every bound.                                    *)
EXTENDS EntityGraphProperties, WellFoundedInduction, TLAPS

(* Every nonempty set of naturals has a least element: the well-foundedness  *)
(* of < on them, of the library, in the form the proofs below use.           *)
LEMMA Least ==
  ASSUME NEW S \in SUBSET Nat, S # {}
  PROVE  \E m \in S : \A k \in S : m <= k
<1>1. PICK m \in S : \A k \in S : ~(<<k, m>> \in OpToRel(<, Nat))
  BY NatLessThanWellFounded, WFMin
<1>2. \A k \in S : ~(k < m)
  BY <1>1 DEF OpToRel
<1> QED
  BY <1>2

-----------------------------------------------------------------------------
(* The extraction. *)

(* Of every name that an entity to keep has, the first one is kept. *)
LEMMA FirstKept ==
  ASSUME NEW s \in Seq(Entity), NEW i \in DOMAIN s, Kept(s[i])
  PROVE  \E d \in DOMAIN FirstOfName(s) :
           d <= i /\ FirstOfName(s)[d] = s[d] /\ s[d].name = s[i].name
<1> DEFINE Same == {d \in DOMAIN s : Kept(s[d]) /\ s[d].name = s[i].name}
<1>1. i \in Same /\ DOMAIN s = 1 .. Len(s) /\ Len(s) \in Nat /\ Same \in SUBSET Nat
  OBVIOUS
<1>2. PICK d \in Same : \A j \in Same : d <= j
  BY <1>1, Least
<1>3. \A j \in 1 .. d - 1 : Kept(s[j]) => s[j].name # s[d].name
  BY <1>1, <1>2
<1>4. d \in DOMAIN FirstOfName(s) /\ FirstOfName(s)[d] = s[d]
  BY <1>2, <1>3 DEF FirstOfName, Restrict
<1> QED
  BY <1>1, <1>2, <1>4

LEMMA OnlyFirst ==
  ASSUME NEW s \in Seq(Entity), NEW d \in DOMAIN FirstOfName(s)
  PROVE  /\ d \in DOMAIN s /\ FirstOfName(s)[d] = s[d] /\ Kept(s[d])
         /\ \A j \in 1 .. d - 1 : Kept(s[j]) => s[j].name # s[d].name
  BY DEF FirstOfName, Restrict

(* The list the two extraction steps keep from: spaCy's, the tools, the      *)
(* model's.                                                                  *)
LEMMA ToolsAre ==
  ASSUME NEW m \in Memory
  PROVE  /\ Scan[m] \in Seq(Alias) /\ Tools(m) \in Seq(Entity) /\ Len(Tools(m)) = Len(Scan[m])
         /\ \A t \in DOMAIN Scan[m] :
              /\ Scan[m][t] \in Alias /\ Tools(m)[t] \in Entity
              /\ Tools(m)[t].name = Scan[m][t] /\ Tools(m)[t].label = "Tool"
              /\ Tools(m)[t].source = "tools"
<1>1. Scan[m] \in Seq(Alias) /\ Alias \subseteq Name
  BY EntityAssumption DEF EntityAssumption
<1>2. DOMAIN Scan[m] = 1 .. Len(Scan[m]) /\ Len(Scan[m]) \in Nat /\ \A t \in DOMAIN Scan[m] : Scan[m][t] \in Alias
  BY <1>1
<1>3. \A t \in DOMAIN Scan[m] :
        [name |-> Scan[m][t], label |-> "Tool", relationships |-> {}, source |-> "tools"] \in Entity
  BY <1>1, <1>2 DEF Entity, Label, Source
<1>4. DOMAIN Tools(m) = 1 .. Len(Scan[m]) /\ \A t \in 1 .. Len(Scan[m]) : Tools(m)[t] \in Entity
  BY <1>2, <1>3 DEF Tools
<1>5. Tools(m) = [t \in 1 .. Len(Scan[m]) |-> Tools(m)[t]]
  BY <1>2 DEF Tools
<1>6. Tools(m) \in Seq(Entity) /\ Len(Tools(m)) = Len(Scan[m])
  BY <1>2, <1>4, <1>5
<1> QED
  BY <1>1, <1>2, <1>4, <1>6 DEF Tools

LEMMA ConcatIs ==
  ASSUME NEW S, NEW a \in Seq(S), NEW b \in Seq(S)
  PROVE  /\ a \o b \in Seq(S) /\ Len(a \o b) = Len(a) + Len(b)
         /\ Len(a) \in Nat /\ Len(b) \in Nat
         /\ DOMAIN a = 1 .. Len(a) /\ DOMAIN b = 1 .. Len(b)
         /\ DOMAIN (a \o b) = 1 .. (Len(a) + Len(b))
         /\ \A i \in DOMAIN a : (a \o b)[i] = a[i]
         /\ \A i \in DOMAIN b : (a \o b)[Len(a) + i] = b[i]
         /\ \A i \in DOMAIN (a \o b) : i \in DOMAIN a \/ i - Len(a) \in DOMAIN b
  OBVIOUS

LEMMA HeardIs ==
  ASSUME NEW m \in Memory, NEW k \in 0 .. Len(Spacy[m])
  PROVE  /\ SubSeq(Spacy[m], 1, k) \in Seq(Entity) /\ Len(SubSeq(Spacy[m], 1, k)) = k /\ k \in Nat
         /\ \A i \in 1 .. k : /\ SubSeq(Spacy[m], 1, k)[i].source = "spacy"
                             /\ SubSeq(Spacy[m], 1, k)[i].name # Null
<1> DEFINE S == {e \in Entity : e.source = "spacy" /\ e.name # Null}
<1>1. Spacy[m] \in Seq(S)
  BY EntityAssumption DEF EntityAssumption
<1>2. /\ SubSeq(Spacy[m], 1, k) \in Seq(S) /\ Len(SubSeq(Spacy[m], 1, k)) = k /\ k \in Nat
  <2> HIDE DEF S
  <2> QED
    BY <1>1
<1>3. \A i \in 1 .. k : SubSeq(Spacy[m], 1, k)[i] \in S
  <2> HIDE DEF S
  <2> QED
    BY <1>2
<1>4. SubSeq(Spacy[m], 1, k) \in Seq(Entity)
  BY <1>2
<1> QED
  BY <1>2, <1>3, <1>4

LEMMA AnswerIs ==
  ASSUME NEW m \in Memory, NEW answer \in Answer[m] \cup {<<>>}
  PROVE  answer \in Seq(Entity) /\ \A i \in DOMAIN answer : answer[i].source = "model"
<1> DEFINE S == {e \in Entity : e.source = "model"}
<1>1. answer \in Seq(S)
  <2>1. Answer[m] \subseteq Seq(S)
    BY EntityAssumption DEF EntityAssumption
  <2>2. <<>> \in Seq(S)
    OBVIOUS
  <2> HIDE DEF S
  <2> QED
    BY <2>1, <2>2
<1>2. answer \in Seq(Entity)
  BY <1>1
<1>3. \A i \in DOMAIN answer : answer[i] \in S
  <2> HIDE DEF S
  <2> QED
    BY <1>1
<1> QED
  BY <1>2, <1>3

(* The three ranges of the list: k entities heard, the tools, the answer. *)
Ranges(s, m, k, answer) ==
  LET n == Len(Scan[m])
  IN  /\ s \in Seq(Entity) /\ k \in Nat /\ n \in Nat
      /\ DOMAIN s = 1 .. Len(s) /\ Len(s) \in Nat /\ k + n <= Len(s)
      /\ DOMAIN Scan[m] = 1 .. n
      /\ \A i \in 1 .. k : s[i].source = "spacy" /\ s[i].name # Null
      /\ \A t \in 1 .. n : s[k + t] = Tools(m)[t]
      /\ \A i \in DOMAIN s : i > k + n => i - (k + n) \in DOMAIN answer /\ s[i] = answer[i - (k + n)]

LEMMA ListIs ==
  ASSUME NEW m \in Memory, NEW k \in 0 .. Len(Spacy[m]), NEW answer \in Answer[m] \cup {<<>>}
  PROVE  Ranges(Preflight(m, k) \o answer, m, k, answer)
<1> DEFINE s == Preflight(m, k) \o answer
           n == Len(Scan[m])
           heard == SubSeq(Spacy[m], 1, k)
           tools == Tools(m)
<1>1. heard \in Seq(Entity) /\ Len(heard) = k /\ k \in Nat
      /\ \A i \in 1 .. k : heard[i].source = "spacy" /\ heard[i].name # Null
  BY HeardIs
<1>2. tools \in Seq(Entity) /\ Len(tools) = n
  BY ToolsAre
<1>3. Scan[m] \in Seq(Alias) /\ n \in Nat /\ DOMAIN Scan[m] = 1 .. n
  BY ToolsAre
<1>4. answer \in Seq(Entity)
  BY AnswerIs
<1>5. s = (heard \o tools) \o answer
  BY DEF Preflight
<1> HIDE DEF heard, tools, s, n
<1>6. /\ heard \o tools \in Seq(Entity) /\ Len(heard \o tools) = k + n
      /\ DOMAIN (heard \o tools) = 1 .. (k + n)
      /\ \A i \in 1 .. k : (heard \o tools)[i] = heard[i]
      /\ \A t \in 1 .. n : (heard \o tools)[k + t] = tools[t]
  <2>1. /\ heard \o tools \in Seq(Entity) /\ Len(heard \o tools) = Len(heard) + Len(tools)
        /\ DOMAIN heard = 1 .. Len(heard) /\ DOMAIN tools = 1 .. Len(tools)
        /\ DOMAIN (heard \o tools) = 1 .. (Len(heard) + Len(tools))
        /\ \A i \in DOMAIN heard : (heard \o tools)[i] = heard[i]
        /\ \A i \in DOMAIN tools : (heard \o tools)[Len(heard) + i] = tools[i]
    <3>1. heard \in Seq(Entity) /\ tools \in Seq(Entity)
      BY <1>1, <1>2
    <3> QED
      BY ONLY <3>1, ConcatIs
  <2> QED
    BY <1>1, <1>2, <2>1, Zenon
<1> DEFINE front == heard \o tools
<1> HIDE DEF front
<1>7. /\ s \in Seq(Entity) /\ Len(s) = k + n + Len(answer) /\ Len(answer) \in Nat
      /\ DOMAIN s = 1 .. Len(s) /\ DOMAIN answer = 1 .. Len(answer)
      /\ \A i \in 1 .. (k + n) : s[i] = front[i]
      /\ \A i \in DOMAIN answer : s[k + n + i] = answer[i]
  <2>1. front \in Seq(Entity) /\ Len(front) = k + n /\ DOMAIN front = 1 .. (k + n)
    BY <1>6 DEF front
  <2>2. s = front \o answer
    BY <1>5 DEF front
  <2>3. /\ front \o answer \in Seq(Entity) /\ Len(front \o answer) = Len(front) + Len(answer)
        /\ Len(answer) \in Nat /\ DOMAIN answer = 1 .. Len(answer)
        /\ DOMAIN (front \o answer) = 1 .. (Len(front) + Len(answer))
        /\ \A i \in DOMAIN front : (front \o answer)[i] = front[i]
        /\ \A i \in DOMAIN answer : (front \o answer)[Len(front) + i] = answer[i]
    <3>1. front \in Seq(Entity)
      BY <2>1
    <3> QED
      BY ONLY <3>1, <1>4, ConcatIs
  <2> QED
    BY <2>1, <2>2, <2>3, Zenon
<1>8. \A i \in 1 .. k : s[i].source = "spacy" /\ s[i].name # Null
  <2>1. \A i \in 1 .. k : i \in 1 .. (k + n)
    BY <1>1, <1>3
  <2>2. \A i \in 1 .. k : s[i] = heard[i]
    BY <2>1, <1>6, <1>7 DEF front
  <2> QED
    BY <1>1, <2>2
<1>9. \A t \in 1 .. n : s[k + t] = Tools(m)[t]
  <2>1. \A t \in 1 .. n : k + t \in 1 .. (k + n)
    BY <1>1, <1>3
  <2> QED
    BY <2>1, <1>6, <1>7 DEF front, tools
<1>10. \A i \in DOMAIN s : i > k + n => i - (k + n) \in DOMAIN answer /\ s[i] = answer[i - (k + n)]
  <2> SUFFICES ASSUME NEW i \in DOMAIN s, i > k + n
               PROVE  i - (k + n) \in DOMAIN answer /\ s[i] = answer[i - (k + n)]
    OBVIOUS
  <2>1. i - (k + n) \in DOMAIN answer /\ k + n + (i - (k + n)) = i
    BY <1>1, <1>3, <1>7
  <2> QED
    BY <2>1, <1>7
<1> QED
  BY <1>1, <1>3, <1>7, <1>8, <1>9, <1>10 DEF Ranges, s, n

(* What a task has to write is of the shape the writing relies on, contains  *)
(* every known tool of its memory, and nothing of a tool's name but that.    *)
LEMMA MergedList ==
  ASSUME NEW m \in Memory, NEW k \in 0 .. Len(Spacy[m]), NEW answer \in Answer[m] \cup {<<>>},
         ~MergeRaises(answer),
         NEW list, list = MergeEntities(m, k, answer)
  PROVE  /\ ListOK(list)
         /\ \A t \in DOMAIN Scan[m] : \E d \in DOMAIN list :
              list[d].name = Scan[m][t] /\ list[d].label = "Tool"
         /\ \A d \in DOMAIN list : \A t \in DOMAIN Scan[m] :
              list[d].name = Scan[m][t] => list[d].label = "Tool"
<1> DEFINE s == Preflight(m, k) \o answer
           n == Len(Scan[m])
<1>1. /\ s \in Seq(Entity) /\ k \in Nat /\ n \in Nat
      /\ DOMAIN s = 1 .. Len(s) /\ Len(s) \in Nat /\ k + n <= Len(s)
      /\ DOMAIN Scan[m] = 1 .. n
      /\ \A i \in 1 .. k : s[i].source = "spacy" /\ s[i].name # Null
      /\ \A t \in 1 .. n : s[k + t] = Tools(m)[t]
      /\ \A i \in DOMAIN s : i > k + n => i - (k + n) \in DOMAIN answer /\ s[i] = answer[i - (k + n)]
  BY ListIs DEF Ranges
<1>2. list = FirstOfName(s)
  BY DEF MergeEntities
<1> HIDE DEF s, n
<1>3. \A d \in DOMAIN list : /\ d \in DOMAIN s /\ list[d] = s[d] /\ Kept(s[d])
                            /\ \A j \in 1 .. d - 1 : Kept(s[j]) => s[j].name # s[d].name
  <2>1. s \in Seq(Entity)
    BY <1>1
  <2>2. \A d \in DOMAIN FirstOfName(s) :
          /\ d \in DOMAIN s /\ FirstOfName(s)[d] = s[d] /\ Kept(s[d])
          /\ \A j \in 1 .. d - 1 : Kept(s[j]) => s[j].name # s[d].name
    BY <2>1, OnlyFirst, Zenon
  <2> QED
    BY <2>2, <1>2, Zenon
<1>4. \A t \in 1 .. n :
        /\ k + t \in DOMAIN s /\ Kept(s[k + t]) /\ s[k + t] \in Entity
        /\ s[k + t].name = Scan[m][t] /\ s[k + t].label = "Tool" /\ Scan[m][t] \in Alias
  <2> SUFFICES ASSUME NEW t \in 1 .. n
               PROVE  /\ k + t \in DOMAIN s /\ Kept(s[k + t]) /\ s[k + t] \in Entity
                      /\ s[k + t].name = Scan[m][t] /\ s[k + t].label = "Tool" /\ Scan[m][t] \in Alias
    OBVIOUS
  <2>1. k + t \in 1 .. Len(s)
    BY <1>1
  <2>2. /\ Scan[m][t] \in Alias /\ Tools(m)[t] \in Entity
        /\ Tools(m)[t].name = Scan[m][t] /\ Tools(m)[t].label = "Tool" /\ Tools(m)[t].source = "tools"
    BY <1>1, ToolsAre
  <2>3. s[k + t] = Tools(m)[t]
    BY <1>1
  <2> QED
    BY <1>1, <2>1, <2>2, <2>3 DEF Kept
<1>5. \A i \in 1 .. k : Kept(s[i]) => s[i].name \notin Alias
  BY <1>1 DEF Kept
<1>6. ListOK(list)
  <2> SUFFICES ASSUME NEW d \in DOMAIN list
               PROVE  d \in Nat \ {0} /\ list[d] \in Entity /\ list[d].name \in Name /\ list[d].label \in Label
    BY DEF ListOK
  <2>1. d \in 1 .. Len(s) /\ d \in Nat \ {0} /\ list[d] = s[d] /\ s[d] \in Entity /\ Kept(s[d])
    BY <1>1, <1>3
  <2>2. CASE d <= k
    <3>1. s[d].source = "spacy" /\ s[d].name # Null
      BY <2>1, <2>2, <1>1
    <3>2. s[d].label \in {"Person", "Location"} /\ s[d].name # Blank
      BY <3>1, <2>1 DEF Kept
    <3> QED
      BY <3>1, <3>2, <2>1 DEF Entity, Label
  <2>3. CASE d > k /\ d <= k + n
    <3>1. d - k \in 1 .. n /\ k + (d - k) = d
      BY <2>1, <2>3, <1>1
    <3>2. s[d].label = "Tool" /\ s[d].name \in Alias
      BY <3>1, <1>4
    <3> QED
      BY <3>2, <2>1, EntityAssumption DEF EntityAssumption, Label
  <2>4. CASE d > k + n
    <3>1. d - (k + n) \in DOMAIN answer /\ s[d] = answer[d - (k + n)]
      BY <2>1, <2>4, <1>1
    <3>2. s[d].source = "model"
      BY <3>1, AnswerIs
    <3>3. s[d].label \in Label /\ s[d].name # Blank
      BY <3>2, <2>1 DEF Kept
    <3>4. s[d].name # Null
      BY <3>1, <3>3 DEF MergeRaises
    <3> QED
      BY <3>3, <3>4, <2>1 DEF Entity
  <2> QED
    BY <2>1, <2>2, <2>3, <2>4, <1>1
<1>7. ASSUME NEW t \in DOMAIN Scan[m]
      PROVE  \E d \in DOMAIN list : list[d].name = Scan[m][t] /\ list[d].label = "Tool"
  <2>1. t \in 1 .. n
    BY <1>1
  <2>2. PICK d \in DOMAIN list : d <= k + t /\ list[d] = s[d] /\ s[d].name = Scan[m][t]
    <3>1. s \in Seq(Entity) /\ k + t \in DOMAIN s /\ Kept(s[k + t]) /\ s[k + t].name = Scan[m][t]
      BY <2>1, <1>1, <1>4
    <3> QED
      BY <3>1, <1>2, FirstKept
  <2>3. d \in 1 .. Len(s) /\ Kept(s[d])
    BY <2>2, <1>1, <1>3
  <2>4. d > k
    BY <2>1, <2>2, <2>3, <1>1, <1>4, <1>5
  <2>5. d - k \in 1 .. n /\ k + (d - k) = d
    BY <2>1, <2>2, <2>3, <2>4, <1>1
  <2>6. s[d].label = "Tool"
    BY <2>5, <1>4
  <2> QED
    BY <2>2, <2>6
<1>8. ASSUME NEW d \in DOMAIN list, NEW t \in DOMAIN Scan[m], list[d].name = Scan[m][t]
      PROVE  list[d].label = "Tool"
  <2>1. t \in 1 .. n /\ d \in 1 .. Len(s) /\ list[d] = s[d] /\ Kept(s[d])
    BY <1>1, <1>3
  <2>2. ~(d <= k)
    BY <2>1, <1>8, <1>1, <1>4, <1>5
  <2>3. ~(d > k + n)
    <3> SUFFICES ASSUME d > k + n PROVE FALSE
      OBVIOUS
    <3>1. k + t \in 1 .. d - 1
      BY <2>1, <1>1
    <3> QED
      BY <3>1, <2>1, <1>8, <1>3, <1>4
  <2>4. d - k \in 1 .. n /\ k + (d - k) = d
    BY <2>1, <2>2, <2>3, <1>1
  <2> QED
    BY <2>1, <2>4, <1>4
<1> QED
  BY <1>6, <1>7, <1>8

-----------------------------------------------------------------------------
(* The invariant.  A worker with a task is busy, one in a transaction open. *)
Busy(w) == pc[w] # "idle"
Open(w) == pc[w] = "open"
MemoryOf(w) == OfJob[job[w]]
Alike(n, o) == n.label = o.label /\ n.name = o.name

(* The shape, as one conjunct per variable; what a transaction has written   *)
(* hangs together with what is committed.                                    *)
PlaceShape ==
  /\ pc \in [Worker -> {"idle", "write", "open"}]
  /\ job \in [Worker -> Job \cup {NoJob}]
  /\ targets \in [Worker -> SUBSET Name]
  /\ \A w \in Worker : Busy(w) => job[w] \in Job
TodoShape ==
  /\ DOMAIN todo = Worker
  /\ \A w \in Worker : ListOK(todo[w])
  /\ \A w \in Worker : Open(w) => DOMAIN todo[w] # {}
StagedShape ==
  /\ staged \in [Worker -> Staged]
  /\ \A w \in Worker :
       /\ staged[w].describes \subseteq staged[w].nodes \X Memory
       /\ staged[w].links \subseteq (nodes \cup staged[w].nodes) \X (nodes \cup staged[w].nodes)

Shape == StoreOK /\ JobsOK /\ PlaceShape /\ TodoShape /\ StagedShape /\ HistoryOK

(* A tool of a task's memory describes it or is still to be written, and     *)
(* nothing that is to be written has its name and another label; all of it   *)
(* was extracted from that memory.                                           *)
Describes(t, m) ==
  \E n \in nodes : n.name = t /\ n.label = "Tool" /\ <<n, m>> \in describes
WritesTools(w) ==
  \A i \in DOMAIN Scan[MemoryOf(w)] :
    \/ Describes(Scan[MemoryOf(w)][i], MemoryOf(w))
    \/ \E d \in DOMAIN todo[w] :
         todo[w][d].name = Scan[MemoryOf(w)][i] /\ todo[w][d].label = "Tool"
WritesNoOther(w) ==
  \A d \in DOMAIN todo[w] : \A i \in DOMAIN Scan[MemoryOf(w)] :
    todo[w][d].name = Scan[MemoryOf(w)][i] => todo[w][d].label = "Tool"
WritesExtracted(w) == \A d \in DOMAIN todo[w] : todo[w][d] \in Extracted(MemoryOf(w))
ToWrite ==
  \A w \in Worker : Busy(w) => WritesTools(w) /\ WritesNoOther(w) /\ WritesExtracted(w)

(* An open transaction has staged nodes of its entity, each describing the   *)
(* memory, and has linked all its targets but those still to be merged.      *)
StagesEntity(w) ==
  /\ \E n \in staged[w].nodes :
       Alike(n, Current(w)) /\ <<n, MemoryOf(w)>> \in staged[w].describes
  /\ \A edge \in staged[w].describes : edge[2] = MemoryOf(w) /\ Alike(edge[1], Current(w))
  /\ \A t \in Targets(Current(w)) \ targets[w] :
       \E link \in staged[w].links : link[1].name = Current(w).name /\ link[2].name = t
StagedEntity == \A w \in Worker : Open(w) => StagesEntity(w)

(* Tasks under way have met, and no two workers run the same one. *)
Met ==
  /\ \A w \in Worker : Busy(w) => state[job[w]] = "running"
  /\ \A w, v \in Worker : Busy(w) /\ Busy(v) /\ job[w] = job[v] => w = v
  /\ \A i, j \in Job : Alive(i) /\ Alive(j) /\ i # j => {i, j} \in overlapped

(* What a transaction has staged was committed when it looked, or is its     *)
(* own: nodes that are alike come from tasks that have met.                  *)
OwnNodes(w) ==
  \A n \in staged[w].nodes :
    /\ n \in nodes \/ n.by = job[w]
    /\ \A o \in nodes : n # o /\ Alike(n, o) => {n.by, o.by} \in overlapped
StagedNodes == \A w \in Worker : Open(w) => OwnNodes(w)

Written ==
  ToWrite /\ StagedEntity /\ ToolsDescribe /\ ToolsAreTools /\ EntitiesComeWhole
Overlaps == Met /\ StagedNodes /\ DuplicatesOverlapped
Invariant == Shape /\ Written /\ Overlaps

LEMMA ShapeIsTypeOK == Shape => TypeOK
  BY DEF Shape, StoreOK, JobsOK, PlaceShape, TodoShape, StagedShape, HistoryOK,
         TypeOK, WorkersOK, Busy, Open

LEMMA TurnIs ==
  ASSUME TodoShape, NEW w \in Worker, DOMAIN todo[w] # {}
  PROVE  /\ Turn(w) \in DOMAIN todo[w]
         /\ Current(w) \in Entity /\ Current(w).name \in Name /\ Current(w).label \in Label
<1>1. DOMAIN todo[w] \in SUBSET Nat
  BY DEF TodoShape, ListOK
<1>2. PICK i \in DOMAIN todo[w] : \A j \in DOMAIN todo[w] : i <= j
  BY <1>1, Least
<1>3. Turn(w) \in DOMAIN todo[w]
  BY <1>2 DEF Turn
<1> QED
  BY <1>3 DEF Current, TodoShape, ListOK

(* A step of a worker leaves the others where they are. *)
Same(v) ==
  /\ pc'[v] = pc[v] /\ job'[v] = job[v] /\ todo'[v] = todo[v]
  /\ targets'[v] = targets[v] /\ staged'[v] = staged[v]

LEMMA OthersSame ==
  ASSUME Shape, NEW w \in Worker, Work(w) \/ Raise(w) \/ Die(w), NEW v \in Worker, v # w
  PROVE  Same(v)
<1> USE DEF Shape, PlaceShape, TodoShape, StagedShape, Same
<1>1. ASSUME NEW j \in Job, Extract(w, j) PROVE Same(v)
  BY <1>1 DEF Extract, Go
<1>2. ASSUME NEW j \in Job, ExtractRaises(w, j) PROVE Same(v)
  BY <1>2 DEF ExtractRaises, workers
<1>3. CASE MergeEntity(w)
  BY <1>3 DEF MergeEntity, Go
<1>4. CASE MergeLink(w)
  BY <1>4 DEF MergeLink
<1>5. CASE CommitEntity(w)
  BY <1>5 DEF CommitEntity, Go
<1>6. CASE Finish(w)
  BY <1>6 DEF Finish, Leave, Go
<1>7. CASE Raise(w)
  BY <1>7 DEF Raise, Leave, Go
<1>8. CASE Die(w)
  BY <1>8 DEF Die, Leave, Go
<1> QED
  BY <1>1, <1>2, <1>3, <1>4, <1>5, <1>6, <1>7, <1>8 DEF Work

(* The worker itself, after a step that ends its task. *)
Left(w) ==
  /\ pc'[w] = "idle" /\ job'[w] = NoJob /\ todo'[w] = NoEntities
  /\ targets'[w] = {} /\ staged'[w] = NothingStaged

LEMMA LeaveIs ==
  ASSUME Shape, NEW w \in Worker, Leave(w)
  PROVE  Left(w)
  BY DEF Shape, PlaceShape, TodoShape, StagedShape, Leave, Go, Left

(* What the extraction, the look of a MERGE and the merge of a relationship  *)
(* do to the worker's own frame.                                             *)
LEMMA ExtractIs ==
  ASSUME Shape, NEW w \in Worker, NEW j \in Job, Extract(w, j)
  PROVE  /\ pc'[w] = "write" /\ job'[w] = j
         /\ targets'[w] = targets[w] /\ staged'[w] = staged[w]
         /\ ListOK(todo'[w])
         /\ \A t \in DOMAIN Scan[OfJob[j]] : \E d \in DOMAIN todo'[w] :
              todo'[w][d].name = Scan[OfJob[j]][t] /\ todo'[w][d].label = "Tool"
         /\ \A d \in DOMAIN todo'[w] : \A t \in DOMAIN Scan[OfJob[j]] :
              todo'[w][d].name = Scan[OfJob[j]][t] => todo'[w][d].label = "Tool"
         /\ \A d \in DOMAIN todo'[w] : todo'[w][d] \in Extracted(OfJob[j])
<1>1. OfJob[j] \in Memory
  BY EntityAssumption DEF EntityAssumption
<1>2. PICK k \in 0 .. Len(Spacy[OfJob[j]]), answer \in Answer[OfJob[j]] \cup {<<>>} :
        /\ ~MergeRaises(answer)
        /\ todo' = [todo EXCEPT ![w] = MergeEntities(OfJob[j], k, answer)]
  BY DEF Extract
<1>3. todo'[w] = MergeEntities(OfJob[j], k, answer)
  BY <1>2 DEF Shape, TodoShape
<1>4. /\ ListOK(todo'[w])
      /\ \A t \in DOMAIN Scan[OfJob[j]] : \E d \in DOMAIN todo'[w] :
           todo'[w][d].name = Scan[OfJob[j]][t] /\ todo'[w][d].label = "Tool"
      /\ \A d \in DOMAIN todo'[w] : \A t \in DOMAIN Scan[OfJob[j]] :
           todo'[w][d].name = Scan[OfJob[j]][t] => todo'[w][d].label = "Tool"
  BY <1>1, <1>2, <1>3, MergedList
<1>5. pc'[w] = "write" /\ job'[w] = j /\ targets'[w] = targets[w] /\ staged'[w] = staged[w]
  BY DEF Extract, Go, Shape, PlaceShape
<1>6. Range(MergeEntities(OfJob[j], k, answer)) \subseteq Extracted(OfJob[j])
  BY <1>2 DEF Extracted
<1>7. \A d \in DOMAIN todo'[w] : todo'[w][d] \in Extracted(OfJob[j])
  <2>1. \A f : \A d \in DOMAIN f : f[d] \in Range(f)
    BY DEF Range
  <2> QED
    BY <1>3, <1>6, <2>1
<1> QED
  BY <1>4, <1>5, <1>7

LEMMA MergeEntityIs ==
  ASSUME Shape, NEW w \in Worker, MergeEntity(w)
  PROVE  /\ pc'[w] = "open" /\ job'[w] = job[w] /\ todo'[w] = todo[w] /\ DOMAIN todo[w] # {}
         /\ targets'[w] \subseteq Name /\ targets'[w] = Targets(Current(w))
         /\ \E self \in SUBSET NodeSet :
              /\ self # {}
              /\ staged'[w].nodes = self /\ staged'[w].links = {}
              /\ staged'[w].describes = self \X {MemoryOf(w)}
              /\ staged'[w] \in Staged
              /\ \A n \in self :
                   /\ Alike(n, Current(w))
                   /\ n \in nodes \/ (n.by = job[w] /\ \A o \in nodes : ~Alike(n, o))
<1> DEFINE e == Current(w)
           same == {n \in Named(nodes, e.name) : n.label = e.label}
           self == IF same = {} THEN {Node(e.label, e.name, job[w])} ELSE same
<1>1. e \in Entity /\ e.name \in Name /\ e.label \in Label
  BY TurnIs DEF MergeEntity, Shape
<1>2. job[w] \in Job /\ MemoryOf(w) \in Memory
  BY EntityAssumption DEF MergeEntity, Shape, PlaceShape, Busy, EntityAssumption, MemoryOf
<1>3. Node(e.label, e.name, job[w]) \in NodeSet
  BY <1>1, <1>2 DEF Node, NodeSet
<1>4. same \subseteq nodes /\ nodes \subseteq NodeSet
  BY DEF Named, Shape, StoreOK
<1>5. self \in SUBSET NodeSet /\ self # {}
  BY <1>3, <1>4
<1>6. \A n \in self :
        /\ Alike(n, e)
        /\ n \in nodes \/ (n.by = job[w] /\ \A o \in nodes : ~Alike(n, o))
  <2>1. CASE same = {}
    BY <2>1 DEF Node, Alike, Named
  <2>2. CASE same # {}
    <3>1. self = same
      BY <2>2
    <3>2. \A n \in same : n \in nodes /\ n.label = e.label /\ n.name = e.name
      BY DEF Named
    <3> HIDE DEF self, same
    <3> QED
      BY <3>1, <3>2 DEF Alike
  <2> QED
    BY <2>1, <2>2
<1>7. staged'[w] = [nodes |-> self, describes |-> self \X {MemoryOf(w)}, links |-> {}]
  BY DEF MergeEntity, Shape, StagedShape, MemoryOf
<1>8. targets'[w] \subseteq Name /\ targets'[w] = Targets(e)
  <2>1. targets'[w] = Targets(e)
    BY DEF MergeEntity, Shape, PlaceShape
  <2>2. e.relationships \subseteq Relationship
    BY <1>1 DEF Entity
  <2> QED
    BY <2>1, <2>2 DEF Targets, Relationship
<1>9. pc'[w] = "open" /\ job'[w] = job[w] /\ todo'[w] = todo[w] /\ DOMAIN todo[w] # {}
  BY DEF MergeEntity, Go, Shape, PlaceShape
<1> HIDE DEF self, e
<1>10. staged'[w] \in Staged
  BY <1>2, <1>5, <1>7 DEF Staged
<1> QED
  BY <1>5, <1>6, <1>7, <1>8, <1>9, <1>10 DEF e

LEMMA MergeLinkIs ==
  ASSUME Shape, NEW w \in Worker, MergeLink(w)
  PROVE  /\ Open(w) /\ pc'[w] = "open" /\ job'[w] = job[w] /\ todo'[w] = todo[w]
         /\ targets'[w] \subseteq Name
         /\ \E ends \in SUBSET NodeSet, t \in targets[w] :
              /\ targets'[w] = targets[w] \ {t}
              /\ ends # {} /\ \A n \in ends : n.name = t
              /\ staged'[w].nodes = staged[w].nodes \cup ends
              /\ staged'[w].describes = staged[w].describes
              /\ staged'[w].links = staged[w].links
                   \cup (Named(nodes \cup staged[w].nodes, Current(w).name) \X ends)
              /\ staged'[w] \in Staged
              /\ \A n \in ends :
                   \/ n \in nodes \cup staged[w].nodes
                   \/ (n.by = job[w] /\ \A o \in nodes : ~Alike(n, o))
<1>1. PICK t \in targets[w] :
        LET seen == nodes \cup staged[w].nodes
            ends == IF Named(seen, t) = {} THEN {Node(NoLabel, t, job[w])} ELSE Named(seen, t)
        IN  /\ staged' = [staged EXCEPT
                 ![w].nodes = @ \cup ends,
                 ![w].links = @ \cup (Named(seen, Current(w).name) \X ends)]
            /\ targets' = [targets EXCEPT ![w] = @ \ {t}]
  BY DEF MergeLink
<1> DEFINE seen == nodes \cup staged[w].nodes
           ends == IF Named(seen, t) = {} THEN {Node(NoLabel, t, job[w])} ELSE Named(seen, t)
           new == Named(seen, Current(w).name) \X ends
<1>2. /\ staged' = [staged EXCEPT ![w].nodes = @ \cup ends, ![w].links = @ \cup new]
      /\ targets' = [targets EXCEPT ![w] = @ \ {t}]
  BY <1>1
<1>3. t \in Name /\ job[w] \in Job /\ staged[w] \in Staged
  BY DEF MergeLink, Shape, PlaceShape, StagedShape, Busy
<1>4. seen \subseteq NodeSet
  BY <1>3 DEF Shape, StoreOK, Staged
<1>5. Node(NoLabel, t, job[w]) \in NodeSet
  BY <1>3 DEF Node, NodeSet
<1>6. ends \in SUBSET NodeSet /\ new \in SUBSET (NodeSet \X NodeSet)
  BY <1>4, <1>5 DEF Named
<1>7. \A n \in ends :
        \/ n \in nodes \cup staged[w].nodes
        \/ (n.by = job[w] /\ \A o \in nodes : ~Alike(n, o))
  <2>1. CASE Named(seen, t) = {}
    BY <2>1 DEF Node, Alike, Named
  <2>2. CASE Named(seen, t) # {}
    BY <2>2 DEF Named
  <2> QED
    BY <2>1, <2>2
<1>10. ends # {} /\ \A n \in ends : n.name = t
  <2>1. CASE Named(seen, t) = {}
    <3>1. ends = {Node(NoLabel, t, job[w])}
      BY <2>1
    <3>2. Node(NoLabel, t, job[w]).name = t
      BY DEF Node
    <3> HIDE DEF ends
    <3> QED
      BY <3>1, <3>2
  <2>2. CASE Named(seen, t) # {}
    <3>1. ends = Named(seen, t)
      BY <2>2
    <3>2. \A n \in Named(seen, t) : n.name = t
      BY DEF Named
    <3> HIDE DEF ends, seen
    <3> QED
      BY <2>2, <3>1, <3>2
  <2> QED
    BY <2>1, <2>2
<1> HIDE DEF ends, new
<1>8. /\ staged'[w].nodes = staged[w].nodes \cup ends
      /\ staged'[w].describes = staged[w].describes
      /\ staged'[w].links = staged[w].links \cup new
      /\ staged'[w] \in Staged
  <2>1. staged'[w] = [staged[w] EXCEPT !.nodes = @ \cup ends, !.links = @ \cup new]
    BY <1>2 DEF Shape, StagedShape
  <2> QED
    BY <2>1, <1>3, <1>6 DEF Staged
<1>9. /\ Open(w) /\ pc'[w] = "open" /\ job'[w] = job[w] /\ todo'[w] = todo[w]
      /\ targets'[w] \subseteq Name /\ targets'[w] = targets[w] \ {t}
  BY <1>2 DEF MergeLink, Open, Shape, PlaceShape
<1> QED
  BY <1>6, <1>7, <1>8, <1>9, <1>10 DEF new

(* Every other step of a worker ends its task or one entity of it; only the  *)
(* commit of an open transaction changes what is in Neo4j.                   *)
LEMMA CommitIs ==
  ASSUME Shape, NEW w \in Worker, CommitEntity(w)
  PROVE  /\ Open(w) /\ Committed(w)
         /\ pc'[w] = "write" /\ job'[w] = job[w] /\ targets'[w] = targets[w]
         /\ staged'[w] = NothingStaged
         /\ DOMAIN todo'[w] = DOMAIN todo[w] \ {Turn(w)}
         /\ \A d \in DOMAIN todo'[w] : todo'[w][d] = todo[w][d]
  BY DEF CommitEntity, Go, Open, Shape, PlaceShape, TodoShape, StagedShape, Restrict

LEMMA EndIs ==
  ASSUME Shape, NEW w \in Worker, Finish(w) \/ Raise(w) \/ Die(w)
  PROVE  Busy(w) /\ Left(w) /\ (UNCHANGED neo4j \/ (Open(w) /\ Committed(w)))
  BY LeaveIs DEF Finish, Raise, Die, Abandoned, Busy, Open, neo4j

LEMMA StoreSteps ==
  ASSUME NEW w \in Worker, Work(w) \/ Raise(w) \/ Die(w)
  PROVE  UNCHANGED neo4j \/ (Open(w) /\ targets[w] = {} /\ Committed(w))
<1>1. ASSUME NEW j \in Job, Extract(w, j) \/ ExtractRaises(w, j) PROVE UNCHANGED neo4j
  BY <1>1 DEF Extract, ExtractRaises
<1>2. CASE MergeEntity(w) \/ MergeLink(w) \/ Finish(w)
  BY <1>2 DEF MergeEntity, MergeLink, Finish, neo4j
<1>3. CASE CommitEntity(w)
  BY <1>3 DEF CommitEntity, Open
<1>4. CASE Raise(w) \/ Die(w)
  BY <1>4 DEF Raise, Die, Abandoned, Open, neo4j
<1> QED
  BY <1>1, <1>2, <1>3, <1>4 DEF Work

LEMMA StoreGrows ==
  ASSUME [Next]_vars
  PROVE  nodes \subseteq nodes' /\ describes \subseteq describes' /\ links \subseteq links'
<1>1. ASSUME NEW w \in Worker, Work(w) \/ Raise(w) \/ Die(w)
      PROVE  nodes \subseteq nodes' /\ describes \subseteq describes' /\ links \subseteq links'
  BY <1>1, StoreSteps DEF Committed, neo4j
<1> QED
  BY <1>1 DEF Next, vars, neo4j

-----------------------------------------------------------------------------
(* Types. *)
OwnShape(w) ==
  /\ pc[w] \in {"idle", "write", "open"} /\ job[w] \in Job \cup {NoJob}
  /\ Busy(w) => job[w] \in Job
  /\ targets[w] \subseteq Name
  /\ ListOK(todo[w]) /\ (Open(w) => DOMAIN todo[w] # {})
  /\ staged[w] \in Staged
  /\ staged[w].describes \subseteq staged[w].nodes \X Memory
  /\ staged[w].links \subseteq (nodes \cup staged[w].nodes) \X (nodes \cup staged[w].nodes)

LEMMA ShapeOfEach == Shape => \A w \in Worker : OwnShape(w)
  BY DEF Shape, PlaceShape, TodoShape, StagedShape, OwnShape

LEMMA OwnShapeStep ==
  ASSUME Shape, NEW w \in Worker, Work(w) \/ Raise(w) \/ Die(w)
  PROVE  OwnShape(w)'
<1>0. OwnShape(w) /\ nodes \subseteq nodes'
  BY ShapeOfEach, StoreGrows DEF Next
<1>1. ASSUME NEW j \in Job, Extract(w, j) PROVE OwnShape(w)'
  <2>1. nodes' = nodes
    BY <1>1 DEF Extract, neo4j
  <2> QED
    BY <1>0, <1>1, <2>1, ExtractIs DEF OwnShape, Busy, Open
<1>2. ASSUME NEW j \in Job, ExtractRaises(w, j) PROVE OwnShape(w)'
  BY <1>0, <1>2 DEF ExtractRaises, workers, neo4j, OwnShape, Busy, Open
<1>3. CASE MergeEntity(w)
  <2>1. PICK self \in SUBSET NodeSet :
          /\ staged'[w].nodes = self /\ staged'[w].links = {}
          /\ staged'[w].describes = self \X {MemoryOf(w)}
          /\ staged'[w] \in Staged
    BY <1>3, MergeEntityIs
  <2>2. pc'[w] = "open" /\ job'[w] = job[w] /\ todo'[w] = todo[w] /\ DOMAIN todo[w] # {}
        /\ targets'[w] \subseteq Name
    BY <1>3, MergeEntityIs
  <2>3. Busy(w) /\ MemoryOf(w) \in Memory
    BY <1>0, <1>3, EntityAssumption DEF MergeEntity, OwnShape, Busy, MemoryOf, EntityAssumption
  <2>4. /\ staged'[w].describes \subseteq staged'[w].nodes \X Memory
        /\ staged'[w].links \subseteq (nodes' \cup staged'[w].nodes) \X (nodes' \cup staged'[w].nodes)
    BY <2>1, <2>3
  <2> QED
    BY <1>0, <2>1, <2>2, <2>3, <2>4 DEF OwnShape, Busy, Open
<1>4. CASE MergeLink(w)
  <2>1. PICK ends \in SUBSET NodeSet :
          /\ staged'[w].nodes = staged[w].nodes \cup ends
          /\ staged'[w].describes = staged[w].describes
          /\ staged'[w].links = staged[w].links
               \cup (Named(nodes \cup staged[w].nodes, Current(w).name) \X ends)
          /\ staged'[w] \in Staged
    BY <1>4, MergeLinkIs
  <2>2. Open(w) /\ pc'[w] = "open" /\ job'[w] = job[w] /\ todo'[w] = todo[w]
        /\ targets'[w] \subseteq Name
    BY <1>4, MergeLinkIs
  <2>3. Named(nodes \cup staged[w].nodes, Current(w).name) \subseteq nodes' \cup staged'[w].nodes
    BY <1>0, <2>1 DEF Named
  <2>4. /\ staged'[w].describes \subseteq staged'[w].nodes \X Memory
        /\ staged'[w].links \subseteq (nodes' \cup staged'[w].nodes) \X (nodes' \cup staged'[w].nodes)
    <3> DEFINE A == nodes \cup staged[w].nodes
               B == nodes' \cup staged'[w].nodes
               named == Named(nodes \cup staged[w].nodes, Current(w).name)
    <3>1. A \subseteq B /\ ends \subseteq B /\ named \subseteq B
      BY <1>0, <2>1, <2>3
    <3>2. staged[w].links \subseteq A \X A
      BY <1>0 DEF OwnShape
    <3>3. staged'[w].links = staged[w].links \cup (named \X ends)
      BY <2>1
    <3>4. staged'[w].describes \subseteq staged'[w].nodes \X Memory
      BY <1>0, <2>1 DEF OwnShape
    <3> HIDE DEF A, B, named
    <3>5. A \X A \subseteq B \X B /\ named \X ends \subseteq B \X B
      BY <3>1
    <3> QED
      BY <3>2, <3>3, <3>4, <3>5 DEF B
  <2> QED
    BY <1>0, <2>1, <2>2, <2>4 DEF OwnShape, Busy, Open
<1>5. CASE CommitEntity(w)
  <2>1. staged'[w] \in Staged /\ staged'[w].describes = {} /\ staged'[w].links = {}
    BY <1>5, CommitIs DEF NothingStaged, Staged
  <2>2. ListOK(todo'[w])
    BY <1>0, <1>5, CommitIs DEF OwnShape, ListOK
  <2> QED
    BY <1>0, <1>5, <2>1, <2>2, CommitIs DEF OwnShape, Busy, Open
<1>6. CASE Finish(w) \/ Raise(w) \/ Die(w)
  <2>1. Left(w)
    BY <1>6, EndIs
  <2>2. staged'[w] \in Staged /\ staged'[w].describes = {} /\ staged'[w].links = {}
    BY <2>1 DEF Left, NothingStaged, Staged
  <2>3. ListOK(todo'[w])
    BY <2>1 DEF Left, ListOK, NoEntities
  <2> QED
    BY <2>1, <2>2, <2>3 DEF Left, OwnShape, Busy, Open
<1> QED
  BY <1>1, <1>2, <1>3, <1>4, <1>5, <1>6 DEF Work

LEMMA OtherShapeStep ==
  ASSUME NEW v \in Worker, OwnShape(v), Same(v), nodes \subseteq nodes'
  PROVE  OwnShape(v)'
  BY DEF OwnShape, Same, Busy, Open

Frames ==
  /\ pc = [v \in Worker |-> pc[v]] /\ job = [v \in Worker |-> job[v]]
  /\ targets = [v \in Worker |-> targets[v]]
  /\ DOMAIN todo = Worker /\ staged = [v \in Worker |-> staged[v]]

LEMMA FramesAre ==
  ASSUME Shape, NEW w \in Worker, Work(w) \/ Raise(w) \/ Die(w)
  PROVE  Frames'
<1> USE DEF Shape, PlaceShape, TodoShape, StagedShape, Frames
<1>1. ASSUME NEW j \in Job, Extract(w, j) PROVE Frames'
  BY <1>1 DEF Extract, Go
<1>2. ASSUME NEW j \in Job, ExtractRaises(w, j) PROVE Frames'
  BY <1>2 DEF ExtractRaises, workers
<1>3. CASE MergeEntity(w)
  BY <1>3 DEF MergeEntity, Go
<1>4. CASE MergeLink(w)
  BY <1>4 DEF MergeLink
<1>5. CASE CommitEntity(w)
  BY <1>5 DEF CommitEntity, Go
<1>6. CASE Finish(w)
  BY <1>6 DEF Finish, Leave, Go
<1>7. CASE Raise(w)
  BY <1>7 DEF Raise, Leave, Go
<1>8. CASE Die(w)
  BY <1>8 DEF Die, Leave, Go
<1> QED
  BY <1>1, <1>2, <1>3, <1>4, <1>5, <1>6, <1>7, <1>8 DEF Work

LEMMA FrameShapes ==
  ASSUME Shape, NEW w \in Worker, Work(w) \/ Raise(w) \/ Die(w)
  PROVE  PlaceShape' /\ TodoShape' /\ StagedShape'
<1>1. nodes \subseteq nodes'
  BY StoreGrows DEF Next
<1>2. \A v \in Worker : OwnShape(v)'
  BY <1>1, ShapeOfEach, OwnShapeStep, OtherShapeStep, OthersSame
<1>3. PlaceShape'
  BY <1>2, FramesAre DEF Frames, PlaceShape, OwnShape
<1>4. TodoShape'
  BY <1>2, FramesAre DEF Frames, TodoShape, OwnShape
<1>5. StagedShape'
  BY <1>2, FramesAre DEF Frames, StagedShape, OwnShape
<1> QED
  BY <1>3, <1>4, <1>5

LEMMA StoreShape ==
  ASSUME Shape, NEW w \in Worker, Work(w) \/ Raise(w) \/ Die(w)
  PROVE  StoreOK'
<1>1. CASE UNCHANGED neo4j
  BY <1>1 DEF Shape, StoreOK, neo4j
<1>2. CASE Open(w) /\ Committed(w)
  <2>1. /\ staged[w].nodes \subseteq NodeSet
        /\ staged[w].describes \subseteq staged[w].nodes \X Memory
        /\ staged[w].links \subseteq (nodes \cup staged[w].nodes) \X (nodes \cup staged[w].nodes)
    BY DEF Shape, StagedShape, Staged
  <2> QED
    BY <1>2, <2>1 DEF Shape, StoreOK, Committed
<1> QED
  BY <1>1, <1>2, StoreSteps

LEMMA RetryShape ==
  ASSUME JobsOK, NEW j \in Job, Retry(j)
  PROVE  JobsOK'
  BY DEF JobsOK, Retry, MaxRetries

LEMMA MeetShape ==
  ASSUME HistoryOK, NEW j \in Job, MeetOthers(j)
  PROVE  overlapped' \subseteq SUBSET Job
  BY DEF HistoryOK, MeetOthers

LEMMA JobShapes ==
  ASSUME Shape, NEW w \in Worker, Work(w) \/ Raise(w) \/ Die(w)
  PROVE  JobsOK' /\ HistoryOK'
<1>0. JobsOK /\ HistoryOK /\ (Busy(w) => job[w] \in Job)
  BY DEF Shape, PlaceShape
<1>1. ASSUME NEW j \in Job, Extract(w, j) PROVE JobsOK' /\ HistoryOK'
  <2>1. overlapped' \subseteq SUBSET Job
    BY <1>0, <1>1, MeetShape DEF Extract
  <2> QED
    BY <1>0, <1>1, <2>1 DEF Extract, JobsOK, HistoryOK
<1>2. ASSUME NEW j \in Job, ExtractRaises(w, j) PROVE JobsOK' /\ HistoryOK'
  <2>1. overlapped' \subseteq SUBSET Job
    BY <1>0, <1>2, MeetShape DEF ExtractRaises
  <2>2. JobsOK'
    BY <1>0, <1>2, RetryShape DEF ExtractRaises
  <2> QED
    BY <1>0, <1>2, <2>1, <2>2 DEF ExtractRaises, HistoryOK
<1>3. CASE MergeEntity(w) \/ MergeLink(w) \/ CommitEntity(w)
  BY <1>0, <1>3 DEF MergeEntity, MergeLink, CommitEntity, celery, JobsOK, HistoryOK
<1>4. CASE Finish(w)
  BY <1>0, <1>4 DEF Finish, Busy, JobsOK, HistoryOK
<1>5. CASE Raise(w)
  <2>1. JobsOK'
    BY <1>0, <1>5, RetryShape DEF Raise, Busy
  <2>2. HistoryOK'
    BY <1>0, <1>5, EntityAssumption DEF Raise, HistoryOK, EntityAssumption
  <2> QED
    BY <2>1, <2>2
<1>6. CASE Die(w)
  <2>1. JobsOK'
    BY <1>0, <1>6 DEF Die, Busy, JobsOK
  <2>2. HistoryOK'
    BY <1>0, <1>6, EntityAssumption DEF Die, HistoryOK, EntityAssumption
  <2> QED
    BY <2>1, <2>2
<1> QED
  BY <1>1, <1>2, <1>3, <1>4, <1>5, <1>6 DEF Work

LEMMA ShapeStep == Shape /\ [Next]_vars => Shape'
<1>1. ASSUME Shape, NEW w \in Worker, Work(w) \/ Raise(w) \/ Die(w) PROVE Shape'
  BY <1>1, StoreShape, JobShapes, FrameShapes DEF Shape
<1>2. ASSUME Shape, UNCHANGED vars PROVE Shape'
  BY <1>2 DEF vars, neo4j, celery, workers, Shape, StoreOK, JobsOK, PlaceShape, TodoShape,
         StagedShape, HistoryOK, Busy, Open
<1> QED
  BY <1>1, <1>2 DEF Next

-----------------------------------------------------------------------------
(* Tools and links: what is committed, staged and still to be written. *)
LEMMA SameCurrent ==
  ASSUME NEW v \in Worker, todo'[v] = todo[v]
  PROVE  Current(v)' = Current(v)
<1>1. Turn(v)' = Turn(v)
  BY DEF Turn
<1> QED
  BY <1>1 DEF Current

LEMMA DescribesStays ==
  ASSUME nodes \subseteq nodes', describes \subseteq describes', NEW t, NEW m, Describes(t, m)
  PROVE  Describes(t, m)'
  BY DEF Describes

(* A frame that has not changed, in a store that has only grown. *)
LEMMA SameWritten ==
  ASSUME NEW v \in Worker, nodes \subseteq nodes', describes \subseteq describes',
         job'[v] = job[v], todo'[v] = todo[v]
  PROVE  /\ WritesTools(v) => WritesTools(v)'
         /\ WritesNoOther(v) => WritesNoOther(v)'
         /\ WritesExtracted(v) => WritesExtracted(v)'
         /\ staged'[v] = staged[v] /\ targets'[v] = targets[v] =>
              (StagesEntity(v) => StagesEntity(v)')
<1>1. MemoryOf(v)' = MemoryOf(v)
  BY DEF MemoryOf
<1>2. WritesTools(v) => WritesTools(v)'
  BY <1>1, DescribesStays DEF WritesTools
<1>3. WritesNoOther(v) => WritesNoOther(v)'
  BY <1>1 DEF WritesNoOther
<1>4. ASSUME staged'[v] = staged[v], targets'[v] = targets[v], StagesEntity(v)
      PROVE  StagesEntity(v)'
  BY <1>1, <1>4, SameCurrent DEF StagesEntity, Alike
<1>5. WritesExtracted(v) => WritesExtracted(v)'
  BY <1>1 DEF WritesExtracted
<1> QED
  BY <1>2, <1>3, <1>4, <1>5

LEMMA OwnWritten ==
  ASSUME Shape, Written, NEW w \in Worker, Work(w) \/ Raise(w) \/ Die(w)
  PROVE  /\ Busy(w)' => WritesTools(w)' /\ WritesNoOther(w)' /\ WritesExtracted(w)'
         /\ Open(w)' => StagesEntity(w)'
<1>0. /\ nodes \subseteq nodes' /\ describes \subseteq describes'
      /\ Busy(w) => WritesTools(w) /\ WritesNoOther(w) /\ WritesExtracted(w)
      /\ Open(w) => StagesEntity(w) /\ Busy(w)
  BY StoreGrows DEF Next, Written, ToWrite, StagedEntity, Open, Busy
<1>1. ASSUME NEW j \in Job, Extract(w, j)
      PROVE  WritesTools(w)' /\ WritesNoOther(w)' /\ WritesExtracted(w)' /\ ~Open(w)'
  <2>1. MemoryOf(w)' = OfJob[j]
    BY <1>1, ExtractIs DEF MemoryOf
  <2> QED
    BY <1>1, <2>1, ExtractIs DEF WritesTools, WritesNoOther, WritesExtracted, Open
<1>2. ASSUME NEW j \in Job, ExtractRaises(w, j)
      PROVE  ~Busy(w)' /\ ~Open(w)'
  BY <1>2 DEF ExtractRaises, workers, Busy, Open
<1>3. CASE MergeEntity(w)
  <2>1. Busy(w) /\ job'[w] = job[w] /\ todo'[w] = todo[w]
    BY <1>3, MergeEntityIs DEF MergeEntity, Busy
  <2>2. WritesTools(w)' /\ WritesNoOther(w)' /\ WritesExtracted(w)'
    BY <1>0, <2>1, SameWritten
  <2>3. PICK self \in SUBSET NodeSet :
          /\ self # {}
          /\ staged'[w].nodes = self /\ staged'[w].links = {}
          /\ staged'[w].describes = self \X {MemoryOf(w)}
          /\ \A n \in self : Alike(n, Current(w))
    BY <1>3, MergeEntityIs
  <2>4. Current(w)' = Current(w) /\ MemoryOf(w)' = MemoryOf(w)
    BY <2>1, SameCurrent DEF MemoryOf
  <2>5. StagesEntity(w)'
    BY <1>3, <2>3, <2>4, MergeEntityIs DEF StagesEntity, Alike
  <2> QED
    BY <2>2, <2>5
<1>4. CASE MergeLink(w)
  <2>1. Open(w) /\ job'[w] = job[w] /\ todo'[w] = todo[w]
    BY <1>4, MergeLinkIs
  <2>2. WritesTools(w)' /\ WritesNoOther(w)' /\ WritesExtracted(w)'
    BY <1>0, <2>1, SameWritten
  <2>3. PICK ends \in SUBSET NodeSet, t \in targets[w] :
          /\ targets'[w] = targets[w] \ {t}
          /\ ends # {} /\ \A n \in ends : n.name = t
          /\ staged'[w].nodes = staged[w].nodes \cup ends
          /\ staged'[w].describes = staged[w].describes
          /\ staged'[w].links = staged[w].links
               \cup (Named(nodes \cup staged[w].nodes, Current(w).name) \X ends)
    BY <1>4, MergeLinkIs
  <2>4. Current(w)' = Current(w) /\ MemoryOf(w)' = MemoryOf(w)
    BY <2>1, SameCurrent DEF MemoryOf
  <2>5. ASSUME NEW x \in Targets(Current(w)) \ targets'[w]
        PROVE  \E link \in staged'[w].links : link[1].name = Current(w).name /\ link[2].name = x
    <3>1. CASE x # t
      BY <1>0, <2>1, <2>3, <3>1 DEF StagesEntity
    <3>2. CASE x = t
      <4>1. PICK n \in staged[w].nodes : n.name = Current(w).name
        BY <1>0, <2>1 DEF StagesEntity, Alike
      <4>2. PICK o \in ends : o.name = x
        BY <2>3, <3>2
      <4>3. <<n, o>> \in staged'[w].links
        BY <2>3, <4>1 DEF Named
      <4> QED
        BY <4>1, <4>2, <4>3
    <3> QED
      BY <3>1, <3>2
  <2>6. StagesEntity(w)'
    BY <1>0, <2>1, <2>3, <2>4, <2>5 DEF StagesEntity, Alike
  <2> QED
    BY <2>2, <2>6
<1>5. CASE CommitEntity(w)
  <2>1. Open(w) /\ Committed(w) /\ job'[w] = job[w] /\ ~Open(w)'
    BY <1>5, CommitIs DEF Open
  <2>2. /\ DOMAIN todo'[w] = DOMAIN todo[w] \ {Turn(w)}
        /\ \A d \in DOMAIN todo'[w] : todo'[w][d] = todo[w][d]
    BY <1>5, CommitIs
  <2>3. MemoryOf(w)' = MemoryOf(w)
    BY <2>1 DEF MemoryOf
  <2>4. WritesNoOther(w)' /\ WritesExtracted(w)'
    BY <1>0, <2>1, <2>2, <2>3 DEF WritesNoOther, WritesExtracted, Open, Busy
  <2>5. ASSUME NEW i \in DOMAIN Scan[MemoryOf(w)]
        PROVE  \/ Describes(Scan[MemoryOf(w)][i], MemoryOf(w))'
               \/ \E d \in DOMAIN todo'[w] :
                    todo'[w][d].name = Scan[MemoryOf(w)][i] /\ todo'[w][d].label = "Tool"
    <3>1. CASE Describes(Scan[MemoryOf(w)][i], MemoryOf(w))
      BY <1>0, <3>1, <2>3, DescribesStays
    <3>2. ASSUME NEW d \in DOMAIN todo[w], d # Turn(w),
                 todo[w][d].name = Scan[MemoryOf(w)][i], todo[w][d].label = "Tool"
          PROVE  \E c \in DOMAIN todo'[w] :
                   todo'[w][c].name = Scan[MemoryOf(w)][i] /\ todo'[w][c].label = "Tool"
      BY <3>2, <2>2
    <3>3. ASSUME Current(w).name = Scan[MemoryOf(w)][i], Current(w).label = "Tool"
          PROVE  Describes(Scan[MemoryOf(w)][i], MemoryOf(w))'
      BY <3>3, <1>0, <2>1, <2>3 DEF StagesEntity, Alike, Committed, Describes
    <3> QED
      BY <3>1, <3>2, <3>3, <1>0, <2>1 DEF WritesTools, Current
  <2>6. WritesTools(w)'
    BY <2>3, <2>5 DEF WritesTools
  <2> QED
    BY <2>1, <2>4, <2>6
<1>6. CASE Finish(w) \/ Raise(w) \/ Die(w)
  BY <1>6, EndIs DEF Left, Busy, Open
<1> QED
  BY <1>1, <1>2, <1>3, <1>4, <1>5, <1>6 DEF Work

LEMMA FramesWritten ==
  ASSUME Shape, Written, NEW w \in Worker, Work(w) \/ Raise(w) \/ Die(w)
  PROVE  ToWrite' /\ StagedEntity'
<1>1. nodes \subseteq nodes' /\ describes \subseteq describes'
  BY StoreGrows DEF Next
<1>2. ASSUME NEW v \in Worker, v # w
      PROVE  /\ Busy(v)' => WritesTools(v)' /\ WritesNoOther(v)' /\ WritesExtracted(v)'
             /\ Open(v)' => StagesEntity(v)'
  <2>1. Same(v)
    BY <1>2, OthersSame
  <2>2. /\ Busy(v) => WritesTools(v) /\ WritesNoOther(v) /\ WritesExtracted(v)
        /\ Open(v) => StagesEntity(v)
    BY DEF Written, ToWrite, StagedEntity
  <2>3. (Busy(v)' => Busy(v)) /\ (Open(v)' => Open(v))
    BY <2>1 DEF Same, Busy, Open
  <2> QED
    BY <1>1, <2>1, <2>2, <2>3, SameWritten DEF Same
<1> QED
  BY <1>2, OwnWritten DEF ToWrite, StagedEntity

(* A task is done when its worker finishes. *)
LEMMA DoneIs ==
  ASSUME Shape, NEW w \in Worker, Work(w) \/ Raise(w) \/ Die(w),
         NEW j \in Job, state'[j] = "done", state[j] # "done"
  PROVE  Finish(w) /\ j = job[w]
<1>0. JobsOK /\ (Busy(w) => job[w] \in Job)
  BY DEF Shape, PlaceShape
<1>1. ASSUME NEW i \in Job, Extract(w, i) PROVE FALSE
  BY <1>0, <1>1 DEF Extract, JobsOK
<1>2. ASSUME NEW i \in Job, ExtractRaises(w, i) PROVE FALSE
  BY <1>0, <1>2 DEF ExtractRaises, Retry, JobsOK
<1>3. CASE MergeEntity(w) \/ MergeLink(w) \/ CommitEntity(w)
  BY <1>3 DEF MergeEntity, MergeLink, CommitEntity, celery
<1>4. CASE Finish(w)
  BY <1>0, <1>4 DEF Finish, JobsOK
<1>5. CASE Raise(w)
  BY <1>0, <1>5 DEF Raise, Busy, Retry, JobsOK
<1>6. CASE Die(w)
  BY <1>0, <1>6 DEF Die, Busy, JobsOK
<1> QED
  BY <1>1, <1>2, <1>3, <1>4, <1>5, <1>6 DEF Work

LEMMA StoreWritten ==
  ASSUME Shape, Written, NEW w \in Worker, Work(w) \/ Raise(w) \/ Die(w)
  PROVE  ToolsDescribe' /\ ToolsAreTools' /\ EntitiesComeWhole'
<1>1. nodes \subseteq nodes' /\ describes \subseteq describes'
  BY StoreGrows DEF Next
<1>2. ToolsDescribe'
  <2> SUFFICES ASSUME NEW j \in Job, state'[j] = "done", NEW i \in DOMAIN Scan[OfJob[j]]
               PROVE  Describes(Scan[OfJob[j]][i], OfJob[j])'
    BY DEF ToolsDescribe, Describes, Named
  <2>1. CASE state[j] = "done"
    <3>1. Describes(Scan[OfJob[j]][i], OfJob[j])
      BY <2>1 DEF Written, ToolsDescribe, Describes, Named
    <3> QED
      BY <1>1, <3>1, DescribesStays
  <2>2. CASE state[j] # "done"
    <3>1. Finish(w) /\ j = job[w]
      BY <2>2, DoneIs
    <3>2. Busy(w) /\ DOMAIN todo[w] = {} /\ MemoryOf(w) = OfJob[j]
      BY <3>1 DEF Finish, Busy, MemoryOf
    <3>3. Describes(Scan[OfJob[j]][i], OfJob[j])
      BY <3>2 DEF Written, ToWrite, WritesTools
    <3> QED
      BY <1>1, <3>3, DescribesStays
  <2> QED
    BY <2>1, <2>2
<1>3. CASE UNCHANGED neo4j
  BY <1>2, <1>3 DEF neo4j, Written, ToolsAreTools, EntitiesComeWhole
<1>4. CASE Open(w) /\ targets[w] = {} /\ Committed(w)
  <2>1. StagesEntity(w) /\ WritesNoOther(w) /\ WritesExtracted(w)
    BY <1>4 DEF Written, ToWrite, StagedEntity, Open, Busy
  <2>2. Turn(w) \in DOMAIN todo[w] /\ Current(w) = todo[w][Turn(w)] /\ Current(w).label \in Label
    BY <1>4, TurnIs DEF Shape, TodoShape, Current
  <2>3. ToolsAreTools'
    <3> SUFFICES ASSUME NEW edge \in describes', NEW i \in DOMAIN Scan[edge[2]],
                        edge[1].name = Scan[edge[2]][i]
                 PROVE  edge[1].label = "Tool"
      BY DEF ToolsAreTools
    <3>1. CASE edge \in describes
      BY <3>1 DEF Written, ToolsAreTools
    <3>2. CASE edge \in staged[w].describes
      BY <3>2, <2>1, <2>2 DEF StagesEntity, WritesNoOther, Alike
    <3> QED
      BY <1>4, <3>1, <3>2 DEF Committed
  <2>4. EntitiesComeWhole'
    <3> DEFINE Whole(edge, e) ==
          /\ e.name = edge[1].name /\ e.label = edge[1].label
          /\ \A t \in Targets(e) : \E link \in links' : link[1].name = e.name /\ link[2].name = t
    <3>0. /\ links' = links \cup staged[w].links
          /\ describes' = describes \cup staged[w].describes
      BY <1>4 DEF Committed
    <3>1. ASSUME NEW edge \in describes PROVE \E e \in Extracted(edge[2]) : Whole(edge, e)
      <4>1. PICK e \in Extracted(edge[2]) :
              /\ e.name = edge[1].name /\ e.label = edge[1].label
              /\ \A t \in Targets(e) : \E link \in links : link[1].name = e.name /\ link[2].name = t
        BY DEF Written, EntitiesComeWhole
      <4> QED
        BY <3>0, <4>1
    <3>2. ASSUME NEW edge \in staged[w].describes PROVE \E e \in Extracted(edge[2]) : Whole(edge, e)
      <4>1. edge[2] = MemoryOf(w) /\ Alike(edge[1], Current(w))
        BY <2>1 DEF StagesEntity
      <4>2. Current(w) \in Extracted(edge[2])
        BY <2>1, <2>2, <4>1 DEF WritesExtracted
      <4>3. \A t \in Targets(Current(w)) :
              \E link \in staged[w].links : link[1].name = Current(w).name /\ link[2].name = t
        BY <1>4, <2>1 DEF StagesEntity
      <4>4. Whole(edge, Current(w))
        BY <3>0, <4>1, <4>3 DEF Alike
      <4> QED
        BY <4>2, <4>4
    <3> QED
      BY <3>0, <3>1, <3>2 DEF EntitiesComeWhole
  <2> QED
    BY <1>2, <2>3, <2>4
<1> QED
  BY <1>3, <1>4, StoreSteps

-----------------------------------------------------------------------------
(* Nodes that are alike: which tasks run, which have met, whose nodes a      *)
(* transaction has staged.                                                   *)

(* What a step does to a job: a worker takes up one that waits, or a job     *)
(* stops running; nobody forgets who has met.                                *)
JobStep(w) ==
  /\ overlapped \subseteq overlapped'
  /\ \A i \in Job : Alive(i)' =>
       \/ Alive(i)
       \/ \A k \in Job \ {i} : Alive(k)' => {k, i} \in overlapped'
  /\ \A i \in Job : state'[i] # state[i] =>
       \/ i = job[w] /\ Busy(w)
       \/ \A v \in Worker : Busy(v) => job[v] # i
  /\ Busy(w)' => state'[job'[w]] = "running"
  /\ Busy(w)' =>
       \/ Busy(w) /\ job'[w] = job[w]
       \/ \A v \in Worker : Busy(v) => job[v] # job'[w]

LEMMA JobSteps ==
  ASSUME Shape, Met, NEW w \in Worker, Work(w) \/ Raise(w) \/ Die(w)
  PROVE  JobStep(w)
<1>0. /\ JobsOK /\ (Busy(w) => job[w] \in Job /\ state[job[w]] = "running")
      /\ \A v \in Worker : Busy(v) => state[job[v]] = "running"
  BY DEF Shape, PlaceShape, Met
<1> USE DEF JobStep
<1>1. ASSUME NEW j \in Job, Extract(w, j) PROVE JobStep(w)
  <2>1. /\ pc'[w] = "write" /\ job'[w] = j
        /\ state[j] \in {"queued", "waiting"} /\ state' = [state EXCEPT ![j] = "running"]
        /\ MeetOthers(j)
    BY <1>1, ExtractIs DEF Extract
  <2>2. \A i \in Job \ {j} : state'[i] = state[i]
    BY <2>1, <1>0 DEF JobsOK
  <2>3. \A v \in Worker : Busy(v) => job[v] # j
    BY <1>0, <2>1
  <2>4. \A k \in Job \ {j} : Alive(k)' => {k, j} \in overlapped'
    BY <2>1, <2>2 DEF MeetOthers, Alive
  <2>5. \A i \in Job \ {j} : Alive(i)' => Alive(i)
    BY <2>2 DEF Alive
  <2>6. state'[j] = "running" /\ overlapped \subseteq overlapped'
    BY <2>1, <1>0 DEF JobsOK, MeetOthers
  <2> QED
    BY <2>1, <2>2, <2>3, <2>4, <2>5, <2>6
<1>2. ASSUME NEW j \in Job, ExtractRaises(w, j) PROVE JobStep(w)
  <2>1. /\ pc' = pc /\ pc[w] = "idle" /\ state[j] \in {"queued", "waiting"}
        /\ Retry(j) /\ MeetOthers(j)
    BY <1>2 DEF ExtractRaises, workers
  <2>2. \A i \in Job \ {j} : state'[i] = state[i]
    BY <2>1, <1>0 DEF JobsOK, Retry
  <2>3. \A v \in Worker : Busy(v) => job[v] # j
    BY <1>0, <2>1
  <2>4. \A k \in Job \ {j} : Alive(k)' => {k, j} \in overlapped'
    BY <2>1, <2>2 DEF MeetOthers, Alive
  <2>5. \A i \in Job \ {j} : Alive(i)' => Alive(i)
    BY <2>2 DEF Alive
  <2>6. ~Busy(w)' /\ overlapped \subseteq overlapped'
    BY <2>1 DEF MeetOthers, Busy
  <2> QED
    BY <2>2, <2>3, <2>4, <2>5, <2>6
<1>3. CASE MergeEntity(w) \/ MergeLink(w) \/ CommitEntity(w)
  <2>1. /\ state' = state /\ overlapped' = overlapped /\ job' = job /\ Busy(w)
    BY <1>3 DEF MergeEntity, MergeLink, CommitEntity, celery, Busy
  <2> QED
    BY <2>1, <1>0 DEF Alive
<1>4. CASE Finish(w) \/ Raise(w) \/ Die(w)
  <2>1. Busy(w) /\ ~Busy(w)' /\ overlapped' = overlapped
    BY <1>4, EndIs DEF Left, Busy, Finish, Raise, Die
  <2>2. \A i \in Job \ {job[w]} : state'[i] = state[i]
    BY <1>0, <1>4, <2>1 DEF Finish, Raise, Die, Retry, JobsOK
  <2>3. Alive(job[w])
    BY <1>0, <2>1 DEF Alive
  <2> QED
    BY <1>0, <2>1, <2>2, <2>3 DEF Alive
<1> QED
  BY <1>1, <1>2, <1>3, <1>4 DEF Work

LEMMA MetStep ==
  ASSUME Shape, Met, NEW w \in Worker, Work(w) \/ Raise(w) \/ Die(w)
  PROVE  Met'
<1>1. \A v \in Worker \ {w} : (Busy(v)' <=> Busy(v)) /\ job'[v] = job[v]
  BY OthersSame DEF Same, Busy
<1>2. \A v, u \in Worker : Busy(v)' /\ Busy(u)' /\ job'[v] = job'[u] => v = u
  <2> SUFFICES ASSUME NEW v \in Worker, NEW u \in Worker, v # u,
                      Busy(v)', Busy(u)', job'[v] = job'[u]
               PROVE  FALSE
    OBVIOUS
  <2>1. CASE v # w /\ u # w
    BY <2>1, <1>1 DEF Met
  <2>2. CASE v = w
    BY <2>2, <1>1, JobSteps DEF Met, JobStep
  <2>3. CASE u = w
    BY <2>3, <1>1, JobSteps DEF Met, JobStep
  <2> QED
    BY <2>1, <2>2, <2>3
<1>3. \A v \in Worker : Busy(v)' => state'[job'[v]] = "running"
  <2> SUFFICES ASSUME NEW v \in Worker, Busy(v)', v # w
               PROVE  state'[job'[v]] = "running"
    BY JobSteps DEF JobStep
  <2>1. Busy(v) /\ job'[v] = job[v] /\ job[v] \in Job /\ state[job[v]] = "running"
    BY <1>1 DEF Met, Shape, PlaceShape
  <2>2. Busy(w) => job[w] # job[v]
    BY <2>1 DEF Met
  <2>3. state'[job[v]] = state[job[v]]
    BY <2>1, <2>2, JobSteps DEF JobStep
  <2> QED
    BY <2>1, <2>3
<1>4. \A i, k \in Job : Alive(i)' /\ Alive(k)' /\ i # k => {i, k} \in overlapped'
  <2> SUFFICES ASSUME NEW i \in Job, NEW k \in Job, Alive(i)', Alive(k)', i # k
               PROVE  {i, k} \in overlapped'
    OBVIOUS
  <2>1. {i, k} = {k, i}
    OBVIOUS
  <2>2. CASE Alive(i) /\ Alive(k)
    BY <2>2, JobSteps DEF Met, JobStep
  <2>3. CASE ~Alive(i)
    BY <2>1, <2>3, JobSteps DEF JobStep
  <2>4. CASE ~Alive(k)
    BY <2>4, JobSteps DEF JobStep
  <2> QED
    BY <2>2, <2>3, <2>4
<1> QED
  BY <1>2, <1>3, <1>4 DEF Met

LEMMA AlikeIs ==
  ASSUME NEW n \in NodeSet, NEW o \in NodeSet, Alike(n, o)
  PROVE  Alike(o, n) /\ {n.by, o.by} = {o.by, n.by} /\ (n.by = o.by => n = o)
  BY DEF NodeSet, Alike

(* Whatever a transaction adds to its look: committed, its own and new, or   *)
(* staged before.                                                            *)
LEMMA OwnNodesStep ==
  ASSUME Shape, Overlaps, NEW w \in Worker, Work(w) \/ Raise(w) \/ Die(w), Open(w)'
  PROVE  OwnNodes(w)'
<1>0. /\ overlapped \subseteq overlapped'
      /\ Open(w) => OwnNodes(w)
      /\ nodes \subseteq NodeSet
  BY JobSteps DEF Overlaps, StagedNodes, Shape, StoreOK, JobStep
<1>1. ASSUME NEW j \in Job, Extract(w, j) PROVE FALSE
  BY <1>1, ExtractIs DEF Open
<1>2. ASSUME NEW j \in Job, ExtractRaises(w, j) PROVE FALSE
  BY <1>2 DEF ExtractRaises, workers, Open
<1>3. CASE MergeEntity(w)
  <2>1. PICK self \in SUBSET NodeSet :
          /\ staged'[w].nodes = self
          /\ \A n \in self :
               /\ Alike(n, Current(w))
               /\ n \in nodes \/ (n.by = job[w] /\ \A o \in nodes : ~Alike(n, o))
    BY <1>3, MergeEntityIs
  <2>2. job'[w] = job[w] /\ nodes' = nodes
    BY <1>3, MergeEntityIs DEF MergeEntity, neo4j
  <2>3. ASSUME NEW n \in self, NEW o \in nodes, n # o, Alike(n, o)
        PROVE  {n.by, o.by} \in overlapped
    BY <2>1, <2>3 DEF Overlaps, DuplicatesOverlapped, Alike
  <2> QED
    BY <1>0, <2>1, <2>2, <2>3 DEF OwnNodes, Alike
<1>4. CASE MergeLink(w)
  <2>1. PICK ends \in SUBSET NodeSet :
          /\ staged'[w].nodes = staged[w].nodes \cup ends
          /\ \A n \in ends :
               \/ n \in nodes \cup staged[w].nodes
               \/ (n.by = job[w] /\ \A o \in nodes : ~Alike(n, o))
    BY <1>4, MergeLinkIs
  <2>2. Open(w) /\ job'[w] = job[w] /\ nodes' = nodes
    BY <1>4, MergeLinkIs DEF MergeLink, neo4j
  <2>3. ASSUME NEW n \in staged'[w].nodes, NEW o \in nodes, n # o, Alike(n, o)
        PROVE  {n.by, o.by} \in overlapped
    <3>1. n \in nodes \/ n \in staged[w].nodes
      BY <2>1, <2>3
    <3>2. CASE n \in nodes
      BY <3>2, <2>3 DEF Overlaps, DuplicatesOverlapped, Alike
    <3>3. CASE n \in staged[w].nodes
      BY <3>3, <1>0, <2>2, <2>3 DEF OwnNodes
    <3> QED
      BY <3>1, <3>2, <3>3
  <2>4. ASSUME NEW n \in staged'[w].nodes PROVE n \in nodes \/ n.by = job[w]
    BY <1>0, <2>1, <2>2 DEF OwnNodes
  <2> QED
    BY <1>0, <2>2, <2>3, <2>4 DEF OwnNodes, Alike
<1>5. CASE CommitEntity(w)
  BY <1>5, CommitIs DEF Open
<1>6. CASE Finish(w) \/ Raise(w) \/ Die(w)
  BY <1>6, EndIs DEF Left, Open
<1> QED
  BY <1>1, <1>2, <1>3, <1>4, <1>5, <1>6 DEF Work

(* What one transaction commits while another is open: the two tasks have    *)
(* met, or the node was committed when one of them looked.                   *)
LEMMA OtherNodesStep ==
  ASSUME Shape, Overlaps, NEW w \in Worker, Work(w) \/ Raise(w) \/ Die(w),
         NEW v \in Worker, v # w, Open(v)'
  PROVE  OwnNodes(v)'
<1>0. /\ overlapped \subseteq overlapped' /\ Same(v)
      /\ nodes \subseteq nodes'
  BY JobSteps, OthersSame, StoreGrows DEF Overlaps, Next, JobStep
<1>1. Open(v) /\ OwnNodes(v) /\ staged[v].nodes \subseteq NodeSet
  BY <1>0 DEF Same, Open, Overlaps, StagedNodes, Shape, StagedShape, Staged
<1>2. ASSUME NEW n \in staged[v].nodes, NEW o \in nodes', n # o, Alike(n, o)
      PROVE  {n.by, o.by} \in overlapped'
  <2>1. CASE o \in nodes
    BY <1>0, <1>1, <1>2, <2>1 DEF OwnNodes
  <2>2. CASE o \notin nodes
    <3>1. Open(w) /\ o \in staged[w].nodes /\ OwnNodes(w)
      BY <2>2, StoreSteps DEF neo4j, Committed, Overlaps, StagedNodes
    <3>2. o \in NodeSet /\ n \in NodeSet
      BY <1>1, <3>1 DEF Shape, StagedShape, Staged
    <3>3. o.by = job[w]
      BY <2>2, <3>1 DEF OwnNodes
    <3>4. CASE n \in nodes
      <4>1. Alike(o, n) /\ {n.by, o.by} = {o.by, n.by}
        BY <1>2, <3>2, AlikeIs
      <4>2. {o.by, n.by} \in overlapped
        BY <1>2, <3>1, <3>4, <4>1 DEF OwnNodes
      <4> QED
        BY <1>0, <4>1, <4>2
    <3>5. CASE n \notin nodes
      <4>1. n.by = job[v]
        BY <1>1, <3>5 DEF OwnNodes
      <4>2. /\ job[v] \in Job /\ job[w] \in Job /\ job[v] # job[w]
            /\ Alive(job[v]) /\ Alive(job[w])
        BY <1>1, <3>1 DEF Overlaps, Met, Shape, PlaceShape, Busy, Open, Alive
      <4> QED
        BY <1>0, <3>3, <4>1, <4>2 DEF Overlaps, Met
    <3> QED
      BY <3>4, <3>5
  <2> QED
    BY <2>1, <2>2
<1> QED
  BY <1>0, <1>1, <1>2 DEF OwnNodes, Same, Alike

LEMMA DuplicatesStep ==
  ASSUME Shape, Overlaps, NEW w \in Worker, Work(w) \/ Raise(w) \/ Die(w)
  PROVE  DuplicatesOverlapped'
<1>0. overlapped \subseteq overlapped'
  BY JobSteps DEF Overlaps, JobStep
<1>1. CASE UNCHANGED neo4j
  BY <1>0, <1>1 DEF neo4j, Overlaps, DuplicatesOverlapped
<1>2. CASE Open(w) /\ Committed(w)
  <2>1. /\ nodes' = nodes \cup staged[w].nodes /\ OwnNodes(w)
        /\ nodes \subseteq NodeSet /\ staged[w].nodes \subseteq NodeSet
    BY <1>2 DEF Committed, Overlaps, StagedNodes, Shape, StoreOK, StagedShape, Staged
  <2> SUFFICES ASSUME NEW n \in nodes', NEW o \in nodes', n # o, Alike(n, o)
               PROVE  {n.by, o.by} \in overlapped
    BY <1>0 DEF DuplicatesOverlapped, Alike
  <2>2. n \in NodeSet /\ o \in NodeSet
    BY <2>1
  <2>3. Alike(o, n) /\ {n.by, o.by} = {o.by, n.by} /\ n.by # o.by
    BY <2>2, AlikeIs
  <2>4. CASE n \in nodes /\ o \in nodes
    BY <2>4 DEF Overlaps, DuplicatesOverlapped, Alike
  <2>5. CASE n \notin nodes /\ o \in nodes
    BY <2>1, <2>5 DEF OwnNodes
  <2>6. CASE n \in nodes /\ o \notin nodes
    BY <2>1, <2>3, <2>6 DEF OwnNodes
  <2>7. CASE n \notin nodes /\ o \notin nodes
    BY <2>1, <2>3, <2>7 DEF OwnNodes
  <2> QED
    BY <2>4, <2>5, <2>6, <2>7
<1> QED
  BY <1>1, <1>2, StoreSteps

LEMMA OverlapsStep ==
  ASSUME Shape, Overlaps, NEW w \in Worker, Work(w) \/ Raise(w) \/ Die(w)
  PROVE  Overlaps'
<1>1. Met'
  BY MetStep DEF Overlaps
<1>2. StagedNodes'
  BY OwnNodesStep, OtherNodesStep DEF StagedNodes
<1> QED
  BY <1>1, <1>2, DuplicatesStep DEF Overlaps

-----------------------------------------------------------------------------
LEMMA InitInvariant == Init => Invariant
<1> SUFFICES ASSUME Init PROVE Invariant
  OBVIOUS
<1>1. Shape
  <2>1. NothingStaged \in Staged /\ ListOK(NoEntities)
    BY DEF NothingStaged, Staged, ListOK, NoEntities
  <2> QED
    BY <2>1, EntityAssumption
    DEF Init, Shape, StoreOK, JobsOK, PlaceShape, TodoShape, StagedShape, HistoryOK, Busy, Open,
        NothingStaged, MaxRetries, EntityAssumption
<1>2. Written
  BY DEF Init, Written, ToWrite, StagedEntity, ToolsDescribe, ToolsAreTools, EntitiesComeWhole,
         Busy, Open
<1>3. Overlaps
  BY DEF Init, Overlaps, Met, StagedNodes, DuplicatesOverlapped, Busy, Open, Alive
<1> QED
  BY <1>1, <1>2, <1>3 DEF Invariant

LEMMA StepInvariant == Invariant /\ [Next]_vars => Invariant'
<1> SUFFICES ASSUME Invariant, [Next]_vars PROVE Invariant'
  OBVIOUS
<1>1. Shape'
  BY ShapeStep DEF Invariant
<1>2. ASSUME NEW w \in Worker, Work(w) \/ Raise(w) \/ Die(w)
      PROVE  Written' /\ Overlaps'
  BY <1>2, FramesWritten, StoreWritten, OverlapsStep DEF Invariant, Written
<1>3. ASSUME UNCHANGED <<neo4j, celery, workers, overlapped>>
      PROVE  Written' /\ Overlaps'
  <2>1. /\ nodes' = nodes /\ describes' = describes /\ links' = links /\ state' = state
        /\ pc' = pc /\ job' = job /\ todo' = todo /\ targets' = targets /\ staged' = staged
        /\ overlapped' = overlapped
    BY <1>3 DEF neo4j, celery, workers
  <2>2. \A w \in Worker :
          /\ WritesTools(w) => WritesTools(w)'
          /\ WritesNoOther(w) => WritesNoOther(w)'
          /\ WritesExtracted(w) => WritesExtracted(w)'
          /\ StagesEntity(w) => StagesEntity(w)'
          /\ OwnNodes(w) => OwnNodes(w)'
    BY <2>1, SameWritten DEF OwnNodes, Alike
  <2>3. Written'
    BY <2>1, <2>2 DEF Invariant, Written, ToWrite, StagedEntity, Busy, Open, ToolsDescribe,
           ToolsAreTools, EntitiesComeWhole, Named
  <2>4. Overlaps'
    BY <2>1, <2>2 DEF Invariant, Overlaps, Met, StagedNodes, Busy, Open, Alive, DuplicatesOverlapped
  <2> QED
    BY <2>3, <2>4
<1> QED
  BY <1>1, <1>2, <1>3 DEF Invariant, Next, vars

(* The entities of a memory keep their invariant. *)
THEOREM EntityInvariant == Spec => []Invariant
  BY InitInvariant, StepInvariant, PTL DEF Spec

(* Type correctness, for every constant of the assumption. *)
THEOREM EntityTypes == Spec => []TypeOK
<1>1. Invariant => TypeOK
  BY ShapeIsTypeOK DEF Invariant
<1> QED
  BY <1>1, EntityInvariant, PTL

(* When the task of a memory has ended normally, every known tool its        *)
(* content mentions describes it, whatever the model answered and whichever  *)
(* attempt it was.                                                           *)
THEOREM ToolsAlwaysDescribe == Spec => []ToolsDescribe
<1>1. Invariant => ToolsDescribe
  BY DEF Invariant, Written
<1> QED
  BY <1>1, EntityInvariant, PTL

(* A tool that a memory mentions never describes it under another label.     *)
THEOREM ToolsStayTools == Spec => []ToolsAreTools
<1>1. Invariant => ToolsAreTools
  BY DEF Invariant, Written
<1> QED
  BY <1>1, EntityInvariant, PTL

(* Two nodes of one label and name were created by tasks that were under way *)
(* together: without concurrency a repeated ingest creates no second node.   *)
THEOREM DuplicatesNeedOverlap == Spec => []DuplicatesOverlapped
<1>1. Invariant => DuplicatesOverlapped
  BY DEF Invariant, Overlaps
<1> QED
  BY <1>1, EntityInvariant, PTL

(* Whatever raises, dies or is extracted anew in between, an entity that     *)
(* describes a memory was extracted from it and has come with all of its     *)
(* relationships.                                                            *)
THEOREM EntitiesAlwaysComeWhole == Spec => []EntitiesComeWhole
<1>1. Invariant => EntitiesComeWhole
  BY DEF Invariant, Written
<1> QED
  BY <1>1, EntityInvariant, PTL

=============================================================================
