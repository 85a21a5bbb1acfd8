----------------------------- MODULE EntityGraph -----------------------------
(***************************************************************************)
(* The entities of a memory and how they get into Neo4j: the extraction    *)
(* (app/genai/entity_preflight.py, app/genai/entity_extraction.py), the    *)
(* last task of a memory's chain, task_extract_entities in                 *)
(* app/automation/tasks.py.                                                *)
(*                                                                         *)
(* Celery workers run the tasks side by side.  A task writes one           *)
(* transaction per entity, a statement at a time; a statement sees what    *)
(* was committed when it runs and what its own transaction has written.    *)
(* No constraint makes the name of an entity unique, so MERGE is a look    *)
(* and a creation, and two transactions may both find nothing.             *)
(***************************************************************************)
EXTENDS Integers, Sequences, FiniteSets, Functions

CONSTANTS
  Worker,     \* Celery worker processes
  Job,        \* tasks: one per memory stored, repeated ingests included
  Memory,     \* memories, whose MemoryChunk nodes the chain has written
  OfJob,      \* job -> its memory
  Name,       \* names of entities
  Blank,      \* a name that is empty after strip()
  Null,       \* a name that is not a string
  Alias,      \* names and aliases of the known tools
  Spacy,      \* memory -> what spaCy finds in its content, in order
  Scan,       \* memory -> the known tools its content mentions, in order
  Answer,     \* memory -> what the model may answer: lists of entities
  MaxFaults   \* bound: attempts that raise for an outside reason, dead workers

(* VALID_LABELS *)
Label == {"Project", "Person", "Concept", "Decision", "Tool", "Event",
          "Location", "Document"}

Source == {"spacy", "tools", "model"}
Relationship == [target : Name \cup {Blank}, allowed : BOOLEAN]
Entity == [name : Name \cup {Blank, Null}, label : Label \cup {"Other"},
           relationships : SUBSET Relationship, source : Source]

EntityAssumption ==
  /\ OfJob \in [Job -> Memory]
  /\ Alias \subseteq Name
  /\ Blank \notin Name /\ Null \notin Name
  /\ Spacy \in [Memory -> Seq({e \in Entity : e.source = "spacy" /\ e.name # Null})]
  /\ Scan \in [Memory -> Seq(Alias)]
  /\ Answer \in [Memory -> SUBSET Seq({e \in Entity : e.source = "model"})]
  /\ MaxFaults \in Nat

ASSUME EntityAssumption

VARIABLES
  nodes,      \* Neo4j: committed entity nodes, each with the job that created it
  describes,  \* Neo4j: <<node, memory>> DESCRIBES edges
  links,      \* Neo4j: <<node, node>> edges between entities
  state,      \* Celery: where each job is
  tries,      \* Celery: retries it has used
  pc,         \* what each worker is doing
  job,        \* the job it runs
  todo,       \* entities it has still to write, at their places in the list
  targets,    \* ends of relationships its transaction has still to merge
  staged,     \* what its transaction has written
  overlapped, \* history: pairs of jobs that were under way together
  faults

neo4j    == <<nodes, describes, links>>
celery   == <<state, tries>>
workers  == <<pc, job, todo, targets, staged>>
vars     == <<neo4j, celery, workers, overlapped, faults>>

-----------------------------------------------------------------------------
MaxRetries == 3
NoLabel == "none"     \* MERGE (b {name: $target}) creates a node without one
NoJob == "none"
NoEntities == [i \in {} |-> 0]
NothingStaged == [nodes |-> {}, describes |-> {}, links |-> {}]

Node(label, name, j) == [label |-> label, name |-> name, by |-> j]
Named(ns, name) == {n \in ns : n.name = name}

Alive(j) == state[j] \in {"running", "waiting"}
Ended(j) == state[j] \in {"done", "failed", "lost"}

Init ==
  /\ nodes = {} /\ describes = {} /\ links = {}
  /\ state = [j \in Job |-> "queued"]
  /\ tries = [j \in Job |-> 0]
  /\ pc = [w \in Worker |-> "idle"]
  /\ job = [w \in Worker |-> NoJob]
  /\ todo = [w \in Worker |-> NoEntities]
  /\ targets = [w \in Worker |-> {}]
  /\ staged = [w \in Worker |-> NothingStaged]
  /\ overlapped = {}
  /\ faults = 0

-----------------------------------------------------------------------------
(* What each step of the extraction lets through: spaCy persons and places  *)
(* that are no known tool, every tool, and of the model what has one of the *)
(* labels and a name.                                                       *)
Kept(e) ==
  CASE e.source = "spacy" -> e.label \in {"Person", "Location"} /\ e.name \notin Alias \cup {Blank}
    [] e.source = "tools" -> TRUE
    [] e.source = "model" -> e.label \in Label /\ e.name # Blank

Tools(m) ==
  [i \in DOMAIN Scan[m] |-> [name |-> Scan[m][i], label |-> "Tool",
                             relationships |-> {}, source |-> "tools"]]

(* preflight_extract: spaCy may be missing or raise after k entities. *)
Preflight(m, k) == SubSeq(Spacy[m], 1, k) \o Tools(m)

(* Both preflight_extract and merge_entities keep the first entity of a     *)
(* name, in a dict in insertion order; the gaps of the dropped ones remain. *)
FirstOfName(s) ==
  LET First(i) == Kept(s[i]) /\ \A j \in 1 .. i - 1 : Kept(s[j]) => s[j].name # s[i].name
  IN  Restrict(s, {i \in DOMAIN s : First(i)})

(* merge_entities strips every name it is given. *)
MergeRaises(answer) ==
  \E i \in DOMAIN answer : answer[i].label \in Label /\ answer[i].name = Null

(* Mutant: no answer of the model, no entities. *)
ModelDecides(m, k, answer) ==
  IF answer = <<>> THEN NoEntities ELSE FirstOfName(Preflight(m, k) \o answer)

(* Mutant: the model's entities come first. *)
ModelFirst(m, k, answer) == FirstOfName(answer \o Preflight(m, k))

MergeEntities(m, k, answer) == FirstOfName(Preflight(m, k) \o answer)

-----------------------------------------------------------------------------
Go(w, step) == pc' = [pc EXCEPT ![w] = step]

Leave(w) ==
  /\ Go(w, "idle")
  /\ job' = [job EXCEPT ![w] = NoJob]
  /\ todo' = [todo EXCEPT ![w] = NoEntities]
  /\ targets' = [targets EXCEPT ![w] = {}]
  /\ staged' = [staged EXCEPT ![w] = NothingStaged]

MeetOthers(j) ==
  overlapped' = overlapped \cup {{i, j} : i \in {i \in Job \ {j} : Alive(i)}}

(* Mutant: one retry too many. *)
RetryOnceMore(j) ==
  IF tries[j] <= MaxRetries
    THEN /\ state' = [state EXCEPT ![j] = "waiting"]
         /\ tries' = [tries EXCEPT ![j] = @ + 1]
    ELSE /\ state' = [state EXCEPT ![j] = "failed"]
         /\ UNCHANGED tries

(* self.retry: three times, then the task has failed. *)
Retry(j) ==
  IF tries[j] < MaxRetries
    THEN /\ state' = [state EXCEPT ![j] = "waiting"]
         /\ tries' = [tries EXCEPT ![j] = @ + 1]
    ELSE /\ state' = [state EXCEPT ![j] = "failed"]
         /\ UNCHANGED tries

(* Mutant: nobody takes up a task that is to be retried. *)
ExtractOnce(w, j) ==
  /\ pc[w] = "idle" /\ state[j] = "queued"
  /\ \E k \in 0 .. Len(Spacy[OfJob[j]]), answer \in Answer[OfJob[j]] \cup {<<>>} :
       /\ ~MergeRaises(answer)
       /\ todo' = [todo EXCEPT ![w] = MergeEntities(OfJob[j], k, answer)]
  /\ Go(w, "write")
  /\ job' = [job EXCEPT ![w] = j]
  /\ state' = [state EXCEPT ![j] = "running"]
  /\ MeetOthers(j)
  /\ UNCHANGED <<neo4j, tries, targets, staged, faults>>

(* A worker takes a task and extracts.  extract_entities asks the model     *)
(* twice at most; when neither attempt gives an answer that parses, the     *)
(* preflight's entities are all there is.                                   *)
Extract(w, j) ==
  /\ pc[w] = "idle" /\ state[j] \in {"queued", "waiting"}
  /\ \E k \in 0 .. Len(Spacy[OfJob[j]]), answer \in Answer[OfJob[j]] \cup {<<>>} :
       /\ ~MergeRaises(answer)
       /\ todo' = [todo EXCEPT ![w] = MergeEntities(OfJob[j], k, answer)]
  /\ Go(w, "write")
  /\ job' = [job EXCEPT ![w] = j]
  /\ state' = [state EXCEPT ![j] = "running"]
  /\ MeetOthers(j)
  /\ UNCHANGED <<neo4j, tries, targets, staged, faults>>

(* An answer that parses but names an entity null: the merge is outside the *)
(* try of the attempts, so the task raises.                                 *)
ExtractRaises(w, j) ==
  /\ pc[w] = "idle" /\ state[j] \in {"queued", "waiting"}
  /\ \E answer \in Answer[OfJob[j]] : MergeRaises(answer)
  /\ Retry(j)
  /\ MeetOthers(j)
  /\ UNCHANGED <<neo4j, workers, faults>>

-----------------------------------------------------------------------------
Turn(w) == CHOOSE i \in DOMAIN todo[w] : \A j \in DOMAIN todo[w] : i <= j
Current(w) == todo[w][Turn(w)]
Targets(e) == {r.target : r \in {r \in e.relationships : r.allowed /\ r.target # Blank}}

(* Mutant: CREATE instead of MERGE. *)
CreateEntity(w) ==
  LET e == Current(w)
      self == {Node(e.label, e.name, job[w])}
  IN  /\ pc[w] = "write" /\ DOMAIN todo[w] # {}
      /\ staged' = [staged EXCEPT ![w] =
           [nodes |-> self, describes |-> self \X {OfJob[job[w]]}, links |-> {}]]
      /\ targets' = [targets EXCEPT ![w] = Targets(e)]
      /\ Go(w, "open")
      /\ UNCHANGED <<neo4j, celery, job, todo, overlapped, faults>>

(* BEGIN; MERGE the labelled node, or all that have its label and name, and *)
(* its DESCRIBES edge.                                                      *)
MergeEntity(w) ==
  LET e == Current(w)
      same == {n \in Named(nodes, e.name) : n.label = e.label}
      self == IF same = {} THEN {Node(e.label, e.name, job[w])} ELSE same
  IN  /\ pc[w] = "write" /\ DOMAIN todo[w] # {}
      /\ staged' = [staged EXCEPT ![w] =
           [nodes |-> self, describes |-> self \X {OfJob[job[w]]}, links |-> {}]]
      /\ targets' = [targets EXCEPT ![w] = Targets(e)]
      /\ Go(w, "open")
      /\ UNCHANGED <<neo4j, celery, job, todo, overlapped, faults>>

(* A relationship: both ends by name, whatever their labels are. *)
MergeLink(w) ==
  /\ pc[w] = "open"
  /\ \E t \in targets[w] :
       LET seen == nodes \cup staged[w].nodes
           ends == IF Named(seen, t) = {} THEN {Node(NoLabel, t, job[w])} ELSE Named(seen, t)
       IN  /\ staged' = [staged EXCEPT
                ![w].nodes = @ \cup ends,
                ![w].links = @ \cup (Named(seen, Current(w).name) \X ends)]
           /\ targets' = [targets EXCEPT ![w] = @ \ {t}]
  /\ UNCHANGED <<neo4j, celery, pc, job, todo, overlapped, faults>>

Committed(w) ==
  /\ nodes' = nodes \cup staged[w].nodes
  /\ describes' = describes \cup staged[w].describes
  /\ links' = links \cup staged[w].links

CommitEntity(w) ==
  /\ pc[w] = "open" /\ targets[w] = {}
  /\ Committed(w)
  /\ todo' = [todo EXCEPT ![w] = Restrict(@, DOMAIN @ \ {Turn(w)})]
  /\ staged' = [staged EXCEPT ![w] = NothingStaged]
  /\ Go(w, "write")
  /\ UNCHANGED <<celery, job, targets, overlapped, faults>>

Finish(w) ==
  /\ pc[w] = "write" /\ DOMAIN todo[w] = {}
  /\ state' = [state EXCEPT ![job[w]] = "done"]
  /\ Leave(w)
  /\ UNCHANGED <<neo4j, tries, overlapped, faults>>

(* Mutant: no transaction, every statement is committed by itself. *)
AbandonedHalfway(w) ==
  \/ UNCHANGED neo4j
  \/ pc[w] = "open" /\ Committed(w)

(* What became of an open transaction: rolled back, or committed and the    *)
(* answer was lost.                                                         *)
Abandoned(w) ==
  \/ UNCHANGED neo4j
  \/ pc[w] = "open" /\ targets[w] = {} /\ Committed(w)

Raise(w) ==
  /\ pc[w] # "idle"
  /\ faults < MaxFaults /\ faults' = faults + 1
  /\ Abandoned(w)
  /\ Retry(job[w])
  /\ Leave(w)
  /\ UNCHANGED overlapped

(* The task was acknowledged when it started: it does not run again. *)
Die(w) ==
  /\ pc[w] # "idle"
  /\ faults < MaxFaults /\ faults' = faults + 1
  /\ Abandoned(w)
  /\ state' = [state EXCEPT ![job[w]] = "lost"]
  /\ Leave(w)
  /\ UNCHANGED <<tries, overlapped>>

-----------------------------------------------------------------------------
Work(w) ==
  \/ \E j \in Job : Extract(w, j) \/ ExtractRaises(w, j)
  \/ MergeEntity(w) \/ MergeLink(w) \/ CommitEntity(w) \/ Finish(w)

Next ==
  \E w \in Worker : Work(w) \/ Raise(w) \/ Die(w)

Spec == Init /\ [][Next]_vars

(* A worker that has a task works on it, and one that is idle takes one. *)
FairSpec == Spec /\ \A w \in Worker : WF_vars(Work(w))

=============================================================================
