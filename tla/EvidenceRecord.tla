--------------------------- MODULE EvidenceRecord ---------------------------
(* The record of what a generation was made from: app/routes/skills.py with  *)
(* app/db/neo4j/evidence.py, sql/002 to 004 and the MCP tool run_skill.      *)
(*                                                                           *)
(* A handler awaits Postgres: skill, generation and evidence rows are three  *)
(* commits. Then it writes six Neo4j transactions without an await, so that  *)
(* of all handlers only one is there; the Celery worker is another process   *)
(* and may come in between. What a prompt, an output or a step says is left  *)
(* out, a manifest is the memories and edge types its items name.            *)
EXTENDS Integers, Sequences, FiniteSets

CONSTANTS
  Request,         \* requests in progress
  Skill,           \* names of skills
  Memory, EdgeType,
  DefaultEdge,     \* "IN_SESSION"
  MaxGenerations,  \* bound: generations
  MaxFails         \* bound: commands that raise, crashes

ConstantsAssumption ==
  /\ DefaultEdge \in EdgeType
  /\ MaxGenerations \in Nat /\ MaxFails \in Nat

ASSUME ConstantsAssumption

VARIABLES
  skills,       \* Postgres: the skills there are, by name
  memories,     \* Postgres: memories
  generations,  \* Postgres: generations and the manifests in their metadata
  evidence,     \* Postgres: rows, as pairs of a generation and a memory
  nodes,        \* Neo4j: MemoryChunk nodes; "blank" ones only have an id
  paths,        \* Neo4j: EvidencePath nodes, by generation
  pc,           \* what each request does next
  name, manifest, gen,   \* its locals: skill_name, evidence_manifest, generation.id
  records,      \* whether it is /skills/record or run_skill
  finished,     \* history: generations whose handler came to its answer
  fails

postgres == <<skills, memories, generations, evidence>>
neo4j == <<nodes, paths>>
frame == <<name, manifest, gen, records>>
vars == <<postgres, neo4j, pc, frame, finished, fails>>

Manifest == [memories : SUBSET Memory, edges : SUBSET EdgeType]
Generation == [skill : Skill, manifest : Manifest]
Path == [used : SUBSET Memory, followed : SUBSET EdgeType, steps : 0 .. 4, output : BOOLEAN]

Init ==
  /\ \E names \in SUBSET Skill : skills \in [names -> {"active", "inactive"}]
  /\ memories = {} /\ generations = <<>> /\ evidence = {}
  /\ nodes = [m \in {} |-> "blank"] /\ paths = [g \in {} |-> {}]
  /\ pc = [r \in Request |-> "idle"]
  /\ name \in [Request -> Skill]
  /\ manifest = [r \in Request |-> [memories |-> {}, edges |-> {}]]
  /\ gen = [r \in Request |-> 0] /\ records = [r \in Request |-> FALSE]
  /\ finished = {} /\ fails = 0

Goto(r, step) == pc' = [pc EXCEPT ![r] = step]

(* No handler is in the stretch without an await. *)
LoopIsFree == \A r \in Request : pc[r] \notin {"steps", "answer"}

RowsOf(g) == {m \in Memory : <<g, m>> \in evidence}

-----------------------------------------------------------------------------
(* _get_or_create_skill: SELECT the active skill of that name, or INSERT it, *)
(* which raises if the name is taken: by another request, or by a skill that *)
(* is not active.                                                            *)
AfterSkill(isRecord) == IF isRecord THEN "generation" ELSE "idle"

SelectSkill(r) ==
  /\ pc[r] = "idle" /\ Len(generations) < MaxGenerations
  /\ \E s \in Skill, m \in Manifest, isRecord \in BOOLEAN :
       /\ name' = [name EXCEPT ![r] = s]
       /\ manifest' = [manifest EXCEPT ![r] = m]
       /\ records' = [records EXCEPT ![r] = isRecord]
       /\ isRecord \/ m = [memories |-> {}, edges |-> {}]
       /\ Goto(r, IF s \in DOMAIN skills /\ skills[s] = "active"
                  THEN AfterSkill(isRecord) ELSE "create")
  /\ UNCHANGED <<postgres, neo4j, gen, finished, fails>>

CreateSkill(r) ==
  /\ pc[r] = "create"
  /\ IF name[r] \in DOMAIN skills
     THEN Goto(r, "idle") /\ UNCHANGED skills
     ELSE /\ skills' = [s \in DOMAIN skills \cup {name[r]} |->
                          IF s = name[r] THEN "active" ELSE skills[s]]
          /\ Goto(r, AfterSkill(records[r]))
  /\ UNCHANGED <<memories, generations, evidence, neo4j, frame, finished, fails>>

(* The generation is committed first, then its evidence rows all at once; a  *)
(* memory_id without a memory violates the foreign key.                      *)
CommitGeneration(r) ==
  /\ pc[r] = "generation" /\ Len(generations) < MaxGenerations
  /\ generations' = Append(generations, [skill |-> name[r], manifest |-> manifest[r]])
  /\ gen' = [gen EXCEPT ![r] = Len(generations')]
  /\ Goto(r, "evidence")
  /\ UNCHANGED <<skills, memories, evidence, neo4j, name, manifest, records, finished, fails>>

NoForeignKey(r) ==    \* mutant: memory_id references nothing
  /\ pc[r] = "evidence"
  /\ evidence' = evidence \cup {<<gen[r], m>> : m \in manifest[r].memories}
  /\ Goto(r, "path")
  /\ UNCHANGED <<skills, memories, generations, neo4j, frame, finished, fails>>

EvidenceUncommitted(r) ==    \* mutant: the second commit is forgotten
  /\ pc[r] = "evidence"
  /\ Goto(r, IF manifest[r].memories \subseteq memories THEN "path" ELSE "idle")
  /\ UNCHANGED <<postgres, neo4j, frame, finished, fails>>

NoEdgesNoPath(r) ==    \* mutant: a manifest without edge types gets no path
  /\ pc[r] = "evidence"
  /\ IF manifest[r].memories \subseteq memories
     THEN /\ evidence' = evidence \cup {<<gen[r], m>> : m \in manifest[r].memories}
          /\ Goto(r, IF manifest[r].edges = {} THEN "idle" ELSE "path")
     ELSE Goto(r, "idle") /\ UNCHANGED evidence
  /\ UNCHANGED <<skills, memories, generations, neo4j, frame, finished, fails>>

CommitEvidence(r) ==
  /\ pc[r] = "evidence"
  /\ IF manifest[r].memories \subseteq memories
     THEN /\ evidence' = evidence \cup {<<gen[r], m>> : m \in manifest[r].memories}
          /\ Goto(r, "path")
     ELSE Goto(r, "idle") /\ UNCHANGED evidence
  /\ UNCHANGED <<skills, memories, generations, neo4j, frame, finished, fails>>

-----------------------------------------------------------------------------
(* create_evidence_path: MERGE finds the MemoryChunk of a memory that is in  *)
(* the graph and makes a node with nothing but an id for one that is not.    *)
Merged(used) == [m \in DOMAIN nodes \cup used |-> IF m \in DOMAIN nodes THEN nodes[m] ELSE "blank"]

NewPath(used, edges) ==
  [used |-> used, followed |-> IF edges = {} THEN {DefaultEdge} ELSE edges,
   steps |-> 0, output |-> FALSE]

WithPath(g, path) == [h \in DOMAIN paths \cup {g} |-> IF h = g THEN path ELSE paths[h]]

PathBlanksNodes(r) ==    \* mutant: CREATE for MERGE
  /\ pc[r] = "path" /\ LoopIsFree /\ Goto(r, "steps")
  /\ nodes' = [m \in DOMAIN nodes \cup manifest[r].memories |->
                 IF m \in manifest[r].memories THEN "blank" ELSE nodes[m]]
  /\ paths' = WithPath(gen[r], NewPath(manifest[r].memories, manifest[r].edges))
  /\ UNCHANGED <<postgres, frame, finished, fails>>

WritePath(r) ==
  /\ pc[r] = "path" /\ LoopIsFree /\ Goto(r, "steps")
  /\ nodes' = Merged(manifest[r].memories)
  /\ paths' = WithPath(gen[r], NewPath(manifest[r].memories, manifest[r].edges))
  /\ UNCHANGED <<postgres, frame, finished, fails>>

(* add_evidence_step: the four steps in their order. *)
FifthStep(r) ==    \* mutant: one step too many
  /\ pc[r] = "steps" /\ paths[gen[r]].steps <= 4
  /\ paths' = [paths EXCEPT ![gen[r]].steps = @ + 1]
  /\ UNCHANGED <<postgres, nodes, pc, frame, finished, fails>>

WriteStep(r) ==
  /\ pc[r] = "steps" /\ paths[gen[r]].steps < 4
  /\ paths' = [paths EXCEPT ![gen[r]].steps = @ + 1]
  /\ UNCHANGED <<postgres, nodes, pc, frame, finished, fails>>

(* link_evidence_to_output. *)
LinkTooEarly(r) ==    \* mutant: the last step is still to be written
  /\ pc[r] = "steps" /\ paths[gen[r]].steps >= 3
  /\ paths' = [paths EXCEPT ![gen[r]].output = TRUE]
  /\ Goto(r, "answer")
  /\ UNCHANGED <<postgres, nodes, frame, finished, fails>>

LinkOutput(r) ==
  /\ pc[r] = "steps" /\ paths[gen[r]].steps = 4
  /\ paths' = [paths EXCEPT ![gen[r]].output = TRUE]
  /\ Goto(r, "answer")
  /\ UNCHANGED <<postgres, nodes, frame, finished, fails>>

(* GenerationOut.model_validate(generation) asks the ORM row for a field     *)
(* "metadata", which there is SQLAlchemy's table metadata and no dict: it    *)
(* raises. Everything is written, and the client is told of an error.        *)
AnswerRaises(r) ==
  /\ pc[r] = "answer" /\ Goto(r, "idle")
  /\ finished' = finished \cup {gen[r]}
  /\ UNCHANGED <<postgres, neo4j, frame, fails>>

-----------------------------------------------------------------------------
(* Postgres or Neo4j raises, before or after it has committed: what is       *)
(* written stays, the request ends.                                          *)
Raise(r) ==
  /\ pc[r] # "idle" /\ fails < MaxFails /\ fails' = fails + 1
  /\ Goto(r, "idle")
  /\ UNCHANGED <<postgres, neo4j, frame, finished>>

Crash ==
  /\ \E r \in Request : pc[r] # "idle"
  /\ fails < MaxFails /\ fails' = fails + 1
  /\ pc' = [r \in Request |-> "idle"]
  /\ UNCHANGED <<postgres, neo4j, frame, finished>>

(* The write path of memories: a memory is committed, and its chain writes   *)
(* the MemoryChunk node in full.                                             *)
StoreMemory ==
  /\ \E m \in Memory \ memories : memories' = memories \cup {m}
  /\ UNCHANGED <<skills, generations, evidence, neo4j, pc, frame, finished, fails>>

WriteNode ==
  /\ \E m \in memories :
       nodes' = [n \in DOMAIN nodes \cup {m} |-> IF n = m THEN "full" ELSE nodes[n]]
  /\ UNCHANGED <<postgres, paths, pc, frame, finished, fails>>

Continue(r) ==
  \/ CreateSkill(r) \/ CommitGeneration(r) \/ CommitEvidence(r)
  \/ WritePath(r) \/ WriteStep(r) \/ LinkOutput(r) \/ AnswerRaises(r)

Next ==
  \/ StoreMemory \/ WriteNode \/ Crash
  \/ \E r \in Request : SelectSkill(r) \/ Continue(r) \/ Raise(r)

Spec == Init /\ [][Next]_vars

(* Handlers go on; those that wait for the loop get it in the order in which *)
(* they became ready, however many come and go meanwhile.                    *)
FairSpec == Spec /\ \A r \in Request : WF_vars(Continue(r)) /\ SF_vars(WritePath(r))

=============================================================================
