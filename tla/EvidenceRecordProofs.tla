------------------------ MODULE EvidenceRecordProofs ------------------------
(* Theorems about EvidenceRecord for any requests, skills, memories and edge *)
(* types and every bound.                                                    *)
EXTENDS EvidenceRecordProperties, TLAPS

LEMMA AppendIs ==
  ASSUME NEW S, NEW s \in Seq(S), NEW e \in S
  PROVE  /\ Append(s, e) \in Seq(S)
         /\ Len(Append(s, e)) = Len(s) + 1 /\ Len(s) \in Nat
         /\ DOMAIN s = 1 .. Len(s) /\ DOMAIN Append(s, e) = 1 .. (Len(s) + 1)
         /\ Append(s, e)[Len(s) + 1] = e
         /\ \A i \in DOMAIN s : Append(s, e)[i] = s[i]
  OBVIOUS

LEMMA NewPathIsPath ==
  ASSUME NEW used \in SUBSET Memory, NEW edges \in SUBSET EdgeType
  PROVE  /\ NewPath(used, edges) \in Path
         /\ NewPath(used, edges).used = used
         /\ edges \subseteq NewPath(used, edges).followed
  BY ConstantsAssumption DEF NewPath, Path, ConstantsAssumption

(* Two changes to the paths: one of its own, or one more. *)
LEMMA WithPathIs ==
  ASSUME NEW g, NEW path
  PROVE  /\ DOMAIN WithPath(g, path) = DOMAIN paths \cup {g}
         /\ WithPath(g, path)[g] = path
         /\ \A h \in DOMAIN paths \ {g} : WithPath(g, path)[h] = paths[h]
  BY DEF WithPath

-----------------------------------------------------------------------------
(* A request that has committed its generation, or its evidence as well. *)
InTrace(r) == pc[r] \in {"evidence", "path", "steps", "answer"}
HasRows(r) == pc[r] \in {"path", "steps", "answer"}
HasPath(r) == pc[r] \in {"steps", "answer"}

(* Each has a generation of its own, with its manifest, which no handler  *)
(* has finished yet, and only it writes the rows and the path of that.       *)
OwnGeneration ==
  /\ \A r \in Request : InTrace(r) =>
       /\ gen[r] \in DOMAIN generations /\ gen[r] \notin finished
       /\ generations[gen[r]].manifest = manifest[r]
  /\ \A r, q \in Request : InTrace(r) /\ InTrace(q) /\ gen[r] = gen[q] => r = q

OwnRows ==
  \A r \in Request :
    /\ pc[r] = "evidence" => \A m \in Memory : <<gen[r], m>> \notin evidence
    /\ HasRows(r) =>
         /\ manifest[r].memories \subseteq memories
         /\ \A m \in Memory : <<gen[r], m>> \in evidence <=> m \in manifest[r].memories

OwnPath ==
  \A r \in Request :
    /\ InTrace(r) => (gen[r] \in DOMAIN paths <=> HasPath(r))
    /\ HasPath(r) => manifest[r].edges \subseteq paths[gen[r]].followed
    /\ pc[r] = "answer" => paths[gen[r]].steps = 4 /\ paths[gen[r]].output

(* The two properties, memory by memory. *)
Backed ==
  \A g \in DOMAIN paths :
    /\ g \in DOMAIN generations
    /\ \A m \in Memory : m \in paths[g].used <=> <<g, m>> \in evidence

Traced ==
  \A g \in finished :
    /\ g \in DOMAIN paths
    /\ \A m \in Memory : <<g, m>> \in evidence <=> m \in generations[g].manifest.memories
    /\ generations[g].manifest.edges \subseteq paths[g].followed
    /\ paths[g].steps = 4 /\ paths[g].output

(* The shape, as one conjunct per store and frame. *)
RowShape ==
  /\ memories \subseteq Memory
  /\ generations \in Seq(Generation)
  /\ evidence \subseteq (DOMAIN generations) \X Memory
PathShape ==
  /\ paths \in [DOMAIN paths -> Path]
  /\ DOMAIN nodes \subseteq Memory /\ nodes \in [DOMAIN nodes -> {"blank", "full"}]
FrameShape ==
  /\ pc \in [Request -> {"idle", "create", "generation", "evidence", "path", "steps", "answer"}]
  /\ name \in [Request -> Skill] /\ manifest \in [Request -> Manifest]
  /\ gen \in [Request -> Nat] /\ records \in [Request -> BOOLEAN]
Rest ==
  /\ DOMAIN skills \subseteq Skill /\ skills \in [DOMAIN skills -> {"active", "inactive"}]
  /\ finished \subseteq DOMAIN generations /\ fails \in 0 .. MaxFails

Shape == RowShape /\ PathShape /\ FrameShape /\ Rest

LEMMA ShapeIsTypeOK == Shape <=> TypeOK
  BY DEF Shape, RowShape, PathShape, FrameShape, Rest, TypeOK

Invariant ==
  /\ Shape /\ OwnGeneration /\ OwnRows /\ OwnPath /\ Backed /\ Traced
  /\ NodesAreOfMemories

LEMMA InitInvariant == Init => Invariant
<1> SUFFICES ASSUME Init PROVE Invariant
  OBVIOUS
<1>1. DOMAIN nodes = {} /\ DOMAIN paths = {} /\ DOMAIN generations = {} /\ generations \in Seq(Generation)
  BY DEF Init
<1>2. Shape
  BY <1>1, ConstantsAssumption
  DEF Init, Shape, RowShape, PathShape, FrameShape, Rest, Manifest, ConstantsAssumption
<1> QED
  BY <1>1, <1>2
  DEF Init, Invariant, OwnGeneration, OwnRows, OwnPath, Backed, Traced, NodesAreOfMemories,
      InTrace, HasRows, HasPath

-----------------------------------------------------------------------------
(* Types. *)
LEMMA StartShape ==
  ASSUME Shape, NEW r \in Request, SelectSkill(r) \/ CreateSkill(r) \/ Raise(r)
  PROVE  Shape'
<1> USE DEF Shape, RowShape, PathShape, FrameShape, Rest
<1>1. CASE SelectSkill(r)
  BY <1>1 DEF SelectSkill, Goto, AfterSkill, postgres, neo4j
<1>2. CASE CreateSkill(r)
  <2>1. name[r] \in Skill /\ AfterSkill(records[r]) \in {"generation", "idle"}
    BY DEF AfterSkill
  <2>2. CASE name[r] \in DOMAIN skills
    BY <1>2, <2>2 DEF CreateSkill, Goto, neo4j, frame
  <2>3. CASE name[r] \notin DOMAIN skills
    <3>1. DOMAIN skills' \subseteq Skill /\ skills' \in [DOMAIN skills' -> {"active", "inactive"}]
      BY <1>2, <2>1, <2>3 DEF CreateSkill
    <3>2. pc' \in [Request -> {"idle", "create", "generation", "evidence", "path", "steps", "answer"}]
      BY <1>2, <2>1, <2>3 DEF CreateSkill, Goto
    <3> QED
      BY <1>2, <3>1, <3>2 DEF CreateSkill, neo4j, frame
  <2> QED
    BY <2>2, <2>3
<1>3. CASE Raise(r)
  BY <1>3, ConstantsAssumption DEF Raise, Goto, postgres, neo4j, frame, ConstantsAssumption
<1> QED
  BY <1>1, <1>2, <1>3

LEMMA OutsideShape ==
  ASSUME Shape, StoreMemory \/ WriteNode \/ Crash
  PROVE  Shape'
<1> USE DEF Shape, RowShape, PathShape, FrameShape, Rest
<1>1. CASE StoreMemory
  BY <1>1 DEF StoreMemory, neo4j, frame
<1>2. CASE WriteNode
  BY <1>2 DEF WriteNode, postgres, frame
<1>3. CASE Crash
  BY <1>3, ConstantsAssumption DEF Crash, postgres, neo4j, frame, ConstantsAssumption
<1> QED
  BY <1>1, <1>2, <1>3

(* What the commit of a generation appends. *)
LEMMA NewGeneration ==
  ASSUME Shape, NEW r \in Request, CommitGeneration(r)
  PROVE  /\ generations' \in Seq(Generation)
         /\ gen'[r] = Len(generations) + 1 /\ gen'[r] \in Nat
         /\ gen'[r] \notin DOMAIN generations
         /\ DOMAIN generations' = DOMAIN generations \cup {gen'[r]}
         /\ generations'[gen'[r]].manifest = manifest[r]
         /\ \A g \in DOMAIN generations : generations'[g] = generations[g]
         /\ \A q \in Request \ {r} : gen'[q] = gen[q]
<1> DEFINE new == [skill |-> name[r], manifest |-> manifest[r]]
<1>1. new \in Generation /\ new.manifest = manifest[r]
  BY DEF Shape, FrameShape, Generation
<1>2. generations \in Seq(Generation) /\ gen \in [Request -> Nat]
  BY DEF Shape, RowShape, FrameShape
<1>3. generations' = Append(generations, new) /\ gen' = [gen EXCEPT ![r] = Len(generations')]
  BY DEF CommitGeneration
<1> HIDE DEF new
<1> QED
  BY <1>1, <1>2, <1>3, AppendIs

(* The rows that the second commit adds, and when it adds none. *)
LEMMA NewRows ==
  ASSUME Shape, NEW r \in Request, CommitEvidence(r), pc'[r] = "path"
  PROVE  /\ manifest[r].memories \subseteq memories
         /\ \A g, m : <<g, m>> \in evidence'
              <=> <<g, m>> \in evidence \/ (g = gen[r] /\ m \in manifest[r].memories)
         /\ evidence' \subseteq evidence \cup {gen[r]} \X manifest[r].memories
<1>1. manifest[r].memories \subseteq memories
      /\ evidence' = evidence \cup {<<gen[r], m>> : m \in manifest[r].memories}
  BY DEF CommitEvidence, Goto, Shape, FrameShape
<1> QED
  BY <1>1

LEMMA NoRows ==
  ASSUME Shape, NEW r \in Request, CommitEvidence(r)
  PROVE  /\ pc[r] = "evidence" /\ pc' = [pc EXCEPT ![r] = pc'[r]]
         /\ pc'[r] = "path" \/ (pc'[r] = "idle" /\ evidence' = evidence)
  BY DEF CommitEvidence, Goto, Shape, FrameShape

LEMMA CommitShape ==
  ASSUME Shape, OwnGeneration, NEW r \in Request, CommitGeneration(r) \/ CommitEvidence(r)
  PROVE  Shape'
<1>1. CASE CommitGeneration(r)
  <2>1. RowShape'
    BY <1>1, NewGeneration DEF Shape, RowShape, CommitGeneration
  <2>2. FrameShape'
    BY <1>1, NewGeneration DEF Shape, FrameShape, CommitGeneration, Goto
  <2>3. Rest'
    BY <1>1, NewGeneration DEF Shape, Rest, CommitGeneration
  <2> QED
    BY <1>1, <2>1, <2>2, <2>3 DEF Shape, PathShape, CommitGeneration, neo4j
<1>2. CASE CommitEvidence(r)
  <2>1. gen[r] \in DOMAIN generations
    BY <1>2 DEF OwnGeneration, InTrace, CommitEvidence
  <2>2. memories' = memories /\ generations' = generations /\ memories \subseteq Memory
    BY <1>2 DEF CommitEvidence, Shape, RowShape
  <2>3. evidence' \subseteq (DOMAIN generations) \X Memory
    <3>1. evidence \subseteq (DOMAIN generations) \X Memory
      BY DEF Shape, RowShape
    <3>2. CASE evidence' = evidence
      BY <3>1, <3>2
    <3>3. CASE pc'[r] = "path"
      BY <1>2, <2>1, <2>2, <3>1, <3>3, NewRows
    <3> QED
      BY <1>2, <3>2, <3>3, NoRows
  <2>4. RowShape'
    BY <2>2, <2>3 DEF Shape, RowShape
  <2>5. FrameShape'
    BY <1>2, NoRows DEF CommitEvidence, frame, Shape, FrameShape
  <2> QED
    BY <1>2, <2>4, <2>5 DEF CommitEvidence, neo4j, Shape, PathShape, Rest
<1> QED
  BY <1>1, <1>2

(* What a transaction of a request does to its path, and to no other. *)
LEMMA PathTransaction ==
  ASSUME Shape, OwnPath, NEW r \in Request, WriteStep(r) \/ LinkOutput(r)
  PROVE  /\ gen[r] \in DOMAIN paths /\ DOMAIN paths' = DOMAIN paths
         /\ \A h \in DOMAIN paths \ {gen[r]} : paths'[h] = paths[h]
         /\ paths'[gen[r]].used = paths[gen[r]].used
         /\ paths'[gen[r]].followed = paths[gen[r]].followed
         /\ paths'[gen[r]] \in Path
         /\ LinkOutput(r) => paths'[gen[r]].steps = 4 /\ paths'[gen[r]].output
<1>1. gen[r] \in DOMAIN paths /\ paths[gen[r]] \in Path
  BY DEF OwnPath, InTrace, HasPath, WriteStep, LinkOutput, Shape, PathShape
<1>2. CASE WriteStep(r)
  BY <1>1, <1>2 DEF WriteStep, LinkOutput, Path
<1>3. CASE LinkOutput(r)
  BY <1>1, <1>3 DEF LinkOutput, Path
<1> QED
  BY <1>2, <1>3

LEMMA FirstTransaction ==
  ASSUME Shape, NEW r \in Request, WritePath(r)
  PROVE  /\ DOMAIN paths' = DOMAIN paths \cup {gen[r]}
         /\ \A h \in DOMAIN paths \ {gen[r]} : paths'[h] = paths[h]
         /\ paths'[gen[r]] \in Path
         /\ paths'[gen[r]].used = manifest[r].memories
         /\ manifest[r].edges \subseteq paths'[gen[r]].followed
<1>1. manifest[r].memories \in SUBSET Memory /\ manifest[r].edges \in SUBSET EdgeType
  BY DEF Shape, FrameShape, Manifest
<1>2. paths' = WithPath(gen[r], NewPath(manifest[r].memories, manifest[r].edges))
  BY DEF WritePath
<1> QED
  BY <1>1, <1>2, WithPathIs, NewPathIsPath DEF WithPath

LEMMA TransactionShape ==
  ASSUME Shape, OwnGeneration, OwnPath, NEW r \in Request,
         WritePath(r) \/ WriteStep(r) \/ LinkOutput(r) \/ AnswerRaises(r)
  PROVE  Shape'
<1>1. CASE WritePath(r)
  <2>1. paths' \in [DOMAIN paths' -> Path]
    <3>1. \A h \in DOMAIN paths' : paths'[h] \in Path
      BY <1>1, FirstTransaction DEF Shape, PathShape
    <3> QED
      BY <1>1, <3>1 DEF WritePath, WithPath
  <2>2. DOMAIN nodes' \subseteq Memory /\ nodes' \in [DOMAIN nodes' -> {"blank", "full"}]
    BY <1>1 DEF WritePath, Merged, Shape, PathShape, FrameShape, Manifest
  <2>3. RowShape' /\ Rest'
    BY <1>1 DEF WritePath, postgres, Shape, RowShape, Rest
  <2>4. FrameShape'
    BY <1>1 DEF WritePath, Goto, frame, Shape, FrameShape
  <2> QED
    BY <2>1, <2>2, <2>3, <2>4 DEF Shape, PathShape
<1>2. CASE WriteStep(r) \/ LinkOutput(r)
  <2>1. paths' \in [DOMAIN paths' -> Path]
    <3>1. \A h \in DOMAIN paths' : paths'[h] \in Path
      BY <1>2, PathTransaction DEF Shape, PathShape
    <3> QED
      BY <1>2, <3>1 DEF WriteStep, LinkOutput
  <2>2. FrameShape'
    BY <1>2 DEF WriteStep, LinkOutput, Goto, frame, Shape, FrameShape
  <2> QED
    BY <1>2, <2>1, <2>2
    DEF WriteStep, LinkOutput, postgres, frame, Shape, RowShape, PathShape, Rest
<1>3. CASE AnswerRaises(r)
  <2>1. gen[r] \in DOMAIN generations
    BY <1>3 DEF AnswerRaises, OwnGeneration, InTrace
  <2> QED
    BY <1>3, <2>1
    DEF AnswerRaises, Goto, postgres, neo4j, frame, Shape, RowShape, PathShape, FrameShape, Rest
<1> QED
  BY <1>1, <1>2, <1>3

-----------------------------------------------------------------------------
(* Steps that leave generations, rows, paths and answers as they are, where  *)
(* whoever is past its commit was so before.                                 *)
Quiet ==
  /\ UNCHANGED <<generations, evidence, paths, finished>>
  /\ memories \subseteq memories' /\ DOMAIN nodes' \subseteq memories'
  /\ \A r \in Request :
       pc'[r] \in {"evidence", "path", "steps", "answer"} =>
         pc'[r] = pc[r] /\ gen'[r] = gen[r] /\ manifest'[r] = manifest[r]

LEMMA QuietSteps ==
  ASSUME Shape, NodesAreOfMemories, NEW r \in Request,
         \/ StoreMemory \/ WriteNode \/ Crash \/ SelectSkill(r) \/ CreateSkill(r) \/ Raise(r)
         \/ CommitEvidence(r) /\ pc'[r] # "path"
  PROVE  Quiet
<1>0. pc \in [Request -> {"idle", "create", "generation", "evidence", "path", "steps", "answer"}]
  BY DEF Shape, FrameShape
<1>1. CASE StoreMemory
  BY <1>1 DEF StoreMemory, Quiet, NodesAreOfMemories, neo4j, frame
<1>2. CASE WriteNode
  BY <1>2 DEF WriteNode, Quiet, NodesAreOfMemories, postgres, frame
<1>3. CASE Crash
  BY <1>3 DEF Crash, Quiet, NodesAreOfMemories, postgres, neo4j, frame
<1>4. CASE SelectSkill(r)
  <2>1. pc' = [pc EXCEPT ![r] = pc'[r]] /\ pc'[r] \in {"generation", "idle", "create"}
    BY <1>0, <1>4 DEF SelectSkill, Goto, AfterSkill
  <2>2. \A q \in Request \ {r} : manifest'[q] = manifest[q]
    BY <1>4 DEF SelectSkill, Shape, FrameShape
  <2> QED
    BY <1>0, <1>4, <2>1, <2>2 DEF SelectSkill, Quiet, NodesAreOfMemories, postgres, neo4j
<1>5. CASE CreateSkill(r)
  <2>1. pc' = [pc EXCEPT ![r] = pc'[r]] /\ pc'[r] \in {"generation", "idle"}
    BY <1>0, <1>5 DEF CreateSkill, Goto, AfterSkill
  <2> QED
    BY <1>0, <1>5, <2>1 DEF CreateSkill, Quiet, NodesAreOfMemories, neo4j, frame
<1>6. CASE Raise(r)
  BY <1>0, <1>6 DEF Raise, Goto, Quiet, NodesAreOfMemories, postgres, neo4j, frame
<1>7. CASE CommitEvidence(r) /\ pc'[r] # "path"
  <2>1. pc' = [pc EXCEPT ![r] = "idle"] /\ evidence' = evidence
    BY <1>7, NoRows
  <2> QED
    BY <1>0, <1>7, <2>1 DEF CommitEvidence, Quiet, NodesAreOfMemories, neo4j, frame
<1> QED
  BY <1>1, <1>2, <1>3, <1>4, <1>5, <1>6, <1>7

LEMMA QuietKeeps ==
  ASSUME Invariant, Quiet, Shape'
  PROVE  Invariant'
<1> USE DEF Quiet, InTrace, HasRows, HasPath
<1>1. OwnGeneration'
  BY DEF Invariant, OwnGeneration
<1>2. OwnRows'
  BY DEF Invariant, OwnRows
<1>3. OwnPath'
  BY DEF Invariant, OwnPath
<1>4. Backed' /\ Traced' /\ NodesAreOfMemories'
  BY DEF Invariant, Backed, Traced, NodesAreOfMemories
<1> QED
  BY <1>1, <1>2, <1>3, <1>4 DEF Invariant

(* The commit of a generation: no request, row or path had its number. *)
LEMMA GenerationKeeps ==
  ASSUME Invariant, NEW r \in Request, CommitGeneration(r)
  PROVE  Invariant'
<1> DEFINE g == gen'[r]
<1>0. /\ pc[r] = "generation" /\ pc'[r] = "evidence"
      /\ \A q \in Request \ {r} : pc'[q] = pc[q]
      /\ UNCHANGED <<memories, evidence, nodes, paths, manifest, finished>>
  BY DEF CommitGeneration, Goto, neo4j, Invariant, Shape, FrameShape
<1>1. /\ g \notin DOMAIN generations /\ DOMAIN generations' = DOMAIN generations \cup {g}
      /\ generations'[g].manifest = manifest[r]
      /\ \A h \in DOMAIN generations : generations'[h] = generations[h]
      /\ \A q \in Request \ {r} : gen'[q] = gen[q]
  BY NewGeneration DEF Invariant
<1>2. /\ g \notin DOMAIN paths /\ g \notin finished
      /\ \A m \in Memory : <<g, m>> \notin evidence
      /\ \A q \in Request : InTrace(q) => gen[q] \in DOMAIN generations
  BY <1>1 DEF Invariant, Backed, OwnGeneration, Shape, RowShape, Rest
<1>s. Shape'
  BY CommitShape DEF Invariant
<1> HIDE DEF g
<1>3. OwnGeneration'
  <2>1. \A q \in Request \ {r} : InTrace(q)' => InTrace(q) /\ gen'[q] # g
    BY <1>0, <1>1, <1>2 DEF InTrace
  <2> QED
    BY <1>0, <1>1, <1>2, <2>1 DEF Invariant, OwnGeneration, InTrace, g
<1>4. OwnRows'
  BY <1>0, <1>1, <1>2 DEF Invariant, OwnRows, HasRows, g
<1>5. OwnPath'
  BY <1>0, <1>1, <1>2 DEF Invariant, OwnPath, InTrace, HasPath, g
<1>6. Backed' /\ Traced' /\ NodesAreOfMemories'
  <2>1. finished \subseteq DOMAIN generations
    BY DEF Invariant, Shape, Rest
  <2> QED
    BY <1>0, <1>1, <2>1 DEF Invariant, Backed, Traced, NodesAreOfMemories
<1> QED
  BY <1>s, <1>3, <1>4, <1>5, <1>6 DEF Invariant

(* The commit of the rows, all of them at once and of its generation only. *)
LEMMA RowsKeep ==
  ASSUME Invariant, NEW r \in Request, CommitEvidence(r), pc'[r] = "path"
  PROVE  Invariant'
<1>0. /\ pc[r] = "evidence" /\ \A q \in Request \ {r} : pc'[q] = pc[q]
      /\ UNCHANGED <<memories, generations, nodes, paths, gen, manifest, finished>>
  BY NoRows DEF CommitEvidence, neo4j, frame, Invariant, Shape, FrameShape
<1>1. /\ manifest[r].memories \subseteq memories
      /\ \A h, m : <<h, m>> \in evidence'
           <=> <<h, m>> \in evidence \/ (h = gen[r] /\ m \in manifest[r].memories)
  BY NewRows DEF Invariant
<1>2. /\ gen[r] \notin DOMAIN paths /\ gen[r] \notin finished
      /\ \A q \in Request \ {r} : InTrace(q) => gen[q] # gen[r]
  BY <1>0 DEF Invariant, OwnGeneration, OwnPath, InTrace, HasPath
<1>s. Shape'
  BY CommitShape DEF Invariant
<1>3. OwnGeneration'
  BY <1>0 DEF Invariant, OwnGeneration, InTrace
<1>4. OwnRows'
  BY <1>0, <1>1, <1>2 DEF Invariant, OwnRows, HasRows, InTrace
<1>5. OwnPath'
  BY <1>0 DEF Invariant, OwnPath, InTrace, HasPath
<1>6. Backed' /\ Traced' /\ NodesAreOfMemories'
  BY <1>0, <1>1, <1>2 DEF Invariant, Backed, Traced, NodesAreOfMemories
<1> QED
  BY <1>s, <1>3, <1>4, <1>5, <1>6 DEF Invariant

(* The first transaction: the path appears, with what the rows say. *)
LEMMA PathKeeps ==
  ASSUME Invariant, NEW r \in Request, WritePath(r)
  PROVE  Invariant'
<1>0. /\ pc[r] = "path" /\ pc'[r] = "steps" /\ \A q \in Request \ {r} : pc'[q] = pc[q]
      /\ UNCHANGED <<memories, generations, evidence, gen, manifest, finished>>
      /\ DOMAIN nodes' = DOMAIN nodes \cup manifest[r].memories
  BY DEF WritePath, Merged, Goto, postgres, frame, Invariant, Shape, FrameShape
<1>1. /\ DOMAIN paths' = DOMAIN paths \cup {gen[r]}
      /\ \A h \in DOMAIN paths \ {gen[r]} : paths'[h] = paths[h]
      /\ paths'[gen[r]].used = manifest[r].memories
      /\ manifest[r].edges \subseteq paths'[gen[r]].followed
  BY FirstTransaction DEF Invariant
<1>2. /\ gen[r] \in DOMAIN generations
      /\ gen[r] \notin DOMAIN paths /\ gen[r] \notin finished
      /\ \A q \in Request \ {r} : InTrace(q) => gen[q] # gen[r]
  BY <1>0 DEF Invariant, OwnGeneration, OwnPath, InTrace, HasPath
<1>r. /\ manifest[r].memories \subseteq memories
      /\ \A m \in Memory : <<gen[r], m>> \in evidence <=> m \in manifest[r].memories
  BY <1>0 DEF Invariant, OwnRows, HasRows
<1>s. Shape'
  BY TransactionShape DEF Invariant
<1>3. OwnGeneration'
  BY <1>0 DEF Invariant, OwnGeneration, InTrace
<1>4. OwnRows'
  BY <1>0, <1>r DEF Invariant, OwnRows, HasRows
<1>5. OwnPath'
  BY <1>0, <1>1, <1>2 DEF Invariant, OwnPath, InTrace, HasPath
<1>6. Backed'
  BY <1>0, <1>1, <1>2, <1>r DEF Invariant, Backed
<1>7. Traced' /\ NodesAreOfMemories'
  BY <1>0, <1>1, <1>2, <1>r DEF Invariant, Traced, NodesAreOfMemories
<1> QED
  BY <1>s, <1>3, <1>4, <1>5, <1>6, <1>7 DEF Invariant

(* The later transactions add to the path what is not asked of it yet. *)
LEMMA TransactionKeeps ==
  ASSUME Invariant, NEW r \in Request, WriteStep(r) \/ LinkOutput(r)
  PROVE  Invariant'
<1>0. /\ pc[r] = "steps"
      /\ pc'[r] \in {"steps", "answer"} /\ (pc'[r] = "answer" => LinkOutput(r))
      /\ \A q \in Request \ {r} : pc'[q] = pc[q]
      /\ UNCHANGED <<memories, generations, evidence, nodes, gen, manifest, finished>>
  BY DEF WriteStep, LinkOutput, Goto, postgres, frame, Invariant, Shape, FrameShape
<1>1. /\ gen[r] \in DOMAIN paths /\ DOMAIN paths' = DOMAIN paths
      /\ \A h \in DOMAIN paths \ {gen[r]} : paths'[h] = paths[h]
      /\ paths'[gen[r]].used = paths[gen[r]].used
      /\ paths'[gen[r]].followed = paths[gen[r]].followed
      /\ LinkOutput(r) => paths'[gen[r]].steps = 4 /\ paths'[gen[r]].output
  BY PathTransaction DEF Invariant
<1>2. /\ gen[r] \notin finished
      /\ \A q \in Request \ {r} : InTrace(q) => gen[q] # gen[r]
  BY <1>0 DEF Invariant, OwnGeneration, InTrace
<1>s. Shape'
  BY TransactionShape DEF Invariant
<1>3. OwnGeneration' /\ OwnRows'
  BY <1>0 DEF Invariant, OwnGeneration, OwnRows, InTrace, HasRows
<1>5. OwnPath'
  BY <1>0, <1>1, <1>2 DEF Invariant, OwnPath, InTrace, HasPath
<1>6. Backed' /\ Traced' /\ NodesAreOfMemories'
  BY <1>0, <1>1, <1>2 DEF Invariant, Backed, Traced, NodesAreOfMemories
<1> QED
  BY <1>s, <1>3, <1>5, <1>6 DEF Invariant

LEMMA FinishKeeps ==
  ASSUME Invariant, NEW r \in Request, AnswerRaises(r)
  PROVE  Invariant'
<1>0. /\ pc[r] = "answer" /\ pc'[r] = "idle" /\ \A q \in Request \ {r} : pc'[q] = pc[q]
      /\ finished' = finished \cup {gen[r]}
      /\ UNCHANGED <<memories, generations, evidence, nodes, paths, gen, manifest>>
  BY DEF AnswerRaises, Goto, postgres, neo4j, frame, Invariant, Shape, FrameShape
<1>1. /\ gen[r] \in DOMAIN paths
      /\ generations[gen[r]].manifest = manifest[r]
      /\ \A m \in Memory : <<gen[r], m>> \in evidence <=> m \in manifest[r].memories
      /\ manifest[r].edges \subseteq paths[gen[r]].followed
      /\ paths[gen[r]].steps = 4 /\ paths[gen[r]].output
      /\ \A q \in Request \ {r} : InTrace(q) => gen[q] # gen[r]
  BY <1>0 DEF Invariant, OwnGeneration, OwnRows, OwnPath, InTrace, HasRows, HasPath
<1>s. Shape'
  BY TransactionShape DEF Invariant
<1>2. OwnGeneration' /\ OwnRows' /\ OwnPath'
  BY <1>0, <1>1 DEF Invariant, OwnGeneration, OwnRows, OwnPath, InTrace, HasRows, HasPath
<1>3. Backed' /\ Traced' /\ NodesAreOfMemories'
  BY <1>0, <1>1 DEF Invariant, Backed, Traced, NodesAreOfMemories
<1> QED
  BY <1>s, <1>2, <1>3 DEF Invariant

LEMMA NextInvariant ==
  ASSUME Invariant, [Next]_vars
  PROVE  Invariant'
<1>1. CASE StoreMemory \/ WriteNode \/ Crash
  <2>1. Shape'
    BY <1>1, OutsideShape DEF Invariant
  <2>2. Quiet
    BY <1>1
    DEF StoreMemory, WriteNode, Crash, Quiet, Invariant, NodesAreOfMemories, postgres, neo4j, frame
  <2> QED
    BY <2>1, <2>2, QuietKeeps
<1>2. ASSUME NEW r \in Request, SelectSkill(r) \/ CreateSkill(r) \/ Raise(r)
      PROVE  Invariant'
  BY <1>2, StartShape, QuietSteps, QuietKeeps DEF Invariant
<1>3. ASSUME NEW r \in Request, CommitGeneration(r)
      PROVE  Invariant'
  BY <1>3, GenerationKeeps
<1>4. ASSUME NEW r \in Request, CommitEvidence(r)
      PROVE  Invariant'
  <2>1. CASE pc'[r] = "path"
    BY <1>4, <2>1, RowsKeep
  <2>2. CASE pc'[r] # "path"
    BY <1>4, <2>2, CommitShape, QuietSteps, QuietKeeps DEF Invariant
  <2> QED
    BY <2>1, <2>2
<1>5. ASSUME NEW r \in Request, WritePath(r) \/ WriteStep(r) \/ LinkOutput(r) \/ AnswerRaises(r)
      PROVE  Invariant'
  BY <1>5, PathKeeps, TransactionKeeps, FinishKeeps
<1>6. CASE UNCHANGED vars
  <2>1. /\ UNCHANGED <<skills, memories, generations, evidence, nodes, paths>>
        /\ UNCHANGED <<pc, name, manifest, gen, records, finished, fails>>
    BY <1>6 DEF vars, postgres, neo4j, frame
  <2>2. Shape'
    BY <2>1 DEF Invariant, Shape, RowShape, PathShape, FrameShape, Rest
  <2>3. Quiet
    BY <2>1 DEF Quiet, Invariant, NodesAreOfMemories
  <2> QED
    BY <2>2, <2>3, QuietKeeps
<1> QED
  BY <1>1, <1>2, <1>3, <1>4, <1>5, <1>6 DEF Next, Continue

LEMMA AlwaysInvariant == Spec => []Invariant
<1>1. Invariant /\ [Next]_vars => Invariant'
  BY NextInvariant
<1> QED
  BY InitInvariant, <1>1, PTL DEF Spec

-----------------------------------------------------------------------------
(* Rows, nodes, paths and frames always have the shape the code gives them. *)
THEOREM EvidenceTypeCorrect == Spec => []TypeOK
<1>1. Invariant => TypeOK
  BY ShapeIsTypeOK DEF Invariant
<1> QED
  BY <1>1, AlwaysInvariant, PTL

(* Whatever raises or crashes between the commits and the transactions of    *)
(* _record_generation, an evidence path in Neo4j is that of a generation in  *)
(* Postgres and uses exactly the memories of its evidence rows.              *)
THEOREM PathsAreAlwaysBacked == Spec => []PathsAreBacked
<1>1. Invariant => PathsAreBacked
  <2> SUFFICES ASSUME Invariant, NEW g \in DOMAIN paths
               PROVE  g \in DOMAIN generations /\ paths[g].used = RowsOf(g)
    BY DEF PathsAreBacked
  <2>1. paths[g].used \subseteq Memory
    BY DEF Invariant, Shape, PathShape, Path
  <2>2. g \in DOMAIN generations /\ \A m \in Memory : m \in paths[g].used <=> <<g, m>> \in evidence
    BY DEF Invariant, Backed
  <2> QED
    BY <2>1, <2>2 DEF RowsOf
<1> QED
  BY <1>1, AlwaysInvariant, PTL

(* A generation whose handler came to its answer is complete in both stores, *)
(* and no later or concurrent record takes anything of it away.              *)
THEOREM FinishedIsAlwaysTraced == Spec => []FinishedIsTraced
<1>1. Invariant => FinishedIsTraced
  <2> SUFFICES ASSUME Invariant, NEW g \in finished
               PROVE  Complete(g)
    BY DEF FinishedIsTraced
  <2>1. g \in DOMAIN generations /\ generations[g] \in Generation
    BY DEF Invariant, Shape, RowShape, Rest
  <2>2. generations[g].manifest.memories \subseteq Memory
    BY <2>1 DEF Generation, Manifest
  <2>3. g \in DOMAIN paths
    BY DEF Invariant, Traced
  <2>4. paths[g].used \subseteq Memory
    BY <2>3 DEF Invariant, Shape, PathShape, Path
  <2>5. \A m \in Memory : m \in paths[g].used <=> <<g, m>> \in evidence
    BY <2>3 DEF Invariant, Backed
  <2>6. /\ \A m \in Memory : <<g, m>> \in evidence <=> m \in generations[g].manifest.memories
        /\ generations[g].manifest.edges \subseteq paths[g].followed
        /\ paths[g].steps = 4 /\ paths[g].output
    BY DEF Invariant, Traced
  <2> QED
    BY <2>1, <2>2, <2>3, <2>4, <2>5, <2>6 DEF RowsOf, Complete
<1> QED
  BY <1>1, AlwaysInvariant, PTL

(* The graph never has the MemoryChunk of a memory that was not stored. *)
THEOREM NodesAreAlwaysOfMemories == Spec => []NodesAreOfMemories
<1>1. Invariant => NodesAreOfMemories
  BY DEF Invariant
<1> QED
  BY <1>1, AlwaysInvariant, PTL

(* No step takes away a node, or what a memory's chain has written to it. *)
THEOREM NodesAlwaysOnlyFill == Spec => NodesOnlyFill
<1> DEFINE Fills == \A m \in DOMAIN nodes :
                      m \in DOMAIN nodes' /\ (nodes[m] = "full" => nodes'[m] = "full")
<1>1. ASSUME [Next]_vars PROVE [Fills]_nodes
  <2>1. CASE WriteNode
    BY <2>1 DEF WriteNode
  <2>2. ASSUME NEW r \in Request, WritePath(r) PROVE Fills
    BY <2>2 DEF WritePath, Merged
  <2>3. CASE StoreMemory \/ Crash \/ UNCHANGED vars
    BY <2>3 DEF StoreMemory, Crash, neo4j, vars
  <2>4. ASSUME NEW r \in Request,
               \/ SelectSkill(r) \/ Raise(r) \/ CreateSkill(r) \/ CommitGeneration(r)
               \/ CommitEvidence(r) \/ WriteStep(r) \/ LinkOutput(r) \/ AnswerRaises(r)
        PROVE  nodes' = nodes
    BY <2>4
    DEF SelectSkill, Raise, CreateSkill, CommitGeneration, CommitEvidence, WriteStep, LinkOutput,
        AnswerRaises, neo4j
  <2> QED
    BY <1>1, <2>1, <2>2, <2>3, <2>4 DEF Next, Continue
<1> QED
  BY <1>1, PTL DEF Spec, NodesOnlyFill

=============================================================================
