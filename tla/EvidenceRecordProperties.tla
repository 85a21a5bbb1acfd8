---------------------- MODULE EvidenceRecordProperties ----------------------
(* What the evidence record promises about the two stores. *)
EXTENDS EvidenceRecord

(* The rows, nodes and frames have the shape the code gives them, and a     *)
(* path never has more than the four steps of _record_generation.           *)
TypeOK ==
  /\ DOMAIN skills \subseteq Skill /\ skills \in [DOMAIN skills -> {"active", "inactive"}]
  /\ memories \subseteq Memory
  /\ generations \in Seq(Generation)
  /\ evidence \subseteq (DOMAIN generations) \X Memory
  /\ DOMAIN nodes \subseteq Memory /\ nodes \in [DOMAIN nodes -> {"blank", "full"}]
  /\ paths \in [DOMAIN paths -> Path]
  /\ pc \in [Request -> {"idle", "create", "generation", "evidence", "path", "steps", "answer"}]
  /\ name \in [Request -> Skill] /\ manifest \in [Request -> Manifest]
  /\ gen \in [Request -> Nat] /\ records \in [Request -> BOOLEAN]
  /\ finished \subseteq DOMAIN generations /\ fails \in 0 .. MaxFails

(* Postgres is the source of truth (evidence-layer.md:193): whatever fails  *)
(* or crashes, an EvidencePath is that of a committed generation, and it    *)
(* uses exactly the memories that the evidence rows name.                   *)
PathsAreBacked ==
  \A g \in DOMAIN paths : g \in DOMAIN generations /\ paths[g].used = RowsOf(g)

(* A record that is complete in both stores: every memory of its manifest   *)
(* has a row and a USED edge, every edge type is followed, all four steps    *)
(* are there and the output is linked.                                       *)
Complete(g) ==
  /\ g \in DOMAIN generations /\ g \in DOMAIN paths
  /\ LET listed == generations[g].manifest
     IN  /\ RowsOf(g) = listed.memories
         /\ paths[g].used = listed.memories /\ listed.edges \subseteq paths[g].followed
         /\ paths[g].steps = 4 /\ paths[g].output

(* A handler that comes to its answer (skills.py:157) leaves a complete      *)
(* record, and no other request, retry or crash takes anything of it away:   *)
(* the error that its client is told there is never one of a half record.    *)
FinishedIsTraced == \A g \in finished : Complete(g)

(* A MemoryChunk node under the id of a memory, although the evidence of    *)
(* that memory may create it long before the memory's own chain does, is    *)
(* always that of a stored memory, whose row a traversal can read           *)
(* (graph.py:149-152).                                                      *)
NodesAreOfMemories == DOMAIN nodes \subseteq memories

(* And evidence never takes from a node what the chain has written to it.   *)
NodesOnlyFill ==
  [][\A m \in DOMAIN nodes :
       m \in DOMAIN nodes' /\ (nodes[m] = "full" => nodes'[m] = "full")]_nodes

(* Once evidence rows are committed the graph follows, up to the last step   *)
(* and the output, unless a command raises or the server dies on the way.    *)
TraceFollowsRows ==
  \A g \in 1 .. MaxGenerations : (RowsOf(g) # {}) ~> (Complete(g) \/ fails > 0)

=============================================================================
