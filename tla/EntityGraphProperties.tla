------------------------ MODULE EntityGraphProperties ------------------------
(* What the docs promise of the entities of a memory, and what their task     *)
(* keeps although attempts fail, workers die and tasks overlap.               *)
EXTENDS EntityGraph

NodeSet == [label : Label \cup {NoLabel}, name : Name, by : Job]
Staged == [nodes : SUBSET NodeSet, describes : SUBSET (NodeSet \X Memory),
           links : SUBSET (NodeSet \X NodeSet)]

StoreOK ==
  /\ nodes \subseteq NodeSet
  /\ describes \subseteq nodes \X Memory
  /\ links \subseteq nodes \X nodes

JobsOK ==
  /\ state \in [Job -> {"queued", "running", "waiting", "done", "failed", "lost"}]
  /\ tries \in [Job -> 0 .. MaxRetries]

ListOK(s) ==
  /\ DOMAIN s \subseteq Nat \ {0}
  /\ \A i \in DOMAIN s : s[i] \in Entity /\ s[i].name \in Name /\ s[i].label \in Label

WorkersOK ==
  /\ pc \in [Worker -> {"idle", "write", "open"}]
  /\ job \in [Worker -> Job \cup {NoJob}]
  /\ DOMAIN todo = Worker
  /\ targets \in [Worker -> SUBSET Name]
  /\ staged \in [Worker -> Staged]
  /\ \A w \in Worker :
       /\ ListOK(todo[w])
       /\ pc[w] # "idle" => job[w] \in Job
       /\ pc[w] = "open" => DOMAIN todo[w] # {}

HistoryOK ==
  /\ overlapped \subseteq SUBSET Job
  /\ faults \in 0 .. MaxFaults

TypeOK == StoreOK /\ JobsOK /\ WorkersOK /\ HistoryOK

(* entity-extraction.md:77 "partial results are preferred over none": when   *)
(* the task of a memory has ended normally, every known tool its content     *)
(* mentions describes it, whatever the model answered, in whichever attempt. *)
ToolsDescribe ==
  \A j \in Job : state[j] = "done" =>
    \A i \in DOMAIN Scan[OfJob[j]] : \E n \in Named(nodes, Scan[OfJob[j]][i]) :
      n.label = "Tool" /\ <<n, OfJob[j]>> \in describes

(* "preflight wins on collision": a tool that a memory mentions never        *)
(* describes it under another label, not even after a retry or a second      *)
(* ingest with other answers of the model.                                   *)
ToolsAreTools ==
  \A edge \in describes : \A i \in DOMAIN Scan[edge[2]] :
    edge[1].name = Scan[edge[2]][i] => edge[1].label = "Tool"

(* neo4j.md:248 "re-running the same memory ingest produces the same nodes": *)
(* one label and name is two nodes only when the two tasks that created them *)
(* were under way at the same time.                                          *)
DuplicatesOverlapped ==
  \A n, o \in nodes :
    n # o /\ n.label = o.label /\ n.name = o.name => {n.by, o.by} \in overlapped

(* All that extract_entities may return for a memory, in any attempt.        *)
Extracted(m) ==
  UNION {Range(MergeEntities(m, k, answer)) :
           k \in 0 .. Len(Spacy[m]), answer \in {a \in Answer[m] \cup {<<>>} : ~MergeRaises(a)}}

(* An entity and its relationships are one transaction (tasks.py:115): what  *)
(* describes a memory is an entity that some extraction of it returned, and  *)
(* with it came all the relationships that it was returned with, although    *)
(* attempts raise in between and a retry may get another list.               *)
EntitiesComeWhole ==
  \A edge \in describes : \E e \in Extracted(edge[2]) :
    /\ e.name = edge[1].name /\ e.label = edge[1].label
    /\ \A t \in Targets(e) : \E link \in links : link[1].name = e.name /\ link[2].name = t

(* Every entity task comes to an end: written, given up after three retries, *)
(* or lost with its worker.                                                  *)
JobsEnd == \A j \in Job : <>Ended(j)

=============================================================================
