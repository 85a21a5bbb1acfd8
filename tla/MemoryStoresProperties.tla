----------------------- MODULE MemoryStoresProperties -----------------------
(* What the write path guarantees, and what the docs say of a memory. *)
EXTENDS MemoryStores

Request == [contents : SUBSET Content, type : AgentType \cup {"none", "identity"},
            meta : SUBSET MetaKey, mark : Mark \cup {"absent"}, chunk : Nat,
            settled : SUBSET DOMAIN chunks]
IsTable(f, rows) == DOMAIN f \subseteq Content /\ f \in [DOMAIN f -> rows]

PostgresOK ==
  /\ IsTable(memories, Row)
  /\ chunks \in Seq(Content)

IndexOK ==
  /\ points \subseteq DOMAIN chunks
  /\ hidden \subseteq points
  /\ IsTable(graph, DOMAIN chunks)
  /\ describes \subseteq Entity \X Content

QueueOK ==
  /\ DOMAIN queue \subseteq DOMAIN chunks
  /\ queue \in [DOMAIN queue -> [stage : Stage, retries : 0 .. MaxRetries, revoked : BOOLEAN]]

CallersOK ==
  /\ op \in [Caller -> {"none", "store", "forget", "patch"}]
  /\ pc \in [Caller -> {"idle", "embed", "dispatch", "commit", "points"}]
  /\ request \in [Caller -> Request]
  /\ DOMAIN seen = Caller
  /\ \A r \in Caller :
       /\ IsTable(seen[r], Row)
       /\ op[r] = "store" => request[r].type # "none"
       /\ At(r, "store", "dispatch") => request[r].chunk \in DOMAIN chunks
       /\ pc[r] = "commit" => request[r].contents \subseteq DOMAIN seen[r]

CountersOK ==
  /\ forgotten \subseteq DOMAIN chunks
  /\ fails \in 0 .. MaxFails
  /\ crashes \in 0 .. MaxCrashes

TypeOK == PostgresOK /\ IndexOK /\ QueueOK /\ CallersOK /\ CountersOK

(* The stores refer to each other only downwards, whatever fails: a point   *)
(* of Qdrant is of a chunk whose memory exists, so every hit of a search has *)
(* a row to be read (memory.py:201-207); a MemoryChunk node names a point that   *)
(* exists, so the graph resolves its vectors by itself (neo4j.md:165); an   *)
(* entity describes a node that has one (tasks.py:93).                      *)
PointsAreOfMemories ==
  \A q \in Retrieved(FALSE) : q \in DOMAIN chunks /\ chunks[q] \in DOMAIN memories

NodesHavePoints == \A c \in DOMAIN graph : graph[c] \in points /\ chunks[graph[c]] = c

EdgesHaveNodes == \A edge \in describes : edge[2] \in DOMAIN graph

StoresNest == PointsAreOfMemories /\ NodesHavePoints /\ EdgesHaveNodes

(* A memory and its first chunk are committed together, although the        *)
(* embedding is awaited between the two inserts (memory.py:65-91).          *)
MemoriesHaveChunks == DOMAIN memories = Range(chunks)

(* Why the stores nest: a chain only gets to a stage when the stage before  *)
(* it has written.                                                          *)
ChainsAreInOrder ==
  \A q \in DOMAIN queue :
    /\ queue[q].stage # "qdrant" => q \in points
    /\ queue[q].stage = "entities" => chunks[q] \in DOMAIN graph

StoresInvariant == TypeOK /\ MemoriesHaveChunks /\ StoresNest /\ ChainsAreInOrder

(* Rows are never lost, and what an upsert, a forget or a PATCH takes away   *)
(* from one it takes for a reason: metadata goes in a commit that overwrites *)
(* the column with what was read before another write (memory.py:448, 356), *)
(* a mark in one that does, or that a caller asked for (memory.py:65, 356).  *)
Overwrites(r, c) ==
  /\ pc[r] = "commit" /\ pc'[r] # "commit"
  /\ c \in request[r].contents
  /\ seen[r][c] # memories[c]

Unmarks(r, c) == c \in request[r].contents /\ request[r].mark = "valid" /\ pc'[r] # pc[r]

LosesByOverwriting ==
  \A c \in DOMAIN memories :
    /\ c \in DOMAIN memories'
    /\ \/ memories[c].meta \subseteq memories'[c].meta
       \/ \E r \in Caller : Overwrites(r, c)
    /\ \/ memories[c].revoked => memories'[c].revoked
       \/ \E r \in Caller : Overwrites(r, c) \/ Unmarks(r, c)

OnlyStaleWritesLose == [][LosesByOverwriting]_memories

(* A worker takes up the tasks of every chain. *)
Running ==
  \A q \in 1 .. MaxWrites : WF_vars(q \in DOMAIN queue /\ TaskSucceeds(q))

FairSpec == Spec /\ Running

(* Retries of each task (tasks.py:38, 80): a memory that is dispatched gets  *)
(* into Qdrant and Neo4j, unless a worker or the server dies or more tasks   *)
(* raise than one task may: no chain ends before it has, and none waits for   *)
(* ever.  For each q this is (q \in DOMAIN queue) ~> Indexed(q) \/ Excused, *)
(* for a chunk stays indexed and a bound stays used up.                      *)
Indexed(q) == q \in points /\ chunks[q] \in DOMAIN graph

Excused == fails > MaxRetries \/ crashes > 0

EventuallyIndexed ==
  /\ [][\A q \in DOMAIN queue \ DOMAIN queue' : Indexed(q)' \/ Excused']_queue
  /\ []<>(Excused \/ \A q \in DOMAIN queue : Indexed(q))

-----------------------------------------------------------------------------
(* A forget that begins after a chunk's point is written and its chain is    *)
(* past that stage is final (memory.py:451-465): whatever is in progress     *)
(* with it, once it has answered no retry, other chain of the memory, patch  *)
(* or crash brings the point back to a query that filters.                   *)
ForgetIsFinal == forgotten \cap Retrieved(TRUE) = {}

(* Why: a chain never gets back to a stage; a forget has marked every point  *)
(* of before it began that it is past; a dispatch is of a new chunk.         *)
MarksAreDue ==
  \A r \in Caller : op[r] = "forget" =>
    /\ request[r].settled \subseteq Settled
    /\ \A q \in request[r].settled : chunks[q] \in request[r].contents
    /\ pc[r] = "points" =>
         \A q \in request[r].settled : chunks[q] \in DOMAIN seen[r] \/ q \in hidden

ForgottenAreSettled == forgotten \subseteq Settled \cap hidden

DispatchesAreNew ==
  \A r \in Caller : At(r, "store", "dispatch") =>
    /\ request[r].chunk \notin points \cup DOMAIN queue
    /\ \A g \in Caller \ {r} : At(g, "store", "dispatch") => request[g].chunk # request[r].chunk

ForgetInvariant == MarksAreDue /\ ForgottenAreSettled /\ DispatchesAreNew

(* memory.py:305: identity memories are always injected at session start    *)
(* and never modified by agents.                                            *)
IdentityStays ==
  [][IdentityMemories \cap DOMAIN memories' \subseteq IdentityMemories']_memories

=============================================================================
