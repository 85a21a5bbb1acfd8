---------------------------- MODULE MemoryStores ----------------------------
(***************************************************************************)
(* The write path of a memory and what the owner can do to it afterwards   *)
(* (app/routes/memory.py, app/automation/tasks.py, the upsert_memory SQL   *)
(* function): a row and a chunk in Postgres, committed together; then a    *)
(* Celery chain that writes the vector to Qdrant, the MemoryChunk node to  *)
(* Neo4j and the entities found in the content.                            *)
(*                                                                         *)
(* Requests are coroutines: they interleave where they await Postgres, the *)
(* embedding service or, after the commit, Redis.  A memory is identified  *)
(* by its fingerprint, the normalized content it was first stored with.  A *)
(* chunk is its position in "chunks"; its id is its Qdrant id.             *)
(***************************************************************************)
EXTENDS Integers, Sequences, FiniteSets, SequencesExt, Functions

CONSTANTS
  Caller,       \* requests in progress at once
  Content,      \* contents that differ after normalization
  MetaKey,      \* metadata keys callers set, other than "revoked"
  Mark,         \* what a caller's metadata may say of "revoked"
  Entity,       \* names the extraction may find
  AgentType,    \* memory types agents and hooks write
  MaxRetries,   \* retries of a task: 3 in tasks.py
  LegacyRoutes, \* does verify_key let a request to /memories/forget in?
  MaxWrites,    \* bound: chunks ever stored
  MaxFails,     \* bound: dispatches and task attempts that raise
  MaxCrashes    \* bound: server and worker crashes

ASSUME ConstantsAssumption ==
  /\ AgentType \subseteq {"standard", "checkpoint", "manual"}
  /\ Mark \subseteq {"absent", "revoked", "valid"}
  /\ LegacyRoutes \in BOOLEAN
  /\ MaxRetries \in Nat
  /\ MaxWrites \in Nat /\ MaxFails \in Nat /\ MaxCrashes \in Nat

VARIABLES
  memories,   \* Postgres: fingerprint -> row
  chunks,     \* Postgres: the contents of the chunk rows, in commit order
  points,     \* Qdrant: chunks that have a point
  hidden,     \* Qdrant: points whose payload says revoked
  graph,      \* Neo4j: content -> the chunk whose point its node refers to
  describes,  \* Neo4j: <<entity, content>> DESCRIBES edges
  queue,      \* Celery: chunk -> the task of its chain that is to run next
  op,         \* what each caller is doing
  pc,         \* and how far it is
  request,    \* the memory it stores or the memories it works on
  seen,       \* the rows it has read
  forgotten,  \* history: chunks /memories/forget has answered for, if their
              \* point was there when it began
  fails,
  crashes

postgres == <<memories, chunks>>
qdrant   == <<points, hidden>>
neo4j    == <<graph, describes>>
callers  == <<op, pc, request, seen>>
history  == <<forgotten>>
faults   == <<fails, crashes>>
vars     == <<postgres, qdrant, neo4j, queue, callers, history, faults>>

-----------------------------------------------------------------------------
Row == [type : AgentType \cup {"identity"}, content : Content,
        meta : SUBSET MetaKey, revoked : BOOLEAN]
Stage == {"qdrant", "neo4j", "entities"}

NoRows == [c \in {} |-> c]
NoRequest == [contents |-> {}, type |-> "none", meta |-> {}, mark |-> "absent",
              chunk |-> 0, settled |-> {}]

At(r, operation, step) == op[r] = operation /\ pc[r] = step
Go(r, operation, step) ==
  /\ op' = [op EXCEPT ![r] = operation]
  /\ pc' = [pc EXCEPT ![r] = step]
Return(r) ==
  /\ Go(r, "none", "idle")
  /\ request' = [request EXCEPT ![r] = NoRequest]
  /\ seen' = [seen EXCEPT ![r] = NoRows]

(* chunks rows of a memory, by the content it was stored with. *)
ChunksOf(c) == {q \in DOMAIN chunks : chunks[q] = c}

(* Chunks whose point Qdrant has and whose chain is past writing it. *)
Settled == {q \in points : q \in DOMAIN queue => queue[q].stage # "qdrant"}

(* The metadata a caller gives is merged into the row's, by || in SQL and   *)
(* by | in Python: "revoked" is a key as any other.                         *)
MergedMark(mark, old) == IF mark = "absent" THEN old ELSE mark = "revoked"

(* An open upsert holds the row lock (or the place in the unique index) of  *)
(* its fingerprint until it commits or is rolled back.                      *)
Locked(c) == \E r \in Caller : At(r, "store", "embed") /\ c \in request[r].contents

Init ==
  /\ memories = NoRows
  /\ chunks = <<>>
  /\ points = {}
  /\ hidden = {}
  /\ graph = NoRows
  /\ describes = {}
  /\ queue = NoRows
  /\ op = [r \in Caller |-> "none"]
  /\ pc = [r \in Caller |-> "idle"]
  /\ request = [r \in Caller |-> NoRequest]
  /\ seen = [r \in Caller |-> NoRows]
  /\ forgotten = {}
  /\ fails = 0
  /\ crashes = 0

-----------------------------------------------------------------------------
(* _upsert_memory, step 1: SELECT upsert_memory(...), in an open            *)
(* transaction.  The row it returns is invisible to others until the commit.*)
Upsert(r, c, type, keys, mark) ==
  /\ pc[r] = "idle"
  /\ ~Locked(c)
  /\ Len(chunks) + Cardinality({g \in Caller : At(g, "store", "embed")}) < MaxWrites
  /\ request' = [request EXCEPT ![r] =
       [NoRequest EXCEPT !.contents = {c}, !.type = type, !.meta = keys, !.mark = mark]]
  /\ Go(r, "store", "embed")
  /\ UNCHANGED <<postgres, qdrant, neo4j, queue, seen, history, faults>>

(* Callers: the remember tool and the hooks write any type but identity,    *)
(* POST /memories/identity writes that one.                                 *)
Remember(r) ==
  \E c \in Content, type \in AgentType \cup {"identity"}, keys \in SUBSET MetaKey,
     mark \in Mark :
    Upsert(r, c, type, keys, mark)

(* The row of a memory that was not known before. *)
NewRow(c, given) ==
  [type |-> given.type, content |-> c, meta |-> given.meta,
   revoked |-> MergedMark(given.mark, FALSE)]

(* Mutant: the row is committed before the embedding is asked for. *)
RowFirst(r) ==
  /\ At(r, "store", "embed")
  /\ memories' = [c \in DOMAIN memories \cup request[r].contents |->
       IF c \in DOMAIN memories THEN memories[c] ELSE NewRow(c, request[r])]
  /\ Return(r)
  /\ UNCHANGED <<chunks, qdrant, neo4j, queue, history, faults>>

(* The embedding service fails: the session closes, nothing was committed. *)
EmbedFails(r) ==
  /\ At(r, "store", "embed")
  /\ Return(r)
  /\ UNCHANGED <<postgres, qdrant, neo4j, queue, history, faults>>

(* Mutant: the new metadata replaces the old. *)
Overwritten(c, given) ==
  IF c \in DOMAIN memories
    THEN [NewRow(c, given) EXCEPT !.content = memories[c].content]
    ELSE NewRow(c, given)

(* What ON CONFLICT (content_fingerprint) DO UPDATE leaves of the old row. *)
Upserted(c, given) ==
  IF c \in DOMAIN memories
    THEN [memories[c] EXCEPT !.type = given.type,
                             !.meta = @ \cup given.meta,
                             !.revoked = MergedMark(given.mark, @)]
    ELSE NewRow(c, given)

(* Steps 2 and 3: the vector has come; row and chunk are committed. *)
CommitWrite(r) ==
  /\ At(r, "store", "embed")
  /\ \E c \in request[r].contents :
       /\ memories' = [x \in DOMAIN memories \cup {c} |->
            IF x = c THEN Upserted(c, request[r]) ELSE memories[x]]
       /\ chunks' = Append(chunks, c)
       /\ request' = [request EXCEPT ![r].chunk = Len(chunks')]
  /\ Go(r, "store", "dispatch")
  /\ UNCHANGED <<qdrant, neo4j, queue, seen, history, faults>>

(* Step 4: the chain goes to Redis, with the payload this caller's metadata *)
(* gives; the caller gets the memory.                                       *)
Dispatch(r) ==
  /\ At(r, "store", "dispatch")
  /\ queue' = [q \in DOMAIN queue \cup {request[r].chunk} |->
       IF q = request[r].chunk
         THEN [stage |-> "qdrant", retries |-> 0, revoked |-> request[r].mark = "revoked"]
         ELSE queue[q]]
  /\ Return(r)
  /\ UNCHANGED <<postgres, qdrant, neo4j, forgotten, faults>>

(* The refresh, the select or Redis raises: committed, never dispatched. *)
DispatchFails(r) ==
  /\ At(r, "store", "dispatch")
  /\ fails < MaxFails
  /\ fails' = fails + 1
  /\ Return(r)
  /\ UNCHANGED <<postgres, qdrant, neo4j, queue, history, crashes>>

-----------------------------------------------------------------------------
(* What the task of a stage writes: all three writes are idempotent upserts *)
(* or MERGEs.  The point is written with its payload, whatever is there.    *)
WritePoint(q) ==
  /\ points' = points \cup {q}
  /\ hidden' = IF queue[q].revoked THEN hidden \cup {q} ELSE hidden \ {q}
  /\ UNCHANGED neo4j

WriteNode(q) ==
  /\ graph' = [c \in DOMAIN graph \cup {chunks[q]} |->
                 IF c = chunks[q] THEN q ELSE graph[c]]
  /\ UNCHANGED <<qdrant, describes>>

(* One transaction per entity: an attempt that raises leaves a part of them. *)
WriteEntities(q) ==
  /\ \E found \in SUBSET Entity :
       describes' = describes \cup (found \X {chunks[q]})
  /\ UNCHANGED <<qdrant, graph>>

Write(q) ==
  CASE queue[q].stage = "qdrant" -> WritePoint(q)
    [] queue[q].stage = "neo4j" -> WriteNode(q)
    [] queue[q].stage = "entities" -> WriteEntities(q)

Drop(q) == queue' = Restrict(queue, DOMAIN queue \ {q})

ToStage(q, stage) == queue' = [queue EXCEPT ![q].stage = stage, ![q].retries = 0]

(* Mutant: the chain extracts the entities before it writes the node. *)
SucceedsSwapped(q) ==
  /\ Write(q)
  /\ CASE queue[q].stage = "qdrant" -> ToStage(q, "entities")
       [] queue[q].stage = "entities" -> ToStage(q, "neo4j")
       [] queue[q].stage = "neo4j" -> Drop(q)
  /\ UNCHANGED <<postgres, callers, history, faults>>

TaskSucceeds(q) ==
  /\ Write(q)
  /\ CASE queue[q].stage = "qdrant" -> ToStage(q, "neo4j")
       [] queue[q].stage = "neo4j" -> ToStage(q, "entities")
       [] queue[q].stage = "entities" -> Drop(q)
  /\ UNCHANGED <<postgres, callers, history, faults>>

(* Mutant: one retry too many. *)
RaisesOnceMore(q) ==
  /\ fails < MaxFails
  /\ fails' = fails + 1
  /\ Write(q) \/ UNCHANGED <<qdrant, neo4j>>
  /\ IF queue[q].retries <= MaxRetries
       THEN queue' = [queue EXCEPT ![q].retries = @ + 1]
       ELSE Drop(q)
  /\ UNCHANGED <<postgres, callers, history, crashes>>

(* Mutant: a retry starts the chain over. *)
RestartsTheChain(q) ==
  /\ fails < MaxFails
  /\ fails' = fails + 1
  /\ Write(q) \/ UNCHANGED <<qdrant, neo4j>>
  /\ IF queue[q].retries < MaxRetries
       THEN queue' = [queue EXCEPT ![q].stage = "qdrant", ![q].retries = @ + 1]
       ELSE Drop(q)
  /\ UNCHANGED <<postgres, callers, history, crashes>>

(* Mutant: the exception is logged and not retried. *)
RaisesForGood(q) ==
  /\ fails < MaxFails
  /\ fails' = fails + 1
  /\ Write(q) \/ UNCHANGED <<qdrant, neo4j>>
  /\ Drop(q)
  /\ UNCHANGED <<postgres, callers, history, crashes>>

(* An attempt raises, before or after its write: retry, three times.  When  *)
(* that is over the chain ends there.                                       *)
TaskRaises(q) ==
  /\ fails < MaxFails
  /\ fails' = fails + 1
  /\ Write(q) \/ UNCHANGED <<qdrant, neo4j>>
  /\ IF queue[q].retries < MaxRetries
       THEN queue' = [queue EXCEPT ![q].retries = @ + 1]
       ELSE Drop(q)
  /\ UNCHANGED <<postgres, callers, history, crashes>>

(* Tasks are acknowledged when they start: the one a worker dies in, before *)
(* or after its write, does not run again, nor does the rest of its chain.  *)
WorkerCrash(q) ==
  /\ crashes < MaxCrashes
  /\ crashes' = crashes + 1
  /\ Write(q) \/ UNCHANGED <<qdrant, neo4j>>
  /\ Drop(q)
  /\ UNCHANGED <<postgres, callers, history, fails>>

-----------------------------------------------------------------------------
(* POST /memories/forget, of the memories it was given or found in Qdrant.  *)
(* Step 2a: SELECT, without a lock.                                         *)
ForgetRead(r) ==
  /\ LegacyRoutes
  /\ pc[r] = "idle"
  /\ \E cs \in SUBSET DOMAIN memories \ {{}} :
       /\ request' = [request EXCEPT ![r] =
            [NoRequest EXCEPT !.contents = cs,
                              !.settled = {q \in Settled : chunks[q] \in cs}]]
       /\ seen' = [seen EXCEPT ![r] = Restrict(memories, cs)]
  /\ Go(r, "forget", "commit")
  /\ UNCHANGED <<postgres, qdrant, neo4j, queue, history, faults>>

(* Step 2b: UPDATE of the metadata, as read before, plus revoked; the ORM   *)
(* leaves out a row that was revoked already when it was read.              *)
ForgetCommit(r) ==
  /\ At(r, "forget", "commit")
  /\ \A c \in request[r].contents : ~Locked(c)
  /\ memories' = [c \in DOMAIN memories |->
       IF c \in request[r].contents /\ ~seen[r][c].revoked
         THEN [memories[c] EXCEPT !.meta = seen[r][c].meta, !.revoked = TRUE]
         ELSE memories[c]]
  /\ Go(r, "forget", "points")
  /\ UNCHANGED <<chunks, qdrant, neo4j, queue, request, seen, history, faults>>

(* Step 3, per memory: its chunk is looked up and its point, if there is    *)
(* one by now, is marked.                                                   *)
ForgetPoint(r) ==
  /\ At(r, "forget", "points")
  /\ \E c \in DOMAIN seen[r], q \in DOMAIN chunks :
       /\ ChunksOf(c) = {q}
       /\ hidden' = hidden \cup ({q} \cap points)
       /\ seen' = [seen EXCEPT ![r] = Restrict(@, DOMAIN @ \ {c})]
  /\ UNCHANGED <<postgres, points, neo4j, queue, op, pc, request, history, faults>>

(* scalar_one_or_none() raises MultipleResultsFound on a second chunk. *)
ForgetRaises(r) ==
  /\ At(r, "forget", "points")
  /\ \E c \in DOMAIN seen[r] : Cardinality(ChunksOf(c)) > 1
  /\ Return(r)
  /\ UNCHANGED <<postgres, qdrant, neo4j, queue, history, faults>>

ForgetAnswer(r) ==
  /\ At(r, "forget", "points")
  /\ seen[r] = NoRows
  /\ forgotten' = forgotten \cup request[r].settled
  /\ Return(r)
  /\ UNCHANGED <<postgres, qdrant, neo4j, queue, faults>>

-----------------------------------------------------------------------------
(* PATCH /memories/identity/{id}: SELECT, then UPDATE of the columns whose  *)
(* value is not the one read; "metadata" is one column, merged with what    *)
(* was read.                                                                *)
PatchRead(r) ==
  /\ pc[r] = "idle"
  /\ \E c \in DOMAIN memories, keys \in SUBSET MetaKey, mark \in Mark :
       /\ memories[c].type = "identity"
       /\ request' = [request EXCEPT ![r] =
            [NoRequest EXCEPT !.contents = {c}, !.meta = keys, !.mark = mark]]
       /\ seen' = [seen EXCEPT ![r] = Restrict(memories, {c})]
  /\ Go(r, "patch", "commit")
  /\ UNCHANGED <<postgres, qdrant, neo4j, queue, history, faults>>

(* The column stays out of the UPDATE if the merge left it as it was read:  *)
(* keys that were there already may have got another value, or the same.    *)
Patched(r, c, text) ==
  LET old == seen[r][c]
      row == [memories[c] EXCEPT !.content = IF text = old.content THEN @ ELSE text]
      merged == [old EXCEPT !.meta = @ \cup request[r].meta,
                            !.revoked = MergedMark(request[r].mark, @)]
      given == request[r].meta # {} \/ request[r].mark # "absent"
  IN  (IF merged = old THEN {row} ELSE {}) \cup
      (IF given THEN {[row EXCEPT !.meta = merged.meta, !.revoked = merged.revoked]} ELSE {})

(* The request ends in an error: after the commit MemoryOut cannot be made  *)
(* of the row (its metadata is not the ORM's attribute of that name).       *)
PatchCommit(r) ==
  /\ At(r, "patch", "commit")
  /\ \E c \in request[r].contents, text \in Content :
       /\ ~Locked(c)
       /\ \E row \in Patched(r, c, text) : memories' = [memories EXCEPT ![c] = row]
  /\ Return(r)
  /\ UNCHANGED <<chunks, qdrant, neo4j, queue, history, faults>>

(* DELETE /memories/identity/{id}: the ORM first sets memory_id of the      *)
(* memory's chunks to NULL, which the column forbids; only a memory without *)
(* chunks goes away.                                                        *)
DeleteIdentity(r) ==
  /\ pc[r] = "idle"
  /\ \E c \in DOMAIN memories :
       /\ memories[c].type = "identity"
       /\ ~Locked(c)
       /\ memories' = IF ChunksOf(c) = {} THEN Restrict(memories, DOMAIN memories \ {c})
                                          ELSE memories
  /\ UNCHANGED <<chunks, qdrant, neo4j, queue, callers, forgotten, faults>>

-----------------------------------------------------------------------------
(* What the queries return.  The routes then make MemoryOut of every row    *)
(* they have found, and that raises (schemas.py:133 reads "metadata", which *)
(* on the ORM's class is not the column): no row of these gets out.         *)

(* POST /memories/search and /memories/context: the points Qdrant may       *)
(* answer with, whatever its ranking.  A search as of a date and a context  *)
(* with a session filter by the payload's revoked, others do not.           *)
Retrieved(filtered) == points \ (IF filtered THEN hidden ELSE {})

(* POST /memories/context, step 1. *)
IdentityMemories == {c \in DOMAIN memories : memories[c].type = "identity"}

-----------------------------------------------------------------------------
(* The server process dies: open transactions are rolled back. *)
ServerCrash ==
  /\ \E r \in Caller : pc[r] # "idle"
  /\ crashes < MaxCrashes
  /\ crashes' = crashes + 1
  /\ op' = [r \in Caller |-> "none"]
  /\ pc' = [r \in Caller |-> "idle"]
  /\ request' = [r \in Caller |-> NoRequest]
  /\ seen' = [r \in Caller |-> NoRows]
  /\ UNCHANGED <<postgres, qdrant, neo4j, queue, history, fails>>

Next ==
  \/ \E r \in Caller :
       \/ Remember(r) \/ EmbedFails(r) \/ CommitWrite(r)
       \/ Dispatch(r) \/ DispatchFails(r)
       \/ ForgetRead(r) \/ ForgetCommit(r) \/ ForgetPoint(r)
       \/ ForgetRaises(r) \/ ForgetAnswer(r)
       \/ PatchRead(r) \/ PatchCommit(r)
       \/ DeleteIdentity(r)
  \/ \E q \in DOMAIN queue : TaskSucceeds(q) \/ TaskRaises(q) \/ WorkerCrash(q)
  \/ ServerCrash

Spec == Init /\ [][Next]_vars

=============================================================================
