# Verification of Logios Brain

TLA+ models of [Logios Brain](../src/README.md), the memory server that agents
share, with TLC runs on small instances and TLAPS proofs for every instance.
`PROJECT.json` lists runs, mutants, the source lines of every definition,
findings, hazards and theorems; this file explains them.

## The system

One FastAPI process (a single uvicorn worker, `Dockerfile:23`), one or more
Celery workers, four stores, and a client library that runs inside each agent.

| Component | State | Operations | Modelled in |
| --- | --- | --- | --- |
| Server hooks API (`app/routes/hooks.py`) | Redis: `hooks:trigger`, `hooks:buffer:*`, `hooks:last` of each (session, agent); checkpoint memories in Postgres | register a trigger, buffer a tool call, check, flush, force a snapshot | `HookBuffer` |
| Memory write path (`app/routes/memory.py`, `app/automation/tasks.py`, `sql/006`) | Postgres `memories` and `chunks`, Qdrant points, Neo4j `MemoryChunk` nodes and entities, the Celery queue | remember, search, context, create / patch / delete / list identity memories, forget, three chained tasks | `MemoryStores` |
| Owner and tokens (`app/routes/auth.py`, `app/auth/`) | Postgres `owner` and `agent_tokens`; JWTs, kept by nobody but their holders | setup, verify, login, refresh, create and revoke agent tokens, agent login | `OwnerAuth` |
| Client working memory (`app/hooks/`) | Redis `working:<session>:*`; an index, forget patterns and a trigger in the agent's process | buffer, forget, annotate, flush, snapshot, mark_fired | `WorkingMemory` |
| Hermes provider (`app/integrations/hermes.py`) | a turn counter and a prefetch cache, on top of a working memory; recall threads | initialize, on_turn_start, prefetch, sync_turn, queue_prefetch, on_session_end, shutdown | `HermesProvider` |
| Claude adapter (`app/integrations/claude_agent_sdk.py`) | a turn counter on top of a working memory | buffer_tool_call | `ClaudeAgent` |
| Fact graph (`app/routes/graph.py`, `app/db/neo4j/transactions.py`) | Neo4j `Fact` nodes and their edges | assert a fact, get the latest fact, traverse from an entity | not modelled: see the divergences for what its reads do |
| Skills and evidence (`app/routes/skills.py`, `app/db/neo4j/evidence.py`) | Postgres `skills`, `generations`, `evidence`; Neo4j evidence paths | run a skill, record a generation and its evidence | `EvidenceRecord` |
| Entity extraction (`app/genai/entity_*.py`, the last task of a chain) | Neo4j entity nodes, `DESCRIBES` and relationship edges | preflight, extract, merge, write | `EntityGraph` |
| Embeddings, other integrations, MCP wrapper, digest, health, telemetry, email, scripts | none or external | | not modelled, see `components` |

How they interact: the hooks API writes its checkpoints through the same
`_upsert_memory` as the remember tool and the identity routes, inside the
request, and swallows its exceptions. `_upsert_memory` commits to Postgres and
hands a chain of three tasks to Celery over Redis: Qdrant, then the
`MemoryChunk` node, then the entities. Forget writes Postgres and Qdrant
directly, beside the chain. The client's working memory keeps its own buffer in
Redis, under other keys than the hooks API, and posts its checkpoints to
`/memories/remember`. The Hermes provider recalls through `/memories/context`.
Evidence links generations to the memories a search returned.

### What is hard in it

- *Threads and the event loop.* `def` endpoints (buffer, flush, trigger) run on
  a thread pool and interleave at every Redis command; `async def` endpoints
  (check, snapshot) call the synchronous Redis client, so between two awaits
  they own the loop. Their one await is the upsert, with the buffer read before
  it and deleted after it, or deleted before it.
- *Multi-command updates of Redis* without a transaction: an index computed
  from a `KEYS` count, read-and-delete loops, on the server and in the client.
- *Three stores, one chain*: tasks retry three times, are acknowledged when
  they start, and race with forget.
- *Read-modify-write* of the JSON metadata column by forget and PATCH, and
  check-then-insert of the owner, with an await in between.
- *Time*: tokens that nobody stores expire, and a revocation is only complete
  when they have; a trigger counts from "now" if no snapshot was ever taken.
- *Two stores without a common transaction*: a generation and its evidence are
  three commits in Postgres and six transactions in Neo4j, beside the chain that
  writes the same `MemoryChunk` nodes.
- *Shared names without a constraint*: entity tasks of several workers MERGE the
  same names, a transaction per entity, and each attempt of a task asks the
  language model again, which may answer something else, or nothing usable.
- *Threads without a join*: a recall ends whenever its answer comes and
  overwrites the cache of whatever turn it then is.

`PROJECT.json` "hazards" has each of these at its line.

### What makes each component correct

- Hooks: a buffered call is in exactly one place or has been handed out;
  snapshots and flushes take all that waits, in order; a check clears nothing
  before its write was decided; every request ends.
- Memory: a row is never without a chunk; the stores refer only downwards;
  a dispatched memory gets indexed; marks and metadata are lost to stale writes
  only; a forget that comes after the Qdrant write is final.
- Auth: one owner, as long as verifications do not overlap; every token names a stored owner or agent; a revoked agent is
  locked out in the end, and for good.
- Client working memory: what a snapshot sends was buffered and not forgotten,
  and is sent once; without a fault no turn disappears; the trigger keeps the
  buffer short; an answer is injected into one turn at most.
- Entities: a known tool a memory mentions describes it, and as a tool, whatever
  the model answered in whichever attempt; a second node of a label and name
  takes two overlapping tasks; an entity comes with all its relationships;
  every task ends.
- Evidence: a generation's rows and its graph path agree; a record whose handler
  came to its end is complete in both stores; evidence never undoes what a
  memory's chain has written.

## Modules

| Module | Contents |
| --- | --- |
| `ToolCallLedger` | abstract specification: tool calls wait in order, a batch takes all of them in one step |
| `HookBuffer` | the five hooks endpoints, one action per Redis command or await, with failures; type invariant |
| `HookBufferProperties` | safety and liveness properties of it, and what a comment claims |
| `HookBufferPhased` | a client that buffers one call at a time; the inductive invariant |
| `HookBufferLedger` | refinement mapping `HookBuffer` -> `ToolCallLedger` |
| `HookBufferProofs`, `HookBufferPhasedProofs`, `HookBufferLedgerProofs` | theorems |
| `MCHookBuffer` | instances |
| `MemoryStores` | the write path, the chain, forget, identity memories |
| `MemoryStoresProperties` | type invariant, properties, inductive invariants, what a doc claims |
| `MemoryStoresProofs` | theorems |
| `MCMemoryStores` | constants of the instances |
| `OwnerAuth`, `OwnerAuthProperties`, `OwnerAuthProofs` | the owner account and tokens, their properties, theorems |
| `WorkingMemory` | state and operations of the client's buffer and trigger, for the two modules below |
| `HermesProvider`, `HermesProviderProperties`, `HermesProviderProofs` | Hermes' turns, recalls and sessions over a working memory, properties, theorems |
| `ClaudeAgent` | an agent that buffers, annotates and forgets over a working memory |
| `EvidenceRecord`, `EvidenceRecordProperties`, `EvidenceRecordProofs` | skills, generations and their evidence in Postgres and Neo4j, properties, theorems |
| `EntityGraph`, `EntityGraphProperties`, `EntityGraphProofs` | extraction and the entity task on several workers; properties, theorems |
| `MCEntityGraph` | two memories that share a name |

### HookBuffer and the code

One instance is one (session, agent) pair whose ids hold neither `:` nor `*`, so
that its keys and its `KEYS` patterns match no other pair's.
`buffer` maps the index in `hooks:buffer:<session>:<agent>:<index>` to an entry,
`last` is the JSON of `hooks:last` with the age of its time stamp in minutes,
`trigger` the registered rule. A handler's frame is `op`, `pc`, `keys` (what its
`KEYS` returned), `todo` (keys its loop has still to visit) and `held` (the
entries it was sent or has read). `loop` is the async handler that runs at the
moment. `accepted`, `flushed` and `unsaved` are history: what buffer calls
stored, what flushes answered, what failed snapshots held.

| Code | Action |
| --- | --- |
| `buffer_entry` | `BufferList` (KEYS), `BufferSet` (SET) |
| `check_trigger` up to KEYS / GET loop / await / after / DEL loop / SET last | `CheckList`, `CheckRead`, `Await`, `SaveCommit` or `SaveFail`, `Resume`, `CheckClear`, `Finish` |
| its `UUID(...)` that raises | `BadSession` |
| `flush_buffer` | `FlushList`, `TakeGet`, `TakeDel`, `FlushReply` |
| `force_snapshot` | `ForceList`, `TakeGet`, `TakeDel`, then as check |
| a Redis exception; a crash | `RedisError`, `Crash` |

A check that does not fire changes nothing and is left out. The annotation key
and the trigger's forget patterns are read but never written by any code, so
they have no effect to model.

### MemoryStores and the code

A memory is identified by its fingerprint, that is by the normalized content it
was first stored with; its row's `content` can differ later (PATCH). A chunk is
its position in `chunks`, the commit order. `graph[c]` is the chunk whose Qdrant
id the `MemoryChunk` node of memory `c` holds. `queue[q]` is the task of chunk
`q`'s chain that is next, with the retries it has used. `seen` holds the rows a
forget or PATCH has read. A metadata object is its set of keys, with "revoked"
apart: `Mark` is what callers' metadata may say of that key, `revoked` what a row
or a queued payload says.

| Code | Action |
| --- | --- |
| `_upsert_memory`: SELECT upsert_memory / await embed / commit / chain.delay | `Upsert` (via `Remember`), `EmbedFails`, `CommitWrite`, `Dispatch`, `DispatchFails` |
| the tasks | `TaskSucceeds`, `TaskRaises`, `WorkerCrash` with `WritePoint`, `WriteNode`, `WriteEntities` |
| `forget_memories` | `ForgetRead`, `ForgetCommit`, `ForgetPoint` per row, `ForgetRaises`, `ForgetAnswer` |
| `update_identity_route` | `PatchRead`, `PatchCommit` |
| `delete_identity_route` | `DeleteIdentity` |
| the queries of `_search_memories` and `context_route`, which only read | the operators `Retrieved`, `IdentityMemories` |

`Locked` stands for Postgres: an upsert keeps its row locked while the embedding
is awaited. What search and context would answer is not modelled: they raise on
every row they find (see the divergences), as `PatchCommit` does after its commit.
`forgotten` is history, and so is `settled` of a forget's request: the chunks of its
memories whose point was written, by a chain that had moved on, when the forget
began. At this commit `verify_key` refuses every request to the routes that depend on
it (`dependencies.py:22`), forget among them; the constant `LegacyRoutes` says whether
a run lets them in. With it FALSE the model is the server as it stands, with it TRUE
the handlers as they are written, all of whose behaviours without a forget it has too.

### OwnerAuth and the code

A handler is split at its SELECT and its COMMIT, the places where it awaits;
`pc`, `cred`, `found`, `agent` and `row` are its locals. `owners` is the table in
the order of ids, `agents` the row of each raw token the server may generate.
JWTs are kept by nobody: `setups` and `jwts` are those in circulation, each with
the ticks that remain until its `exp`, and `Tick` takes away what is over.
Requests refused before their first await change nothing and are left out.

| Code | Action |
| --- | --- |
| `setup_owner` | `SetupRead`, `SetupAnswer` |
| `verify_setup` with the right OTP | `VerifyRead`, `VerifyCommit` |
| `login` | `LoginRead`, `LoginAnswer` |
| `refresh_token` | `Refresh` |
| `agent_token_login` | `AgentRead`, `AgentStamp`, `AgentIssue` |
| `AuthMiddleware`, `require_owner` | `Admit` |
| `create_agent_token`, `revoke_token`, `list_tokens` and `get_me` | `CreateToken`, `RevokeRead` with `RevokeCommit`, `OnlyRead` |
| the passing of time; a restart | `Tick`, `Crash` |

`overlapped` is history: whether two verifications were ever in progress at once.

### WorkingMemory, its two users and the code

`buffer` maps the index in `working:<session>:tool:<index>` to an entry, `note`
says whether the annotation's key is there: both are in Redis and outlive the
process. `index`, `patterns`, `turn` and `last` are attributes and do not.
`pc`, `todo` and `held` are a snapshot in progress, `sent` the checkpoints the
server has stored. `calls`, `dropped` and `stranded` are history. Wording of
the checkpoint and embeddings are left out, and so are the modes of the trigger
that no integration uses.

| Code | Action |
| --- | --- |
| `WorkingMemory.buffer`, `should_fire` | `Buffer` |
| `flush`: KEYS, GET and DEL of each key in any order, filters | `FlushList`, `FlushKey`, `FlushNote`, `FlushEnd` |
| `_get_and_clear_annotation` | `TakeNote` |
| the POST and `mark_fired` | `Post`, `PostFails` |
| `annotate`, `forget` | `Annotate`, `Forget` |
| Hermes: `initialize`, `on_turn_start`, `prefetch`, `sync_turn`, `queue_prefetch`, its thread, `on_session_end`, `shutdown` | `Initialize`, `TurnStart`, `PrefetchRead` with `PrefetchClear` or `PrefetchBlocking`, `SyncTurn` or `SyncFails`, `QueuePrefetch`, `Recalled`, `SessionEnd` with `SessionEnded`, `Shutdown` with `ShutDown` |
| Claude adapter: `buffer_tool_call`, a new process | `ToolCall`, `Restart` |

Hermes itself is not in the repository. The model takes its life cycle from
`hermes.py:65-74` and `docs/integrations.md:103-114`: it calls the provider from one
thread, turn by turn in the order above; it is taken to number turns from 1 and to
go on if a call raises. A recall is its
number, so that answers can be told apart; one that fails caches the empty text,
0. A session that is initialized is a new one, whose keys are others (what is
left in Redis moves to `stranded`), or the same one again (`resumed`). At this
commit the server refuses `/memories/remember` (see `LegacyRoutes`), so every
`Post` is a `PostFails`; the model has both.

### EvidenceRecord and the code

A manifest is the set of memories and the set of edge types its items name; its
rows are pairs of a generation, numbered in commit order, and a memory. `nodes`
are the `MemoryChunk` nodes under the ids of memories: "blank" has only its id,
"full" is what `write_memory_chunk` sets. A path has the memories it uses, the
edge types it follows, how many steps it has and whether its output is linked.

| Code | Action |
| --- | --- |
| `_get_or_create_skill`: SELECT, INSERT | `SelectSkill`, `CreateSkill` |
| `_record_generation`: first and second commit | `CommitGeneration`, `CommitEvidence` |
| `create_evidence_path`, `add_evidence_step`, `link_evidence_to_output` | `WritePath`, `WriteStep`, `LinkOutput` |
| the answer, which raises (see the divergences) | `AnswerRaises` |
| a command that raises, before or after it took effect; a restart | `Raise`, `Crash` |
| a memory that is stored; its chain in the Celery worker | `StoreMemory`, `WriteNode` |

The Neo4j driver is synchronous: from its first transaction to its answer a
handler keeps the event loop (`LoopIsFree`). Commits of other requests that
Postgres executes meanwhile are allowed, although their coroutines could only
notice them later. The model has the handlers as they are written; at this
commit `verify_key` refuses `/skills/record`, and only the MCP tool `run_skill`
gets to `_get_or_create_skill`. `/skills/run` and receipts only read.

### EntityGraph and the code

A job is the entity task of one stored memory; a memory that is stored again has
a second one. `nodes` are the committed entity nodes: label, name and, as history,
the job that created them, so that two nodes of one label and name can be told
apart; a MERGE of a bare name makes one without a label. `describes` and `links`
are the edges. `state` and `tries` are Celery's; `todo`, `targets` and `staged` are
the locals of a task and its open transaction. `overlapped` (which jobs were under
way together) is history. What spaCy, the alias scan and the model find in a text are constants, `Spacy`, `Scan` and
`Answer`; which of the model's answers comes, whether spaCy raises halfway and
whether the model answers at all is chosen anew in each attempt.

| Code | Definition |
| --- | --- |
| `preflight_extract`, `merge_entities` | `Preflight`, `Tools`, `Kept`, `FirstOfName`, `MergeEntities` |
| `extract_entities`: an answer, or none that parses; a null name | `Extract`; `ExtractRaises` |
| `task_extract_entities`: labelled MERGE / each relationship / commit / end | `MergeEntity`, `MergeLink`, `CommitEntity`, `Finish` |
| its `except` with `self.retry` | `Raise`, `Retry` |
| a worker that dies | `Die` |

Neo4j reads what is committed when a statement runs. No index or constraint of
`client.py` makes names unique, so a MERGE is a look and a creation. An attempt
that fails leaves its open transaction rolled back, or committed with the answer
lost (`Abandoned`).

`EntityAssumption` says of the three extractors what their code does: spaCy's
entities have a text and carry its source, the scan finds names of the alias table,
the model's entities carry its source and may be blank or null.

## Runs

Passing runs are complete searches; the bounds are constants named in the cfg
(`MaxCrashes`, `MaxSaveFails`, `MaxAge`, `MaxWrites`, `MaxFails`, `MaxCalls`,
`MaxFaults`, `MaxRecalls`, `MaxGenerations`).

| Run | Shows | Bounds, and why they are enough |
| --- | --- | --- |
| `HookBufferSerial` | `HookBuffer` with one request at a time implements `ToolCallLedger`, in every mode of the trigger, with session ids that are no UUID | the entries outnumber a batch, so batches of every size and re-used indices occur |
| `HookBufferPhased` | nothing is lost by a client that does not overlap its buffer calls; `PhasedInvariant` | two takers overlap over several entries: each order of reads, deletes and the await |
| `HookBufferOverlap` | types; one loop owner; a check's writes are decided before its clears; every request is answered | two handlers of any kind, an upsert that fails, Redis errors and a crash |
| `MemoryStores` | types, stores nest, rows have chunks, a dispatched memory gets into Qdrant and Neo4j; a forget that begins after a point was written is final; a row loses metadata or its mark only to a write of what was read before another's, or to a caller who says so | any two requests on one content overlap at every await, before and during its chain, two chunks of one memory, a caller who takes the mark back; a task is retried once (`MaxRetries`, three times in tasks.py:38 and 80), so that two raises are one too many; one crash. Races are about one row and the theorems are for any number of contents, keys and retries. Every write is of an identity memory, which PATCH and delete take; agents' types only matter to `MemoryStoresDemoted` |
| `OwnerAuth` | one owner unless verifications overlapped, tokens that name their holder, revoked agents locked out in the end and for good | two requests at a time cover each race of the table between a SELECT and a COMMIT; setups and access tokens live one tick, refresh tokens two, as they live longer in the code |
| `HermesProvider` | a turn is in one checkpoint at most and, without a fault, in one place; the buffer stays short; a recalled answer is used once | four turns with a threshold of two reach a second snapshot; two recalls overlap; one fault at each place a command or request can fail |
| `EntityGraph` | tools describe their memories and as tools; a duplicate takes overlapping tasks; an entity comes with all the relationships of its list; every task ends | two memories share two names; the model's answers collide with the preflight, name entities blank or null and point to names that do not exist; two failures at any place, and null answers up to the last retry |
| `EvidenceRecord` | paths agree with rows, a record whose handler came to its end is complete, evidence and a memory's chain never undo each other; a committed receipt gets its trace | two records of one memory overlap at every commit, before and after it is stored and indexed; a failure between any two writes |

Runs that expect a violation show where the code does not do what its comments
or docs say; `PROJECT.json` "findings" quotes each text.

| Run | Shows |
| --- | --- |
| `HookBufferRace` | two requests of one session that overlap lose a tool call |
| `HookBufferFailedSnapshot` | a snapshot whose upsert failed clears the buffer |
| `MemoryStoresDemoted` | an agent that stores the text of an identity memory changes its type |
| `ClaudeAgentAnnotation` | an annotation makes the next snapshot raise, halfway through the buffer |

Symmetry is declared in one run, `HookBufferPhased`, that checks no liveness, over a
set whose members the specification treats alike.
`CHECK_DEADLOCK FALSE` stands where a run's bounds let everything come to rest
(all writes or calls used up).

### Fairness

- `HookBuffer!Fairness`: a handler that was started is run to its end (threads of
  the pool and coroutines are scheduled), hence weak fairness of its next step;
  `Resume` gets strong fairness because asyncio's ready queue is first in, first
  out and other requests may take the loop in between. Starting requests, failing
  and crashing are never fair.
- `MemoryStoresProperties!Running`, in `FairSpec`: a worker takes up the
  task of a chain.
- `EntityGraph!FairSpec`: each worker goes on with its task or takes one.
  `docker-compose.yml` starts no Celery worker; both fairness conditions are for
  a deployment in which one runs.
- `OwnerAuth!FairSpec`: coroutines that were started are resumed, and time passes.
- `EvidenceRecord!FairSpec`: a request goes on; `WritePath`, which waits for the
  loop, gets strong fairness for the same reason as `Resume`.
- The client modules claim no liveness and state no fairness.

## Proofs

Every leaf is checked by Z3, Zenon or LS4; there is no assumption besides the
`ConstantsAssumption` of each module.

- `HookBufferProofs`: `TypeCorrect` (`TypeOK` is inductive), `LoopIsExclusive`
  (inductive with `TypeOK`: the loop is given away exactly by the steps that stop
  running), `WriteIsDecidedFirst` (`held` changes only before the write).
- `HookBufferPhasedProofs`: `PhasedDrains` and, from it,
  `PhasedAgentLosesNothing`. `NothingLost` is not inductive: a SET could overwrite
  an entry, a DEL delete one nobody has read.
  `DrainInvariant` says why they do not: the buffer's keys are always among those
  every taker has still to delete (`FrameOK`), so when none is at work the indices
  are 0 .. n-1 (`IndicesDense`) and the count a buffer call has read is a free
  index (`IndexIsFree`). The theorem is for runs without a crash or Redis error so
  far: after one a half-emptied buffer leaves a gap and the next index is in use.
- `HookBufferLedgerProofs`: `HandlersImplementLedger`, the refinement of
  `ToolCallLedger` for one handler that does not crash. `SerialInvariant` has the
  books (`InOrder`: what was taken is a first part of what was accepted) and, for
  each place of the request, how far it is (`Progress`): the keys from k on hold the
  waiting entries in arrival order and what was read are the first of them. `k` is 0
  for a check, which deletes after the write, and follows the reads of a flush or a
  forced snapshot, which delete at once. Hence the count of keys is the next free
  index (`BufferSetProgress`), the least key is the next entry (`ReadNext`), and a
  request whose keys are used up has read all that waits (`ReadyHasAll`). Each step
  is a `Buffer`, a `Take` or a stutter of the ledger (`SerialStep`). With two
  handlers at once the refinement fails: a flush may take what a check has read. With
  a crash it fails too: what a flush had deleted is in no batch.
- `MemoryStoresProofs`: `TypeCorrect`; `MemoriesKeepChunks`; `StoresAreNested`,
  from `ChainsAreInOrder` (a chain reaches a stage only after the stage before has
  written). `ForgetIsAlwaysFinal`, from `ForgetInvariant`: a chain never gets back
  to a stage and a dispatch is of a chunk no store knows (`DispatchesAreNew`), so a
  settled point stays settled and its mark stays (`SettledSteps`); a forget has
  marked every settled point it is past (`MarksAreDue`), all of them when it
  answers. `WritesLoseOnlyStale` is a property of each step: an upsert merges, a
  forget or PATCH that overwrites what it has read loses nothing.
- `OwnerAuthProofs`: `TypeCorrect`; `AccountIsSingle`: as long as no two
  verifications were in progress together (`Single`), one that found no row is the
  only one, and the table is still empty when it commits;
  `TokensAreBacked`, from the requests that are about to issue (`Backed`: their row
  was there when they read it and rows are never deleted); `LockedOutStays`, a
  property of each step.
- `HermesProviderProofs`: `SentAtMostOnce`. The checkpoints are disjoint because
  every entry is in at most one place at a time, and under one key only
  (`PlaceInvariant`); each step adds a new entry, moves one from Redis to the
  snapshot's hand, delivers the hand, or lets entries vanish. `NoTurnDisappears`:
  the index is beyond every key and a loop visits every key, so that nothing is
  overwritten or reset too early (`AccountInvariant`). `BufferIsShort`: the index is
  at most the turns since the last checkpoint (`Steady`), although two hooks count
  turns. `RecallsAreUsedOnce`: a recall is in progress, or in the cache or about to
  be injected, or used (`RecallPlaces`). `HermesTypes`: only a loop over keys has keys
  to visit (`LoopInvariant`); every turn costs a call or a fault, so the counters that
  a session resets and a restart keeps stay below their bounds (`CounterInvariant`).
- `EvidenceRecordProofs`: `EvidenceTypeCorrect`, `PathsAreAlwaysBacked`,
  `FinishedIsAlwaysTraced`, `NodesAreAlwaysOfMemories` from one `Invariant`: each
  request past its first commit has a generation no other request works on and no
  handler has finished (`OwnGeneration`), whose rows (`OwnRows`) and path (`OwnPath`)
  are those its place in the handler asks for. `NodesAlwaysOnlyFill` is a property
  of each step.
- `EntityGraphProofs`: `EntityTypes`; `ToolsAlwaysDescribe`, `ToolsStayTools` and
  `EntitiesAlwaysComeWhole` from what a task still has to write (`ToWrite`: every tool
  of its memory, no other label for one, only entities of an extraction) and what its
  open transaction holds of the current entity, with the relationships that are left
  (`StagesEntity`); `DuplicatesNeedOverlap`, since a MERGE creates what no committed
  node is like.

Every safety invariant, action property and refinement that a passing run checks is
also a theorem. Only model-checked are the liveness properties (`RequestAnswered`,
`EventuallyIndexed`, `RevokedIsLockedOut`, `TraceFollowsRows`, `JobsEnd`): they need
fairness and ENABLED, which are out of this prover's reach.

Proofs by induction over data are avoided. Where a least element is needed (the first
entity of a name) it comes from the well-foundedness of < on the naturals, as the
library states it for sets (`Least`). That the mapping of the ledger counts what was
taken (`Waiting`) instead of filtering the sequence has the same reason: what
`SelectSeq` returns is a recursion over the sequence. Where entries are taken in
order, which is what the theorem shows, both are the same.

## Divergences met while modelling

Besides the findings, each is plain from the lines named.

- `MemoryOut` and `GenerationOut` read an attribute `metadata` (schemas.py:133 and
  202). On the ORM's classes that is SQLAlchemy's `MetaData`, the column is
  `metadata_` (models.py:46 and 177), so `model_validate` of a row raises: in search
  (memory.py:208), context (251 and 288), list and PATCH of identity memories (329
  and 360, the latter after its commit), recent memories and graph search (graph.py:47
  and 157), the answer of a recorded generation (skills.py:157, after all its writes)
  and its receipt (189). Only `_upsert_memory` builds its answer by hand
  (memory.py:139-149). The models keep every state change of these handlers, end
  their requests in an error, and claim nothing of what they would have answered.
- `force_snapshot` deletes the buffer (hooks.py:352-356) before the write (392);
  its docstring (344-345) has it the other way round.
- Session ids are documented as free text (`docs/connecting-agents.md:165-197`,
  "sess_abc123"); the checkpoint's `UUID(...)` raises on them and nothing is
  written (`BadSession`).
- A time_based trigger never fires before a first snapshot has set the last key
  (hooks.py:208; `memory-system.md:114`).
- Search without `as_of` returns forgotten memories (memory.py:188 and 397), and
  nothing sets `revoked` on a Neo4j node (`neo4j.md:244`).
- Forget marks a Qdrant point while the chain that will upsert it may still be
  queued (memory.py:459, tasks.py:27-36): set_payload then marks nothing, or the
  upsert takes the mark away. `ForgetIsFinal` is claimed of the other order only.
  Storing the content again gives the memory a second point, without the mark; after
  that a forget raises (memory.py:457) halfway.
- "revoked" is a metadata key as any other: a caller who stores or patches with
  "revoked": false takes a forget's mark off the row (`sql/006`:32, memory.py:356) but
  not off the old point, and one who stores with true has a point that is hidden from
  the start (memory.py:105 and 122).
- A chunk whose dispatch failed, or was cut off by a crash, is never looked for: its
  memory stays out of Qdrant and Neo4j unless it is stored again.
- Creating an identity again whose text was patched acknowledges the patched row
  (memory.py:317, `sql/006`:30). Deleting one violates the NOT NULL of its chunk
  (models.py:53, 79-81).
- "Failure in one domain doesn't affect the others" (`neo4j.md:245`): the tasks are a
  chain, the later ones do not run after the earlier has failed.
- Two verifications that overlap add two owner rows (auth.py:119-142,
  models.py:250), and login then raises.
- The client's keys name the session only (working_memory.py:61): two agents of
  one session overwrite and flush each other's entries. A process that takes up a
  session overwrites from index 0 on. `forget("*")` at the end of a Hermes session
  (hermes.py:315, "clear buffer after session end") clears nothing and drops what
  later turns of the same objects buffer. `shutdown` ("flush any remaining buffer on
  exit", hermes.py:73) only flushes what has reached the threshold. Turn numbers
  start at 1 and `sync_turn` adds one, so the first checkpoint comes a turn early.
- Evidence "is all-or-nothing" (`evidence-layer.md:195`): each helper opens and commits
  its own transaction (evidence.py:26, 90, 149), six per record, after Postgres has
  committed twice. A command that raises in between leaves a path with some of its
  steps (`EvidenceRecord`'s `Raise` has it; no run claims the contrary).
- A skill that is not active is not found by name (skills.py:32) and cannot be
  created again, its name is unique (models.py:134).
- The client's `GenerationRecord` has no `skill_id` (hooks/evidence.py:36-47), which
  `/skills/record` requires (schemas.py:97). A `MemoryChunk` made by evidence has no
  `qdrant_id` until its chain has run (`neo4j.md:166`).
- "Optionally links the new Fact to an existing one via REPLACES" (graph.py:225):
  what is written is a DERIVED_FROM to a `MemoryChunk` with the id of the fact
  (transactions.py:171-178). No code writes a REPLACES edge, so `get_latest_fact`
  returns the fact it is asked about, and the graph has `MemoryChunk` nodes of no
  memory, under ids of facts.

- "LLM failure → return preflight results. Neither step can cause a full pipeline
  failure" (`entity-extraction.md:125`): an answer that names an entity null raises
  in the merge, after the attempts' try (entity_preflight.py:174,
  entity_extraction.py:133). The task fails and, if the model keeps to its answer,
  the preflight's entities are lost with it (`ExtractRaises`).
- An entity of the preflight comes with no relationships and wins, so those the
  model gave for the same name are dropped (entity_preflight.py:177). A
  relationship whose target nobody wrote makes a node without a label, and one
  whose name has several nodes ties them all (tasks.py:136-138). Its type is
  checked in upper case and written as it came (entity_extraction.py:119).
- Several nodes may have a name (two labels, or two workers at once); a search
  answers from one of them (graph.py:104). The bound of its pattern,
  `[*1..$depth]` (95), is a parameter where Cypher wants a literal, so the query
  raises; the depth itself is not bounded (schemas.py:80). At this commit
  `verify_key` refuses the route; the MCP tool traverses directly, and raises.
- The facts' `valid_from` is a string that is compared as one
  (transactions.py:222).
- A session id in the context of one OpenClaw command stays for the later ones
  (openclaw.py:89), where it is said to be an override per command (201).
- The digest reads a column `m.metadata_` (tasks.py:184 and 211); the column is
  named `metadata`.

## Plan

1. Done: hooks API, memory write path with forget and patch, owner and tokens,
   client working memory with the Hermes provider, evidence records, their first
   theorems; entity extraction and its graph.
2. Done: theorems about `EntityGraph` and the provider's types; the refinement of the
   ledger.
3. Left: no safety property of a passing run is without its theorem. What could be
   stated and proved next: which indices a half-emptied buffer leaves after a crash
   and what a buffer call may then overwrite (`IndexIsFree` only speaks of the time
   before one), and for which interleavings of two handlers a batch is still a part
   of what waits, in order, where the refinement as it stands fails.
4. Considered and declined: facts, whose versions nothing links, so that the latest
   version of a fact is always the fact itself, and the traversal of the graph, whose
   query raises (see the divergences).
   `HooksOnStores`, the hooks' snapshots over the write path: a snapshot calls
   `_upsert_memory` in one await, of which `SaveCommit` and `SaveFail` already are
   the outcomes, and `MemoryStores` says what becomes of the chain.

## Not modelled

Pure I/O and configuration (email, health, telemetry, scripts, migrations), the
text of checkpoints and entity prompts, ranking of search results, the digest
report. The other integrations keep no state besides OpenClaw's session id: each
of their methods is one request. Four-digit buffer indices sort as strings; the model orders them as
numbers and so says nothing of sessions with 10000 or more calls. A retried
buffer call is a new call to the server; the model sends each entry once.
