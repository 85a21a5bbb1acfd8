------------------------- MODULE MemoryStoresProofs -------------------------
(***************************************************************************)
(* Theorems of MemoryStores, for every set of callers and contents and any *)
(* number of writes, failures and crashes.                                 *)
(***************************************************************************)
EXTENDS MemoryStoresProperties, TLAPS

LEMMA TypeInit == Init => TypeOK
BY ConstantsAssumption DEF Init, TypeOK, PostgresOK, IndexOK, QueueOK, CallersOK,
  CountersOK, IsTable, NoRows, NoRequest, Request, At

(* A request stays one when chunks are added. *)
LEMMA RequestsGrow == ASSUME DOMAIN chunks \subseteq DOMAIN chunks' PROVE Request \subseteq Request'
BY DEF Request

LEMMA SameRequests == ASSUME UNCHANGED chunks PROVE Request' = Request
BY DEF Request

(* What a caller that ends leaves behind is well typed. *)
LEMMA ReturnType ==
  ASSUME TypeOK, NEW r \in Caller, Return(r), DOMAIN chunks \subseteq DOMAIN chunks'
  PROVE  CallersOK'
BY DEF TypeOK, CallersOK, Return, Go, At, Request, NoRequest, NoRows, IsTable

(* What a task writes is well typed. *)
LEMMA WriteType ==
  ASSUME TypeOK, NEW q \in DOMAIN queue,
         Write(q) \/ UNCHANGED <<qdrant, neo4j>>, UNCHANGED chunks
  PROVE  IndexOK'
<1>1. q \in DOMAIN chunks /\ chunks[q] \in Content /\ queue[q].stage \in Stage
  BY DEF TypeOK, QueueOK, PostgresOK
<1>2. CASE WritePoint(q)
  BY <1>1, <1>2 DEF TypeOK, IndexOK, WritePoint, neo4j, IsTable
<1>3. CASE WriteNode(q)
  BY <1>1, <1>3 DEF TypeOK, IndexOK, WriteNode, qdrant, IsTable
<1>4. CASE WriteEntities(q)
  BY <1>1, <1>4 DEF TypeOK, IndexOK, WriteEntities, qdrant, IsTable
<1>5. CASE UNCHANGED <<qdrant, neo4j>>
  BY <1>5 DEF TypeOK, IndexOK, qdrant, neo4j, IsTable
<1> QED
  BY <1>1, <1>2, <1>3, <1>4, <1>5 DEF Write, Stage

(* A chain that ends leaves the others alone. *)
LEMMA DropType ==
  ASSUME TypeOK, NEW q \in DOMAIN queue, Drop(q), UNCHANGED chunks
  PROVE  QueueOK'
BY DEF TypeOK, QueueOK, Drop, Restrict

(* Frames: a part of the state nobody touches keeps its type. *)
LEMMA SameIndex ==
  ASSUME TypeOK, UNCHANGED <<qdrant, neo4j, chunks>> PROVE IndexOK'
BY DEF TypeOK, IndexOK, qdrant, neo4j, IsTable

LEMMA SameQueue == ASSUME TypeOK, UNCHANGED <<queue, chunks>> PROVE QueueOK'
BY DEF TypeOK, QueueOK

LEMMA SamePostgres == ASSUME TypeOK, UNCHANGED postgres PROVE PostgresOK'
BY DEF TypeOK, PostgresOK, postgres, IsTable

LEMMA SameCallers == ASSUME TypeOK, UNCHANGED <<callers, chunks>> PROVE CallersOK'
BY SameRequests DEF TypeOK, CallersOK, callers, IsTable, At

(* What a PATCH makes of the row it finds: the metadata it found, or what   *)
(* it has read with what its caller gave.                                   *)
LEMMA PatchedIs ==
  ASSUME TypeOK, NEW r \in Caller, At(r, "patch", "commit"), NEW c \in request[r].contents,
         NEW text \in Content, c \in DOMAIN memories, NEW new \in Patched(r, c, text)
  PROVE  /\ new \in Row
         /\ \/ new.meta = memories[c].meta /\ new.revoked = memories[c].revoked
            \/ /\ new.meta = seen[r][c].meta \cup request[r].meta
               /\ new.revoked = MergedMark(request[r].mark, seen[r][c].revoked)
<1> DEFINE old == seen[r][c]
           found == memories[c]
           row == [found EXCEPT !.content = IF text = old.content THEN @ ELSE text]
           meta == old.meta \cup request[r].meta
           revoked == MergedMark(request[r].mark, old.revoked)
           merged == [old EXCEPT !.meta = @ \cup request[r].meta,
                                 !.revoked = MergedMark(request[r].mark, @)]
<1>1. found \in Row /\ old \in Row
  BY DEF TypeOK, PostgresOK, CallersOK, IsTable, At
<1>2. request[r].meta \in SUBSET MetaKey
  BY DEF TypeOK, CallersOK, Request
<1>3. meta \in SUBSET MetaKey /\ revoked \in BOOLEAN
  BY <1>1, <1>2 DEF Row, MergedMark
<1>4. row \in Row /\ row.meta = found.meta /\ row.revoked = found.revoked
  <2> HIDE DEF found, old
  <2> QED
    BY <1>1 DEF Row
<1>5. merged.meta = meta /\ merged.revoked = revoked
  BY <1>1 DEF Row
<1>6. new \in {row, [row EXCEPT !.meta = merged.meta, !.revoked = merged.revoked]}
  BY DEF Patched
<1>7. new \in {row, [row EXCEPT !.meta = meta, !.revoked = revoked]}
  <2> HIDE DEF row, merged, meta, revoked
  <2> QED
    BY <1>5, <1>6
<1> HIDE DEF row, meta, revoked, merged
<1>8. /\ [row EXCEPT !.meta = meta, !.revoked = revoked] \in Row
      /\ [row EXCEPT !.meta = meta, !.revoked = revoked].meta = meta
      /\ [row EXCEPT !.meta = meta, !.revoked = revoked].revoked = revoked
  BY <1>3, <1>4 DEF Row
<1> QED
  BY <1>4, <1>7, <1>8 DEF meta, revoked

THEOREM TypeStep == TypeOK /\ [Next]_vars => TypeOK'
<1> SUFFICES ASSUME TypeOK, [Next]_vars PROVE TypeOK'
  OBVIOUS
<1> USE ConstantsAssumption
<1>1. ASSUME NEW r \in Caller, Remember(r) PROVE TypeOK'
  <2>1. CallersOK'
    <3> PICK c \in Content, type \in AgentType \cup {"identity"}, keys \in SUBSET MetaKey,
             mark \in Mark : Upsert(r, c, type, keys, mark)
      BY <1>1 DEF Remember
    <3> DEFINE new == [NoRequest EXCEPT !.contents = {c}, !.type = type, !.meta = keys,
                                        !.mark = mark]
    <3>1. new \in Request /\ new.type # "none"
      BY ConstantsAssumption DEF NoRequest, Request
    <3>2. /\ request' = [request EXCEPT ![r] = new]
          /\ op' = [op EXCEPT ![r] = "store"] /\ pc' = [pc EXCEPT ![r] = "embed"]
          /\ UNCHANGED <<chunks, seen>>
      BY DEF Upsert, Go, postgres
    <3> HIDE DEF new
    <3> QED
      BY <3>1, <3>2, SameRequests DEF TypeOK, CallersOK, At, IsTable
  <2>2. CountersOK'
    BY <1>1 DEF TypeOK, CountersOK, Remember, Upsert, postgres, history, faults
  <2> QED
    BY <1>1, <2>1, <2>2, SameIndex, SameQueue, SamePostgres DEF TypeOK, Remember, Upsert, postgres
<1>2. ASSUME NEW r \in Caller, EmbedFails(r) PROVE TypeOK'
  <2>1. CountersOK'
    BY <1>2 DEF TypeOK, CountersOK, EmbedFails, postgres, history, faults
  <2> QED
    BY <1>2, <2>1, ReturnType, SameIndex, SameQueue, SamePostgres DEF TypeOK, EmbedFails, postgres
<1>3. ASSUME NEW r \in Caller, CommitWrite(r) PROVE TypeOK'
  <2> PICK c \in request[r].contents :
        /\ memories' = [x \in DOMAIN memories \cup {c} |->
             IF x = c THEN Upserted(c, request[r]) ELSE memories[x]]
        /\ chunks' = Append(chunks, c)
        /\ request' = [request EXCEPT ![r].chunk = Len(chunks')]
    BY <1>3 DEF CommitWrite
  <2>1. /\ c \in Content
        /\ request[r].type \in AgentType \cup {"identity"}
        /\ request[r].meta \in SUBSET MetaKey
        /\ request[r].mark \in Mark \cup {"absent"}
    BY <1>3 DEF TypeOK, CallersOK, CommitWrite, At, Request
  <2>2. Upserted(c, request[r]) \in Row
    BY <2>1 DEF TypeOK, PostgresOK, IsTable, Row, Upserted, NewRow, MergedMark
  <2>3. PostgresOK'
    BY <2>1, <2>2 DEF TypeOK, PostgresOK, IsTable
  <2>4. /\ DOMAIN chunks' = 1 .. Len(chunks) + 1
        /\ DOMAIN chunks \subseteq DOMAIN chunks'
        /\ Len(chunks') \in DOMAIN chunks'
        /\ Len(chunks') \in Nat
    BY <2>1 DEF TypeOK, PostgresOK
  <2>5. IndexOK'
    BY <1>3, <2>4 DEF TypeOK, IndexOK, CommitWrite, qdrant, neo4j, IsTable
  <2>6. QueueOK'
    BY <1>3, <2>4 DEF TypeOK, QueueOK, CommitWrite
  <2>7. CallersOK'
    <3>1. request' \in [Caller -> Request']
      <4> DEFINE n == Len(chunks')
      <4>1. n \in Nat
        BY <2>4
      <4>2. request' = [request EXCEPT ![r].chunk = n]
        OBVIOUS
      <4> HIDE DEF n
      <4>3. ASSUME NEW x \in Request PROVE [x EXCEPT !.chunk = n] \in Request'
        BY <2>4, <4>1 DEF Request
      <4>4. request \in [Caller -> Request]
        BY DEF TypeOK, CallersOK
      <4>5. Request \subseteq Request'
        BY <2>4, RequestsGrow
      <4>6. \A g \in Caller : request'[g] \in Request'
        <5> TAKE g \in Caller
        <5>1. request[g] \in Request
          BY <4>4
        <5>2. request'[g] = IF g = r THEN [request[g] EXCEPT !.chunk = n] ELSE request[g]
          BY <4>2, <4>4
        <5> QED
          BY <4>3, <4>5, <5>1, <5>2
      <4>7. request' \in [Caller -> {request'[g] : g \in Caller}]
        BY <4>2, <4>4
      <4> QED
        BY <4>6, <4>7
    <3>2. \A g \in Caller : /\ request'[g].type = request[g].type
                            /\ request'[g].contents = request[g].contents
                            /\ g # r => request'[g].chunk = request[g].chunk
      BY DEF TypeOK, CallersOK, Request
    <3>3. request'[r].chunk = Len(chunks')
      BY DEF TypeOK, CallersOK, Request
    <3>4. At(r, "store", "embed") /\ UNCHANGED seen
          /\ op' = [op EXCEPT ![r] = "store"] /\ pc' = [pc EXCEPT ![r] = "dispatch"]
      BY <1>3 DEF CommitWrite, Go
    <3> QED
      BY <2>4, <3>1, <3>2, <3>3, <3>4 DEF TypeOK, CallersOK, At, IsTable
  <2>8. CountersOK'
    BY <1>3, <2>4 DEF TypeOK, CountersOK, CommitWrite, history, faults
  <2> QED
    BY <2>3, <2>5, <2>6, <2>7, <2>8 DEF TypeOK
<1>4. ASSUME NEW r \in Caller, Dispatch(r) PROVE TypeOK'
  <2>1. request[r].chunk \in DOMAIN chunks /\ UNCHANGED chunks
    BY <1>4 DEF TypeOK, CallersOK, Dispatch, postgres
  <2>2. QueueOK'
    BY <1>4, <2>1, ConstantsAssumption DEF TypeOK, QueueOK, Dispatch, Stage
  <2>3. CountersOK'
    BY <1>4, <2>1 DEF TypeOK, CountersOK, CallersOK, Request, Dispatch, faults
  <2> QED
    BY <1>4, <2>2, <2>3, <2>1, ReturnType, SameIndex, SamePostgres DEF TypeOK, Dispatch
<1>5. ASSUME NEW r \in Caller, DispatchFails(r) PROVE TypeOK'
  <2>1. CountersOK'
    BY <1>5 DEF TypeOK, CountersOK, DispatchFails, postgres, history
  <2> QED
    BY <1>5, <2>1, ReturnType, SameIndex, SameQueue, SamePostgres DEF TypeOK, DispatchFails, postgres
<1>6. ASSUME NEW r \in Caller, ForgetRead(r) PROVE TypeOK'
  <2>1. CallersOK'
    <3> DEFINE due(cs) == {q \in Settled : chunks[q] \in cs}
    <3> PICK cs \in SUBSET DOMAIN memories \ {{}} :
       /\ request' = [request EXCEPT ![r] =
            [NoRequest EXCEPT !.contents = cs, !.settled = due(cs)]]
       /\ seen' = [seen EXCEPT ![r] = Restrict(memories, cs)]
      BY <1>6 DEF ForgetRead
    <3>0. due(cs) \subseteq DOMAIN chunks
      BY DEF Settled, TypeOK, IndexOK
    <3> HIDE DEF due
    <3>1. [NoRequest EXCEPT !.contents = cs, !.settled = due(cs)] \in Request
      BY <3>0 DEF NoRequest, Request, TypeOK, PostgresOK, IsTable
    <3>2. IsTable(Restrict(memories, cs), Row) /\ DOMAIN Restrict(memories, cs) = cs
      BY DEF TypeOK, PostgresOK, IsTable, Restrict
    <3> QED
      BY <1>6, <3>1, <3>2, SameRequests DEF TypeOK, CallersOK, ForgetRead, Go, At, NoRequest, postgres, IsTable
  <2>2. CountersOK'
    BY <1>6 DEF TypeOK, CountersOK, ForgetRead, postgres, history, faults
  <2> QED
    BY <1>6, <2>1, <2>2, SameIndex, SameQueue, SamePostgres DEF TypeOK, ForgetRead, postgres
<1>7. ASSUME NEW r \in Caller, ForgetCommit(r) PROVE TypeOK'
  <2>1. PostgresOK'
    <3>1. \A c \in request[r].contents : seen[r][c].meta \in SUBSET MetaKey
      BY <1>7 DEF TypeOK, CallersOK, ForgetCommit, At, IsTable, Row
    <3>2. \A c \in DOMAIN memories : memories'[c] \in Row
      BY <1>7, <3>1 DEF TypeOK, PostgresOK, ForgetCommit, IsTable, Row
    <3> QED
      BY <1>7, <3>2 DEF TypeOK, PostgresOK, ForgetCommit, IsTable
  <2>2. CallersOK'
    BY <1>7, SameRequests DEF TypeOK, CallersOK, ForgetCommit, Go, At, IsTable
  <2>3. CountersOK'
    BY <1>7 DEF TypeOK, CountersOK, ForgetCommit, history, faults
  <2> QED
    BY <1>7, <2>1, <2>2, <2>3, SameIndex, SameQueue DEF TypeOK, ForgetCommit
<1>8. ASSUME NEW r \in Caller, ForgetPoint(r) PROVE TypeOK'
  <2>1. IndexOK' /\ CountersOK'
    BY <1>8 DEF TypeOK, IndexOK, CountersOK, ForgetPoint, IsTable, postgres, neo4j, history, faults
  <2>2. CallersOK'
    BY <1>8, SameRequests DEF TypeOK, CallersOK, ForgetPoint, At, IsTable, Restrict, postgres
  <2> QED
    BY <1>8, <2>1, <2>2, SameQueue, SamePostgres DEF TypeOK, ForgetPoint, postgres
<1>9. ASSUME NEW r \in Caller, ForgetRaises(r) PROVE TypeOK'
  <2>1. CountersOK'
    BY <1>9 DEF TypeOK, CountersOK, ForgetRaises, postgres, history, faults
  <2> QED
    BY <1>9, <2>1, ReturnType, SameIndex, SameQueue, SamePostgres DEF TypeOK, ForgetRaises, postgres
<1>10. ASSUME NEW r \in Caller, ForgetAnswer(r) PROVE TypeOK'
  <2>1. CountersOK'
    BY <1>10 DEF TypeOK, CountersOK, CallersOK, Request, ForgetAnswer, postgres, faults
  <2> QED
    BY <1>10, <2>1, ReturnType, SameIndex, SameQueue, SamePostgres DEF TypeOK, ForgetAnswer, postgres
<1>11. ASSUME NEW r \in Caller, PatchRead(r) PROVE TypeOK'
  <2>1. CallersOK'
    <3> PICK c \in DOMAIN memories, keys \in SUBSET MetaKey, mark \in Mark :
       /\ request' = [request EXCEPT ![r] =
            [NoRequest EXCEPT !.contents = {c}, !.meta = keys, !.mark = mark]]
       /\ seen' = [seen EXCEPT ![r] = Restrict(memories, {c})]
      BY <1>11 DEF PatchRead
    <3>1. [NoRequest EXCEPT !.contents = {c}, !.meta = keys, !.mark = mark] \in Request
      BY DEF NoRequest, Request, TypeOK, PostgresOK, IsTable
    <3>2. IsTable(Restrict(memories, {c}), Row) /\ DOMAIN Restrict(memories, {c}) = {c}
      BY DEF TypeOK, PostgresOK, IsTable, Restrict
    <3> QED
      BY <1>11, <3>1, <3>2, SameRequests DEF TypeOK, CallersOK, PatchRead, Go, At, NoRequest, postgres, IsTable
  <2>2. CountersOK'
    BY <1>11 DEF TypeOK, CountersOK, PatchRead, postgres, history, faults
  <2> QED
    BY <1>11, <2>1, <2>2, SameIndex, SameQueue, SamePostgres DEF TypeOK, PatchRead, postgres
<1>12. ASSUME NEW r \in Caller, PatchCommit(r) PROVE TypeOK'
  <2>1. PostgresOK'
    <3> PICK c \in request[r].contents, text \in Content :
          \E row \in Patched(r, c, text) : memories' = [memories EXCEPT ![c] = row]
      BY <1>12 DEF PatchCommit
    <3> PICK row \in Patched(r, c, text) : memories' = [memories EXCEPT ![c] = row]
      OBVIOUS
    <3>1. c \in DOMAIN memories => row \in Row
      BY <1>12, PatchedIs DEF PatchCommit, TypeOK, PostgresOK, IsTable
    <3> QED
      BY <1>12, <3>1 DEF TypeOK, PostgresOK, PatchCommit, IsTable
  <2>2. CountersOK'
    BY <1>12 DEF TypeOK, CountersOK, PatchCommit, history, faults
  <2> QED
    BY <1>12, <2>1, <2>2, ReturnType, SameIndex, SameQueue DEF TypeOK, PatchCommit
<1>13. ASSUME NEW r \in Caller, DeleteIdentity(r) PROVE TypeOK'
  <2>1. PostgresOK'
    BY <1>13 DEF TypeOK, PostgresOK, DeleteIdentity, IsTable, Restrict
  <2>2. CountersOK'
    BY <1>13 DEF TypeOK, CountersOK, DeleteIdentity, faults
  <2> QED
    BY <1>13, <2>1, <2>2, SameIndex, SameQueue, SameCallers DEF TypeOK, DeleteIdentity
<1>14. ASSUME NEW q \in DOMAIN queue, TaskSucceeds(q) PROVE TypeOK'
  <2>1. UNCHANGED <<postgres, chunks, callers>>
    BY <1>14 DEF TaskSucceeds, postgres
  <2>2. QueueOK'
    <3>1. queue[q].stage \in Stage
      BY DEF TypeOK, QueueOK
    <3>2. CASE Drop(q)
      BY <2>1, <3>2, DropType
    <3>3. CASE \E s \in Stage : ToStage(q, s)
      BY <2>1, <3>3, ConstantsAssumption DEF TypeOK, QueueOK, ToStage
    <3> QED
      BY <1>14, <3>1, <3>2, <3>3 DEF TaskSucceeds, Stage
  <2>3. CountersOK'
    BY <1>14, <2>1 DEF TypeOK, CountersOK, TaskSucceeds, history, faults
  <2>4. IndexOK'
    BY <1>14, <2>1, WriteType DEF TaskSucceeds
  <2> QED
    BY <2>1, <2>2, <2>3, <2>4, SamePostgres, SameCallers DEF TypeOK
<1>15. ASSUME NEW q \in DOMAIN queue, TaskRaises(q) PROVE TypeOK'
  <2>1. UNCHANGED <<postgres, chunks, callers>>
    BY <1>15 DEF TaskRaises, postgres
  <2>2. QueueOK'
    <3>1. CASE Drop(q)
      BY <2>1, <3>1, DropType
    <3>2. CASE queue[q].retries < MaxRetries /\ queue' = [queue EXCEPT ![q].retries = @ + 1]
      BY <2>1, <3>2, ConstantsAssumption DEF TypeOK, QueueOK
    <3> QED
      BY <1>15, <3>1, <3>2 DEF TaskRaises
  <2>3. CountersOK'
    BY <1>15, <2>1 DEF TypeOK, CountersOK, TaskRaises, history
  <2>4. IndexOK'
    BY <1>15, <2>1, WriteType DEF TaskRaises
  <2> QED
    BY <2>1, <2>2, <2>3, <2>4, SamePostgres, SameCallers DEF TypeOK
<1>16. ASSUME NEW q \in DOMAIN queue, WorkerCrash(q) PROVE TypeOK'
  <2>1. UNCHANGED <<postgres, chunks, callers>>
    BY <1>16 DEF WorkerCrash, postgres
  <2>2. CountersOK'
    BY <1>16, <2>1 DEF TypeOK, CountersOK, WorkerCrash, history
  <2>3. IndexOK' /\ QueueOK'
    BY <1>16, <2>1, WriteType, DropType DEF WorkerCrash
  <2> QED
    BY <2>1, <2>2, <2>3, SamePostgres, SameCallers DEF TypeOK
<1>17. CASE ServerCrash
  <2>1. CallersOK'
    BY <1>17 DEF CallersOK, ServerCrash, Request, NoRequest, NoRows, IsTable, At
  <2>2. CountersOK'
    BY <1>17 DEF TypeOK, CountersOK, ServerCrash, postgres, history
  <2> QED
    BY <1>17, <2>1, <2>2, SameIndex, SameQueue, SamePostgres DEF TypeOK, ServerCrash, postgres
<1>18. CASE UNCHANGED vars
  <2>1. CountersOK'
    BY <1>18 DEF TypeOK, CountersOK, vars, postgres, history, faults
  <2> QED
    BY <1>18, <2>1, SameIndex, SameQueue, SamePostgres, SameCallers DEF TypeOK, vars, postgres
<1> QED
  BY <1>1, <1>2, <1>3, <1>4, <1>5, <1>6, <1>7, <1>8, <1>9, <1>10, <1>11, <1>12,
     <1>13, <1>14, <1>15, <1>16, <1>17, <1>18 DEF Next

(* The types are right in every state: no step of a request, a task or the *)
(* owner leaves a field outside its range (models.py, tasks.py).           *)
THEOREM TypeCorrect == Spec => []TypeOK
BY TypeInit, TypeStep, PTL DEF Spec

-----------------------------------------------------------------------------
(* Only a commit adds chunks, and only at the end; only it and the owner    *)
(* change rows.                                                             *)
LEMMA ChunksGrow ==
  ASSUME TypeOK, [Next]_vars
  PROVE  \/ \E r \in Caller : CommitWrite(r)
         \/ UNCHANGED chunks
BY DEF Next, Remember, Upsert, EmbedFails, Dispatch, DispatchFails, TaskSucceeds,
  TaskRaises, WorkerCrash, ForgetRead, ForgetCommit, ForgetPoint, ForgetRaises,
  ForgetAnswer, PatchRead, PatchCommit, DeleteIdentity, ServerCrash, postgres, vars

LEMMA RowsMove ==
  ASSUME TypeOK, [Next]_vars
  PROVE  \/ \E r \in Caller : CommitWrite(r) \/ ForgetCommit(r) \/ PatchCommit(r)
                              \/ DeleteIdentity(r)
         \/ UNCHANGED memories
BY DEF Next, Remember, Upsert, EmbedFails, Dispatch, DispatchFails, TaskSucceeds,
  TaskRaises, WorkerCrash, ForgetRead, ForgetPoint, ForgetRaises,
  ForgetAnswer, PatchRead, ServerCrash, postgres, vars

LEMMA Committed ==
  ASSUME TypeOK, NEW r \in Caller, CommitWrite(r)
  PROVE  \E c \in Content :
           /\ c \in request[r].contents
           /\ memories' = [x \in DOMAIN memories \cup {c} |->
                IF x = c THEN Upserted(c, request[r]) ELSE memories[x]]
           /\ DOMAIN chunks' = DOMAIN chunks \cup {Len(chunks) + 1}
           /\ Len(chunks) + 1 \notin DOMAIN chunks
           /\ chunks'[Len(chunks) + 1] = c
           /\ \A q \in DOMAIN chunks : chunks'[q] = chunks[q]
           /\ request' = [request EXCEPT ![r].chunk = Len(chunks) + 1]
<1> PICK c \in request[r].contents :
       /\ memories' = [x \in DOMAIN memories \cup {c} |->
            IF x = c THEN Upserted(c, request[r]) ELSE memories[x]]
       /\ chunks' = Append(chunks, c)
       /\ request' = [request EXCEPT ![r].chunk = Len(chunks')]
  BY DEF CommitWrite
<1>1. c \in Content
  BY DEF TypeOK, CallersOK, Request
<1>2. Len(chunks') = Len(chunks) + 1
  BY <1>1 DEF TypeOK, PostgresOK
<1> QED
  BY <1>1, <1>2 DEF TypeOK, PostgresOK

LEMMA ChunkSteps ==
  ASSUME TypeOK, MemoriesHaveChunks, [Next]_vars
  PROVE  MemoriesHaveChunks'
<1>1. ASSUME NEW r \in Caller, CommitWrite(r) PROVE MemoriesHaveChunks'
  <2> PICK c \in Content :
        /\ DOMAIN memories' = DOMAIN memories \cup {c}
        /\ DOMAIN chunks' = DOMAIN chunks \cup {Len(chunks) + 1}
        /\ chunks'[Len(chunks) + 1] = c
        /\ \A q \in DOMAIN chunks : chunks'[q] = chunks[q]
    BY <1>1, Committed
  <2>1. Range(chunks') = Range(chunks) \cup {c}
    BY DEF Range
  <2> QED
    BY <2>1 DEF MemoriesHaveChunks
<1>2. ASSUME NEW r \in Caller, ForgetCommit(r) PROVE MemoriesHaveChunks'
  BY <1>2 DEF MemoriesHaveChunks, ForgetCommit
<1>3. ASSUME NEW r \in Caller, PatchCommit(r) PROVE MemoriesHaveChunks'
  <2>1. DOMAIN memories' = DOMAIN memories
    BY <1>3 DEF PatchCommit, Patched
  <2> QED
    BY <1>3, <2>1 DEF MemoriesHaveChunks, PatchCommit
<1>4. ASSUME NEW r \in Caller, DeleteIdentity(r) PROVE MemoriesHaveChunks'
  <2>1. \A c \in DOMAIN memories : ChunksOf(c) # {}
    BY DEF MemoriesHaveChunks, Range, ChunksOf
  <2> QED
    BY <1>4, <2>1 DEF MemoriesHaveChunks, DeleteIdentity
<1>5. CASE UNCHANGED <<memories, chunks>>
  BY <1>5 DEF MemoriesHaveChunks
<1> QED
  BY <1>1, <1>2, <1>3, <1>4, <1>5, ChunksGrow, RowsMove

(* A memory and its first chunk are committed together, and the owner's     *)
(* DELETE never takes a row with chunks away (memory.py:65-91, 376-379).    *)
THEOREM MemoriesKeepChunks == Spec => []MemoriesHaveChunks
<1>1. Init => MemoriesHaveChunks
  BY DEF Init, MemoriesHaveChunks, Range, NoRows
<1> QED
  BY <1>1, TypeCorrect, ChunkSteps, PTL DEF Spec

-----------------------------------------------------------------------------
(* What the three stores say of each other, given that the rows are there.  *)
Nested == NodesHavePoints /\ EdgesHaveNodes /\ ChainsAreInOrder

LEMMA WriteNests ==
  ASSUME TypeOK, Nested, NEW q \in DOMAIN queue, UNCHANGED chunks,
         Write(q) \/ UNCHANGED <<qdrant, neo4j>>
  PROVE  /\ NodesHavePoints' /\ EdgesHaveNodes'
         /\ points \subseteq points' /\ DOMAIN graph \subseteq DOMAIN graph'
<1>1. q \in DOMAIN chunks /\ queue[q].stage \in Stage
  BY DEF TypeOK, QueueOK
<1>2. CASE queue[q].stage = "qdrant" /\ WritePoint(q)
  BY <1>2 DEF Nested, NodesHavePoints, EdgesHaveNodes, WritePoint, neo4j
<1>3. CASE queue[q].stage = "neo4j" /\ WriteNode(q)
  BY <1>1, <1>3 DEF Nested, NodesHavePoints, EdgesHaveNodes, ChainsAreInOrder, WriteNode, qdrant
<1>4. CASE queue[q].stage = "entities" /\ WriteEntities(q)
  <2>1. chunks[q] \in DOMAIN graph
    BY <1>4 DEF Nested, ChainsAreInOrder
  <2>2. PICK found \in SUBSET Entity : describes' = describes \cup (found \X {chunks[q]})
    BY <1>4 DEF WriteEntities
  <2>3. \A edge \in found \X {chunks[q]} : edge[2] = chunks[q]
    OBVIOUS
  <2>4. EdgesHaveNodes'
    BY <1>4, <2>1, <2>2, <2>3 DEF Nested, EdgesHaveNodes, WriteEntities
  <2> QED
    BY <1>4, <2>4 DEF Nested, NodesHavePoints, WriteEntities, qdrant
<1>5. CASE UNCHANGED <<qdrant, neo4j>>
  BY <1>5 DEF Nested, NodesHavePoints, EdgesHaveNodes, qdrant, neo4j
<1> QED
  BY <1>1, <1>2, <1>3, <1>4, <1>5 DEF Write, Stage

LEMMA NestSteps ==
  ASSUME TypeOK, Nested, [Next]_vars
  PROVE  Nested'
<1>1. ASSUME NEW r \in Caller, CommitWrite(r) PROVE Nested'
  <2>1. UNCHANGED <<qdrant, neo4j, queue>>
    BY <1>1 DEF CommitWrite
  <2>2. \A q \in DOMAIN chunks : chunks'[q] = chunks[q]
    BY <1>1, Committed
  <2>3. NodesHavePoints' /\ EdgesHaveNodes'
    BY <2>1, <2>2 DEF Nested, NodesHavePoints, EdgesHaveNodes, TypeOK, IndexOK, IsTable,
      qdrant, neo4j
  <2>4. ChainsAreInOrder'
    BY <2>1, <2>2 DEF Nested, ChainsAreInOrder, TypeOK, QueueOK, qdrant, neo4j
  <2> QED
    BY <2>3, <2>4 DEF Nested
<1>2. ASSUME NEW r \in Caller, Dispatch(r) PROVE Nested'
  BY <1>2 DEF Dispatch, Nested, NodesHavePoints, EdgesHaveNodes, ChainsAreInOrder,
    postgres, qdrant, neo4j
<1>3. ASSUME NEW q \in DOMAIN queue, TaskSucceeds(q) PROVE Nested'
  <2>1. UNCHANGED chunks /\ Write(q) /\ q \in DOMAIN chunks
    BY <1>3 DEF TaskSucceeds, postgres, TypeOK, QueueOK
  <2>2. NodesHavePoints' /\ EdgesHaveNodes' /\ points \subseteq points'
        /\ DOMAIN graph \subseteq DOMAIN graph'
    BY <2>1, WriteNests
  <2>3. ChainsAreInOrder'
    <3>1. CASE queue[q].stage = "qdrant" /\ ToStage(q, "neo4j")
      <4>1. q \in points'
        BY <2>1, <3>1 DEF Write, WritePoint
      <4> QED
        BY <2>1, <2>2, <3>1, <4>1 DEF Nested, ChainsAreInOrder, ToStage, TypeOK, QueueOK
    <3>2. CASE queue[q].stage = "neo4j" /\ ToStage(q, "entities")
      <4>1. chunks[q] \in DOMAIN graph'
        BY <2>1, <3>2 DEF Write, WriteNode
      <4> QED
        BY <2>1, <2>2, <3>2, <4>1 DEF Nested, ChainsAreInOrder, ToStage, TypeOK, QueueOK
    <3>3. CASE Drop(q)
      BY <2>1, <2>2, <3>3 DEF Nested, ChainsAreInOrder, Drop, Restrict
    <3>4. queue[q].stage \in Stage
      BY DEF TypeOK, QueueOK
    <3> QED
      BY <1>3, <3>1, <3>2, <3>3, <3>4 DEF TaskSucceeds, Stage
  <2> QED
    BY <2>2, <2>3 DEF Nested
<1>4. ASSUME NEW q \in DOMAIN queue, TaskRaises(q) \/ WorkerCrash(q) PROVE Nested'
  <2>1. UNCHANGED chunks /\ (Write(q) \/ UNCHANGED <<qdrant, neo4j>>)
    BY <1>4 DEF TaskRaises, WorkerCrash, postgres
  <2>2. NodesHavePoints' /\ EdgesHaveNodes' /\ points \subseteq points'
        /\ DOMAIN graph \subseteq DOMAIN graph'
    BY <2>1, WriteNests
  <2>3. \A p \in DOMAIN queue' : p \in DOMAIN queue /\ queue'[p].stage = queue[p].stage
    <3>1. CASE Drop(q)
      BY <3>1 DEF Drop, Restrict
    <3>2. CASE queue' = [queue EXCEPT ![q].retries = @ + 1]
      BY <3>2 DEF TypeOK, QueueOK
    <3> QED
      BY <1>4, <3>1, <3>2 DEF TaskRaises, WorkerCrash
  <2>4. ChainsAreInOrder'
    BY <2>1, <2>2, <2>3 DEF Nested, ChainsAreInOrder
  <2> QED
    BY <2>2, <2>4 DEF Nested
<1>5. ASSUME NEW r \in Caller, ForgetPoint(r) PROVE Nested'
  BY <1>5 DEF ForgetPoint, Nested, NodesHavePoints, EdgesHaveNodes, ChainsAreInOrder,
    postgres, neo4j
<1>6. CASE UNCHANGED <<chunks, points, graph, describes, queue>>
  BY <1>6 DEF Nested, NodesHavePoints, EdgesHaveNodes, ChainsAreInOrder
<1> QED
  BY <1>1, <1>2, <1>3, <1>4, <1>5, <1>6 DEF Next, Remember, Upsert, EmbedFails,
    DispatchFails, ForgetRead, ForgetCommit, ForgetRaises, ForgetAnswer, PatchRead,
    PatchCommit, DeleteIdentity, ServerCrash, postgres, qdrant, neo4j, vars

(* The stores nest whatever fails and whoever crashes: a hit of Qdrant has  *)
(* a row, a node of Neo4j a point, an entity's edge a node (tasks.py).      *)
THEOREM StoresAreNested == Spec => []StoresNest
<1>1. Init => Nested
  BY DEF Init, Nested, NodesHavePoints, EdgesHaveNodes, ChainsAreInOrder, NoRows
<1>2. Spec => []Nested
  BY <1>1, TypeCorrect, NestSteps, PTL DEF Spec
<1>3. TypeOK /\ MemoriesHaveChunks /\ Nested => StoresNest
  BY DEF TypeOK, IndexOK, MemoriesHaveChunks, Range, Nested, StoresNest, PointsAreOfMemories, Retrieved
<1> QED
  BY <1>2, <1>3, TypeCorrect, MemoriesKeepChunks, PTL

-----------------------------------------------------------------------------
(* What a step may do to a chain and to a point: only a dispatch starts one *)
(* anew, and only a task of the Qdrant stage writes the other.              *)
LEMMA TaskMoves ==
  ASSUME TypeOK, NEW p \in DOMAIN queue, TaskSucceeds(p) \/ TaskRaises(p) \/ WorkerCrash(p)
  PROVE  /\ \A q \in DOMAIN queue' :
              /\ q \in DOMAIN queue
              /\ queue'[q].stage = "qdrant" => queue[q].stage = "qdrant"
         /\ \/ queue[p].stage = "qdrant" /\ WritePoint(p)
            \/ UNCHANGED <<points, hidden>>
         /\ UNCHANGED <<chunks, op, pc, request, seen, forgotten>>
<1>1. queue[p].stage \in Stage
  BY DEF TypeOK, QueueOK
<1>2. \A q \in DOMAIN queue' :
        /\ q \in DOMAIN queue
        /\ queue'[q].stage = "qdrant" => queue[q].stage = "qdrant"
  <2>1. CASE Drop(p)
    BY <2>1 DEF Drop, Restrict
  <2>2. CASE ToStage(p, "neo4j") \/ ToStage(p, "entities")
    BY <2>2 DEF ToStage, TypeOK, QueueOK
  <2>3. CASE queue' = [queue EXCEPT ![p].retries = @ + 1]
    BY <2>3 DEF TypeOK, QueueOK
  <2> QED
    BY <1>1, <2>1, <2>2, <2>3 DEF TaskSucceeds, TaskRaises, WorkerCrash, Stage
<1>3. \/ queue[p].stage = "qdrant" /\ WritePoint(p)
      \/ UNCHANGED <<points, hidden>>
  BY <1>1 DEF TaskSucceeds, TaskRaises, WorkerCrash, Write, WriteNode, WriteEntities,
    Stage, qdrant
<1>4. UNCHANGED <<chunks, op, pc, request, seen, forgotten>>
  BY DEF TaskSucceeds, TaskRaises, WorkerCrash, postgres, callers, history
<1> QED
  BY <1>2, <1>3, <1>4

LEMMA OthersLeaveChains ==
  ASSUME [Next]_vars, ~\E p \in DOMAIN queue : TaskSucceeds(p) \/ TaskRaises(p) \/ WorkerCrash(p)
  PROVE  /\ points' = points
         /\ hidden' = hidden \/ \E r \in Caller : ForgetPoint(r)
         /\ queue' = queue \/ \E r \in Caller : Dispatch(r)
         /\ forgotten' = forgotten \/ \E r \in Caller : ForgetAnswer(r)
BY DEF Next, Remember, Upsert, EmbedFails, CommitWrite, Dispatch, DispatchFails, ForgetRead,
  ForgetCommit, ForgetPoint, ForgetRaises, ForgetAnswer, PatchRead, PatchCommit,
  DeleteIdentity, ServerCrash, qdrant, history, vars

(* Settled once is settled for good, and so is a mark on a settled point. *)
LEMMA SettledSteps ==
  ASSUME TypeOK, DispatchesAreNew, [Next]_vars
  PROVE  Settled \subseteq Settled' /\ Settled \cap hidden \subseteq hidden'
<1>1. ASSUME NEW p \in DOMAIN queue, TaskSucceeds(p) \/ TaskRaises(p) \/ WorkerCrash(p)
      PROVE  Settled \subseteq Settled' /\ Settled \cap hidden \subseteq hidden'
  <2>1. points \subseteq points'
    BY <1>1, TaskMoves DEF WritePoint
  <2>2. Settled \cap hidden \subseteq hidden'
    BY <1>1, TaskMoves DEF WritePoint, Settled
  <2> QED
    BY <1>1, <2>1, <2>2, TaskMoves DEF Settled
<1>2. ASSUME ~\E p \in DOMAIN queue : TaskSucceeds(p) \/ TaskRaises(p) \/ WorkerCrash(p)
      PROVE  Settled \subseteq Settled' /\ Settled \cap hidden \subseteq hidden'
  <2>1. hidden \subseteq hidden'
    BY <1>2, OthersLeaveChains DEF ForgetPoint
  <2>2. \A q \in points : q \in DOMAIN queue' => q \in DOMAIN queue /\ queue'[q] = queue[q]
    <3>1. ASSUME NEW r \in Caller, Dispatch(r)
          PROVE  \A q \in points : q \in DOMAIN queue' => q \in DOMAIN queue /\ queue'[q] = queue[q]
      BY <3>1 DEF Dispatch, DispatchesAreNew
    <3> QED
      BY <1>2, <3>1, OthersLeaveChains
  <2> QED
    BY <1>2, <2>1, <2>2, OthersLeaveChains DEF Settled
<1> QED
  BY <1>1, <1>2

(* What a step does to the request of a caller who then is at the dispatch, *)
(* or in a forget.                                                          *)
LEMMA DispatchersAre ==
  ASSUME TypeOK, [Next]_vars, NEW g \in Caller, At(g, "store", "dispatch")'
  PROVE  \/ CommitWrite(g)
         \/ At(g, "store", "dispatch") /\ request'[g] = request[g] /\ ~Dispatch(g)
<1>1. ASSUME NEW r \in Caller, g # r,
             \/ Remember(r) \/ EmbedFails(r) \/ CommitWrite(r) \/ Dispatch(r) \/ DispatchFails(r)
             \/ ForgetRead(r) \/ ForgetCommit(r) \/ ForgetPoint(r) \/ ForgetRaises(r)
             \/ ForgetAnswer(r) \/ PatchRead(r) \/ PatchCommit(r) \/ DeleteIdentity(r)
      PROVE  op'[g] = op[g] /\ pc'[g] = pc[g] /\ request'[g] = request[g]
  BY <1>1 DEF Remember, Upsert, EmbedFails, CommitWrite, Dispatch, DispatchFails, ForgetRead,
    ForgetCommit, ForgetPoint, ForgetRaises, ForgetAnswer, PatchRead, PatchCommit,
    DeleteIdentity, Go, Return, callers, TypeOK, CallersOK
<1>2. ~Dispatch(g)
  BY DEF Dispatch, Return, Go, At, TypeOK, CallersOK
<1>3. ASSUME \/ Remember(g) \/ EmbedFails(g) \/ DispatchFails(g)
             \/ ForgetRead(g) \/ ForgetCommit(g) \/ ForgetPoint(g) \/ ForgetRaises(g)
             \/ ForgetAnswer(g) \/ PatchRead(g) \/ PatchCommit(g)
      PROVE  FALSE
  BY <1>3 DEF Remember, Upsert, EmbedFails, DispatchFails, ForgetRead,
    ForgetCommit, ForgetPoint, ForgetRaises, ForgetAnswer, PatchRead, PatchCommit,
    Go, Return, At, TypeOK, CallersOK
<1>4. CASE UNCHANGED callers
  BY <1>2, <1>4 DEF callers, At
<1>5. ~ServerCrash
  BY DEF ServerCrash, At
<1>6. ASSUME NEW p \in DOMAIN queue, TaskSucceeds(p) \/ TaskRaises(p) \/ WorkerCrash(p)
      PROVE  UNCHANGED callers
  BY <1>6 DEF TaskSucceeds, TaskRaises, WorkerCrash
<1>7. ASSUME NEW r \in Caller, DeleteIdentity(r) PROVE UNCHANGED callers
  BY <1>7 DEF DeleteIdentity
<1> QED
  BY <1>1, <1>2, <1>3, <1>4, <1>5, <1>6, <1>7 DEF Next, vars, At

LEMMA DispatchSteps ==
  ASSUME TypeOK, DispatchesAreNew, [Next]_vars
  PROVE  DispatchesAreNew'
<1>1. ASSUME NEW r \in Caller, CommitWrite(r) PROVE DispatchesAreNew'
  <2>1. UNCHANGED <<points, queue>> /\ Len(chunks) + 1 \notin DOMAIN chunks
        /\ request' = [request EXCEPT ![r].chunk = Len(chunks) + 1]
    BY <1>1, Committed DEF CommitWrite, qdrant
  <2>2. request'[r].chunk = Len(chunks) + 1
        /\ \A g \in Caller \ {r} : request'[g] = request[g]
    <3> DEFINE n == Len(chunks) + 1
    <3> HIDE DEF n
    <3>1. request' = [request EXCEPT ![r].chunk = n]
      BY <2>1 DEF n
    <3>2. request'[r].chunk = n /\ \A g \in Caller \ {r} : request'[g] = request[g]
      BY <3>1 DEF TypeOK, CallersOK, Request
    <3> QED
      BY <3>2 DEF n
  <2>3. \A g \in Caller \ {r} : At(g, "store", "dispatch")' => At(g, "store", "dispatch")
    BY <1>1 DEF CommitWrite, Go, At, TypeOK, CallersOK
  <2>4. /\ points \cup DOMAIN queue \subseteq DOMAIN chunks
        /\ \A g \in Caller : At(g, "store", "dispatch") => request[g].chunk \in DOMAIN chunks
    BY DEF TypeOK, IndexOK, QueueOK, CallersOK
  <2> QED
    BY <2>1, <2>2, <2>3, <2>4 DEF DispatchesAreNew
<1>2. ASSUME ~\E r \in Caller : CommitWrite(r),
             points' \cup DOMAIN queue' \subseteq points \cup DOMAIN queue
      PROVE  DispatchesAreNew'
  BY <1>2, DispatchersAre DEF DispatchesAreNew
<1>3. ASSUME NEW r \in Caller, Dispatch(r) PROVE DispatchesAreNew'
  <2>1. /\ At(r, "store", "dispatch") /\ UNCHANGED points
        /\ DOMAIN queue' = DOMAIN queue \cup {request[r].chunk}
    BY <1>3 DEF Dispatch, qdrant
  <2>2. ~\E g \in Caller : CommitWrite(g)
    <3>1. UNCHANGED chunks
      BY <1>3 DEF Dispatch, postgres
    <3> QED
      BY <3>1, Committed
  <2> QED
    BY <1>3, <2>1, <2>2, DispatchersAre DEF DispatchesAreNew
<1>4. ASSUME NEW p \in DOMAIN queue, TaskSucceeds(p) \/ TaskRaises(p) \/ WorkerCrash(p)
      PROVE  points' \cup DOMAIN queue' \subseteq points \cup DOMAIN queue
  BY <1>4, TaskMoves DEF WritePoint
<1>5. ASSUME NEW p \in DOMAIN queue, TaskSucceeds(p) \/ TaskRaises(p) \/ WorkerCrash(p)
      PROVE  ~\E r \in Caller : CommitWrite(r)
  <2>1. UNCHANGED pc
    BY <1>5, TaskMoves
  <2> QED
    BY <2>1 DEF CommitWrite, Go, At, TypeOK, CallersOK
<1> QED
  BY <1>1, <1>2, <1>3, <1>4, <1>5, OthersLeaveChains

(* A forget marks every settled point it passes; nothing it has noted at    *)
(* its start is lost before its answer.                                     *)
LEMMA ForgettersAre ==
  ASSUME TypeOK, [Next]_vars, NEW g \in Caller, op'[g] = "forget"
  PROVE  \/ ForgetRead(g) \/ ForgetCommit(g) \/ ForgetPoint(g)
         \/ op[g] = "forget" /\ pc'[g] = pc[g] /\ request'[g] = request[g] /\ seen'[g] = seen[g]
<1>1. ASSUME NEW r \in Caller, g # r,
             \/ Remember(r) \/ EmbedFails(r) \/ CommitWrite(r) \/ Dispatch(r) \/ DispatchFails(r)
             \/ ForgetRead(r) \/ ForgetCommit(r) \/ ForgetPoint(r) \/ ForgetRaises(r)
             \/ ForgetAnswer(r) \/ PatchRead(r) \/ PatchCommit(r) \/ DeleteIdentity(r)
      PROVE  op'[g] = op[g] /\ pc'[g] = pc[g] /\ request'[g] = request[g] /\ seen'[g] = seen[g]
  BY <1>1 DEF Remember, Upsert, EmbedFails, CommitWrite, Dispatch, DispatchFails, ForgetRead,
    ForgetCommit, ForgetPoint, ForgetRaises, ForgetAnswer, PatchRead, PatchCommit,
    DeleteIdentity, Go, Return, callers, TypeOK, CallersOK
<1>2. ASSUME \/ Remember(g) \/ EmbedFails(g) \/ CommitWrite(g) \/ Dispatch(g) \/ DispatchFails(g)
             \/ ForgetRaises(g) \/ ForgetAnswer(g) \/ PatchRead(g) \/ PatchCommit(g)
      PROVE  FALSE
  BY <1>2 DEF Remember, Upsert, EmbedFails, CommitWrite, Dispatch, DispatchFails,
    ForgetRaises, ForgetAnswer, PatchRead, PatchCommit, Go, Return, TypeOK, CallersOK
<1>3. CASE UNCHANGED callers
  BY <1>3 DEF callers
<1>4. ~ServerCrash
  BY DEF ServerCrash
<1>5. ASSUME NEW p \in DOMAIN queue, TaskSucceeds(p) \/ TaskRaises(p) \/ WorkerCrash(p)
      PROVE  UNCHANGED callers
  BY <1>5 DEF TaskSucceeds, TaskRaises, WorkerCrash
<1>6. ASSUME NEW r \in Caller, DeleteIdentity(r) PROVE UNCHANGED callers
  BY <1>6 DEF DeleteIdentity
<1> QED
  BY <1>1, <1>2, <1>3, <1>4, <1>5, <1>6 DEF Next, vars

LEMMA MarkSteps ==
  ASSUME TypeOK, DispatchesAreNew, MarksAreDue, [Next]_vars
  PROVE  MarksAreDue'
<1> DEFINE Due(g) ==
      /\ request[g].settled \subseteq Settled
      /\ \A q \in request[g].settled : chunks[q] \in request[g].contents
      /\ pc[g] = "points" =>
           \A q \in request[g].settled : chunks[q] \in DOMAIN seen[g] \/ q \in hidden
<1> SUFFICES ASSUME NEW g \in Caller, op'[g] = "forget" PROVE Due(g)'
  BY DEF MarksAreDue
<1>0. Settled \subseteq Settled' /\ Settled \cap hidden \subseteq hidden'
  BY SettledSteps
<1>1. \A q \in DOMAIN chunks : q \in DOMAIN chunks' /\ chunks'[q] = chunks[q]
  BY ChunksGrow, Committed
<1>2. Settled \subseteq DOMAIN chunks
  BY DEF Settled, TypeOK, IndexOK
<1>3. CASE ForgetRead(g)
  <2> PICK cs \in SUBSET DOMAIN memories :
        request' = [request EXCEPT ![g] =
          [NoRequest EXCEPT !.contents = cs, !.settled = {q \in Settled : chunks[q] \in cs}]]
    BY <1>3 DEF ForgetRead
  <2>1. request'[g].contents = cs /\ request'[g].settled = {q \in Settled : chunks[q] \in cs}
    BY DEF TypeOK, CallersOK, NoRequest
  <2>2. pc'[g] = "commit"
    BY <1>3 DEF ForgetRead, Go, TypeOK, CallersOK
  <2> QED
    BY <1>0, <1>1, <1>2, <2>1, <2>2
<1>4. CASE ForgetCommit(g)
  <2>1. /\ op[g] = "forget" /\ pc[g] = "commit" /\ request[g].contents \subseteq DOMAIN seen[g]
        /\ UNCHANGED <<request, seen>>
    BY <1>4 DEF ForgetCommit, At, TypeOK, CallersOK
  <2>2. Due(g)
    BY <2>1 DEF MarksAreDue
  <2> QED
    BY <1>0, <1>1, <1>2, <2>1, <2>2
<1>5. CASE ForgetPoint(g)
  <2> PICK c \in DOMAIN seen[g], p \in DOMAIN chunks :
        /\ ChunksOf(c) = {p}
        /\ hidden' = hidden \cup ({p} \cap points)
        /\ seen' = [seen EXCEPT ![g] = Restrict(@, DOMAIN @ \ {c})]
    BY <1>5 DEF ForgetPoint
  <2>1. UNCHANGED <<chunks, points, request, pc>> /\ At(g, "forget", "points")
    BY <1>5 DEF ForgetPoint, postgres
  <2>2. DOMAIN seen'[g] = DOMAIN seen[g] \ {c}
    BY DEF TypeOK, CallersOK, Restrict
  <2>3. Due(g)
    BY <2>1 DEF MarksAreDue, At
  <2>4. ASSUME NEW q \in request[g].settled, chunks[q] = c PROVE q \in hidden'
    <3>1. q \in DOMAIN chunks /\ q \in points
      BY <1>2, <2>3 DEF Settled
    <3>2. q \in ChunksOf(c)
      BY <2>4, <3>1 DEF ChunksOf
    <3> QED
      BY <3>1, <3>2
  <2> QED
    BY <1>0, <2>1, <2>2, <2>3, <2>4 DEF At
<1>6. CASE op[g] = "forget" /\ pc'[g] = pc[g] /\ request'[g] = request[g] /\ seen'[g] = seen[g]
  <2>1. Due(g)
    BY <1>6 DEF MarksAreDue
  <2>2. \A q \in request[g].settled : chunks'[q] = chunks[q]
    BY <1>1, <1>2, <2>1
  <2>3. \A q \in request[g].settled : q \in hidden => q \in hidden'
    BY <1>0, <2>1
  <2> QED
    BY <1>0, <1>6, <2>1, <2>2, <2>3
<1> QED
  BY <1>3, <1>4, <1>5, <1>6, ForgettersAre

LEMMA ForgottenSteps ==
  ASSUME TypeOK, DispatchesAreNew, MarksAreDue, ForgottenAreSettled, [Next]_vars
  PROVE  ForgottenAreSettled'
<1>1. Settled \subseteq Settled' /\ Settled \cap hidden \subseteq hidden'
  BY SettledSteps
<1>2. ASSUME NEW r \in Caller, ForgetAnswer(r)
      PROVE  forgotten' \subseteq Settled \cap hidden
  <2>1. At(r, "forget", "points") /\ DOMAIN seen[r] = {}
        /\ forgotten' = forgotten \cup request[r].settled
    BY <1>2 DEF ForgetAnswer, NoRows
  <2> QED
    BY <2>1 DEF MarksAreDue, ForgottenAreSettled, At
<1>3. forgotten' \subseteq Settled \cap hidden
  BY <1>2, TaskMoves, OthersLeaveChains DEF ForgottenAreSettled
<1> QED
  BY <1>1, <1>3 DEF ForgottenAreSettled

(* A forget that began when a point was settled and has answered is final:  *)
(* the point stays marked, whatever is retried, crashes or runs beside it   *)
(* (memory.py:451-465, tasks.py:27-39).                                     *)
THEOREM ForgetIsAlwaysFinal == Spec => []ForgetIsFinal
<1>1. Init => ForgetInvariant
  BY DEF Init, ForgetInvariant, MarksAreDue, ForgottenAreSettled, DispatchesAreNew, At
<1>2. TypeOK /\ ForgetInvariant /\ [Next]_vars => ForgetInvariant'
  BY MarkSteps, ForgottenSteps, DispatchSteps DEF ForgetInvariant
<1>3. ForgetInvariant => ForgetIsFinal
  BY DEF ForgetInvariant, ForgottenAreSettled, ForgetIsFinal, Retrieved
<1> QED
  BY <1>1, <1>2, <1>3, TypeCorrect, PTL DEF Spec

-----------------------------------------------------------------------------
(* Who takes something away from a row. *)
LEMMA UpsertKeeps ==
  ASSUME TypeOK, NEW r \in Caller, CommitWrite(r)
  PROVE  LosesByOverwriting
<1> PICK c \in Content :
      /\ c \in request[r].contents
      /\ memories' = [x \in DOMAIN memories \cup {c} |->
           IF x = c THEN Upserted(c, request[r]) ELSE memories[x]]
  BY Committed
<1>1. \A x \in DOMAIN memories : x \in DOMAIN memories' /\ (x # c => memories'[x] = memories[x])
  OBVIOUS
<1>2. ASSUME c \in DOMAIN memories
      PROVE  /\ memories'[c].meta = memories[c].meta \cup request[r].meta
             /\ memories'[c].revoked = MergedMark(request[r].mark, memories[c].revoked)
  <2> DEFINE row == memories[c]
             given == request[r]
  <2>1. row \in Row
    BY <1>2 DEF TypeOK, PostgresOK, IsTable
  <2>2. memories'[c] = [row EXCEPT !.type = given.type, !.meta = @ \cup given.meta,
                                   !.revoked = MergedMark(given.mark, @)]
    BY <1>2 DEF Upserted
  <2> HIDE DEF row, given
  <2>3. memories'[c].meta = row.meta \cup given.meta
    BY <2>1, <2>2 DEF Row
  <2>4. memories'[c].revoked = MergedMark(given.mark, row.revoked)
    BY <2>1, <2>2 DEF Row
  <2> QED
    BY <2>3, <2>4 DEF row, given
<1>3. request[r].mark \in {"absent", "revoked", "valid"}
  BY ConstantsAssumption DEF TypeOK, CallersOK, Request, ConstantsAssumption
<1>4. pc'[r] # pc[r]
  BY DEF CommitWrite, Go, At, TypeOK, CallersOK
<1>5. ASSUME c \in DOMAIN memories, memories[c].revoked, ~memories'[c].revoked
      PROVE  Unmarks(r, c)
  BY <1>2, <1>3, <1>4, <1>5 DEF Unmarks, MergedMark
<1> QED
  BY <1>1, <1>2, <1>5 DEF LosesByOverwriting

LEMMA ForgetKeeps ==
  ASSUME TypeOK, NEW r \in Caller, ForgetCommit(r)
  PROVE  LosesByOverwriting
<1>1. pc[r] = "commit" /\ pc'[r] = "points"
  BY DEF ForgetCommit, Go, At, TypeOK, CallersOK
<1>2. \A c \in DOMAIN memories : memories[c] \in Row
  BY DEF TypeOK, PostgresOK, IsTable
<1>3. ASSUME NEW c \in DOMAIN memories, ~Overwrites(r, c)
      PROVE  /\ memories[c].meta \subseteq memories'[c].meta
             /\ memories[c].revoked => memories'[c].revoked
  <2>1. c \in request[r].contents => seen[r][c] = memories[c]
    BY <1>1, <1>3 DEF Overwrites
  <2>2. \/ memories'[c] = memories[c]
        \/ memories'[c] = [memories[c] EXCEPT !.meta = memories[c].meta, !.revoked = TRUE]
    BY <2>1 DEF ForgetCommit
  <2> QED
    BY <1>2, <2>2 DEF Row
<1>4. DOMAIN memories' = DOMAIN memories
  BY DEF ForgetCommit
<1> QED
  BY <1>3, <1>4 DEF LosesByOverwriting

LEMMA PatchKeeps ==
  ASSUME TypeOK, NEW r \in Caller, PatchCommit(r)
  PROVE  LosesByOverwriting
<1> PICK c \in request[r].contents, text \in Content :
      \E row \in Patched(r, c, text) : memories' = [memories EXCEPT ![c] = row]
  BY DEF PatchCommit
<1> PICK row \in Patched(r, c, text) : memories' = [memories EXCEPT ![c] = row]
  OBVIOUS
<1>1. pc[r] = "commit" /\ pc'[r] = "idle"
  BY DEF PatchCommit, Return, Go, At, TypeOK, CallersOK
<1>2. \A x \in DOMAIN memories : x \in DOMAIN memories' /\ (x # c => memories'[x] = memories[x])
  OBVIOUS
<1>3. request[r].mark \in {"absent", "revoked", "valid"}
  BY ConstantsAssumption DEF TypeOK, CallersOK, Request, ConstantsAssumption
<1>4. ASSUME c \in DOMAIN memories, ~Overwrites(r, c)
      PROVE  /\ memories[c].meta \subseteq memories'[c].meta
             /\ (memories[c].revoked => memories'[c].revoked) \/ Unmarks(r, c)
  <2>1. seen[r][c] = memories[c]
    BY <1>1, <1>4 DEF Overwrites
  <2>2. /\ memories'[c] = row
        /\ \/ row.meta = memories[c].meta /\ row.revoked = memories[c].revoked
           \/ /\ row.meta = memories[c].meta \cup request[r].meta
              /\ row.revoked = MergedMark(request[r].mark, memories[c].revoked)
    BY <1>4, <2>1, PatchedIs DEF PatchCommit
  <2>3. request[r].mark # "valid" \/ Unmarks(r, c)
    BY <1>1 DEF Unmarks
  <2>4. memories[c].meta \subseteq memories'[c].meta
    BY <2>2
  <2>5. (memories[c].revoked => memories'[c].revoked) \/ Unmarks(r, c)
    BY <1>3, <2>2, <2>3 DEF MergedMark
  <2> QED
    BY <2>4, <2>5
<1> QED
  BY <1>2, <1>4 DEF LosesByOverwriting

(* A row is never lost; what a write takes from it, it takes because it      *)
(* overwrites what it has not read, or because its caller says so           *)
(* (memory.py:448, 356, sql/006:30-34).                                     *)
THEOREM WritesLoseOnlyStale == Spec => OnlyStaleWritesLose
<1>1. ASSUME TypeOK, MemoriesHaveChunks, [Next]_vars PROVE [LosesByOverwriting]_memories
  <2>1. ASSUME NEW r \in Caller, DeleteIdentity(r) PROVE UNCHANGED memories
    <3>1. \A c \in DOMAIN memories : ChunksOf(c) # {}
      BY <1>1 DEF MemoriesHaveChunks, Range, ChunksOf
    <3> QED
      BY <2>1, <3>1 DEF DeleteIdentity
  <2> QED
    BY <1>1, <2>1, RowsMove, UpsertKeeps, ForgetKeeps, PatchKeeps
<1> QED
  BY <1>1, TypeCorrect, MemoriesKeepChunks, PTL DEF Spec, OnlyStaleWritesLose

=============================================================================
