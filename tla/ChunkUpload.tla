----------------------------- MODULE ChunkUpload ----------------------------
(***************************************************************************)
(* Upload of one encrypted file in chunks: the handlers of                 *)
(* POST /files/upload-chunk (FilesService.uploadChunk), which interleave   *)
(* at every await, and the client's loop over the chunks (processTask)     *)
(* with its retries.  The handlers share the database, the storage backend *)
(* and the Redis entry upload:{user}:{idempotencyKey}.                     *)
(*                                                                         *)
(* A chunk has size 1.  The key material (DEK bundle) that encrypts a      *)
(* chunk is the number of the client task that generated it.  The name of  *)
(* the node, its MIME type and its digest are left out.                    *)
(***************************************************************************)
EXTENDS Integers, Sequences, FiniteSets

CONSTANTS
  TotalChunks,  \* chunks of the file
  Nodes,        \* identities a node row may take; bounds the rows created
  NoNode,       \* a Redis miss
  Requests,     \* handler slots of the server; bounds the overlap
  NoRequest,
  MaxTasks,     \* how often the user adds this file to the upload list
  MaxAttempts,  \* tries of one chunk; 5 in the code
  Faults        \* what the environment may do, a subset of FaultKinds

(***************************************************************************)
(*   refuse     storage.upload throws, or the parent folder is gone        *)
(*   lostReply  the reply of a finished handler does not reach the client  *)
(*   timeout    the client gives up while the handler still runs           *)
(*   abort      an await inside the handler throws, or the process dies    *)
(*   lookup     the query for an existing chunk throws (caught, -> null)   *)
(*   redis      a Redis call throws (caught and ignored)                   *)
(*   expire     the Redis entry reaches its TTL of 3600 s                  *)
(***************************************************************************)
FaultKinds ==
  {"refuse", "lostReply", "timeout", "abort", "lookup", "redis", "expire"}

ASSUME UploadAssumption ==
  /\ TotalChunks \in Nat \ {0}
  /\ NoNode \notin Nodes
  /\ NoRequest \notin Requests
  /\ MaxTasks \in Nat \ {0}
  /\ MaxAttempts \in Nat \ {0}
  /\ Faults \subseteq FaultKinds

VARIABLES
  \* handlers
  pc,           \* the await a handler is at
  args,         \* chunk index and DEK bundle of its request
  nodeOf,       \* the handler's local nodeId
  \* server state
  cache,        \* Redis: upload:{user}:{idempotencyKey} -> node, or NoNode
  created,      \* the nodes that have a row
  key,          \* key[n]: DEK bundle in the node_keys row of n, 0 if none
  rows,         \* rows[n]: the file_chunks rows of n, oldest first
  objects,      \* objects[n][i]: DEK bundle of the bytes under chunk_i of n
  size,         \* size[n]: nodes.size, 0 until assembly
  charged,      \* charged[n]: what assembling n has added to users.used_bytes
  \* client
  status,       \* status of the current upload task
  task,         \* number of the current task, and of its DEK bundle
  next,         \* the chunk the loop is at
  attempts,     \* failed tries of that chunk
  waiting       \* the request the loop awaits, or NoRequest

handlerVars == <<pc, args, nodeOf>>
serverVars == <<cache, created, key, rows, objects, size, charged>>
clientVars == <<status, task, next, attempts, waiting>>
vars == <<handlerVars, serverVars, clientVars>>

Chunks == 0 .. TotalChunks - 1
Bundles == 1 .. MaxTasks
Row == [index : Chunks, bundle : Bundles]
NoArgs == [index |-> 0, bundle |-> 1]  \* of a slot without a request

\* The awaits of uploadChunk, in the order of the code.
Running ==
  {"get", "create", "setCache", "saveKey", "find", "store", "saveRow",
   "count", "check", "setSize", "charge", "delCache"}
Replied == {"acked", "rejected"}

TypeOK ==
  /\ pc \in [Requests -> Running \union Replied \union {"idle"}]
  /\ args \in [Requests -> Row]
  /\ nodeOf \in [Requests -> Nodes \union {NoNode}]
  /\ cache \in Nodes \union {NoNode}
  /\ created \subseteq Nodes
  /\ key \in [Nodes -> 0 .. MaxTasks]
  /\ rows \in [Nodes -> Seq(Row)]
  /\ objects \in [Nodes -> [Chunks -> 0 .. MaxTasks]]
  /\ size \in [Nodes -> Nat]
  /\ charged \in [Nodes -> Nat]
  /\ status \in {"idle", "uploading", "done", "error"}
  /\ task \in 0 .. MaxTasks
  /\ next \in 0 .. TotalChunks
  /\ attempts \in 0 .. MaxAttempts
  /\ waiting \in Requests \union {NoRequest}

Init ==
  /\ pc = [r \in Requests |-> "idle"]
  /\ args = [r \in Requests |-> NoArgs]
  /\ nodeOf = [r \in Requests |-> NoNode]
  /\ cache = NoNode
  /\ created = {}
  /\ key = [n \in Nodes |-> 0]
  /\ rows = [n \in Nodes |-> <<>>]
  /\ objects = [n \in Nodes |-> [i \in Chunks |-> 0]]
  /\ size = [n \in Nodes |-> 0]
  /\ charged = [n \in Nodes |-> 0]
  /\ status = "idle"
  /\ task = 0
  /\ next = 0
  /\ attempts = 0
  /\ waiting = NoRequest

-----------------------------------------------------------------------------
\* Handlers

At(r, p) == pc[r] = p

Goto(r, p) ==
  /\ pc' = [pc EXCEPT ![r] = p]
  /\ UNCHANGED <<args, nodeOf, clientVars>>

\* The handler ends and its frame is gone.  A reply nobody waits for is dropped
\* with the connection.
Reply(r, outcome) ==
  /\ pc' = [pc EXCEPT ![r] = IF waiting = r THEN outcome ELSE "idle"]
  /\ args' = [args EXCEPT ![r] = NoArgs]
  /\ nodeOf' = [nodeOf EXCEPT ![r] = NoNode]
  /\ UNCHANGED clientVars

\* Variant: the entry is never consulted.
GetCacheAlwaysMisses(r) ==
  /\ At(r, "get")
  /\ pc' = [pc EXCEPT ![r] = "create"]
  /\ UNCHANGED <<args, nodeOf, clientVars, serverVars>>

\* redis.get(cacheKey).catch(() => null)
GetCache(r) ==
  /\ At(r, "get")
  /\ \E found \in {cache} \union (IF "redis" \in Faults THEN {NoNode} ELSE {}) :
       /\ nodeOf' = [nodeOf EXCEPT ![r] = found]
       /\ pc' = [pc EXCEPT ![r] = IF found = NoNode THEN "create" ELSE "find"]
  /\ UNCHANGED <<args, clientVars, serverVars>>

\* No node for this key yet: the request becomes the first of a new file.
CreateNode(r) ==
  /\ At(r, "create")
  /\ \E n \in Nodes \ created :
       /\ created' = created \union {n}
       /\ nodeOf' = [nodeOf EXCEPT ![r] = n]
  /\ pc' = [pc EXCEPT ![r] = "setCache"]
  /\ UNCHANGED <<args, clientVars, cache, key, rows, objects, size, charged>>

\* redis.set(cacheKey, nodeId, 'EX', 3600).catch(() => {})
SetCache(r) ==
  /\ At(r, "setCache")
  /\ \/ cache' = nodeOf[r]
     \/ "redis" \in Faults /\ UNCHANGED cache
  /\ Goto(r, "saveKey")
  /\ UNCHANGED <<created, key, rows, objects, size, charged>>

SaveKey(r) ==
  /\ At(r, "saveKey")
  /\ key' = [key EXCEPT ![nodeOf[r]] = args[r].bundle]
  /\ Goto(r, "find")
  /\ UNCHANGED <<cache, created, rows, objects, size, charged>>

HasRow(n, i) == \E j \in DOMAIN rows[n] : rows[n][j].index = i

\* Variant: no idempotency check.
FindChunkSkipped(r) ==
  /\ At(r, "find")
  /\ Goto(r, "store")
  /\ UNCHANGED serverVars

\* The idempotency check; the query's own failure counts as "not there".
FindChunk(r) ==
  /\ At(r, "find")
  /\ \/ /\ HasRow(nodeOf[r], args[r].index)
        /\ Reply(r, "acked")
     \/ /\ ~HasRow(nodeOf[r], args[r].index) \/ "lookup" \in Faults
        /\ Goto(r, "store")
  /\ UNCHANGED serverVars

\* Variant: answers as soon as the bytes are stored.
StoreAndReply(r) ==
  /\ At(r, "store")
  /\ objects' = [objects EXCEPT ![nodeOf[r]][args[r].index] = args[r].bundle]
  /\ Reply(r, "acked")
  /\ UNCHANGED <<cache, created, key, rows, size, charged>>

\* Variant: a failed upload is not noticed.
StoreUnchecked(r) ==
  /\ At(r, "store")
  /\ Goto(r, "saveRow")
  /\ UNCHANGED serverVars

\* storage.upload on the key {user}/{node}/chunk_{i}: a later call overwrites.
Store(r) ==
  /\ At(r, "store")
  /\ objects' = [objects EXCEPT ![nodeOf[r]][args[r].index] = args[r].bundle]
  /\ Goto(r, "saveRow")
  /\ UNCHANGED <<cache, created, key, rows, size, charged>>

SaveRow(r) ==
  /\ At(r, "saveRow")
  /\ rows' = [rows EXCEPT ![nodeOf[r]] = Append(@, args[r])]
  /\ Goto(r, "count")
  /\ UNCHANGED <<cache, created, key, objects, size, charged>>

CountRows(r) ==
  /\ At(r, "count")
  /\ \/ /\ Len(rows[nodeOf[r]]) = TotalChunks
        /\ Goto(r, "check")
     \/ /\ Len(rows[nodeOf[r]]) # TotalChunks
        /\ Reply(r, "acked")
  /\ UNCHANGED serverVars

\* Variant: the check before P1-B9, rows are only counted.
IndexSetCounted(n) == Len(rows[n]) = TotalChunks

\* indices, sorted, equal 0 .. totalChunks - 1
IndexSetOk(n) ==
  /\ Len(rows[n]) = TotalChunks
  /\ \A i \in Chunks : HasRow(n, i)

CheckIndices(r) ==
  /\ At(r, "check")
  /\ \/ /\ IndexSetOk(nodeOf[r])
        /\ Goto(r, "setSize")
     \/ /\ ~IndexSetOk(nodeOf[r])
        /\ Reply(r, "rejected")
  /\ UNCHANGED serverVars

SetSize(r) ==
  /\ At(r, "setSize")
  /\ size' = [size EXCEPT ![nodeOf[r]] = TotalChunks]
  /\ Goto(r, "charge")
  /\ UNCHANGED <<cache, created, key, rows, objects, charged>>

ChargeOwner(r) ==
  /\ At(r, "charge")
  /\ charged' = [charged EXCEPT ![nodeOf[r]] = @ + TotalChunks]
  /\ Goto(r, "delCache")
  /\ UNCHANGED <<cache, created, key, rows, objects, size>>

\* redis.del(cacheKey), whatever node the entry names by now
DelCache(r) ==
  /\ At(r, "delCache")
  /\ \/ cache' = NoNode
     \/ "redis" \in Faults /\ UNCHANGED cache
  /\ Reply(r, "acked")
  /\ UNCHANGED <<created, key, rows, objects, size, charged>>

Refuse(r) ==
  /\ "refuse" \in Faults
  /\ pc[r] \in {"create", "store"}
  /\ Reply(r, "rejected")
  /\ UNCHANGED serverVars

\* The calls that catch their own failure are not aborted by it, but by a
\* crash of the process they are.
Abort(r) ==
  /\ "abort" \in Faults
  /\ pc[r] \in Running
  /\ Reply(r, "rejected")
  /\ UNCHANGED serverVars

Expire ==
  /\ "expire" \in Faults
  /\ cache # NoNode
  /\ cache' = NoNode
  /\ UNCHANGED <<handlerVars, clientVars, created, key, rows, objects, size, charged>>

Handler(r) ==
  \/ GetCache(r)
  \/ CreateNode(r)
  \/ SetCache(r)
  \/ SaveKey(r)
  \/ FindChunk(r)
  \/ Store(r)
  \/ SaveRow(r)
  \/ CountRows(r)
  \/ CheckIndices(r)
  \/ SetSize(r)
  \/ ChargeOwner(r)
  \/ DelCache(r)

-----------------------------------------------------------------------------
\* Client

\* The user adds the file: a new task, and with it a new DEK bundle, under
\* the same idempotency key {hash}-{name}-{size}.
AddFile ==
  /\ status # "uploading"
  /\ task < MaxTasks
  /\ task' = task + 1
  /\ status' = "uploading"
  /\ next' = 0
  /\ attempts' = 0
  /\ UNCHANGED <<waiting, handlerVars, serverVars>>

Send(r) ==
  /\ status = "uploading"
  /\ waiting = NoRequest
  /\ At(r, "idle")
  /\ pc' = [pc EXCEPT ![r] = "get"]
  /\ args' = [args EXCEPT ![r] = [index |-> next, bundle |-> task]]
  /\ nodeOf' = [nodeOf EXCEPT ![r] = NoNode]
  /\ waiting' = r
  /\ UNCHANGED <<status, task, next, attempts, serverVars>>

Ack(r) ==
  /\ waiting = r
  /\ At(r, "acked")
  /\ pc' = [pc EXCEPT ![r] = "idle"]
  /\ next' = next + 1
  /\ status' = IF next + 1 = TotalChunks THEN "done" ELSE status
  /\ attempts' = 0
  /\ waiting' = NoRequest
  /\ UNCHANGED <<task, args, nodeOf, serverVars>>

\* Variant: failed tries are not counted.
AttemptFailsUncounted ==
  /\ waiting' = NoRequest
  /\ UNCHANGED <<attempts, status, task, next, args, nodeOf, serverVars>>

\* Variant: the last failed try does not end the task.
AttemptFailsForever ==
  /\ attempts' = attempts + 1
  /\ waiting' = NoRequest
  /\ UNCHANGED <<status, task, next, args, nodeOf, serverVars>>

AttemptFails ==
  /\ attempts' = attempts + 1
  /\ status' = IF attempts + 1 = MaxAttempts THEN "error" ELSE status
  /\ waiting' = NoRequest
  /\ UNCHANGED <<task, next, args, nodeOf, serverVars>>

Nack(r) ==
  /\ waiting = r
  /\ At(r, "rejected")
  /\ pc' = [pc EXCEPT ![r] = "idle"]
  /\ AttemptFails

LoseReply(r) ==
  /\ "lostReply" \in Faults
  /\ waiting = r
  /\ At(r, "acked")
  /\ pc' = [pc EXCEPT ![r] = "idle"]
  /\ AttemptFails

TimeOut(r) ==
  /\ "timeout" \in Faults
  /\ waiting = r
  /\ pc[r] \in Running
  /\ AttemptFails
  /\ UNCHANGED pc

Client(r) ==
  \/ Send(r)
  \/ Ack(r)
  \/ Nack(r)
  \/ LoseReply(r)
  \/ TimeOut(r)

-----------------------------------------------------------------------------
Next ==
  \/ AddFile
  \/ Expire
  \/ \E r \in Requests : Handler(r) \/ Client(r) \/ Refuse(r) \/ Abort(r)

Spec == Init /\ [][Next]_vars

(***************************************************************************)
(* A handler that was started is run to its end by the event loop, and the *)
(* client's loop goes on as long as its task is uploading.                 *)
(***************************************************************************)
Fairness ==
  \A r \in Requests : WF_vars(Handler(r)) /\ WF_vars(Client(r))

FairSpec == Spec /\ Fairness

-----------------------------------------------------------------------------
\* Properties

Assembled(n) == size[n] # 0

\* A node whose size is published has a row for every chunk: the guarantee of
\* the assembly check of uploadChunk (count, then index set), whatever fails
\* and however handlers overlap.
AssembledIsComplete ==
  \A n \in Nodes : Assembled(n) => \A i \in Chunks : HasRow(n, i)

\* Every chunk the client counts as uploaded has a row in some node: no
\* handler answers 200 before its row, or an equal one, is in the database.
AckedIsStored ==
  \A i \in Chunks : i < next => \E n \in created : HasRow(n, i)

\* A chunk row never points at bytes that were not stored: the object is
\* written before the row, so a crash between the two leaves no dangling row.
RowsHaveObjects ==
  \A n \in Nodes : \A j \in DOMAIN rows[n] : objects[n][rows[n][j].index] # 0

\* Can be decrypted with the one key stored for it.
Readable(n) ==
  /\ Assembled(n)
  /\ IndexSetOk(n)
  /\ key[n] # 0
  /\ \A j \in DOMAIN rows[n] :
       /\ rows[n][j].bundle = key[n]
       /\ objects[n][rows[n][j].index] = key[n]

\* When the upload list shows the task as done, the server holds an assembled
\* file that its own key decrypts (processTask treats any 200 as progress and
\* never looks at the "done" field of the reply).
DoneIsReadable == status = "done" => \E n \in created : Readable(n)

\* No two rows of a node record the same chunk, which a download would
\* concatenate twice (getDownloadInfo returns every row).
OneRowPerChunk ==
  \A n \in Nodes : \A j, k \in DOMAIN rows[n] :
    rows[n][j].index = rows[n][k].index => j = k

\* An upload task does not hang: it is shown as done or as failed (five tries
\* per chunk in processTask).
TaskEnds == status = "uploading" ~> status \in {"done", "error"}

\* One request at a time is enough for the handlers to behave as if uploading
\* a chunk, assembling a file and charging its owner were atomic.
Atomic ==
  INSTANCE AtomicUpload WITH
    Files <- Nodes,
    opened <- created,
    stored <- [n \in Nodes |-> [i \in Chunks |->
                Cardinality({j \in DOMAIN rows[n] : rows[n][j].index = i})]],
    assembled <- {n \in Nodes : Assembled(n)}

ImplementsAtomicUpload == Atomic!Spec
=============================================================================
