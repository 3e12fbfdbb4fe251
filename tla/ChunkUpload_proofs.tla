------------------------- MODULE ChunkUpload_proofs -------------------------
(***************************************************************************)
(* Proofs about ChunkUpload, for every number of chunks, handlers, tasks   *)
(* and tries and every set of faults; the second half is about requests    *)
(* that follow one another, and then the upload implements AtomicUpload.   *)
(***************************************************************************)
EXTENDS MC_Liveness, FiniteSetTheorems, TLAPS

(***************************************************************************)
(* The client's loop: it awaits a request only while its task is           *)
(* uploading, and then chunk and tries are within their limits.            *)
(***************************************************************************)
LoopInv ==
  /\ waiting # NoRequest => status = "uploading"
  /\ status = "uploading" =>
       /\ next < TotalChunks
       /\ attempts < MaxAttempts
       /\ task \in Bundles

TypeInv == TypeOK /\ LoopInv

\* Awaits at which nodeId is set.
Bound == Running \ {"get", "create"}

\* Awaits at which the handler's own row is in the database.
Saved == {"count", "check", "setSize", "charge", "delCache"}

\* The node a handler works on, or Redis names, has a row.
NodeInv ==
  /\ cache # NoNode => cache \in created
  /\ \A r \in Requests : pc[r] \in Bound => nodeOf[r] \in created

\* What a handler has stored is still there.
ProgressInv ==
  /\ RowsHaveObjects
  /\ \A r \in Requests :
       pc[r] = "saveRow" => objects[nodeOf[r]][args[r].index] # 0
  /\ \A r \in Requests :
       pc[r] \in Saved => HasRow(nodeOf[r], args[r].index)

\* The size is published only after the index set was found complete.
AssemblyInv ==
  /\ AssembledIsComplete
  /\ \A r \in Requests :
       pc[r] = "setSize" => \A i \in Chunks : HasRow(nodeOf[r], i)

\* The awaited request is for the chunk the loop is at, and an answer of 200
\* means that this chunk has a row.
AckInv ==
  /\ AckedIsStored
  /\ \A r \in Requests : waiting = r =>
       /\ pc[r] \in Running => args[r].index = next
       /\ pc[r] = "acked" => \E n \in created : HasRow(n, next)

-----------------------------------------------------------------------------
USE UploadAssumption

LEMMA BundlesFact == Bundles \subseteq 1 .. MaxTasks /\ 1 \in Bundles
  BY DEF Bundles

LEMMA NoArgsType == NoArgs \in Row
  BY DEF NoArgs, Row, Chunks, Bundles

LEMMA InitTypeInv == Init => TypeInv
  BY NoArgsType DEF Init, TypeInv, TypeOK, LoopInv, Running, Replied

LEMMA ReplyType ==
  ASSUME TypeInv, NEW r \in Requests, NEW o \in Replied, Reply(r, o)
  PROVE  /\ pc' \in [Requests -> Running \union Replied \union {"idle"}]
         /\ args' \in [Requests -> Row]
         /\ nodeOf' \in [Requests -> Nodes \union {NoNode}]
         /\ UNCHANGED clientVars
  BY NoArgsType DEF TypeInv, TypeOK, Reply, clientVars

(***************************************************************************)
(* What every step does to the handlers' frames and to the client is one   *)
(* of few things; each action is typed with the one it uses.               *)
(***************************************************************************)
LEMMA NextTypeInv == TypeInv /\ [Next]_vars => TypeInv'
<1> SUFFICES ASSUME TypeInv, [Next]_vars
             PROVE  TypeInv'
  OBVIOUS
<1> USE DEF TypeInv
<1>1. CASE AddFile
  BY <1>1 DEF AddFile, TypeOK, LoopInv, handlerVars, serverVars, Bundles
<1>2. CASE Expire
  BY <1>2 DEF Expire, TypeOK, LoopInv, handlerVars, clientVars
<1>3. ASSUME NEW r \in Requests, Handler(r)
      PROVE  TypeInv'
  <2>1. CASE GetCache(r)
    BY <2>1 DEF GetCache, TypeOK, LoopInv, serverVars, clientVars, Running
  <2>2. CASE CreateNode(r)
    BY <2>2 DEF CreateNode, TypeOK, LoopInv, clientVars, Running
  <2>3. CASE SetCache(r)
    BY <2>3 DEF SetCache, Goto, TypeOK, LoopInv, clientVars, Running
  <2>4. CASE SaveKey(r)
    <3>1. args[r].bundle \in 0 .. MaxTasks
      BY DEF TypeOK, Row, Bundles
    <3>2. QED
      BY <2>4, <3>1 DEF SaveKey, Goto, TypeOK, LoopInv, clientVars, Running
  <2>5. CASE FindChunk(r)
    <3>1. CASE Goto(r, "store")
      BY <2>5, <3>1 DEF FindChunk, Goto, TypeOK, LoopInv, serverVars, clientVars, Running
    <3>2. CASE Reply(r, "acked")
      BY <2>5, <3>2, ReplyType DEF FindChunk, TypeOK, LoopInv, serverVars, clientVars, Replied
    <3>3. QED
      BY <2>5, <3>1, <3>2 DEF FindChunk
  <2>6. CASE Store(r)
    <3>1. args[r].bundle \in 0 .. MaxTasks /\ args[r].index \in Chunks
      BY DEF TypeOK, Row, Bundles
    <3>2. objects' \in [Nodes -> [Chunks -> 0 .. MaxTasks]]
      BY <2>6, <3>1 DEF Store, TypeOK
    <3>3. QED
      BY <2>6, <3>2 DEF Store, Goto, TypeOK, LoopInv, clientVars, Running
  <2>7. CASE SaveRow(r)
    <3>1. rows' \in [Nodes -> Seq(Row)]
      <4>1. \A n \in Nodes : Append(rows[n], args[r]) \in Seq(Row)
        BY DEF TypeOK
      <4>2. rows' = [n \in Nodes |-> IF n = nodeOf[r] THEN Append(rows[n], args[r])
                                                    ELSE rows[n]]
        BY <2>7 DEF SaveRow, TypeOK
      <4>3. QED
        BY <4>1, <4>2 DEF TypeOK
    <3>2. QED
      BY <2>7, <3>1 DEF SaveRow, Goto, TypeOK, LoopInv, clientVars, Running
  <2>8. CASE CountRows(r)
    <3>1. CASE Goto(r, "check")
      BY <2>8, <3>1 DEF CountRows, Goto, TypeOK, LoopInv, serverVars, clientVars, Running
    <3>2. CASE Reply(r, "acked")
      BY <2>8, <3>2, ReplyType DEF CountRows, TypeOK, LoopInv, serverVars, clientVars, Replied
    <3>3. QED
      BY <2>8, <3>1, <3>2 DEF CountRows
  <2>9. CASE CheckIndices(r)
    <3>1. CASE Goto(r, "setSize")
      BY <2>9, <3>1 DEF CheckIndices, Goto, TypeOK, LoopInv, serverVars, clientVars, Running
    <3>2. CASE Reply(r, "rejected")
      BY <2>9, <3>2, ReplyType DEF CheckIndices, TypeOK, LoopInv, serverVars, clientVars, Replied
    <3>3. QED
      BY <2>9, <3>1, <3>2 DEF CheckIndices
  <2>10. CASE SetSize(r)
    BY <2>10 DEF SetSize, Goto, TypeOK, LoopInv, clientVars, Running
  <2>11. CASE ChargeOwner(r)
    <3>1. charged' \in [Nodes -> Nat]
      <4>1. charged' = [n \in Nodes |-> IF n = nodeOf[r] THEN charged[n] + TotalChunks
                                                       ELSE charged[n]]
        BY <2>11 DEF ChargeOwner, TypeOK
      <4>2. QED
        BY <4>1 DEF TypeOK
    <3>2. QED
      BY <2>11, <3>1 DEF ChargeOwner, Goto, TypeOK, LoopInv, clientVars, Running
  <2>12. CASE DelCache(r)
    BY <2>12, ReplyType DEF DelCache, TypeOK, LoopInv, clientVars, Replied
  <2>13. QED
    BY <1>3, <2>1, <2>2, <2>3, <2>4, <2>5, <2>6, <2>7, <2>8, <2>9, <2>10,
       <2>11, <2>12 DEF Handler
<1>4. ASSUME NEW r \in Requests, Client(r)
      PROVE  TypeInv'
  <2>1. CASE Send(r)
    <3>1. [index |-> next, bundle |-> task] \in Row
      BY <2>1 DEF Send, TypeOK, LoopInv, Row, Chunks
    <3>2. QED
      BY <2>1, <3>1 DEF Send, TypeOK, LoopInv, serverVars, Running
  <2>2. CASE Ack(r)
    BY <2>2 DEF Ack, TypeOK, LoopInv, serverVars
  <2>3. ASSUME AttemptFails, waiting = r,
               \/ pc' = [pc EXCEPT ![r] = "idle"]
               \/ UNCHANGED pc
        PROVE  TypeInv'
    <3>1. attempts < MaxAttempts /\ attempts + 1 \in 0 .. MaxAttempts
      BY <2>3 DEF TypeOK, LoopInv
    <3>2. pc' \in [Requests -> Running \union Replied \union {"idle"}]
      BY <2>3 DEF TypeOK
    <3>3. attempts + 1 # MaxAttempts => attempts + 1 < MaxAttempts
      BY <3>1 DEF TypeOK
    <3>4. QED
      BY <2>3, <3>1, <3>2, <3>3 DEF AttemptFails, TypeOK, LoopInv, serverVars
  <2>4. QED
    BY <1>4, <2>1, <2>2, <2>3 DEF Client, Nack, LoseReply, TimeOut
<1>5. ASSUME NEW r \in Requests, Refuse(r) \/ Abort(r)
      PROVE  TypeInv'
  <2>1. Reply(r, "rejected") /\ UNCHANGED serverVars
    BY <1>5 DEF Refuse, Abort
  <2>2. QED
    BY <2>1, ReplyType DEF TypeOK, LoopInv, serverVars, clientVars, Replied
<1>6. CASE UNCHANGED vars
  BY <1>6 DEF vars, handlerVars, serverVars, clientVars, TypeOK, LoopInv
<1>7. QED
  BY <1>1, <1>2, <1>3, <1>4, <1>5, <1>6 DEF Next

\* Every variable of the upload keeps its type, whatever the faults: in
\* particular the retry counter of processTask stays within its limit.
THEOREM UploadTypeCorrect == Spec => []TypeOK
<1>1. Spec => []TypeInv
  BY InitTypeInv, NextTypeInv, PTL DEF Spec
<1>2. TypeInv => TypeOK
  BY DEF TypeInv
<1>3. QED
  BY <1>1, <1>2, PTL

-----------------------------------------------------------------------------
\* A step of the request in slot r.
StepOf(r) == Handler(r) \/ Client(r) \/ Refuse(r) \/ Abort(r)

LEMMA NextSteps ==
  ASSUME Next
  PROVE  \/ AddFile
         \/ Expire
         \/ \E r \in Requests : StepOf(r)
  BY DEF Next, StepOf

\* The server keeps what it has: nodes, rows and objects.
LEMMA NothingLost ==
  ASSUME TypeInv, [Next]_vars
  PROVE  /\ created \subseteq created'
         /\ \A n \in Nodes : \A i \in Chunks : HasRow(n, i) => HasRow(n, i)'
         /\ \A n \in Nodes : \A i \in Chunks :
              objects[n][i] # 0 => objects[n][i]' # 0
<1>1. CASE UNCHANGED <<created, rows, objects>>
  BY <1>1 DEF HasRow
<1>2. ASSUME NEW r \in Requests, CreateNode(r)
      PROVE  created \subseteq created' /\ UNCHANGED <<rows, objects>>
  BY <1>2 DEF CreateNode
<1>3. ASSUME NEW r \in Requests, Store(r)
      PROVE  /\ UNCHANGED <<created, rows>>
             /\ \A n \in Nodes : \A i \in Chunks :
                  objects[n][i] # 0 => objects[n][i]' # 0
  <2>1. args[r].bundle # 0 /\ args[r].index \in Chunks
    BY DEF TypeInv, TypeOK, Row, Bundles
  <2>2. QED
    BY <1>3, <2>1 DEF Store, TypeInv, TypeOK
<1>4. ASSUME NEW r \in Requests, SaveRow(r)
      PROVE  /\ UNCHANGED <<created, objects>>
             /\ \A n \in Nodes : \A i \in Chunks : HasRow(n, i) => HasRow(n, i)'
  <2>1. \A n \in Nodes : rows[n] \in Seq(Row)
    BY DEF TypeInv, TypeOK
  <2>2. \A n \in Nodes : rows'[n] = rows[n] \/ rows'[n] = Append(rows[n], args[r])
    BY <1>4 DEF SaveRow, TypeInv, TypeOK
  <2>3. args[r] \in Row
    BY DEF TypeInv, TypeOK
  <2>4. \A n \in Nodes : \A j \in DOMAIN rows[n] :
           j \in DOMAIN rows'[n] /\ rows'[n][j] = rows[n][j]
    BY <2>1, <2>2, <2>3, SMTT(30)
  <2>5. QED
    BY <1>4, <2>4 DEF SaveRow, HasRow
<1>5. UNCHANGED <<created, rows, objects>> \/ \E r \in Requests :
        CreateNode(r) \/ Store(r) \/ SaveRow(r)
  BY DEF Next, vars, serverVars, AddFile, Expire, Handler, Client, Refuse,
         Abort, GetCache, SetCache, SaveKey, FindChunk, CountRows,
         CheckIndices, SetSize, ChargeOwner, DelCache, Send, Ack, Nack,
         LoseReply, TimeOut, AttemptFails
<1>6. QED
  BY <1>1, <1>2, <1>3, <1>4, <1>5 DEF HasRow

\* A step of one request leaves the frames of the others alone.
LEMMA OthersStay ==
  ASSUME TypeInv, NEW r \in Requests, StepOf(r), NEW s \in Requests, s # r
  PROVE  /\ pc'[s] = pc[s]
         /\ args'[s] = args[s]
         /\ nodeOf'[s] = nodeOf[s]
  BY DEF TypeInv, TypeOK, StepOf, Handler, Client, Refuse, Abort, GetCache,
         CreateNode, SetCache, SaveKey, FindChunk, Store, SaveRow, CountRows,
         CheckIndices, SetSize, ChargeOwner, DelCache, Send, Ack, Nack,
         LoseReply, TimeOut, AttemptFails, Goto, Reply, clientVars

\* What a step of r may have been, by the await r is at afterwards.
LEMMA OwnStep ==
  ASSUME TypeInv, NEW r \in Requests, StepOf(r)
  PROVE  \/ pc'[r] \in Replied \union {"idle"}
         \/ TimeOut(r)
         \/ Send(r) /\ pc'[r] = "get"
         \/ GetCache(r) /\ pc'[r] = "create"
         \/ GetCache(r) /\ pc'[r] = "find" /\ nodeOf'[r] = cache
                        /\ cache # NoNode /\ args'[r] = args[r]
         \/ /\ args'[r] = args[r]
            /\ \/ CreateNode(r) /\ pc'[r] = "setCache"
               \/ /\ nodeOf'[r] = nodeOf[r]
                  /\ \/ SetCache(r) /\ pc'[r] = "saveKey"
                     \/ SaveKey(r) /\ pc'[r] = "find"
                     \/ FindChunk(r) /\ pc'[r] = "store"
                     \/ Store(r) /\ pc'[r] = "saveRow"
                     \/ SaveRow(r) /\ pc'[r] = "count"
                     \/ CountRows(r) /\ pc'[r] = "check"
                     \/ CheckIndices(r) /\ pc'[r] = "setSize"
                     \/ SetSize(r) /\ pc'[r] = "charge"
                     \/ ChargeOwner(r) /\ pc'[r] = "delCache"
<1> USE DEF TypeInv, TypeOK
<1>1. CASE Refuse(r) \/ Abort(r)
  BY <1>1 DEF Refuse, Abort, Reply, Replied
<1>2. CASE Client(r)
  BY <1>2 DEF Client, Send, Ack, Nack, LoseReply
<1>3. CASE GetCache(r) \/ CreateNode(r)
  BY <1>3 DEF GetCache, CreateNode
<1>4. CASE SetCache(r) \/ SaveKey(r) \/ Store(r) \/ SaveRow(r) \/ SetSize(r) \/ ChargeOwner(r)
  BY <1>4 DEF SetCache, SaveKey, Store, SaveRow, SetSize, ChargeOwner, Goto
<1>5. CASE FindChunk(r) \/ CountRows(r) \/ CheckIndices(r) \/ DelCache(r)
  BY <1>5 DEF FindChunk, CountRows, CheckIndices, DelCache, Goto, Reply, Replied
<1>6. QED
  BY <1>1, <1>2, <1>3, <1>4, <1>5 DEF StepOf, Handler

-----------------------------------------------------------------------------
UploadInv == TypeInv /\ NodeInv /\ ProgressInv /\ AssemblyInv /\ AckInv

LEMMA InitUploadInv == Init => UploadInv
<1> SUFFICES ASSUME Init
             PROVE  NodeInv /\ ProgressInv /\ AssemblyInv /\ AckInv
  BY InitTypeInv DEF UploadInv
<1> USE DEF Init
<1>1. NodeInv
  BY DEF NodeInv, Bound, Running
<1>2. ProgressInv
  BY DEF ProgressInv, RowsHaveObjects, Saved
<1>3. AssemblyInv
  BY DEF AssemblyInv, AssembledIsComplete, Assembled
<1>4. AckInv
  BY DEF AckInv, AckedIsStored, Chunks
<1>5. QED
  BY <1>1, <1>2, <1>3, <1>4

LEMMA NodeStep == UploadInv /\ [Next]_vars => NodeInv'
<1> SUFFICES ASSUME UploadInv, [Next]_vars
             PROVE  NodeInv'
  OBVIOUS
<1>1. created \subseteq created'
  BY NothingLost DEF UploadInv
<1>2. CASE AddFile \/ Expire \/ UNCHANGED vars
  BY <1>2 DEF UploadInv, NodeInv, AddFile, Expire, vars, handlerVars, serverVars
<1>3. ASSUME NEW r \in Requests, StepOf(r)
      PROVE  NodeInv'
  <2>1. ASSUME NEW s \in Requests, s # r, pc'[s] \in Bound
        PROVE  nodeOf'[s] \in created'
    BY <1>1, <1>3, <2>1, OthersStay DEF UploadInv, NodeInv
  <2>2. ASSUME pc'[r] \in Bound
        PROVE  nodeOf'[r] \in created'
    <3>1. CASE CreateNode(r)
      BY <3>1 DEF CreateNode, UploadInv, TypeInv, TypeOK
    <3>2. CASE TimeOut(r)
      BY <1>1, <2>2, <3>2 DEF TimeOut, AttemptFails, UploadInv, NodeInv
    <3>3. CASE GetCache(r)
      BY <1>1, <2>2, <3>3 DEF GetCache, UploadInv, NodeInv, TypeInv, TypeOK, Bound
    <3>4. CASE nodeOf'[r] = nodeOf[r] /\ pc[r] \in Bound
      BY <1>1, <3>4 DEF UploadInv, NodeInv
    <3>5. QED
      BY <1>3, <2>2, <3>1, <3>2, <3>3, <3>4, OwnStep
         DEF UploadInv, Bound, Running, Replied, SetCache, SaveKey, FindChunk,
             Store, SaveRow, CountRows, CheckIndices, SetSize, ChargeOwner, At
  <2>3. cache' # NoNode => cache' \in created'
    <3>1. CASE SetCache(r)
      <4>1. pc[r] \in Bound
        BY <3>1 DEF SetCache, At, Bound, Running
      <4>2. QED
        BY <1>1, <3>1, <4>1 DEF SetCache, UploadInv, NodeInv
    <3>2. CASE DelCache(r)
      BY <1>1, <3>2 DEF DelCache, UploadInv, NodeInv
    <3>3. CASE UNCHANGED cache
      BY <1>1, <3>3 DEF UploadInv, NodeInv
    <3>4. QED
      BY <1>3, <3>1, <3>2, <3>3
         DEF StepOf, Handler, Client, Refuse, Abort, GetCache, CreateNode,
             SaveKey, FindChunk, Store, SaveRow, CountRows, CheckIndices,
             SetSize, ChargeOwner, Send, Ack, Nack, LoseReply, TimeOut,
             AttemptFails, serverVars
  <2>4. QED
    BY <2>1, <2>2, <2>3 DEF NodeInv
<1>4. QED
  BY <1>2, <1>3, NextSteps

LEMMA ProgressStep == UploadInv /\ [Next]_vars => ProgressInv'
<1> SUFFICES ASSUME UploadInv, [Next]_vars
             PROVE  ProgressInv'
  OBVIOUS
<1>1. TypeInv /\ TypeInv' /\ NodeInv /\ ProgressInv
  BY NextTypeInv DEF UploadInv
<1>2. CASE AddFile \/ Expire \/ UNCHANGED vars
  BY <1>1, <1>2 DEF ProgressInv, RowsHaveObjects, HasRow, AddFile, Expire,
                    vars, handlerVars, serverVars
<1>3. ASSUME NEW r \in Requests, StepOf(r)
      PROVE  ProgressInv'
  <2>1. ASSUME NEW s \in Requests, s # r, pc'[s] = "saveRow"
        PROVE  objects'[nodeOf'[s]][args'[s].index] # 0
    <3>1. pc[s] = "saveRow" /\ nodeOf'[s] = nodeOf[s] /\ args'[s] = args[s]
      BY <1>1, <1>3, <2>1, OthersStay
    <3>2. nodeOf[s] \in Nodes /\ args[s].index \in Chunks
      BY <1>1, <3>1 DEF NodeInv, Bound, Running, TypeInv, TypeOK, Row
    <3>3. QED
      BY <1>1, <3>1, <3>2, NothingLost DEF ProgressInv
  <2>2. ASSUME NEW s \in Requests, s # r, pc'[s] \in Saved
        PROVE  HasRow(nodeOf[s], args[s].index)'
    <3>1. pc[s] \in Saved /\ nodeOf'[s] = nodeOf[s] /\ args'[s] = args[s]
      BY <1>1, <1>3, <2>2, OthersStay
    <3>2. nodeOf[s] \in Nodes /\ args[s].index \in Chunks
      BY <1>1, <3>1 DEF NodeInv, Bound, Running, Saved, TypeInv, TypeOK, Row
    <3>3. HasRow(nodeOf[s], args[s].index)
      BY <1>1, <3>1 DEF ProgressInv
    <3>4. QED
      BY <3>1, <3>2, <3>3, NothingLost, <1>1 DEF HasRow
  <2>3. ASSUME pc'[r] = "saveRow"
        PROVE  objects'[nodeOf'[r]][args'[r].index] # 0
    <3>2. CASE Store(r)
      <4>1. nodeOf[r] \in Nodes
        BY <1>1, <3>2 DEF Store, At, NodeInv, Bound, Running, TypeInv, TypeOK
      <4>2. args[r].index \in Chunks /\ args[r].bundle # 0
        <5>1. args[r] \in Row
          BY <1>1 DEF TypeInv, TypeOK
        <5>2. QED
          BY <5>1 DEF Row, Bundles
      <4>3. nodeOf'[r] = nodeOf[r] /\ args'[r] = args[r]
        BY <3>2 DEF Store, Goto
      <4>4. objects'[nodeOf[r]][args[r].index] = args[r].bundle
        BY <1>1, <3>2, <4>1, <4>2 DEF Store, TypeInv, TypeOK
      <4>5. QED
        BY <4>2, <4>3, <4>4
    <3>3. CASE TimeOut(r)
      BY <1>1, <2>3, <3>3 DEF TimeOut, AttemptFails, serverVars, ProgressInv
    <3>4. QED
      BY <1>1, <1>3, <2>3, <3>2, <3>3, OwnStep DEF Replied
  <2>4. ASSUME pc'[r] \in Saved
        PROVE  HasRow(nodeOf[r], args[r].index)'
    <3>1. CASE SaveRow(r)
      <4>1. nodeOf[r] \in Nodes
        BY <1>1, <3>1 DEF SaveRow, At, NodeInv, Bound, Running, TypeInv, TypeOK
      <4>2. rows[nodeOf[r]] \in Seq(Row) /\ args[r] \in Row
        BY <1>1, <4>1 DEF TypeInv, TypeOK
      <4>3. rows'[nodeOf[r]] = Append(rows[nodeOf[r]], args[r])
        BY <1>1, <3>1, <4>1 DEF SaveRow, TypeInv, TypeOK
      <4>4. Len(rows[nodeOf[r]]) + 1 \in DOMAIN rows'[nodeOf[r]]
             /\ rows'[nodeOf[r]][Len(rows[nodeOf[r]]) + 1] = args[r]
        BY <4>2, <4>3
      <4>5. nodeOf'[r] = nodeOf[r] /\ args'[r] = args[r]
        BY <3>1 DEF SaveRow, Goto
      <4>6. QED
        BY <4>4, <4>5 DEF HasRow
    <3>2. CASE /\ pc[r] \in Saved
               /\ nodeOf'[r] = nodeOf[r]
               /\ args'[r] = args[r]
      <4>1. nodeOf[r] \in Nodes /\ args[r].index \in Chunks
        BY <1>1, <3>2 DEF NodeInv, Bound, Running, Saved, TypeInv, TypeOK, Row
      <4>2. HasRow(nodeOf[r], args[r].index)
        BY <1>1, <3>2 DEF ProgressInv
      <4>3. QED
        BY <1>1, <3>2, <4>1, <4>2, NothingLost DEF HasRow
    <3>3. CASE TimeOut(r)
      BY <2>4, <3>2, <3>3 DEF TimeOut, AttemptFails
    <3>4. QED
      BY <1>1, <1>3, <2>4, <3>1, <3>2, <3>3, OwnStep
         DEF Saved, Replied, CountRows, CheckIndices, SetSize, ChargeOwner, At
  <2>5. RowsHaveObjects'
    <3> SUFFICES ASSUME NEW n \in Nodes, NEW j \in DOMAIN rows'[n]
                 PROVE  objects'[n][rows'[n][j].index] # 0
      BY DEF RowsHaveObjects
    <3>1. rows[n] \in Seq(Row) /\ rows'[n] \in Seq(Row)
      BY <1>1 DEF TypeInv, TypeOK
    <3>2. CASE j \in DOMAIN rows[n] /\ rows'[n][j] = rows[n][j]
      <4>1. rows[n][j] \in Row
        BY <3>1, <3>2
      <4>2. rows[n][j].index \in Chunks
        BY <4>1 DEF Row
      <4>3. objects[n][rows[n][j].index] # 0
        BY <1>1, <3>2 DEF ProgressInv, RowsHaveObjects
      <4>4. QED
        BY <1>1, <3>2, <4>2, <4>3, NothingLost
    <3>3. CASE /\ SaveRow(r)
               /\ n = nodeOf[r]
               /\ rows'[n] = Append(rows[n], args[r])
               /\ j \notin DOMAIN rows[n]
      <4>1. rows'[n][j] = args[r]
        BY <1>1, <3>1, <3>3, SMTT(20) DEF TypeInv, TypeOK
      <4>2. QED
        BY <1>1, <3>3, <4>1 DEF SaveRow, At, ProgressInv
    <3>4. \/ rows'[n] = rows[n]
          \/ /\ SaveRow(r)
             /\ n = nodeOf[r]
             /\ rows'[n] = Append(rows[n], args[r])
      <4>1. CASE SaveRow(r)
        BY <1>1, <4>1 DEF SaveRow, TypeInv, TypeOK
      <4>2. CASE ~SaveRow(r)
        BY <1>3, <4>2
           DEF StepOf, Handler, Client, Refuse, Abort, GetCache, CreateNode,
               SetCache, SaveKey, FindChunk, Store, CountRows, CheckIndices,
               SetSize, ChargeOwner, DelCache, Send, Ack, Nack, LoseReply,
               TimeOut, AttemptFails, serverVars
      <4>3. QED
        BY <4>1, <4>2
    <3>5. rows'[n] = Append(rows[n], args[r]) /\ j \in DOMAIN rows[n]
            => rows'[n][j] = rows[n][j]
      BY <3>1, <1>1, SMTT(20) DEF TypeInv, TypeOK
    <3>6. QED
      BY <3>2, <3>3, <3>4, <3>5
  <2>6. QED
    <3>1. \A s \in Requests :
             pc'[s] = "saveRow" => objects'[nodeOf'[s]][args'[s].index] # 0
      BY <2>1, <2>3
    <3>2. \A s \in Requests :
             pc'[s] \in Saved => HasRow(nodeOf[s], args[s].index)'
      BY <2>2, <2>4
    <3>3. QED
      BY <2>5, <3>1, <3>2 DEF ProgressInv
<1>4. QED
  BY <1>2, <1>3, NextSteps

LEMMA AssemblyStep == UploadInv /\ [Next]_vars => AssemblyInv'
<1> SUFFICES ASSUME UploadInv, [Next]_vars
             PROVE  AssemblyInv'
  OBVIOUS
<1>1. TypeInv /\ NodeInv /\ AssemblyInv
  BY DEF UploadInv
<1>2. CASE AddFile \/ Expire \/ UNCHANGED vars
  BY <1>1, <1>2 DEF AssemblyInv, AssembledIsComplete, Assembled, HasRow, AddFile,
                    Expire, vars, handlerVars, serverVars
<1>3. ASSUME NEW r \in Requests, StepOf(r)
      PROVE  AssemblyInv'
  <2>1. ASSUME NEW s \in Requests, pc[s] = "setSize", nodeOf'[s] = nodeOf[s]
        PROVE  \A i \in Chunks : HasRow(nodeOf[s], i)'
    <3>1. nodeOf[s] \in Nodes
      BY <1>1, <2>1 DEF NodeInv, Bound, Running, TypeInv, TypeOK
    <3>2. \A i \in Chunks : HasRow(nodeOf[s], i)
      BY <1>1, <2>1 DEF AssemblyInv
    <3>3. QED
      BY <1>1, <2>1, <3>1, <3>2, NothingLost DEF HasRow
  <2>2. ASSUME NEW s \in Requests, pc'[s] = "setSize"
        PROVE  \A i \in Chunks : HasRow(nodeOf[s], i)'
    <3>1. CASE s # r
      BY <1>1, <1>3, <2>1, <2>2, <3>1, OthersStay
    <3>2. CASE s = r /\ TimeOut(r)
      BY <2>1, <2>2, <3>2 DEF TimeOut, AttemptFails
    <3>3. CASE s = r /\ CheckIndices(r)
      <4>1. UNCHANGED rows /\ IndexSetOk(nodeOf[r]) /\ nodeOf'[r] = nodeOf[r]
        BY <1>1, <2>2, <3>3 DEF CheckIndices, Goto, Reply, serverVars, TypeInv, TypeOK
      <4>2. QED
        BY <3>3, <4>1 DEF IndexSetOk, HasRow
    <3>4. QED
      BY <1>1, <1>3, <2>2, <3>1, <3>2, <3>3, OwnStep DEF Replied
  <2>3. AssembledIsComplete'
    <3> SUFFICES ASSUME NEW n \in Nodes, size'[n] # 0
                 PROVE  \A i \in Chunks : HasRow(n, i)'
      BY DEF AssembledIsComplete, Assembled
    <3>1. CASE size[n] # 0
      BY <1>1, <3>1, NothingLost DEF AssemblyInv, AssembledIsComplete, Assembled
    <3>2. CASE SetSize(r) /\ n = nodeOf[r]
      BY <1>1, <2>1, <3>2, NothingLost DEF SetSize, At, AssemblyInv
    <3>3. size'[n] = size[n] \/ (SetSize(r) /\ n = nodeOf[r])
      <4>1. CASE SetSize(r)
        BY <1>1, <4>1 DEF SetSize, TypeInv, TypeOK
      <4>2. CASE ~SetSize(r)
        BY <1>3, <4>2
           DEF StepOf, Handler, Client, Refuse, Abort, GetCache, CreateNode,
               SetCache, SaveKey, FindChunk, Store, SaveRow, CountRows,
               CheckIndices, ChargeOwner, DelCache, Send, Ack, Nack, LoseReply,
               TimeOut, AttemptFails, serverVars
      <4>3. QED
        BY <4>1, <4>2
    <3>4. QED
      BY <3>1, <3>2, <3>3
  <2>4. QED
    BY <2>2, <2>3 DEF AssemblyInv
<1>4. QED
  BY <1>2, <1>3, NextSteps

LEMMA AckStep == UploadInv /\ [Next]_vars => AckInv'
<1> SUFFICES ASSUME UploadInv, [Next]_vars
             PROVE  AckInv'
  OBVIOUS
<1>1. TypeInv /\ TypeInv' /\ NodeInv /\ ProgressInv /\ AckInv
  BY NextTypeInv DEF UploadInv
<1>2. ASSUME NEW i \in Chunks, \E n \in created : HasRow(n, i)
      PROVE  \E n \in created' : HasRow(n, i)'
  BY <1>1, <1>2, NothingLost DEF TypeInv, TypeOK
<1>3. CASE AddFile
  BY <1>1, <1>3 DEF AckInv, AckedIsStored, AddFile, Chunks, LoopInv, TypeInv,
                    TypeOK, handlerVars
<1>4. CASE Expire \/ UNCHANGED vars
  <2>1. UNCHANGED <<handlerVars, clientVars, created, rows>>
    BY <1>4 DEF Expire, vars, serverVars
  <2>2. UNCHANGED <<pc, args, waiting, next, created, rows>>
    BY <2>1 DEF handlerVars, clientVars
  <2>3. QED
    BY <1>1, <2>2 DEF AckInv, AckedIsStored, HasRow
<1>5. ASSUME NEW r \in Requests, StepOf(r)
      PROVE  AckInv'
  <2>1. CASE UNCHANGED clientVars
    <3>1. AckedIsStored'
      BY <1>1, <1>2, <2>1 DEF AckInv, AckedIsStored, clientVars
    <3>2. ASSUME NEW s \in Requests, waiting' = s, pc'[s] \in Running
          PROVE  args'[s].index = next'
      <4>1. CASE s # r
        BY <1>1, <1>5, <2>1, <3>2, <4>1, OthersStay DEF AckInv, clientVars
      <4>2. CASE s = r /\ args'[r] = args[r] /\ pc[r] \in Running
        BY <1>1, <2>1, <3>2, <4>2 DEF AckInv, clientVars
      <4>3. pc[r] \in Running /\ (args'[r] = args[r] \/ pc'[r] \notin Running)
        <5>1. ~Send(r) /\ ~Ack(r) /\ ~Nack(r) /\ ~LoseReply(r) /\ ~TimeOut(r)
          BY <1>1, <2>1 DEF Send, Ack, Nack, LoseReply, TimeOut, AttemptFails,
                            clientVars, TypeInv, TypeOK
        <5>2. CASE Handler(r)
          <6>1. pc \in [Requests -> Running \union Replied \union {"idle"}]
            BY <1>1 DEF TypeInv, TypeOK
          <6>2. CASE \E o \in Replied : Reply(r, o)
            BY <5>2, <6>1, <6>2
               DEF Handler, GetCache, CreateNode, SetCache, SaveKey, FindChunk,
                   Store, SaveRow, CountRows, CheckIndices, SetSize,
                   ChargeOwner, DelCache, At, Reply, Running, Replied
          <6>3. CASE args' = args
            BY <5>2, <6>3
               DEF Handler, GetCache, CreateNode, SetCache, SaveKey, FindChunk,
                   Store, SaveRow, CountRows, CheckIndices, SetSize,
                   ChargeOwner, DelCache, At, Running
          <6>4. QED
            BY <5>2, <6>2, <6>3
               DEF Handler, GetCache, CreateNode, SetCache, SaveKey, FindChunk,
                   Store, SaveRow, CountRows, CheckIndices, SetSize,
                   ChargeOwner, DelCache, Goto, Replied
        <5>3. QED
          BY ZenonT(40), <1>1, <1>5, <5>1, <5>2
             DEF StepOf, Client, Refuse, Abort, Reply, Running, Replied, TypeInv, TypeOK
      <4>4. QED
        BY <3>2, <4>1, <4>2, <4>3
    <3>3. ASSUME NEW s \in Requests, waiting' = s, pc'[s] = "acked"
          PROVE  \E n \in created' : HasRow(n, next)'
      <4>1. waiting = s /\ next' = next /\ next \in Chunks
        BY <1>1, <2>1, <3>3 DEF clientVars, TypeInv, TypeOK, LoopInv, Chunks
      <4>2. CASE pc[s] = "acked"
        BY <1>1, <1>2, <4>1, <4>2 DEF AckInv, HasRow
      <4>3. CASE s = r /\ pc[r] # "acked"
        <5>1. \/ DelCache(r)
              \/ CountRows(r)
              \/ FindChunk(r) /\ HasRow(nodeOf[r], args[r].index)
          BY <1>1, <1>5, <3>3, <4>1, <4>3
             DEF StepOf, Handler, Client, Refuse, Abort, GetCache, CreateNode,
                 SetCache, SaveKey, FindChunk, Store, SaveRow, CheckIndices,
                 SetSize, ChargeOwner, Send, Ack, Nack, LoseReply, TimeOut, At,
                 Goto, Reply, TypeInv, TypeOK
        <5>2. pc[r] \in Bound /\ pc[r] \in Running
          BY <5>1 DEF DelCache, CountRows, FindChunk, At, Bound, Running
        <5>3. HasRow(nodeOf[r], args[r].index)
          BY <1>1, <5>1 DEF DelCache, CountRows, At, ProgressInv, Saved
        <5>4. args[r].index = next
          BY <1>1, <4>1, <4>3, <5>2 DEF AckInv
        <5>5. nodeOf[r] \in created
          BY <1>1, <5>2 DEF NodeInv
        <5>6. \E n \in created : HasRow(n, next)
          BY <5>3, <5>4, <5>5
        <5>7. QED
          BY <1>2, <4>1, <5>6 DEF HasRow
      <4>4. QED
        BY <1>1, <1>5, <3>3, <4>2, <4>3, OthersStay
    <3>4. QED
      BY <3>1, <3>2, <3>3 DEF AckInv
  <2>2. CASE Send(r)
    <3>1. AckedIsStored'
      BY <1>1, <1>2, <2>2 DEF Send, AckInv, AckedIsStored
    <3>2. waiting' = r /\ pc'[r] = "get" /\ args'[r].index = next'
      BY <1>1, <2>2 DEF Send, TypeInv, TypeOK
    <3>3. QED
      BY <3>1, <3>2 DEF AckInv
  <2>3. CASE Ack(r)
    <3>1. waiting' = NoRequest /\ next' = next + 1
      BY <2>3 DEF Ack
    <3>2. next \in Chunks /\ \E n \in created : HasRow(n, next)
      BY <1>1, <2>3 DEF Ack, At, AckInv, TypeInv, TypeOK, LoopInv, Chunks
    <3>3. \A i \in Chunks : i < next' => \E n \in created : HasRow(n, i)
      <4>1. \A i \in Chunks : i < next + 1 => i < next \/ i = next
        BY <1>1 DEF TypeInv, TypeOK, Chunks
      <4>2. QED
        BY <1>1, <3>1, <3>2, <4>1 DEF AckInv, AckedIsStored
    <3>4. AckedIsStored'
      BY <1>2, <3>3 DEF AckedIsStored
    <3>5. QED
      BY <3>1, <3>4 DEF AckInv
  <2>4. CASE AttemptFails
    <3>1. AckedIsStored'
      BY <1>1, <1>2, <2>4 DEF AttemptFails, AckInv, AckedIsStored
    <3>2. QED
      BY <2>4, <3>1 DEF AttemptFails, AckInv
  <2>5. QED
    BY <1>5, <2>1, <2>2, <2>3, <2>4
       DEF StepOf, Handler, Client, Refuse, Abort, GetCache, CreateNode,
           SetCache, SaveKey, FindChunk, Store, SaveRow, CountRows,
           CheckIndices, SetSize, ChargeOwner, DelCache, Nack, LoseReply,
           TimeOut, Goto, Reply
<1>6. QED
  BY <1>3, <1>4, <1>5, NextSteps

LEMMA SpecUploadInv == Spec => []UploadInv
<1>1. UploadInv /\ [Next]_vars => UploadInv'
  BY NextTypeInv, NodeStep, ProgressStep, AssemblyStep, AckStep DEF UploadInv
<1>2. QED
  BY <1>1, InitUploadInv, PTL DEF Spec

\* A published size means a complete set of chunk rows, for every overlap of
\* handlers and every set of faults (the assembly check of uploadChunk).
THEOREM UploadAssembledIsComplete == Spec => []AssembledIsComplete
<1>1. UploadInv => AssembledIsComplete
  BY DEF UploadInv, AssemblyInv
<1>2. QED
  BY <1>1, SpecUploadInv, PTL

\* What the client was told is uploaded has a row (an answer of 200 of
\* uploadChunk, read by processTask as lastUploadedChunkIndex).
THEOREM UploadAckedIsStored == Spec => []AckedIsStored
<1>1. UploadInv => AckedIsStored
  BY DEF UploadInv, AckInv
<1>2. QED
  BY <1>1, SpecUploadInv, PTL

\* No chunk row dangles: storage.upload comes before chunkRepo.save.
THEOREM UploadRowsHaveObjects == Spec => []RowsHaveObjects
<1>1. UploadInv => RowsHaveObjects
  BY DEF UploadInv, ProgressInv
<1>2. QED
  BY <1>1, SpecUploadInv, PTL
-----------------------------------------------------------------------------
\* Requests one after the other

\* Nothing makes the client give up a request that the server still works on, and
\* neither the server nor Redis fails on the way.
OneAtATime == Faults \subseteq NetworkFaults

\* The client awaits every request that is under way.
SoloInv == \A r \in Requests : pc[r] # "idle" => waiting = r

Unfinished == \A n \in Nodes : ~Assembled(n)

Complete(n) == \A i \in Chunks : HasRow(n, i)

\* What a handler knows of its node at each of its awaits
Frame(r) ==
  /\ pc[r] \in {"create", "setCache"} => cache = NoNode
  /\ pc[r] \in Bound \ {"setCache"} => nodeOf[r] = cache
  /\ pc[r] \in Bound \ {"setCache", "saveKey"} => key[nodeOf[r]] # 0
  /\ pc[r] \in {"store", "saveRow"} => ~HasRow(nodeOf[r], args[r].index)
  /\ pc[r] \in {"count", "check", "setSize"} => ~Assembled(nodeOf[r])
  /\ pc[r] = "setSize" => IndexSetOk(nodeOf[r])
  /\ pc[r] \in {"charge", "delCache"} => Assembled(nodeOf[r])
  /\ pc[r] = "charge" => charged[nodeOf[r]] = 0

\* A file is charged for after it is assembled, and its rows are the chunks then.
FileInv ==
  \A n \in Nodes :
    /\ ~Assembled(n) => charged[n] = 0
    /\ Assembled(n) => n \in created /\ IndexSetOk(n)
    /\ Len(rows[n]) > 0 => key[n] # 0

\* Redis names a node that has its key, or is about to get it.
EntryInv ==
  cache # NoNode => key[cache] # 0 \/ \E r \in Requests : At(r, "saveKey")

\* Until a file is assembled all chunks go to the one that Redis names, and the
\* request that brings the last of them assembles it.
GatherInv ==
  Unfinished => \A n \in Nodes :
    /\ Len(rows[n]) > 0 => n = cache
    /\ Complete(n) => \E r \in Requests :
         pc[r] \in {"count", "check", "setSize"} /\ nodeOf[r] = n

TurnInv ==
  /\ SoloInv
  /\ \A r \in Requests : Frame(r)
  /\ OneRowPerChunk
  /\ FileInv
  /\ EntryInv
  /\ GatherInv
  /\ status = "done" => next = TotalChunks

-----------------------------------------------------------------------------
\* Rows and chunks

\* A complete file without two rows of one chunk has as many rows as chunks.
LEMMA RowsCount ==
  ASSUME TypeInv, OneRowPerChunk, NEW n \in Nodes, Complete(n)
  PROVE  Len(rows[n]) = TotalChunks
<1>1. rows[n] \in Seq(Row)
  BY DEF TypeInv, TypeOK
<1> DEFINE D == 1 .. Len(rows[n])
           F == [j \in D |-> rows[n][j].index]
<1>2. /\ DOMAIN rows[n] = D
      /\ Len(rows[n]) \in Nat
      /\ \A j \in D : rows[n][j].index \in Chunks
  <2>1. \A j \in D : rows[n][j] \in Row
    BY <1>1
  <2>2. QED
    BY <1>1, <2>1 DEF Row
<1>3. F \in Bijection(D, Chunks)
  <2>1. F \in [D -> Chunks]
    BY <1>2
  <2>2. \A j, k \in D : F[j] = F[k] => j = k
    BY <1>2 DEF OneRowPerChunk
  <2>3. \A i \in Chunks : \E j \in D : F[j] = i
    BY <1>2 DEF Complete, HasRow
  <2>4. QED
    BY <2>1, <2>2, <2>3 DEF Bijection, Injection, Surjection, IsInjective
<1>4. IsFiniteSet(D) /\ Cardinality(D) = Len(rows[n])
  BY <1>2, FS_Interval
<1>5. Cardinality(Chunks) = TotalChunks
  BY FS_Interval DEF Chunks
<1>6. Cardinality(D) = Cardinality(Chunks)
  BY <1>3, <1>4, FS_Bijection DEF ExistsBijection
<1>7. QED
  BY <1>4, <1>5, <1>6

\* A file with no row is not complete.
LEMMA CompleteHasRows ==
  ASSUME TypeInv, NEW n \in Nodes, Complete(n)
  PROVE  Len(rows[n]) > 0
<1>1. 0 \in Chunks
  BY DEF Chunks
<1>2. rows[n] \in Seq(Row)
  BY DEF TypeInv, TypeOK
<1>3. QED
  BY <1>1, <1>2 DEF Complete, HasRow

-----------------------------------------------------------------------------
\* One request at a time

\* When a request takes a step, the others rest.
LEMMA OthersRest ==
  ASSUME UploadInv, SoloInv, NEW r \in Requests, StepOf(r), NEW s \in Requests, s # r
  PROVE  pc[s] = "idle" /\ pc'[s] = "idle"
<1>1. pc[r] # "idle" \/ Send(r)
  BY DEF StepOf, Handler, Client, Refuse, Abort, GetCache, CreateNode, SetCache,
         SaveKey, FindChunk, Store, SaveRow, CountRows, CheckIndices, SetSize,
         ChargeOwner, DelCache, Ack, Nack, LoseReply, TimeOut, At, Running
<1>2. waiting # s
  BY <1>1 DEF SoloInv, Send
<1>3. QED
  BY <1>2, OthersStay DEF UploadInv, SoloInv

LEMMA SoloStep ==
  ASSUME OneAtATime, UploadInv, SoloInv, [Next]_vars
  PROVE  SoloInv'
<1>1. CASE AddFile \/ Expire \/ UNCHANGED vars
  BY <1>1 DEF SoloInv, AddFile, Expire, vars, handlerVars, clientVars
<1>2. ASSUME NEW r \in Requests, StepOf(r), NEW s \in Requests, pc'[s] # "idle"
      PROVE  waiting' = s
  <2>1. s = r
    BY <1>2, OthersRest
  <2>2. pc \in [Requests -> Running \union Replied \union {"idle"}]
    BY DEF UploadInv, TypeInv, TypeOK
  <2>3. CASE Send(r)
    BY <2>1, <2>3 DEF Send
  <2>4. ~Ack(r) /\ ~Nack(r) /\ ~LoseReply(r) /\ ~TimeOut(r)
    BY <1>2, <2>1, <2>2 DEF Ack, Nack, LoseReply, TimeOut, OneAtATime, NetworkFaults
  <2>5. CASE Handler(r) \/ Refuse(r) \/ Abort(r)
    <3>1. UNCHANGED waiting
      BY <2>5 DEF Handler, Refuse, Abort, GetCache, CreateNode, SetCache,
             SaveKey, FindChunk, Store, SaveRow, CountRows, CheckIndices, SetSize,
             ChargeOwner, DelCache, Goto, Reply, clientVars
    <3>2. pc[r] # "idle"
      BY <2>5 DEF Handler, Refuse, Abort, GetCache, CreateNode, SetCache,
             SaveKey, FindChunk, Store, SaveRow, CountRows, CheckIndices, SetSize,
             ChargeOwner, DelCache, At, Running
    <3>3. QED
      BY <2>1, <3>1, <3>2 DEF SoloInv
  <2>6. QED
    BY <1>2, <2>3, <2>4, <2>5 DEF StepOf, Client
<1>3. QED
  BY <1>1, <1>2, NextSteps DEF SoloInv

\* A request that is not at an await knows nothing.
LEMMA RestingFrame ==
  ASSUME NEW r \in Requests, pc'[r] \notin Running
  PROVE  Frame(r)'
BY DEF Frame, Bound, Running

\* Only the request that takes a step has to be looked at.
LEMMA FramesStep ==
  ASSUME UploadInv, SoloInv, NEW r \in Requests, StepOf(r), Frame(r)'
  PROVE  \A s \in Requests : Frame(s)'
<1>1. "idle" \notin Running
  BY DEF Running
<1>2. QED
  BY <1>1, OthersRest, RestingFrame

-----------------------------------------------------------------------------
\* The parts of TurnInv that speak of the server

FrameInv == \A r \in Requests : Frame(r)

ServerInv == OneRowPerChunk /\ FileInv /\ EntryInv /\ GatherInv

\* A request that ends, or waits for its answer to be read, leaves the server in order.
LEMMA EndStep ==
  ASSUME UploadInv, TurnInv, NEW r \in Requests, StepOf(r),
         pc'[r] \notin Running, UNCHANGED serverVars, pc[r] # "saveKey",
         \A n \in Nodes : Complete(n) /\ nodeOf[r] = n => pc[r] \notin {"count", "check", "setSize"}
  PROVE  FrameInv' /\ ServerInv'
<1>1. FrameInv'
  BY RestingFrame, FramesStep DEF TurnInv, FrameInv
<1>2. OneRowPerChunk' /\ FileInv'
  BY DEF TurnInv, OneRowPerChunk, FileInv, Assembled, IndexSetOk, HasRow, serverVars
<1>3. EntryInv'
  <2>1. \A s \in Requests : ~At(s, "saveKey")
    BY OthersRest DEF TurnInv, At
  <2>2. QED
    BY <2>1 DEF TurnInv, EntryInv, serverVars
<1>4. GatherInv'
  <2>1. \A n \in Nodes : Complete(n) => ~Unfinished
    BY OthersRest DEF TurnInv, GatherInv
  <2>2. QED
    BY <2>1 DEF TurnInv, GatherInv, Complete, Unfinished, Assembled, HasRow, serverVars
<1>5. QED
  BY <1>1, <1>2, <1>3, <1>4 DEF ServerInv

\* A request goes on to the next await, and the server is as it was.
LEMMA GoStep ==
  ASSUME UploadInv, TurnInv, NEW r \in Requests, StepOf(r), Frame(r)',
         UNCHANGED serverVars, pc[r] # "saveKey",
         pc[r] \in {"count", "check"} =>
           pc'[r] \in {"count", "check", "setSize"} /\ nodeOf'[r] = nodeOf[r],
         pc[r] # "setSize"
  PROVE  FrameInv' /\ ServerInv'
<1>1. FrameInv'
  BY FramesStep DEF TurnInv, FrameInv
<1>2. OneRowPerChunk' /\ FileInv'
  BY DEF TurnInv, OneRowPerChunk, FileInv, Assembled, IndexSetOk, HasRow, serverVars
<1>3. EntryInv'
  <2>1. \A s \in Requests : ~At(s, "saveKey")
    BY OthersRest DEF TurnInv, At
  <2>2. QED
    BY <2>1 DEF TurnInv, EntryInv, serverVars
<1>4. GatherInv'
  <2> SUFFICES ASSUME Unfinished', NEW n \in Nodes
               PROVE  /\ Len(rows'[n]) > 0 => n = cache'
                      /\ Complete(n)' => \E s \in Requests :
                           pc'[s] \in {"count", "check", "setSize"} /\ nodeOf'[s] = n
    BY DEF GatherInv
  <2>1. Unfinished /\ (Complete(n)' => Complete(n))
    BY DEF Complete, Unfinished, Assembled, HasRow, serverVars
  <2>2. Len(rows'[n]) > 0 => n = cache'
    BY <2>1 DEF TurnInv, GatherInv, serverVars
  <2>3. ASSUME Complete(n)
        PROVE  \E s \in Requests : pc'[s] \in {"count", "check", "setSize"} /\ nodeOf'[s] = n
    <3>1. PICK s \in Requests : pc[s] \in {"count", "check", "setSize"} /\ nodeOf[s] = n
      BY <2>1, <2>3 DEF TurnInv, GatherInv
    <3>2. s = r
      BY <3>1, OthersRest DEF TurnInv
    <3>3. QED
      BY <3>1, <3>2
  <2>4. QED
    BY <2>1, <2>2, <2>3
<1>5. QED
  BY <1>1, <1>2, <1>3, <1>4 DEF ServerInv

\* Redis gets or loses an entry, or a node its key or charge; files stay.
LEMMA ShelfStep ==
  ASSUME UploadInv, TurnInv, NEW r \in Requests, UNCHANGED <<rows, size>>
  PROVE  /\ OneRowPerChunk'
         /\ Unfinished' = Unfinished
         /\ \A n \in Nodes : /\ Assembled(n)' = Assembled(n)
                             /\ IndexSetOk(n)' = IndexSetOk(n)
                             /\ Complete(n)' = Complete(n)
                             /\ \A i \in Chunks : HasRow(n, i)' = HasRow(n, i)
BY DEF TurnInv, OneRowPerChunk, Unfinished, Assembled, IndexSetOk, HasRow, Complete

LEMMA GetCacheStep ==
  ASSUME OneAtATime, UploadInv, TurnInv, NEW r \in Requests, GetCache(r)
  PROVE  FrameInv' /\ ServerInv'
<1>1. StepOf(r)
  BY DEF StepOf, Handler
<1>2. UNCHANGED serverVars /\ pc[r] = "get"
  BY DEF GetCache, At
<1>3. pc'[r] \in {"create", "find"} /\ nodeOf'[r] = cache
  /\ (pc'[r] = "create" <=> cache = NoNode)
  BY DEF GetCache, UploadInv, TypeInv, TypeOK, OneAtATime, NetworkFaults
<1>4. cache # NoNode => key[cache] # 0
  BY <1>1, <1>2, OthersRest DEF TurnInv, EntryInv, At
<1>5. Frame(r)'
  BY <1>2, <1>3, <1>4 DEF Frame, serverVars, Bound
<1>6. QED
  BY <1>1, <1>2, <1>5, GoStep

LEMMA CreateStep ==
  ASSUME UploadInv, TurnInv, NEW r \in Requests, CreateNode(r)
  PROVE  FrameInv' /\ ServerInv'
<1>1. StepOf(r)
  BY DEF StepOf, Handler
<1>2. /\ UNCHANGED <<cache, key, rows, objects, size, charged>>
      /\ created \subseteq created'
      /\ pc[r] = "create"
      /\ pc'[r] = "setCache"
  BY DEF CreateNode, At, UploadInv, TypeInv, TypeOK
<1>3. cache = NoNode
  BY <1>2 DEF TurnInv, Frame
<1>4. FrameInv'
  <2>1. Frame(r)'
    BY <1>2, <1>3 DEF Frame
  <2>2. QED
    BY <1>1, <2>1, FramesStep DEF FrameInv, TurnInv
<1>5. FileInv'
  BY <1>2, ShelfStep DEF TurnInv, FileInv
<1>6. EntryInv'
  BY <1>2, <1>3 DEF EntryInv
<1>7. GatherInv'
  <2>1. Unfinished => \A n \in Nodes : ~(Len(rows[n]) > 0) /\ ~Complete(n)
    <3>1. \A n \in Nodes : Len(rows[n]) \in Nat
      BY DEF UploadInv, TypeInv, TypeOK
    <3>2. QED
      BY <1>3, <3>1, CompleteHasRows, UploadAssumption DEF TurnInv, GatherInv, UploadInv
  <2>2. QED
    BY <1>2, <2>1, ShelfStep DEF GatherInv
<1>8. QED
  BY <1>2, <1>4, <1>5, <1>6, <1>7, ShelfStep DEF ServerInv

LEMMA SetCacheStep ==
  ASSUME OneAtATime, UploadInv, TurnInv, NEW r \in Requests, SetCache(r)
  PROVE  FrameInv' /\ ServerInv'
<1>1. StepOf(r)
  BY DEF StepOf, Handler
<1>2. /\ UNCHANGED <<created, key, rows, objects, size, charged>>
      /\ cache' = nodeOf[r]
      /\ nodeOf'[r] = nodeOf[r]
      /\ pc[r] = "setCache"
      /\ pc'[r] = "saveKey"
      /\ nodeOf[r] \in Nodes
  BY DEF SetCache, Goto, At, UploadInv, TypeInv, TypeOK, OneAtATime, NetworkFaults, NodeInv, Bound, Running
<1>3. cache = NoNode
  BY <1>2 DEF TurnInv, Frame
<1>4. FrameInv'
  <2>1. Frame(r)'
    BY <1>2, <1>3 DEF Frame
  <2>2. QED
    BY <1>1, <2>1, FramesStep DEF FrameInv, TurnInv
<1>5. FileInv'
  BY <1>2, ShelfStep DEF TurnInv, FileInv
<1>6. EntryInv'
  BY <1>2 DEF EntryInv, At
<1>7. GatherInv'
  <2>1. Unfinished => \A n \in Nodes : ~(Len(rows[n]) > 0) /\ ~Complete(n)
    <3>1. \A n \in Nodes : Len(rows[n]) \in Nat
      BY DEF UploadInv, TypeInv, TypeOK
    <3>2. QED
      BY <1>3, <3>1, CompleteHasRows, UploadAssumption DEF TurnInv, GatherInv, UploadInv
  <2>2. QED
    BY <1>2, <2>1, ShelfStep DEF GatherInv
<1>8. QED
  BY <1>2, <1>4, <1>5, <1>6, <1>7, ShelfStep DEF ServerInv

LEMMA SaveKeyStep ==
  ASSUME UploadInv, TurnInv, NEW r \in Requests, SaveKey(r)
  PROVE  FrameInv' /\ ServerInv'
<1>1. StepOf(r)
  BY DEF StepOf, Handler
<1>2. /\ UNCHANGED <<cache, created, rows, objects, size, charged>>
      /\ nodeOf'[r] = nodeOf[r]
      /\ pc[r] = "saveKey"
      /\ pc'[r] = "find"
      /\ nodeOf[r] \in Nodes
      /\ nodeOf[r] = cache
  BY DEF SaveKey, Goto, At, UploadInv, TypeInv, TypeOK, NodeInv, Bound, Running, TurnInv, Frame
<1>3. args[r].bundle # 0
  BY DEF UploadInv, TypeInv, TypeOK, Row, Bundles
<1>4. key'[cache] # 0 /\ \A n \in Nodes : key[n] # 0 => key'[n] # 0
  BY <1>2, <1>3 DEF SaveKey, UploadInv, TypeInv, TypeOK
<1>5. FrameInv'
  <2>1. Frame(r)'
    BY <1>2, <1>4 DEF Frame
  <2>2. QED
    BY <1>1, <2>1, FramesStep DEF FrameInv, TurnInv
<1>6. FileInv'
  BY <1>2, <1>4, ShelfStep DEF TurnInv, FileInv
<1>7. EntryInv'
  BY <1>2, <1>4 DEF EntryInv
<1>8. GatherInv'
  <2>1. \A n \in Nodes : Complete(n) => ~Unfinished
    BY <1>1, <1>2, OthersRest DEF TurnInv, GatherInv
  <2>2. QED
    BY <1>2, <2>1, ShelfStep DEF TurnInv, GatherInv
<1>9. QED
  BY <1>2, <1>5, <1>6, <1>7, <1>8, ShelfStep DEF ServerInv

LEMMA FindChunkStep ==
  ASSUME OneAtATime, UploadInv, TurnInv, NEW r \in Requests, FindChunk(r)
  PROVE  FrameInv' /\ ServerInv'
<1>1. StepOf(r) /\ UNCHANGED serverVars /\ pc[r] = "find"
  BY DEF StepOf, Handler, FindChunk, At
<1>2. CASE Reply(r, "acked")
  <2>1. pc'[r] \notin Running
    BY <1>2 DEF Reply, UploadInv, TypeInv, TypeOK, Running
  <2>2. QED
    BY <1>1, <2>1, EndStep
<1>3. CASE Goto(r, "store") /\ ~HasRow(nodeOf[r], args[r].index)
  <2>1. pc'[r] = "store" /\ nodeOf'[r] = nodeOf[r] /\ args'[r] = args[r]
    BY <1>3 DEF Goto, UploadInv, TypeInv, TypeOK
  <2>2. Frame(r)
    BY DEF TurnInv
  <2>3. Frame(r)'
    BY <1>1, <1>3, <2>1, <2>2 DEF Frame, serverVars, Bound, Running, HasRow
  <2>4. QED
    BY <1>1, <2>1, <2>3, GoStep
<1>4. QED
  BY <1>2, <1>3 DEF FindChunk, OneAtATime, NetworkFaults

\* Bytes are written; neither rows nor keys look at them.
LEMMA StoreStep ==
  ASSUME UploadInv, TurnInv, NEW r \in Requests, Store(r)
  PROVE  FrameInv' /\ ServerInv'
<1>1. StepOf(r)
  BY DEF StepOf, Handler
<1>2. /\ UNCHANGED <<cache, created, key, rows, size, charged>>
      /\ nodeOf'[r] = nodeOf[r] /\ args'[r] = args[r]
      /\ pc[r] = "store"
      /\ pc'[r] = "saveRow"
  BY DEF Store, Goto, At, UploadInv, TypeInv, TypeOK
<1>3. FrameInv'
  <2>1. Frame(r)
    BY DEF TurnInv
  <2>2. Frame(r)'
    BY <1>2, <2>1 DEF Frame, Bound, Running, HasRow
  <2>3. QED
    BY <1>1, <2>2, FramesStep DEF FrameInv, TurnInv
<1>4. FileInv'
  BY <1>2, ShelfStep DEF TurnInv, FileInv
<1>5. EntryInv'
  <2>1. \A s \in Requests : ~At(s, "saveKey")
    BY <1>1, <1>2, OthersRest DEF TurnInv, At
  <2>2. QED
    BY <1>2, <2>1 DEF TurnInv, EntryInv
<1>6. GatherInv'
  <2>1. \A n \in Nodes : Complete(n) => ~Unfinished
    BY <1>1, <1>2, OthersRest DEF TurnInv, GatherInv
  <2>2. QED
    BY <1>2, <2>1, ShelfStep DEF TurnInv, GatherInv
<1>7. QED
  BY <1>2, <1>3, <1>4, <1>5, <1>6, ShelfStep DEF ServerInv

\* The row of a chunk that has none yet; its node is not assembled.
LEMMA SaveRowEffect ==
  ASSUME UploadInv, TurnInv, NEW r \in Requests, SaveRow(r),
         NEW n, n = nodeOf[r], NEW a, a = args[r]
  PROVE  /\ UNCHANGED <<cache, created, key, objects, size, charged>>
         /\ n \in Nodes /\ n = cache /\ key[n] # 0 /\ ~Assembled(n)
         /\ a \in Row /\ ~HasRow(n, a.index)
         /\ rows[n] \in Seq(Row)
         /\ rows'[n] = Append(rows[n], a)
         /\ \A m \in Nodes \ {n} : rows'[m] = rows[m]
         /\ pc[r] = "saveRow" /\ pc'[r] = "count" /\ nodeOf'[r] = n
<1>1. /\ UNCHANGED <<cache, created, key, objects, size, charged>>
      /\ pc[r] = "saveRow" /\ pc'[r] = "count" /\ nodeOf'[r] = n
  BY DEF SaveRow, Goto, At, UploadInv, TypeInv, TypeOK
<1>2. n \in Nodes /\ a \in Row /\ rows[n] \in Seq(Row)
  BY <1>1 DEF UploadInv, NodeInv, TypeInv, TypeOK, Bound, Running
<1>3. rows' = [rows EXCEPT ![n] = Append(@, a)] /\ DOMAIN rows = Nodes
  BY DEF SaveRow, UploadInv, TypeInv, TypeOK
<1>4. Frame(r)
  BY DEF TurnInv
<1>5. n = cache /\ key[n] # 0 /\ ~HasRow(n, a.index)
  BY <1>1, <1>4 DEF Frame, Bound, Running
<1>6. ~Assembled(n)
  BY <1>2, <1>5 DEF UploadInv, AssemblyInv, AssembledIsComplete, Row
<1>7. QED
  BY <1>1, <1>2, <1>3, <1>5, <1>6

LEMMA SaveRowStep ==
  ASSUME UploadInv, TurnInv, NEW r \in Requests, SaveRow(r)
  PROVE  FrameInv' /\ ServerInv'
<1>1. PICK n, a : n = nodeOf[r] /\ a = args[r]
  OBVIOUS
<1>2. /\ UNCHANGED <<cache, created, key, objects, size, charged>>
      /\ n \in Nodes /\ n = cache /\ key[n] # 0 /\ ~Assembled(n)
      /\ a \in Row /\ ~HasRow(n, a.index)
      /\ rows[n] \in Seq(Row)
      /\ rows'[n] = Append(rows[n], a)
      /\ \A m \in Nodes \ {n} : rows'[m] = rows[m]
      /\ pc[r] = "saveRow" /\ pc'[r] = "count" /\ nodeOf'[r] = n
  BY <1>1, SaveRowEffect
<1>3. StepOf(r)
  BY DEF StepOf, Handler
<1>4. FrameInv'
  <2>1. Frame(r)'
    BY <1>2 DEF Frame, Assembled
  <2>2. QED
    BY <1>3, <2>1, FramesStep DEF FrameInv, TurnInv
<1>5. OneRowPerChunk'
  <2> SUFFICES ASSUME NEW m \in Nodes, NEW j \in DOMAIN rows'[m], NEW k \in DOMAIN rows'[m],
                      rows'[m][j].index = rows'[m][k].index
               PROVE  j = k
    BY DEF OneRowPerChunk
  <2>1. CASE m # n
    BY <1>2, <2>1 DEF TurnInv, OneRowPerChunk
  <2>2. CASE m = n
    <3>1. \A i \in DOMAIN rows'[n] :
            \/ i \in DOMAIN rows[n] /\ rows'[n][i] = rows[n][i] /\ rows[n][i].index # a.index
            \/ i = Len(rows[n]) + 1 /\ rows'[n][i] = a
      BY <1>2 DEF HasRow
    <3>2. QED
      BY <2>2, <3>1 DEF TurnInv, OneRowPerChunk
  <2>3. QED
    BY <2>1, <2>2
<1>6. FileInv'
  <2> SUFFICES ASSUME NEW m \in Nodes
               PROVE  /\ ~Assembled(m)' => charged'[m] = 0
                      /\ Assembled(m)' => m \in created' /\ IndexSetOk(m)'
                      /\ Len(rows'[m]) > 0 => key'[m] # 0
    BY DEF FileInv
  <2>1. Assembled(m)' = Assembled(m)
    BY <1>2 DEF Assembled
  <2>2. m # n => IndexSetOk(m)' = IndexSetOk(m)
    BY <1>2 DEF IndexSetOk, HasRow
  <2>3. QED
    BY <1>2, <2>1, <2>2 DEF TurnInv, FileInv
<1>7. EntryInv'
  BY <1>2 DEF EntryInv
<1>8. GatherInv'
  <2> SUFFICES ASSUME Unfinished', NEW m \in Nodes
               PROVE  /\ Len(rows'[m]) > 0 => m = cache'
                      /\ Complete(m)' => \E s \in Requests :
                           pc'[s] \in {"count", "check", "setSize"} /\ nodeOf'[s] = m
    BY DEF GatherInv
  <2>1. Unfinished
    BY <1>2 DEF Unfinished, Assembled
  <2>2. CASE m = n
    BY <1>2, <2>2
  <2>3. CASE m # n
    <3>1. rows'[m] = rows[m] /\ (Complete(m)' => Complete(m))
      BY <1>2, <2>3 DEF Complete, HasRow
    <3>2. ~Complete(m)
      BY <1>2, <1>3, <2>1, OthersRest DEF TurnInv, GatherInv
    <3>3. QED
      BY <1>2, <2>1, <3>1, <3>2 DEF TurnInv, GatherInv
  <2>4. QED
    BY <2>2, <2>3
<1>9. QED
  BY <1>4, <1>5, <1>6, <1>7, <1>8 DEF ServerInv

LEMMA CountRowsStep ==
  ASSUME UploadInv, TurnInv, NEW r \in Requests, CountRows(r)
  PROVE  FrameInv' /\ ServerInv'
<1>1. StepOf(r) /\ UNCHANGED serverVars /\ pc[r] = "count" /\ Frame(r)
  BY DEF StepOf, Handler, CountRows, At, TurnInv
<1>2. CASE Reply(r, "acked") /\ Len(rows[nodeOf[r]]) # TotalChunks
  <2>1. pc'[r] \notin Running
    BY <1>2 DEF Reply, UploadInv, TypeInv, TypeOK, Running
  <2>2. \A n \in Nodes : Complete(n) => nodeOf[r] # n
    BY <1>2, RowsCount DEF UploadInv, TurnInv
  <2>3. QED
    BY <1>1, <2>1, <2>2, EndStep
<1>3. CASE Goto(r, "check")
  <2>1. pc'[r] = "check" /\ nodeOf'[r] = nodeOf[r]
    BY <1>3 DEF Goto, UploadInv, TypeInv, TypeOK
  <2>2. Frame(r)'
    BY <1>1, <2>1 DEF Frame, serverVars, Bound, Running, Assembled
  <2>3. QED
    BY <1>1, <2>1, <2>2, GoStep
<1>4. QED
  BY <1>2, <1>3 DEF CountRows

LEMMA CheckIndicesStep ==
  ASSUME UploadInv, TurnInv, NEW r \in Requests, CheckIndices(r)
  PROVE  FrameInv' /\ ServerInv'
<1>1. StepOf(r) /\ UNCHANGED serverVars /\ pc[r] = "check" /\ Frame(r)
  BY DEF StepOf, Handler, CheckIndices, At, TurnInv
<1>2. CASE Reply(r, "rejected") /\ ~IndexSetOk(nodeOf[r])
  <2>1. pc'[r] \notin Running
    BY <1>2 DEF Reply, UploadInv, TypeInv, TypeOK, Running
  <2>2. \A n \in Nodes : Complete(n) => nodeOf[r] # n
    BY <1>2, RowsCount DEF UploadInv, TurnInv, IndexSetOk, Complete
  <2>3. QED
    BY <1>1, <2>1, <2>2, EndStep
<1>3. CASE Goto(r, "setSize") /\ IndexSetOk(nodeOf[r])
  <2>1. pc'[r] = "setSize" /\ nodeOf'[r] = nodeOf[r]
    BY <1>3 DEF Goto, UploadInv, TypeInv, TypeOK
  <2>2. Frame(r)'
    BY <1>1, <1>3, <2>1 DEF Frame, serverVars, Bound, Running, Assembled, IndexSetOk, HasRow
  <2>3. QED
    BY <1>1, <2>1, <2>2, GoStep
<1>4. QED
  BY <1>2, <1>3 DEF CheckIndices

LEMMA SetSizeStep ==
  ASSUME UploadInv, TurnInv, NEW r \in Requests, SetSize(r)
  PROVE  FrameInv' /\ ServerInv'
<1>1. PICK n : n = nodeOf[r]
  OBVIOUS
<1>2. /\ StepOf(r)
      /\ UNCHANGED <<cache, created, key, rows, objects, charged>>
      /\ pc[r] = "setSize" /\ pc'[r] = "charge" /\ nodeOf'[r] = n
      /\ n \in created
  BY <1>1 DEF StepOf, Handler, SetSize, Goto, At, UploadInv, TypeInv, TypeOK, NodeInv,
              Bound, Running
<1>3. /\ n \in Nodes
      /\ size' = [size EXCEPT ![n] = TotalChunks]
      /\ n = cache /\ key[n] # 0 /\ ~Assembled(n) /\ IndexSetOk(n)
  BY <1>1, <1>2 DEF SetSize, TurnInv, Frame, UploadInv, TypeInv, TypeOK, Bound, Running
<1>4. Assembled(n)' /\ \A m \in Nodes \ {n} : size'[m] = size[m]
  BY <1>3 DEF Assembled, UploadInv, TypeInv, TypeOK
<1>5. \A m \in Nodes : IndexSetOk(m)' = IndexSetOk(m)
  BY <1>2 DEF IndexSetOk, HasRow
<1>6. FileInv'
  <2> SUFFICES ASSUME NEW m \in Nodes
               PROVE  /\ ~Assembled(m)' => charged'[m] = 0
                      /\ Assembled(m)' => m \in created' /\ IndexSetOk(m)'
                      /\ Len(rows'[m]) > 0 => key'[m] # 0
    BY DEF FileInv
  <2>1. CASE m = n
    BY <1>2, <1>3, <1>4, <1>5, <2>1 DEF TurnInv, FileInv
  <2>2. CASE m # n
    BY <1>2, <1>4, <1>5, <2>2 DEF TurnInv, FileInv, Assembled
  <2>3. QED
    BY <2>1, <2>2
<1>7. FrameInv'
  <2>1. charged[n] = 0
    BY <1>3 DEF TurnInv, FileInv
  <2>2. Frame(r)'
    BY <1>2, <1>3, <1>4, <2>1 DEF Frame
  <2>3. QED
    BY <1>2, <2>2, FramesStep DEF FrameInv, TurnInv
<1>8. OneRowPerChunk' /\ EntryInv'
  BY <1>2, <1>3 DEF TurnInv, OneRowPerChunk, EntryInv
<1>9. ~Unfinished'
  BY <1>3, <1>4 DEF Unfinished
<1>10. QED
  BY <1>6, <1>7, <1>8, <1>9 DEF ServerInv, GatherInv

LEMMA ChargeStep ==
  ASSUME UploadInv, TurnInv, NEW r \in Requests, ChargeOwner(r)
  PROVE  FrameInv' /\ ServerInv'
<1>1. PICK n : n = nodeOf[r]
  OBVIOUS
<1>2. /\ StepOf(r)
      /\ UNCHANGED <<cache, created, key, rows, objects, size>>
      /\ pc[r] = "charge" /\ pc'[r] = "delCache" /\ nodeOf'[r] = n
      /\ n \in created
  BY <1>1 DEF StepOf, Handler, ChargeOwner, Goto, At, UploadInv, TypeInv, TypeOK, NodeInv,
              Bound, Running
<1>3. /\ n \in Nodes
      /\ n = cache /\ key[n] # 0 /\ Assembled(n)
  BY <1>1, <1>2, ZenonT(40) DEF TurnInv, Frame, UploadInv, TypeInv, TypeOK, Bound, Running
<1>4. \A m \in Nodes \ {n} : charged'[m] = charged[m]
  BY <1>1 DEF ChargeOwner, UploadInv, TypeInv, TypeOK
<1>5. FileInv'
  <2>1. \A m \in Nodes : ~Assembled(m)' => charged'[m] = charged[m]
    BY <1>2, <1>3, <1>4, ShelfStep
  <2>2. QED
    BY <1>2, <2>1, ShelfStep DEF TurnInv, FileInv
<1>6. FrameInv'
  <2>1. Frame(r)'
    BY <1>2, <1>3 DEF Frame, Assembled
  <2>2. QED
    BY <1>2, <2>1, FramesStep DEF FrameInv, TurnInv
<1>7. OneRowPerChunk' /\ EntryInv'
  BY <1>2, <1>3 DEF TurnInv, OneRowPerChunk, EntryInv
<1>8. ~Unfinished'
  BY <1>2, <1>3 DEF Unfinished, Assembled
<1>9. QED
  BY <1>5, <1>6, <1>7, <1>8 DEF ServerInv, GatherInv

LEMMA DelCacheStep ==
  ASSUME UploadInv, TurnInv, NEW r \in Requests, DelCache(r), OneAtATime
  PROVE  FrameInv' /\ ServerInv'
<1>1. /\ StepOf(r)
      /\ UNCHANGED <<created, key, rows, objects, size, charged>>
      /\ cache' = NoNode
      /\ pc[r] = "delCache" /\ pc'[r] \notin Running
  BY DEF StepOf, Handler, DelCache, Reply, At, UploadInv, TypeInv, TypeOK, Running, OneAtATime, NetworkFaults
<1>2. ~Unfinished
  BY <1>1 DEF TurnInv, Frame, Unfinished, UploadInv, NodeInv, TypeInv, TypeOK, Bound, Running
<1>3. FrameInv'
  BY <1>1, RestingFrame, FramesStep DEF FrameInv, TurnInv
<1>4. FileInv'
  BY <1>1, ShelfStep DEF TurnInv, FileInv
<1>5. EntryInv'
  BY <1>1 DEF EntryInv
<1>6. QED
  BY <1>1, <1>2, <1>3, <1>4, <1>5, ShelfStep DEF ServerInv, GatherInv

\* The client sends a request, or takes or loses its answer.
LEMMA ClientStep ==
  ASSUME UploadInv, TurnInv, OneAtATime, NEW r \in Requests, Client(r) \/ Refuse(r)
  PROVE  FrameInv' /\ ServerInv'
<1>1. StepOf(r) /\ UNCHANGED serverVars
  BY DEF StepOf, Client, Send, Ack, Nack, LoseReply, TimeOut, AttemptFails, Refuse
<1>2. CASE Send(r)
  <2>1. pc[r] = "idle" /\ pc'[r] = "get"
    BY <1>2 DEF Send, At, UploadInv, TypeInv, TypeOK
  <2>2. Frame(r)'
    BY <2>1 DEF Frame, Bound
  <2>3. QED
    BY <1>1, <2>1, <2>2, GoStep
<1>3. CASE ~Send(r)
  <2>1. pc'[r] \notin Running /\ pc[r] \notin {"saveKey", "count", "check", "setSize"}
    BY <1>3 DEF Client, Ack, Nack, LoseReply, TimeOut, Refuse, Reply, At, OneAtATime, NetworkFaults,
                UploadInv, TypeInv, TypeOK, Running
  <2>2. QED
    BY <1>1, <2>1, EndStep
<1>4. QED
  BY <1>2, <1>3

\* The user adds the file again, and no request takes a step.
LEMMA RestStep ==
  ASSUME UploadInv, TurnInv, UNCHANGED <<handlerVars, serverVars>>
  PROVE  FrameInv' /\ ServerInv'
<1>1. FrameInv'
  BY DEF TurnInv, FrameInv, Frame, Assembled, IndexSetOk, HasRow, handlerVars, serverVars
<1>2. OneRowPerChunk' /\ FileInv'
  BY DEF TurnInv, OneRowPerChunk, FileInv, Assembled, IndexSetOk, HasRow, serverVars
<1>3. EntryInv'
  BY DEF TurnInv, EntryInv, At, handlerVars, serverVars
<1>4. GatherInv'
  BY DEF TurnInv, GatherInv, Unfinished, Complete, Assembled, HasRow, handlerVars, serverVars
<1>5. QED
  BY <1>1, <1>2, <1>3, <1>4 DEF ServerInv

LEMMA InitTurnInv == Init => TurnInv
<1> SUFFICES ASSUME Init
             PROVE  TurnInv
  OBVIOUS
<1>1. \A n \in Nodes : rows[n] = <<>> /\ ~Assembled(n) /\ charged[n] = 0
  BY DEF Init, Assembled
<1>2. SoloInv /\ FrameInv /\ EntryInv
  BY DEF Init, SoloInv, FrameInv, Frame, Bound, Running, EntryInv
<1>3. OneRowPerChunk /\ FileInv
  BY <1>1 DEF OneRowPerChunk, FileInv
<1>4. \A n \in Nodes : ~Complete(n) /\ ~(Len(rows[n]) > 0)
  <2>1. 0 \in Chunks
    BY DEF Chunks
  <2>2. \A n \in Nodes, i \in Chunks : ~HasRow(n, i)
    BY <1>1 DEF HasRow
  <2>3. \A n \in Nodes : ~(Len(rows[n]) > 0)
    BY <1>1
  <2>4. QED
    BY <2>1, <2>2, <2>3 DEF Complete
<1>5. GatherInv
  BY <1>4 DEF GatherInv
<1>6. QED
  BY <1>2, <1>3, <1>5 DEF TurnInv, FrameInv, Init

LEMMA TurnStep == OneAtATime /\ UploadInv /\ TurnInv /\ [Next]_vars => TurnInv'
<1> SUFFICES ASSUME OneAtATime, UploadInv, TurnInv, [Next]_vars
             PROVE  TurnInv'
  OBVIOUS
<1>1. SoloInv'
  BY SoloStep DEF TurnInv
<1>2. FrameInv' /\ ServerInv'
  <2>1. CASE AddFile \/ UNCHANGED vars
    BY <2>1, RestStep DEF AddFile, vars
  <2>2. ASSUME NEW r \in Requests, StepOf(r)
        PROVE  FrameInv' /\ ServerInv'
    BY <2>2, GetCacheStep, CreateStep, SetCacheStep, SaveKeyStep, FindChunkStep, StoreStep,
       SaveRowStep, CountRowsStep, CheckIndicesStep, SetSizeStep, ChargeStep, DelCacheStep,
       ClientStep DEF StepOf, Handler, Abort, OneAtATime, NetworkFaults
  <2>3. ~Expire
    BY DEF Expire, OneAtATime, NetworkFaults
  <2>4. QED
    BY <2>1, <2>2, <2>3, NextSteps
<1>3. status' = "done" => next' = TotalChunks
  <2>1. CASE UNCHANGED <<status, next>>
    BY <2>1 DEF TurnInv
  <2>2. CASE \E r \in Requests : Ack(r)
    BY <2>2 DEF TurnInv, Ack, UploadInv, TypeInv, LoopInv
  <2>3. CASE status' # "done"
    BY <2>3
  <2>4. CASE AttemptFails
    BY <2>4 DEF TurnInv, AttemptFails
  <2>5. QED
    BY ZenonT(40), <2>1, <2>2, <2>3, <2>4
       DEF Next, vars, clientVars, AddFile, Expire, Handler, Client, Refuse, Abort, GetCache,
           CreateNode, SetCache, SaveKey, FindChunk, Store, SaveRow, CountRows, CheckIndices,
           SetSize, ChargeOwner, DelCache, Send, Nack, LoseReply, TimeOut, Goto, Reply
<1>4. QED
  BY <1>1, <1>2, <1>3 DEF TurnInv, FrameInv, ServerInv

\* With requests one after the other, the rows of a node are the chunks of its file,
\* once each, and one request assembles and charges it (uploadChunk without overlaps).
THEOREM UploadTakesTurns == ASSUME OneAtATime PROVE Spec => []TurnInv
<1>1. UploadInv /\ TurnInv /\ [Next]_vars => TurnInv'
  BY TurnStep
<1>2. QED
  BY <1>1, InitTurnInv, SpecUploadInv, PTL DEF Spec

-----------------------------------------------------------------------------
\* What the user sees

\* A task that is shown as done left a file that its key decrypts, when the file was
\* added once (processTask counts answers; nothing tells it that the file is there).
THEOREM UploadDoneIsReadable ==
  ASSUME OneAtATime, MaxTasks = 1
  PROVE  Spec => []DoneIsReadable
<1>1. UploadInv /\ TurnInv => DoneIsReadable
  <2> SUFFICES ASSUME UploadInv, TurnInv, status = "done"
               PROVE  \E n \in created : Readable(n)
    BY DEF DoneIsReadable
  <2>1. \A r \in Requests : pc[r] = "idle"
    BY DEF UploadInv, TypeInv, LoopInv, TurnInv, SoloInv
  <2>2. \A i \in Chunks : \E n \in Nodes : HasRow(n, i)
    BY DEF TurnInv, UploadInv, TypeInv, TypeOK, AckInv, AckedIsStored, Chunks
  <2>3. ~Unfinished
    <3> SUFFICES ASSUME Unfinished
                 PROVE  FALSE
      OBVIOUS
    <3>1. \A n \in Nodes, i \in Chunks : HasRow(n, i) => n = cache
      <4>1. \A n \in Nodes : rows[n] \in Seq(Row)
        BY DEF UploadInv, TypeInv, TypeOK
      <4>2. \A n \in Nodes, i \in Chunks : HasRow(n, i) => Len(rows[n]) > 0
        BY <4>1 DEF HasRow
      <4>3. QED
        BY <4>2 DEF TurnInv, GatherInv
    <3>2. 0 \in Chunks
      BY DEF Chunks
    <3>3. cache \in Nodes /\ Complete(cache)
      BY <2>2, <3>1, <3>2 DEF Complete
    <3>4. QED
      BY <2>1, <3>3 DEF TurnInv, GatherInv
  <2>4. PICK n \in Nodes : Assembled(n)
    BY <2>3 DEF Unfinished
  <2>5. n \in created /\ IndexSetOk(n)
    BY <2>4 DEF TurnInv, FileInv
  <2>6. rows[n] \in Seq(Row) /\ Len(rows[n]) > 0
    BY <2>5 DEF IndexSetOk, UploadInv, TypeInv, TypeOK
  <2>7. key[n] = 1
    BY <2>6 DEF TurnInv, FileInv, UploadInv, TypeInv, TypeOK
  <2>8. \A j \in DOMAIN rows[n] :
          rows[n][j] \in Row /\ objects[n][rows[n][j].index] # 0
    BY <2>6 DEF UploadInv, ProgressInv, RowsHaveObjects
  <2>9. \A j \in DOMAIN rows[n] :
          rows[n][j].bundle = 1 /\ objects[n][rows[n][j].index] = 1
    BY <2>8 DEF Row, Bundles, UploadInv, TypeInv, TypeOK
  <2>10. QED
    BY <2>4, <2>5, <2>7, <2>9 DEF Readable
<1>2. QED
  BY <1>1, SpecUploadInv, UploadTakesTurns, PTL

-----------------------------------------------------------------------------
\* The refinement of AtomicUpload

\* The state of AtomicUpload
Stored == [n \in Nodes |-> [i \in Chunks |->
            Cardinality({j \in DOMAIN rows[n] : rows[n][j].index = i})]]

Done == {n \in Nodes : Assembled(n)}

\* How often a chunk is recorded
Recorded ==
  /\ Stored \in [Nodes -> [Chunks -> {0, 1}]]
  /\ \A n \in Nodes, i \in Chunks : Stored[n][i] = IF HasRow(n, i) THEN 1 ELSE 0

LEMMA RecordedOnce == OneRowPerChunk => Recorded
<1> SUFFICES ASSUME OneRowPerChunk, NEW n \in Nodes, NEW i \in Chunks
             PROVE  /\ Stored[n][i] \in {0, 1}
                    /\ Stored[n][i] = IF HasRow(n, i) THEN 1 ELSE 0
  BY DEF Recorded, Stored
<1> DEFINE of == {j \in DOMAIN rows[n] : rows[n][j].index = i}
<1>1. CASE HasRow(n, i)
  <2>1. PICK j \in DOMAIN rows[n] : rows[n][j].index = i
    BY <1>1 DEF HasRow
  <2>2. of = {j}
    BY <2>1 DEF OneRowPerChunk
  <2>3. Cardinality(of) = 1
    BY <2>2, FS_Singleton
  <2>4. QED
    BY <1>1, <2>3 DEF Stored
<1>2. CASE ~HasRow(n, i)
  <2>1. of = {}
    BY <1>2 DEF HasRow
  <2>2. Cardinality(of) = 0
    BY <2>1, FS_EmptySet
  <2>3. QED
    BY <1>2, <2>2 DEF Stored
<1>3. QED
  BY <1>1, <1>2

\* The initial states
LEMMA AtomicInit == Init => Atomic!Init
<1> SUFFICES ASSUME Init
             PROVE  Atomic!Init
  OBVIOUS
<1>1. OneRowPerChunk
  BY InitTurnInv DEF TurnInv
<1>2. \A n \in Nodes, i \in Chunks : Stored[n][i] = 0
  BY <1>1, RecordedOnce DEF Recorded, Init, HasRow
<1>3. Stored = [n \in Nodes |-> [i \in Chunks |-> 0]]
  BY <1>2 DEF Stored
<1>4. Done = {}
  BY DEF Done, Init, Assembled
<1>5. QED
  BY <1>3, <1>4 DEF Init, Atomic!Init, Atomic!Chunks, Chunks, Stored, Done

\* A row is the record of its chunk.
LEMMA SaveRowStores ==
  ASSUME UploadInv, TurnInv, TurnInv', NEW r \in Requests, SaveRow(r)
  PROVE  \E n \in Nodes, i \in Chunks : Atomic!Store(n, i)
<1>1. PICK n, a : n = nodeOf[r] /\ a = args[r]
  OBVIOUS
<1>2. /\ UNCHANGED <<created, size, charged>>
      /\ n \in created /\ n \in Nodes /\ ~Assembled(n)
      /\ a \in Row /\ a.index \in Chunks /\ ~HasRow(n, a.index)
      /\ rows[n] \in Seq(Row)
      /\ rows'[n] = Append(rows[n], a)
      /\ \A m \in Nodes \ {n} : rows'[m] = rows[m]
  <2>1. /\ UNCHANGED <<cache, created, key, objects, size, charged>>
        /\ n \in Nodes /\ n = cache /\ key[n] # 0 /\ ~Assembled(n)
        /\ a \in Row /\ ~HasRow(n, a.index)
        /\ rows[n] \in Seq(Row)
        /\ rows'[n] = Append(rows[n], a)
        /\ \A m \in Nodes \ {n} : rows'[m] = rows[m]
        /\ pc[r] = "saveRow" /\ pc'[r] = "count" /\ nodeOf'[r] = n
    BY <1>1, SaveRowEffect
  <2>2. n \in created
    BY <1>1, <2>1 DEF UploadInv, NodeInv, Bound, Running
  <2>3. a.index \in Chunks
    BY <2>1 DEF Row
  <2>4. QED
    BY <2>1, <2>2, <2>3
<1>3. \A m \in Nodes, i \in Chunks :
        HasRow(m, i)' <=> HasRow(m, i) \/ (m = n /\ i = a.index)
  <2>1. \A m \in Nodes \ {n}, i \in Chunks : HasRow(m, i)' <=> HasRow(m, i)
    BY <1>2 DEF HasRow
  <2>2. \A i \in Chunks : HasRow(n, i)' <=> HasRow(n, i) \/ i = a.index
    <3>1. /\ DOMAIN rows'[n] = DOMAIN rows[n] \union {Len(rows[n]) + 1}
          /\ \A j \in DOMAIN rows[n] : rows'[n][j] = rows[n][j]
          /\ rows'[n][Len(rows[n]) + 1] = a
      BY <1>2
    <3>2. QED
      BY <3>1 DEF HasRow
  <2>3. QED
    BY <2>1, <2>2
<1>4. Recorded /\ Recorded'
  <2>1. OneRowPerChunk /\ OneRowPerChunk'
    BY DEF TurnInv
  <2>2. QED
    BY <2>1, RecordedOnce, PTL
<1>5. Stored[n][a.index] = 0
  BY <1>2, <1>4 DEF Recorded
<1>6. Stored' = [Stored EXCEPT ![n][a.index] = 1]
  <2> DEFINE row == [Stored[n] EXCEPT ![a.index] = 1]
  <2>1. \A m \in Nodes \ {n} : Stored'[m] = Stored[m]
    <3> SUFFICES ASSUME NEW m \in Nodes \ {n}
                 PROVE  Stored'[m] = Stored[m]
      OBVIOUS
    <3>1. Stored[m] \in [Chunks -> {0, 1}] /\ Stored'[m] \in [Chunks -> {0, 1}]
      BY <1>4 DEF Recorded
    <3>2. \A i \in Chunks : Stored'[m][i] = Stored[m][i]
      BY <1>3, <1>4 DEF Recorded
    <3>3. QED
      BY <3>1, <3>2
  <2>2. Stored'[n] = row
    <3>1. Stored[n] \in [Chunks -> {0, 1}] /\ Stored'[n] \in [Chunks -> {0, 1}]
      BY <1>2, <1>4 DEF Recorded
    <3>2. \A i \in Chunks : Stored'[n][i] = IF i = a.index THEN 1 ELSE Stored[n][i]
      BY <1>2, <1>3, <1>4 DEF Recorded
    <3>3. QED
      BY <3>1, <3>2
  <2>3. DOMAIN Stored = Nodes /\ Stored' \in [Nodes -> [Chunks -> {0, 1}]]
    BY <1>4 DEF Recorded
  <2> HIDE DEF row
  <2>4. Stored' = [Stored EXCEPT ![n] = row]
    BY <1>2, <1>4, <2>1, <2>2, <2>3 DEF Recorded
  <2>5. QED
    BY <2>4 DEF row
<1>7. Done' = Done /\ n \notin Done
  BY <1>2 DEF Done, Assembled
<1>8. Atomic!Store(n, a.index)
  BY <1>2, <1>5, <1>6, <1>7 DEF Atomic!Store, Stored, Done
<1>9. QED
  BY <1>2, <1>8

\* Every step of the upload is one of AtomicUpload, or changes nothing it speaks of.
LEMMA AtomicStep ==
  ASSUME OneAtATime, UploadInv, TurnInv, TurnInv', [Next]_vars
  PROVE  [Atomic!Next]_(Atomic!vars)
<1>1. ASSUME NEW r \in Requests, CreateNode(r)
      PROVE  Atomic!Next
  <2>1. PICK n \in Nodes \ created : created' = created \union {n}
    BY <1>1 DEF CreateNode
  <2>2. UNCHANGED <<Stored, Done, charged>>
    BY <1>1 DEF CreateNode, Stored, Done, Assembled
  <2>3. Atomic!Open(n)
    BY <2>1, <2>2 DEF Atomic!Open, Stored, Done
  <2>4. QED
    BY <2>1, <2>3 DEF Atomic!Next
<1>2. ASSUME NEW r \in Requests, SaveRow(r)
      PROVE  Atomic!Next
  BY <1>2, SaveRowStores DEF Atomic!Next, Atomic!Chunks, Chunks
<1>3. ASSUME NEW r \in Requests, SetSize(r)
      PROVE  Atomic!Next
  <2>1. PICK n : n = nodeOf[r]
    OBVIOUS
  <2>2. /\ UNCHANGED <<created, rows, charged>>
        /\ pc[r] = "setSize"
        /\ n \in created /\ n \in Nodes
        /\ size' = [size EXCEPT ![n] = TotalChunks]
        /\ ~Assembled(n) /\ IndexSetOk(n)
    BY <1>3, <2>1 DEF SetSize, At, TurnInv, Frame, UploadInv, NodeInv, TypeInv, TypeOK,
                      Bound, Running
  <2>3. \A m \in Nodes : Assembled(m)' <=> Assembled(m) \/ m = n
    BY <2>2 DEF Assembled, UploadInv, TypeInv, TypeOK
  <2>4. Done' = Done \union {n} /\ n \notin Done
    BY <2>2, <2>3 DEF Done
  <2>5. \A i \in Chunks : Stored[n][i] = 1
    BY <2>2, RecordedOnce DEF TurnInv, Recorded, IndexSetOk
  <2>6. UNCHANGED Stored
    BY <2>2 DEF Stored
  <2>7. Atomic!Assemble(n)
    BY <2>2, <2>4, <2>5, <2>6 DEF Atomic!Assemble, Atomic!Chunks, Chunks, Stored, Done
  <2>8. QED
    BY <2>2, <2>7 DEF Atomic!Next
<1>4. ASSUME NEW r \in Requests, ChargeOwner(r)
      PROVE  Atomic!Next
  <2>1. PICK n : n = nodeOf[r]
    OBVIOUS
  <2>2. /\ UNCHANGED <<created, rows, size>>
        /\ pc[r] = "charge"
        /\ n \in created /\ n \in Nodes
        /\ charged' = [charged EXCEPT ![n] = @ + TotalChunks]
        /\ Assembled(n) /\ charged[n] = 0
    BY <1>4, <2>1 DEF ChargeOwner, At, TurnInv, Frame, UploadInv, NodeInv, TypeInv, TypeOK,
                      Bound, Running
  <2>3. charged' = [charged EXCEPT ![n] = TotalChunks]
    BY <2>2
  <2>4. UNCHANGED <<Stored, Done>> /\ n \in Done
    BY <2>2 DEF Stored, Done, Assembled
  <2>5. Atomic!Charge(n)
    BY <2>2, <2>3, <2>4 DEF Atomic!Charge, Stored, Done
  <2>6. QED
    BY <2>2, <2>5 DEF Atomic!Next
<1>5. ASSUME UNCHANGED <<created, rows, size, charged>>
      PROVE  UNCHANGED Atomic!vars
  BY <1>5 DEF Atomic!vars, Assembled
<1>6. QED
  BY <1>1, <1>2, <1>3, <1>4, <1>5
     DEF Next, vars, serverVars, AddFile, Expire, Handler, Client, Refuse, Abort, GetCache,
         SetCache, SaveKey, FindChunk, Store, CountRows, CheckIndices, DelCache, Send, Ack,
         Nack, LoseReply, TimeOut, AttemptFails

\* With requests one after the other the handlers of uploadChunk do what an upload
\* promises, as if recording a chunk, assembling the file and charging for it were one
\* step each: no chunk twice, nothing assembled too early or charged twice.
THEOREM UploadImplementsAtomic ==
  ASSUME OneAtATime
  PROVE  Spec => ImplementsAtomicUpload
<1>1. UploadInv /\ TurnInv /\ TurnInv' /\ [Next]_vars => [Atomic!Next]_(Atomic!vars)
  BY AtomicStep
<1>2. QED
  BY <1>1, AtomicInit, SpecUploadInv, UploadTakesTurns, PTL
     DEF Spec, ImplementsAtomicUpload, Atomic!Spec

-----------------------------------------------------------------------------
\* The upload beside the links of a file

\* What is proved of the upload alone holds where it stands beside the links, and so
\* does what a run checks there: a task that is done has left a file to read.
THEOREM DoneBesideLinks ==
  ASSUME OneAtATime, MaxTasks = 1
  PROVE  LivenessSpec => []DoneIsReadable
<1>1. LivenessInit => Init
  BY DEF LivenessInit
<1>2. [LivenessNext]_allVars => [Next]_vars
  BY DEF LivenessNext, allVars, vars, handlerVars, serverVars, clientVars
<1>3. QED
  BY <1>1, <1>2, UploadDoneIsReadable, PTL DEF LivenessSpec, Spec

\* One request for a link at a time
OneOwner == \A o, p \in Owners : o = p

\* Between the two statements of createShare no link is open, and nobody else opens one.
OpenInv ==
  /\ \A s, t \in active : s = t
  /\ DOMAIN step = Owners
  /\ \A o \in Owners : step[o] = "insert" => active = {}

\* A file has one link that is open, as long as its owner asks for one at a time:
\* createShare closes the older ones before it inserts the new one.
THEOREM LinksFollowEachOther ==
  ASSUME OneOwner
  PROVE  LivenessSpec => []OneOpenLink
<1>1. LivenessInit => OpenInv
  BY DEF LivenessInit, S!Init, OpenInv
<1>2. OpenInv /\ [LivenessNext]_allVars => OpenInv'
  <2> SUFFICES ASSUME OpenInv, [LivenessNext]_allVars
               PROVE  OpenInv'
    OBVIOUS
  <2>1. CASE UNCHANGED sharing
    BY <2>1 DEF sharing, OpenInv
  <2>2. ASSUME NEW o \in Owners, S!DeactivateOlderLinks(o)
        PROVE  OpenInv'
    BY <2>2 DEF S!DeactivateOlderLinks, OpenInv
  <2>3. ASSUME NEW o \in Owners, S!InsertShare(o)
        PROVE  OpenInv'
    <3>1. active = {} /\ step' = [step EXCEPT ![o] = "idle"]
      BY <2>3 DEF S!InsertShare, S!EndOwner, OpenInv
    <3>2. \A p \in Owners : step'[p] = "idle"
      BY <3>1 DEF OneOwner, OpenInv
    <3>3. \A s, t \in active' : s = t
      BY <2>3, <3>1 DEF S!InsertShare
    <3>4. QED
      BY <3>1, <3>2, <3>3 DEF OpenInv
  <2>4. ASSUME active' \subseteq active, NEW o \in Owners,
               \/ UNCHANGED step
               \/ \E p \in {"idle", "deactivate", "save", "drop"} : step' = [step EXCEPT ![o] = p]
        PROVE  OpenInv'
    BY <2>4 DEF OpenInv
  <2>5. ASSUME active' \subseteq active, UNCHANGED step
        PROVE  OpenInv'
    BY <2>5 DEF OpenInv
  <2>6. ASSUME NEW o \in Owners,
               \/ S!BeginCreate(o) \/ S!LoadShare(o) \/ S!SaveClosed(o) \/ S!DropClosed(o)
               \/ S!AbortOwner(o)
        PROVE  OpenInv'
    <3>1. active' \subseteq active
      BY <2>6 DEF S!BeginCreate, S!LoadShare, S!SaveClosed, S!DropClosed, S!AbortOwner, S!rowVars
    <3>2. \E p \in {"idle", "deactivate", "save", "drop"} : step' = [step EXCEPT ![o] = p]
      BY <2>6 DEF S!BeginCreate, S!LoadShare, S!SaveClosed, S!DropClosed, S!AbortOwner, S!EndOwner
    <3>3. QED
      BY <2>4, <3>1, <3>2
  <2>7. ASSUME NEW v \in Visits, S!Arrive(v) \/ S!Visit(v) \/ S!AbortVisit(v)
        PROVE  OpenInv'
    BY <2>5, <2>7 DEF S!Arrive, S!Visit, S!AbortVisit, S!GetEntry, S!FindShare, S!FillEntry,
          S!CheckTerms, S!CheckPassword, S!DropThenRefuse, S!FindNode, S!IncrementDownload,
          S!DropThenGrant, S!rowVars, S!ownerVars
  <2>8. ASSUME \/ S!TrashFile
               \/ \E s \in Shares : S!CloseExpired(s) \/ S!ForgetEntry(s) \/ S!ExpiryPasses(s)
        PROVE  OpenInv'
    BY <2>5, <2>8 DEF S!TrashFile, S!CloseExpired, S!ForgetEntry, S!ExpiryPasses, S!rowVars,
          S!ownerVars
  <2>9. QED
    BY <2>1, <2>2, <2>3, <2>6, <2>7, <2>8 DEF LivenessNext, allVars, S!Next, S!Owner
<1>3. OpenInv => OneOpenLink
  <2> SUFFICES ASSUME OpenInv
               PROVE  OneOpenLink
    OBVIOUS
  <2>1. active = {} => Cardinality(active) <= 1
    BY FS_EmptySet
  <2>2. ASSUME NEW s \in active
        PROVE  Cardinality(active) <= 1
    <3>1. active = {s}
      BY DEF OpenInv
    <3>2. Cardinality(active) = 1
      BY <3>1, FS_Singleton
    <3>3. QED
      BY <3>2
  <2>3. S!Cardinality(active) = Cardinality(active)
    BY DEF S!Cardinality, Cardinality
  <2>4. Cardinality(active) <= 1
    BY <2>1, <2>2
  <2>5. QED
    BY <2>3, <2>4 DEF OneOpenLink, S!OneOpenLink
<1>4. QED
  BY <1>1, <1>2, <1>3, PTL DEF LivenessSpec
=============================================================================
