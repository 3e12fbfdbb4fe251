---------------------------- MODULE Drive_proofs ----------------------------
(***************************************************************************)
(* Proofs about the server of MC_Drive, for any number of nodes, requests, *)
(* uploads, plans and codes.                                               *)
(*                                                                         *)
(* Drive, whatever overlaps: with the local storage a version keeps the    *)
(* content it was made of (VersionsLast); the run drive_versions shows     *)
(* that the storage cannot be left out.  Drive, while requests do not      *)
(* overlap: the limit of a link (LinkHasItsLimit), files as long as their  *)
(* objects (FilesStayWhole), and an account within the files there are     *)
(* (OwnerNeverOvercharged).  Billing, with one webhook at a time:          *)
(* the quota and the plan.  Verification is proved in a module of its own, *)
(* and its theorems are carried over to the server here.                   *)
(***************************************************************************)
EXTENDS MC_Drive, FiniteSetTheorems, WellFoundedInduction, TLAPS

\* The objects written so far: what a row, a version or a request may refer to
Written == 1 .. uploads

\* A request is a record of these fields.
Fields == {"op", "todo", "node", "parent", "size", "prev", "keys", "count", "work", "queue"}

Names ==
  {"insert", "upload", "chunk", "size", "charge", "count", "quota", "load", "version", "drop",
   "copies", "chunks", "refund", "objects", "delete", "save"}

\* It has awaits left, and only the first await of an edit or of a version, which
\* are at a node, is to load chunks.
Planned(q) ==
  /\ q.todo \in Seq(Names) /\ Len(q.todo) > 0
  /\ \A i \in 2 .. Len(q.todo) : q.todo[i] # "load"
  /\ q.todo[1] = "load" => q.todo = Awaits[q.op] /\ q.node \in Nodes

\* Its objects are among the first k, and what is left to copy are nodes.
Keyed(q, k) ==
  /\ DOMAIN q = Fields
  /\ q.op \in Ops
  /\ q.keys \subseteq 1 .. k
  /\ \A w \in q.work : w.src \in Nodes
  /\ Planned(q)

Shapes ==
  /\ uploads \in 0 .. MaxUploads
  /\ DOMAIN store = Keys
  /\ DOMAIN chunks = Nodes
  /\ DOMAIN versions = Nodes
  /\ DOMAIN req = Requests

\* A version refers to written objects, which still have the content they had.
Kept(v) == v.keys \subseteq Written /\ Download(v) = v.was

KeyInv ==
  /\ Shapes
  /\ \A n \in Nodes : chunks[n] \subseteq Written
  /\ \A n \in Nodes : \A v \in versions[n] : Kept(v)
  /\ \A r \in Requests : req[r] # None => Keyed(req[r], uploads)

\* What an upload may do to the storage: objects are added under a number of
\* their own, and none goes.
Grows ==
  /\ uploads' \in uploads .. MaxUploads
  /\ DOMAIN store' = Keys
  /\ \A k \in Written : store'[k] = store[k]

\* What was kept is kept while the storage grows.
LEMMA KeptStays ==
  ASSUME Shapes, Grows, NEW v, Kept(v)
  PROVE  Kept(v)'
<1>1. Written \subseteq Written'
  BY DEF Shapes, Grows, Written
<1>2. \A k \in v.keys : store'[k] = store[k]
  BY DEF Kept, Grows
<1>3. Contents(v.keys)' = Contents(v.keys)
  BY <1>2 DEF Contents
<1>4. QED
  BY <1>1, <1>3 DEF Kept, Download

\* A request stays keyed.
LEMMA KeyedStays ==
  ASSUME Shapes, Grows, NEW q, Keyed(q, uploads)
  PROVE  Keyed(q, uploads')
BY DEF Shapes, Grows, Keyed

\* A step that adds objects, takes away references and moves one request.
LEMMA StepKeeps ==
  ASSUME KeyInv, Grows,
         DOMAIN chunks' = Nodes, \A n \in Nodes : chunks'[n] \subseteq Written',
         DOMAIN versions' = Nodes, \A n \in Nodes : \A v \in versions'[n] : Kept(v) \/ Kept(v)',
         DOMAIN req' = Requests,
         \A r \in Requests : \/ req'[r] = req[r]
                             \/ req'[r] = None
                             \/ Keyed(req'[r], uploads')
  PROVE  KeyInv'
<1>1. Shapes'
  BY DEF KeyInv, Shapes, Grows
<1>2. \A n \in Nodes : \A v \in versions'[n] : Kept(v)'
  BY KeptStays DEF KeyInv
<1>3. \A r \in Requests : req'[r] # None => Keyed(req'[r], uploads')
  BY KeyedStays DEF KeyInv
<1>4. QED
  BY <1>1, <1>2, <1>3 DEF KeyInv

\* The steps that leave the storage and what refers to it alone.
LEMMA RequestMoves ==
  ASSUME KeyInv, UNCHANGED <<chunks, versions, storeVars>>, DOMAIN req' = Requests,
         \A r \in Requests : req'[r] = req[r] \/ req'[r] = None \/ Keyed(req'[r], uploads)
  PROVE  KeyInv'
<1>1. Grows
  BY DEF KeyInv, Shapes, Grows, storeVars, Written
<1>2. \A r \in Requests : req'[r] = req[r] \/ req'[r] = None \/ Keyed(req'[r], uploads')
  BY DEF storeVars
<1>3. QED
  BY <1>1, <1>2, StepKeeps DEF KeyInv, Shapes, storeVars, Written

-----------------------------------------------------------------------------
\* What the helpers do to the requests

\* The requests after one of them has moved
Moved(k) ==
  /\ DOMAIN req' = Requests
  /\ \A x \in Requests : req'[x] = req[x] \/ req'[x] = None \/ Keyed(req'[x], k)

\* The rest of a sequence of more than one
LEMMA LongFacts ==
  ASSUME NEW t \in Seq(Names), Len(t) > 0, Len(t) # 1
  PROVE  /\ Tail(t) \in Seq(Names) /\ Len(Tail(t)) > 0 /\ Len(Tail(t)) = Len(t) - 1
         /\ \A i \in 1 .. Len(Tail(t)) : i + 1 \in 2 .. Len(t) /\ Tail(t)[i] = t[i + 1]
<1>1. Len(t) \in Nat /\ Len(t) > 1
  OBVIOUS
<1>2. Tail(t) \in Seq(Names) /\ Len(Tail(t)) = Len(t) - 1
  BY <1>1
<1>3. \A i \in 1 .. Len(Tail(t)) : i + 1 \in 2 .. Len(t) /\ Tail(t)[i] = t[i + 1]
  BY <1>1, <1>2
<1>4. Len(Tail(t)) > 0
  BY <1>1, <1>2
<1>5. QED
  BY <1>2, <1>3, <1>4

\* The awaits of each operation, one by one
LEMMA PlanFacts ==
  /\ Awaits["document"] = <<"insert", "upload", "chunk", "size", "charge">>
  /\ Awaits["dav"] = <<"insert", "upload", "size", "chunk", "charge">>
  /\ Awaits["offline"] = <<"insert", "upload", "size", "chunk", "charge">>
  /\ Awaits["request"] = <<"count", "quota", "insert", "upload", "chunk", "charge">>
  /\ Awaits["edit"] = <<"load", "version", "upload", "drop", "chunk", "size", "charge">>
  /\ Awaits["version"] = <<"load", "version">>
  /\ Awaits["copy"] = <<"copies">>
  /\ Awaits["purge"] = <<"refund", "objects", "delete">>
  /\ Awaits["replace"] = <<"objects", "refund", "delete">>
  /\ Awaits["admin"] = <<"save">>
BY DEF Awaits

\* Every operation has awaits, and loads chunks first if at all.
LEMMA NewPlan ==
  ASSUME NEW op \in Ops
  PROVE  /\ Awaits[op] \in Seq(Names) /\ Len(Awaits[op]) > 0
         /\ \A i \in 2 .. Len(Awaits[op]) : Awaits[op][i] # "load"
         /\ Awaits[op][1] = "load" => op \in {"edit", "version"}
<1>1. CASE op = "document"
  BY <1>1, PlanFacts DEF Names
<1>2. CASE op = "dav"
  BY <1>2, PlanFacts DEF Names
<1>3. CASE op = "offline"
  BY <1>3, PlanFacts DEF Names
<1>4. CASE op = "request"
  BY <1>4, PlanFacts DEF Names
<1>5. CASE op = "copy"
  BY <1>5, PlanFacts DEF Names
<1>6. CASE op = "purge"
  BY <1>6, PlanFacts DEF Names
<1>7. CASE op = "replace"
  BY <1>7, PlanFacts DEF Names
<1>8. CASE op = "admin"
  BY <1>8, PlanFacts DEF Names
<1>9. CASE op = "edit"
  BY <1>9, PlanFacts DEF Names
<1>10. CASE op = "version"
  BY <1>10, PlanFacts DEF Names
<1>11. QED
  BY <1>1, <1>2, <1>3, <1>4, <1>5, <1>6, <1>7, <1>8, <1>9, <1>10 DEF Ops, Writers

\* A request that goes on as q, or ends.
LEMMA GoFacts ==
  ASSUME Shapes, NEW r \in Requests, NEW k, NEW q, Keyed(q, k), Go(r, q) \/ Finish(r)
  PROVE  Moved(k)
<1>1. CASE Finish(r)
  BY <1>1 DEF Shapes, Finish, Moved
<1>2. CASE Go(r, q) /\ Len(q.todo) = 1
  BY <1>2 DEF Shapes, Go, Moved
<1>3. CASE Go(r, q) /\ Len(q.todo) # 1
  <2> DEFINE t == Tail(q.todo)
             p == [q EXCEPT !.todo = t]
  <2>1. q.todo \in Seq(Names) /\ Len(q.todo) > 0 /\ "todo" \in DOMAIN q
    BY DEF Keyed, Planned, Fields
  <2>2. t \in Seq(Names) /\ Len(t) > 0 /\ \A i \in 1 .. Len(t) : t[i] = q.todo[i + 1]
    BY <1>3, <2>1, LongFacts
  <2>3. \A i \in 1 .. Len(t) : t[i] # "load"
    BY <1>3, <2>1, <2>2, LongFacts DEF Keyed, Planned
  <2>4. Keyed(p, k)
    <3>1. DOMAIN p = Fields /\ p.keys = q.keys /\ p.work = q.work /\ p.todo = t /\ p.op = q.op
      BY <2>1 DEF Keyed, Fields
    <3>2. Planned(p)
      BY <2>2, <2>3, <3>1, SMTT(20) DEF Planned
    <3>3. QED
      BY <3>1, <3>2 DEF Keyed
  <2>5. req' = [req EXCEPT ![r] = p]
    BY <1>3 DEF Go
  <2>6. QED
    BY <2>4, <2>5 DEF Shapes, Moved
<1>4. QED
  BY <1>1, <1>2, <1>3

\* A request that begins, or is q next.
LEMMA BecomeFacts ==
  ASSUME Shapes, NEW r \in Requests, NEW k, NEW q, Keyed(q, k), req' = [req EXCEPT ![r] = q]
  PROVE  Moved(k)
BY DEF Shapes, Moved

\* A new request has no objects.
LEMMA NewFacts ==
  ASSUME NEW op \in Ops, NEW n, NEW p, NEW s, op \in {"edit", "version"} => n \in Nodes
  PROVE  Keyed(Request(op, n, p, s), uploads)
<1> DEFINE q == Request(op, n, p, s)
<1>1. DOMAIN q = Fields /\ q.keys = {} /\ q.work = {} /\ q.todo = Awaits[op]
      /\ q.op = op /\ q.node = n
  BY DEF Request, Fields
<1>3. QED
  BY <1>1, NewPlan DEF Keyed, Planned

\* What a step writes to the fields of its request leaves it keyed.
LEMMA WithFacts ==
  ASSUME NEW k, NEW q, Keyed(q, k)
  PROVE  /\ \A x : (\A w \in x : w.src \in Nodes) => Keyed([q EXCEPT !.work = x], k)
         /\ \A x : Keyed([q EXCEPT !.count = x], k)
         /\ \A x : Keyed([q EXCEPT !.prev = x], k)
         /\ \A x : Keyed([q EXCEPT !.queue = x], k)
         /\ \A x : Keyed([q EXCEPT !.size = x], k)
         /\ \A x : x \subseteq 1 .. k => Keyed([q EXCEPT !.keys = x], k)
         /\ \A x \in Nodes : Keyed([q EXCEPT !.node = x], k)
         /\ \A x \in Seq(Names) :
              Len(x) > 0 /\ (\A i \in 1 .. Len(x) : x[i] # "load") => Keyed([q EXCEPT !.todo = x], k)
BY DEF Keyed, Planned, Fields

-----------------------------------------------------------------------------
\* A request begins with the objects of no one, and changes nothing else.
LEMMA BeginKeeps ==
  ASSUME KeyInv, NEW r \in Requests, NEW q, NEW b, Keyed(q, uploads), Start(r, q, b)
  PROVE  KeyInv'
<1>1. UNCHANGED <<chunks, versions, storeVars>> /\ req' = [req EXCEPT ![r] = q]
  BY DEF Start, nodeVars
<1>2. QED
  BY <1>1, RequestMoves, BecomeFacts DEF Moved, KeyInv

\* A step of one request that loads nothing and touches no object
LEMMA GoKeeps ==
  ASSUME KeyInv, NEW r \in Requests, NEW q, Keyed(q, uploads), Go(r, q) \/ Finish(r),
         UNCHANGED <<chunks, versions, storeVars>>
  PROVE  KeyInv'
BY GoFacts, RequestMoves DEF Moved, KeyInv

\* Rows that go take their references with them.
LEMMA DeleteKeeps ==
  ASSUME KeyInv, NEW S, DeleteRows(S), UNCHANGED storeVars, Moved(uploads)
  PROVE  KeyInv'
<1>1. Grows
  BY DEF KeyInv, Shapes, Grows, storeVars, Written
<1>2. /\ DOMAIN chunks' = Nodes /\ \A n \in Nodes : chunks'[n] \subseteq Written'
      /\ DOMAIN versions' = Nodes /\ \A n \in Nodes : versions'[n] \subseteq versions[n]
  BY DEF DeleteRows, KeyInv, Written, storeVars
<1>3. QED
  BY <1>1, <1>2, StepKeeps DEF KeyInv, Moved, storeVars

\* A request adds written objects to the chunks of a node, or replaces them.
LEMMA ChunksKeep ==
  ASSUME KeyInv, NEW n, NEW ks, ks \subseteq Written,
         \/ chunks' = chunks
         \/ chunks' = [chunks EXCEPT ![n] = ks]
         \/ chunks' = [chunks EXCEPT ![n] = chunks[n] \union ks],
         UNCHANGED <<versions, storeVars>>, Moved(uploads)
  PROVE  KeyInv'
<1>1. Grows
  BY DEF KeyInv, Shapes, Grows, storeVars, Written
<1>2. DOMAIN chunks' = Nodes /\ \A m \in Nodes : chunks'[m] \subseteq Written'
  BY DEF KeyInv, Shapes, Written, storeVars
<1>3. QED
  BY <1>1, <1>2, StepKeeps DEF KeyInv, Moved, Shapes, storeVars

\* A request that is under way refers to objects that have been written.
LEMMA AtFacts ==
  ASSUME KeyInv, NEW r \in Requests, NEW await, At(r, await)
  PROVE  Keyed(req[r], uploads) /\ req[r].keys \subseteq Written
BY DEF At, KeyInv, Keyed, Written

-----------------------------------------------------------------------------
\* A purge turns to its next node.
LEMMA PurgingFacts ==
  ASSUME NEW k, NEW q, Keyed(q, k), NEW w, NEW work, w.src \in Nodes,
         \A v \in work : v.src \in Nodes
  PROVE  Keyed(Purging(q, w, work), k)
<1> DEFINE p == Purging(q, w, work)
<1>1. DOMAIN p = Fields /\ p.keys = q.keys /\ p.op = q.op /\ p.node = w.src
      /\ p.todo = Awaits[q.op] /\ p.work = work \ {w}
  BY DEF Purging, Keyed, Fields
<1>2. Planned(p) /\ p.op \in Ops
  BY <1>1, NewPlan DEF Keyed, Planned
<1>3. QED
  BY <1>1, <1>2 DEF Keyed

\* The requests that begin
LEMMA BeginsKeep ==
  ASSUME KeyInv, NEW r \in Requests,
         \/ BeginDocument(r) \/ BeginPut(r) \/ BeginOfflineDownload(r)
         \/ BeginUploadToRequest(r) \/ BeginUpdateContent(r) \/ BeginCreateVersion(r)
         \/ BeginCopy(r) \/ BeginPurge(r) \/ BeginReplace(r) \/ BeginDeleteFileAdmin(r)
  PROVE  KeyInv'
<1>1. \A op \in Ops : \A n, p, s : (op \in {"edit", "version"} => n \in Nodes)
                                   => Keyed(Request(op, n, p, s), uploads)
  BY NewFacts
<1>0. {"document", "dav", "offline", "request", "edit", "version", "copy", "purge", "replace",
       "admin"} \subseteq Ops
  BY DEF Ops, Writers
<1>2. SUFFICES \E q, b : Keyed(q, uploads) /\ Start(r, q, b)
  BY BeginKeeps
<1>3. CASE BeginDocument(r)
  <2>1. PICK p, s : LET q == Request("document", None, p, s)
                    IN  Begin(r, IF s = 0 THEN [q EXCEPT !.todo = <<"insert">>] ELSE q)
    BY <1>3 DEF BeginDocument
  <2> DEFINE q == Request("document", None, p, s)
  <2>2. Keyed(q, uploads)
    BY <1>0, <1>1
  <2>3. /\ <<"insert">> \in Seq(Names) /\ Len(<<"insert">>) > 0
        /\ \A i \in 1 .. Len(<<"insert">>) : <<"insert">>[i] # "load"
    BY DEF Names
  <2>4. Keyed([q EXCEPT !.todo = <<"insert">>], uploads)
    BY <2>2, <2>3, WithFacts
  <2>5. QED
    BY <2>1, <2>2, <2>4 DEF Begin
<1>4. CASE BeginPut(r) \/ BeginOfflineDownload(r) \/ BeginCreateVersion(r)
  BY <1>0, <1>1, <1>4 DEF BeginPut, BeginOfflineDownload, BeginCreateVersion, Begin, Live, Rows
<1>5. CASE BeginUploadToRequest(r)
  <2>1. PICK s : Begin(r, [Request("request", None, link.folder, s) EXCEPT !.count = link.count])
    BY <1>5 DEF BeginUploadToRequest
  <2>2. Keyed([Request("request", None, link.folder, s) EXCEPT !.count = link.count], uploads)
    BY <1>0, <1>1, WithFacts
  <2>3. QED
    BY <2>1, <2>2 DEF Begin
<1>6. CASE BeginUpdateContent(r)
  <2>1. PICK n \in Nodes, s \in Sizes : Begin(r, [Request("edit", n, Top, s) EXCEPT !.prev = row[n].size])
    BY <1>6 DEF BeginUpdateContent, Live, Rows
  <2>2. Keyed([Request("edit", n, Top, s) EXCEPT !.prev = row[n].size], uploads)
    BY <1>0, <1>1, WithFacts
  <2>3. QED
    BY <2>1, <2>2 DEF Begin
<1>7. CASE BeginCopy(r)
  <2>1. PICK n \in Nodes, p \in Rows \union {Top} :
         Start(r, [Request("copy", None, p, 0) EXCEPT !.work = {Item(n, p)}], p \notin Files)
    BY <1>7 DEF BeginCopy, Live, Rows
  <2>2. Keyed(Request("copy", None, p, 0), uploads) /\ \A w \in {Item(n, p)} : w.src \in Nodes
    BY <1>0, <1>1 DEF Item
  <2>3. Keyed([Request("copy", None, p, 0) EXCEPT !.work = {Item(n, p)}], uploads)
    BY <2>2, WithFacts
  <2>4. QED
    BY <2>1, <2>3
<1>9. CASE BeginPurge(r)
  <2>1. PICK S \in SUBSET Rows :
         \E w \in {Item(n, Top) : n \in S} :
           Begin(r, Purging(Request("purge", None, Top, 0), w, {Item(n, Top) : n \in S}))
    BY <1>9 DEF BeginPurge
  <2>2. \A v \in {Item(n, Top) : n \in S} : v.src \in Nodes
    BY <2>1 DEF Item, Rows
  <2>3. QED
    BY <1>0, <1>1, <2>1, <2>2, PurgingFacts DEF Begin
<1>10. CASE BeginReplace(r)
  <2>1. PICK n \in Nodes : Begin(r, Purging(Request("replace", None, Top, 0), Item(n, Top), {}))
    BY <1>10 DEF BeginReplace, Live, Rows
  <2>2. Keyed(Request("replace", None, Top, 0), uploads) /\ Item(n, Top).src \in Nodes
    BY <1>0, <1>1 DEF Item
  <2>3. Keyed(Purging(Request("replace", None, Top, 0), Item(n, Top), {}), uploads)
    BY <2>2, PurgingFacts
  <2>4. QED
    BY <2>1, <2>3 DEF Begin
<1>11. CASE BeginDeleteFileAdmin(r)
  <2>1. PICK n \in Nodes : Begin(r, [Request("admin", n, Top, 0) EXCEPT !.work = {Item(n, Top)}])
    BY <1>11 DEF BeginDeleteFileAdmin, Live, Rows
  <2>2. Keyed(Request("admin", n, Top, 0), uploads) /\ \A w \in {Item(n, Top)} : w.src \in Nodes
    BY <1>0, <1>1 DEF Item
  <2>3. Keyed([Request("admin", n, Top, 0) EXCEPT !.work = {Item(n, Top)}], uploads)
    BY <2>2, WithFacts
  <2>4. QED
    BY <2>1, <2>3 DEF Begin
<1>12. QED
  BY <1>3, <1>4, <1>5, <1>6, <1>7, <1>9, <1>10, <1>11

-----------------------------------------------------------------------------
\* A request that is about to load chunks is at a node.
LEMMA LoadFacts ==
  ASSUME KeyInv, NEW r \in Requests, At(r, "load")
  PROVE  req[r].node \in Nodes /\ req[r].todo = Awaits[req[r].op]
<1>1. req[r].todo \in Seq(Names) /\ Len(req[r].todo) > 0
  BY AtFacts DEF Keyed, Planned
<1>2. Head(req[r].todo) = req[r].todo[1]
  BY <1>1
<1>3. QED
  BY <1>2, AtFacts DEF Keyed, Planned, At

\* The chunks are loaded, or the edit goes on without.
LEMMA LoadKeeps ==
  ASSUME KeyInv, NEW r \in Requests, LoadChunks(r)
  PROVE  KeyInv'
<1> DEFINE q == req[r]
           loaded == [q EXCEPT !.keys = chunks[q.node], !.count = Cardinality(versions[q.node])]
           skipped == [q EXCEPT !.todo = Tail(@)]
<1>1. At(r, "load") /\ UNCHANGED <<chunks, versions, storeVars>>
  BY DEF LoadChunks, nodeVars
<1>2. Keyed(q, uploads) /\ q.node \in Nodes /\ q.todo = Awaits[q.op]
  BY <1>1, AtFacts, LoadFacts
<1>3. \/ Go(r, loaded)
      \/ q.op = "edit" /\ Go(r, skipped)
      \/ Finish(r)
  BY DEF LoadChunks
<1>4. Keyed(loaded, uploads)
  <2>1. Keyed([q EXCEPT !.keys = chunks[q.node]], uploads)
    BY <1>2, WithFacts DEF KeyInv, Written
  <2>2. loaded = [[q EXCEPT !.keys = chunks[q.node]] EXCEPT !.count = Cardinality(versions[q.node])]
    BY <1>2 DEF Keyed, Fields
  <2>3. QED
    BY <2>1, <2>2, WithFacts
<1>5. ASSUME q.op = "edit"
      PROVE  Keyed(skipped, uploads)
  <2> DEFINE t == <<"version", "upload", "drop", "chunk", "size", "charge">>
  <2>1. q.todo = <<"load", "version", "upload", "drop", "chunk", "size", "charge">>
    BY <1>2, <1>5, PlanFacts
  <2>2. Tail(q.todo) = t
    BY <2>1
  <2>3. /\ t \in Seq(Names) /\ Len(t) > 0
        /\ \A i \in 1 .. Len(t) : t[i] # "load"
    BY DEF Names
  <2>4. skipped = [q EXCEPT !.todo = t]
    BY <2>2
  <2>5. QED
    BY <1>2, <2>3, <2>4, WithFacts
<1>6. QED
  BY <1>1, <1>2, <1>3, <1>4, <1>5, GoKeeps

\* A file is copied with the chunks it had, which are written to its copy next.
LEMMA CopyRowKeeps ==
  ASSUME KeyInv, NEW r \in Requests, CopyRow(r)
  PROVE  KeyInv'
<1>1. At(r, "copies") /\ UNCHANGED <<chunks, versions, storeVars>>
  BY DEF CopyRow
<1>2. Keyed(req[r], uploads)
  BY <1>1, AtFacts
<1>3. PICK w \in req[r].work :
        LET q == [req[r] EXCEPT !.work = @ \ {w}]
        IN  \/ Finish(r)
            \/ \E n \in Nodes :
                 req' = [req EXCEPT ![r] =
                   IF w.row.folder
                   THEN [q EXCEPT !.queue = Append(@, <<w.src, n>>)]
                   ELSE [q EXCEPT !.todo = <<"chunks">> \o @, !.node = n,
                                  !.keys = chunks[w.src], !.prev = w.row.size]]
  BY DEF CopyRow
<1> DEFINE q == [req[r] EXCEPT !.work = @ \ {w}]
<1>4. Keyed(q, uploads) /\ q.todo = req[r].todo /\ w.src \in Nodes
  <2>1. w.src \in Nodes /\ \A v \in req[r].work \ {w} : v.src \in Nodes
    BY <1>2, <1>3 DEF Keyed
  <2>2. Keyed(q, uploads)
    BY <1>2, <2>1, WithFacts
  <2>3. q.todo = req[r].todo
    BY <1>2 DEF Keyed, Fields
  <2>4. QED
    BY <2>1, <2>2, <2>3
<1>5. CASE Finish(r)
  BY <1>1, <1>2, <1>5, GoKeeps
<1>6. ASSUME NEW n \in Nodes,
             req' = [req EXCEPT ![r] =
                   IF w.row.folder
                   THEN [q EXCEPT !.queue = Append(@, <<w.src, n>>)]
                   ELSE [q EXCEPT !.todo = <<"chunks">> \o @, !.node = n,
                                  !.keys = chunks[w.src], !.prev = w.row.size]]
      PROVE  KeyInv'
  <2> DEFINE t == <<"chunks">> \o q.todo
             file == [q EXCEPT !.todo = t, !.node = n, !.keys = chunks[w.src],
                               !.prev = w.row.size]
             folder == [q EXCEPT !.queue = Append(@, <<w.src, n>>)]
  <2>1. q.todo \in Seq(Names) /\ Len(q.todo) > 0 /\ q.todo[1] = "copies"
    BY <1>1, <1>4 DEF At, Keyed, Planned
  <2>2. /\ t \in Seq(Names) /\ Len(t) > 0
        /\ \A i \in 1 .. Len(t) : t[i] # "load"
    <3>1. <<"chunks">> \in Seq(Names) /\ Len(<<"chunks">>) = 1 /\ <<"chunks">>[1] = "chunks"
      BY DEF Names
    <3>2. t \in Seq(Names) /\ Len(t) = Len(q.todo) + 1 /\ t[1] = "chunks"
          /\ \A i \in 2 .. Len(t) : i - 1 \in 1 .. Len(q.todo) /\ t[i] = q.todo[i - 1]
      BY <2>1, <3>1
    <3>3. \A i \in 1 .. Len(q.todo) : q.todo[i] # "load"
      BY <1>4, <2>1 DEF Keyed, Planned
    <3>4. QED
      BY <2>1, <3>2, <3>3
  <2>3. Keyed(folder, uploads)
    BY <1>4, WithFacts
  <2>4. Keyed(file, uploads)
    <3>1. file = [[[[q EXCEPT !.todo = t] EXCEPT !.node = n] EXCEPT !.keys = chunks[w.src]]
                    EXCEPT !.prev = w.row.size]
      BY <1>4 DEF Keyed, Fields
    <3>2. Keyed([q EXCEPT !.todo = t], uploads)
      BY <1>4, <2>2, WithFacts
    <3>3. Keyed([[q EXCEPT !.todo = t] EXCEPT !.node = n], uploads)
      BY <3>2, WithFacts
    <3>4. chunks[w.src] \subseteq 1 .. uploads
      BY <1>4 DEF KeyInv, Written
    <3>5. Keyed([[[q EXCEPT !.todo = t] EXCEPT !.node = n] EXCEPT !.keys = chunks[w.src]], uploads)
      BY <3>3, <3>4, WithFacts
    <3>6. QED
      BY <3>1, <3>5, WithFacts
  <2>5. Moved(uploads)
    BY <1>6, <2>3, <2>4, BecomeFacts DEF KeyInv
  <2>6. QED
    BY <1>1, <2>5, RequestMoves DEF Moved
<1>7. QED
  BY <1>3, <1>5, <1>6

\* The other steps that touch neither the objects nor what refers to them
LEMMA PlainKeeps ==
  ASSUME KeyInv, Backend = "local", NEW r \in Requests,
         \/ SaveCount(r) \/ OwnerQuota(r) \/ InsertNode(r) \/ SetSize(r) \/ Charge(r)
         \/ CopyFolder(r) \/ EndCopy(r) \/ Refund(r) \/ DeleteObjects(r) \/ SaveTrashed(r)
  PROVE  KeyInv'
<1> DEFINE q == req[r]
<1>1. Keyed(q, uploads)
  BY AtFacts DEF SaveCount, OwnerQuota, InsertNode, SetSize, Charge, CopyFolder, EndCopy,
     Refund, DeleteObjects, SaveTrashed
<1>2. CASE \/ SaveCount(r) \/ OwnerQuota(r) \/ SetSize(r) \/ Charge(r) \/ EndCopy(r)
           \/ Refund(r) \/ SaveTrashed(r)
  <2>1. UNCHANGED <<chunks, versions, storeVars>> /\ (Go(r, q) \/ Finish(r))
    BY <1>2 DEF SaveCount, OwnerQuota, SetSize, Charge, EndCopy, Refund, SaveTrashed, nodeVars
  <2>2. QED
    BY <1>1, <2>1, GoKeeps
<1>3. CASE DeleteObjects(r)
  <2>1. UNCHANGED <<chunks, versions, storeVars>> /\ Go(r, q)
    BY <1>3 DEF DeleteObjects, nodeVars, storeVars
  <2>2. QED
    BY <1>1, <2>1, GoKeeps
<1>4. CASE InsertNode(r)
  <2>1. UNCHANGED <<chunks, versions, storeVars>>
        /\ ((\E n \in Nodes : Go(r, [q EXCEPT !.node = n])) \/ Finish(r))
    BY <1>4 DEF InsertNode
  <2>2. \A n \in Nodes : Keyed([q EXCEPT !.node = n], uploads)
    BY <1>1, WithFacts
  <2>3. QED
    BY <1>1, <2>1, <2>2, GoKeeps
<1>5. CASE CopyFolder(r)
  <2>1. UNCHANGED <<chunks, versions, storeVars>>
    BY <1>5 DEF CopyFolder, nodeVars
  <2>2. CASE Finish(r)
    BY <1>1, <2>1, <2>2, GoKeeps
  <2>3. CASE ~Finish(r)
    <3> DEFINE dst == Head(q.queue)[2]
               work == {Item(n, dst) : n \in Children({Head(q.queue)[1]}) \intersect Live}
               p == [q EXCEPT !.count = @ + 1, !.queue = Tail(@), !.work = work]
    <3>1. req' = [req EXCEPT ![r] = p]
      BY <1>5, <2>3 DEF CopyFolder
    <3>2. \A w \in work : w.src \in Nodes
      BY DEF Item, Live, Rows
    <3>3. p = [[[q EXCEPT !.count = @ + 1] EXCEPT !.queue = Tail(@)] EXCEPT !.work = work]
      BY <1>1 DEF Keyed, Fields
    <3>4. Keyed([[q EXCEPT !.count = @ + 1] EXCEPT !.queue = Tail(@)], uploads)
      BY <1>1, WithFacts
    <3>5. Keyed(p, uploads)
      BY <3>2, <3>3, <3>4, WithFacts
    <3>6. QED
      BY <2>1, <3>1, <3>5, BecomeFacts, RequestMoves DEF Moved, KeyInv
  <2>4. QED
    BY <2>2, <2>3
<1>6. QED
  BY <1>2, <1>3, <1>4, <1>5

\* The steps that write chunks
LEMMA ChunkSteps ==
  ASSUME KeyInv, NEW r \in Requests, SaveChunk(r) \/ DropChunks(r) \/ CopyChunks(r)
  PROVE  KeyInv'
<1> DEFINE q == req[r]
           n == q.node
<1>1. Keyed(q, uploads) /\ q.keys \subseteq Written
  BY AtFacts DEF SaveChunk, DropChunks, CopyChunks
<1>2. UNCHANGED <<versions, storeVars>>
  BY DEF SaveChunk, DropChunks, CopyChunks
<1>3. CASE SaveChunk(r) \/ DropChunks(r)
  <2>1. Moved(uploads)
    BY <1>1, <1>3, GoFacts DEF SaveChunk, DropChunks, KeyInv
  <2>2. \/ chunks' = chunks
        \/ chunks' = [chunks EXCEPT ![n] = {}]
        \/ chunks' = [chunks EXCEPT ![n] = chunks[n] \union q.keys]
    BY <1>3 DEF SaveChunk, DropChunks
  <2>3. QED
    BY <1>1, <1>2, <2>1, <2>2, ChunksKeep
<1>4. CASE CopyChunks(r)
  <2> DEFINE p == [q EXCEPT !.size = @ + q.prev, !.prev = 0, !.keys = {}]
  <2>1. Keyed(p, uploads)
    <3>1. p = [[[q EXCEPT !.size = @ + q.prev] EXCEPT !.prev = 0] EXCEPT !.keys = {}]
      BY <1>1 DEF Keyed, Fields
    <3>2. Keyed([[q EXCEPT !.size = @ + q.prev] EXCEPT !.prev = 0], uploads)
      BY <1>1, WithFacts
    <3>3. QED
      BY <3>1, <3>2, WithFacts
  <2>2. Go(r, p) \/ Finish(r)
    BY <1>4 DEF CopyChunks
  <2>3. Moved(uploads)
    BY <1>1, <2>1, <2>2, GoFacts DEF KeyInv
  <2>4. chunks' = chunks \/ chunks' = [chunks EXCEPT ![n] = q.keys]
    BY <1>4 DEF CopyChunks
  <2>5. QED
    BY <1>1, <1>2, <2>3, <2>4, ChunksKeep
<1>5. QED
  BY <1>3, <1>4

\* The local storage writes each upload to an object of its own.
LEMMA UploadKeeps ==
  ASSUME KeyInv, Backend = "local", NEW r \in Requests, Upload(r)
  PROVE  KeyInv'
<1> DEFINE q == req[r]
           k == uploads + 1
           p == [q EXCEPT !.keys = {k}]
<1>1. Keyed(q, uploads)
  BY AtFacts DEF Upload
<1>2. /\ uploads \in Nat /\ MaxUploads \in Nat /\ uploads < MaxUploads /\ uploads' = k
      /\ UNCHANGED <<chunks, versions>> /\ Go(r, p)
      /\ \E c : store' = [store EXCEPT ![k] = c]
  <2>1. uploads \in Nat /\ MaxUploads \in Nat /\ uploads < MaxUploads /\ uploads' = k
    BY DriveAssumption DEF Upload, KeyInv, Shapes
  <2>2. KeyOf(q.node) = k
    BY DEF KeyOf
  <2>3. /\ UNCHANGED <<chunks, versions>>
        /\ store' = [store EXCEPT ![k] = [upload |-> uploads + 1, size |-> q.size]]
        /\ Go(r, p)
    BY <2>2 DEF Upload, nodeVars
  <2>4. QED
    BY <2>1, <2>3
<1>3. Grows
  BY <1>2 DEF Grows, KeyInv, Shapes, Keys, Written
<1>4. Keyed(p, uploads')
  <2>1. Keyed(q, uploads')
    BY <1>1, <1>3, KeyedStays DEF KeyInv
  <2>2. {k} \subseteq 1 .. uploads'
    BY <1>2
  <2>3. QED
    BY <2>1, <2>2, WithFacts
<1>5. Moved(uploads')
  BY <1>2, <1>4, GoFacts DEF KeyInv
<1>6. DOMAIN chunks' = Nodes /\ \A n \in Nodes : chunks'[n] \subseteq Written'
  BY <1>2 DEF KeyInv, Shapes, Written
<1>7. QED
  BY <1>2, <1>3, <1>5, <1>6, StepKeeps DEF KeyInv, Shapes, Moved

\* An upload that fails ends its request, which may take its node away.
LEMMA UploadFailsKeeps ==
  ASSUME KeyInv, NEW r \in Requests, UploadFails(r)
  PROVE  KeyInv'
<1>1. Keyed(req[r], uploads) /\ UNCHANGED storeVars /\ Finish(r)
  BY AtFacts DEF UploadFails
<1>2. DeleteRows(Subtree({req[r].node})) \/ UNCHANGED nodeVars
  BY DEF UploadFails
<1>3. CASE UNCHANGED nodeVars
  BY <1>1, <1>3, GoKeeps DEF nodeVars
<1>4. CASE DeleteRows(Subtree({req[r].node}))
  BY <1>1, <1>4, GoFacts, DeleteKeeps DEF KeyInv
<1>5. QED
  BY <1>2, <1>3, <1>4

\* A node goes with its chunks and versions, and a purge turns to the next.
LEMMA DeleteNodeKeeps ==
  ASSUME KeyInv, NEW r \in Requests, DeleteNode(r)
  PROVE  KeyInv'
<1> DEFINE q == req[r]
<1>1. Keyed(q, uploads) /\ UNCHANGED storeVars /\ DeleteRows(Subtree({q.node}))
  BY AtFacts DEF DeleteNode
<1>2. Finish(r) \/ \E w \in q.work : req' = [req EXCEPT ![r] = Purging(q, w, q.work)]
  BY DEF DeleteNode
<1>3. \A w \in q.work : Keyed(Purging(q, w, q.work), uploads)
  BY <1>1, PurgingFacts DEF Keyed
<1>4. Moved(uploads)
  BY <1>1, <1>2, <1>3, GoFacts, BecomeFacts DEF KeyInv
<1>5. QED
  BY <1>1, <1>4, DeleteKeeps

\* A new version refers to objects that have been written, with the content they
\* have now; older ones may go.
LEMMA SaveVersionKeeps ==
  ASSUME KeyInv, NEW r \in Requests, SaveVersion(r)
  PROVE  KeyInv'
<1> DEFINE q == req[r]
           n == q.node
           v == [number |-> q.count + 1, keys |-> q.keys, was |-> Contents(q.keys)]
<1>1. Keyed(q, uploads) /\ q.keys \subseteq Written /\ UNCHANGED <<chunks, storeVars>> /\ Go(r, q)
  BY AtFacts DEF SaveVersion
<1>2. Grows /\ Moved(uploads)
  BY <1>1, GoFacts DEF KeyInv, Shapes, Grows, storeVars, Written
<1>3. Kept(v)
  BY <1>1 DEF Kept, Download
<1>4. \/ versions' = versions
      \/ \E kept \in SUBSET versions[n] : versions' = [versions EXCEPT ![n] = kept \union {v}]
  BY DEF SaveVersion, DropLowest
<1>5. DOMAIN versions' = Nodes
      /\ \A m \in Nodes : \A x \in versions'[m] : x \in versions[m] \/ x = v
  BY <1>4 DEF KeyInv, Shapes
<1>6. \A m \in Nodes : \A x \in versions'[m] : Kept(x)
  BY <1>3, <1>5 DEF KeyInv
<1>7. DOMAIN chunks' = Nodes /\ \A m \in Nodes : chunks'[m] \subseteq Written'
  BY <1>1 DEF KeyInv, Shapes, Written, storeVars
<1>8. QED
  BY <1>1, <1>2, <1>5, <1>6, <1>7, StepKeeps DEF Moved, storeVars

-----------------------------------------------------------------------------
\* With the local storage, no step takes a version its content.
LEMMA InvStep ==
  ASSUME KeyInv, Backend = "local", [Next]_vars
  PROVE  KeyInv'
<1>1. ASSUME UNCHANGED <<chunks, versions, storeVars, req>>
      PROVE  KeyInv'
  BY <1>1, RequestMoves DEF KeyInv, Shapes
<1>2. CASE UNCHANGED vars
  BY <1>1, <1>2 DEF vars, nodeVars
<1>3. ASSUME NEW n \in Nodes,
             \/ \E p \in Places : CreateFolder(n, p)
             \/ Trash(n) \/ Restore(n) \/ CreateFileRequest(n)
      PROVE  KeyInv'
  BY <1>1, <1>3 DEF CreateFolder, Trash, Restore, CreateFileRequest, nodeVars
<1>4. CASE LinkExpires
  BY <1>1, <1>4 DEF LinkExpires, nodeVars
<1>5. ASSUME NEW r \in Requests, Handler(r)
      PROVE  KeyInv'
  BY <1>5, BeginsKeep, PlainKeeps, LoadKeeps, CopyRowKeeps, ChunkSteps, UploadKeeps,
     UploadFailsKeeps, DeleteNodeKeeps, SaveVersionKeeps DEF Handler
<1>6. QED
  BY <1>2, <1>3, <1>4, <1>5 DEF Next

\* No object has been written in the first state, and none is referred to.
LEMMA KeyFirst ==
  ASSUME Init
  PROVE  KeyInv
<1>1. Shapes
  BY DriveAssumption DEF Init, Shapes
<1>2. QED
  BY <1>1 DEF Init, KeyInv

\* A version leads to the content the file had when it was made, whatever
\* overlaps: the local storage never writes an object twice and never deletes one.
THEOREM VersionsLast ==
  ASSUME Backend = "local"
  PROVE  Spec => []VersionKeepsContent
<1>1. Init => KeyInv
  BY KeyFirst
<1>2. KeyInv /\ [Next]_vars => KeyInv'
  BY InvStep
<1>3. KeyInv => VersionKeepsContent
  BY DEF KeyInv, Kept, VersionKeepsContent, Rows
<1>4. QED
  BY <1>1, <1>2, <1>3, PTL DEF Spec
-----------------------------------------------------------------------------
\* What requests are up to that do not overlap

\* Which operations have which awaits
Has(op, a) ==
  /\ a \in Names
  /\ a \in {"count", "quota"} => op = "request"
  /\ a = "insert" => op \in {"document", "dav", "offline", "request"}
  /\ a \in {"upload", "chunk", "charge"} => op \in Writers
  /\ a = "size" => op \in Writers \ {"request"}
  /\ a = "drop" => op = "edit"
  /\ a \in {"load", "version"} => op \in {"edit", "version"}
  /\ a \in {"copies", "chunks"} => op = "copy"
  /\ a \in {"refund", "objects", "delete"} => op \in {"purge", "replace"}
  /\ a = "save" => op = "admin"

\* The await b that comes after a
Follows(op, a, b) ==
  /\ a \notin {"charge", "copies", "save", "delete"}
  /\ a = "count" => b = "quota"
  /\ a = "quota" => b = "insert"
  /\ a = "insert" => b = "upload"
  /\ a = "upload" => b = IF op = "edit" THEN "drop"
                         ELSE IF op \in {"dav", "offline"} THEN "size" ELSE "chunk"
  /\ a = "drop" => b = "chunk"
  /\ a = "chunk" => b = IF op \in {"document", "edit"} THEN "size" ELSE "charge"
  /\ a = "size" => b = IF op \in {"document", "edit"} THEN "charge" ELSE "chunk"
  /\ a = "load" => b = "version"
  /\ a = "version" => b = "upload" /\ op = "edit"
  /\ a = "chunks" => b = "copies"
  /\ a = "refund" => b = IF op = "purge" THEN "objects" ELSE "delete"
  /\ a = "objects" => b = IF op = "purge" THEN "delete" ELSE "refund"

\* The awaits that operation op may have left
Left(op, t) ==
  /\ t \in Seq(Names)
  /\ Len(t) > 0
  /\ \A i \in 1 .. Len(t) : Has(op, t[i])
  /\ \A i \in 2 .. Len(t) : Follows(op, t[i - 1], t[i])
  /\ t[Len(t)] \in {"insert", "charge", "version", "copies", "delete", "save"}

\* A request is on the way its operation takes, and has loaded rows of the nodes P.
OnWay(q, P) ==
  /\ DOMAIN q = Fields
  /\ q.op \in Ops
  /\ Left(q.op, q.todo)
  /\ q.size \in Nat
  /\ q.prev \in Nat
  /\ \A w \in q.work : w.src \in P /\ w.row \in Row

\* Every request is, and those that have not overlapped are one at most.
Serial ==
  /\ DOMAIN req = Requests
  /\ \A r \in Requests : req[r] # None => OnWay(req[r], past)
  /\ regular => \A r, s \in Requests : req[r] # None /\ req[s] # None => r = s

\* A file has come in that the count of the link does not have, or the other way
\* round, only while an upload to the link is between its count and its row.
LinkInv ==
  /\ received \in Nat
  /\ link = None => received = 0
  /\ link # None => link \in Link
  /\ \A r \in Requests : req[r] # None /\ req[r].op = "request" =>
       link # None /\ req[r].count \in Nat
  /\ regular /\ link # None =>
       /\ link.count <= MaxFiles
       /\ received <= link.count
       /\ \A r \in Requests : req[r] # None /\ req[r].op = "request" =>
            /\ At(r, "count") => req[r].count = link.count /\ link.count < MaxFiles
            /\ At(r, "quota") \/ At(r, "insert") => received < link.count

-----------------------------------------------------------------------------
\* A file is whole: it has no chunk, or one, and is as long as its object.
WholeFile(n) ==
  \/ chunks[n] = {}
  \/ \E k \in Keys : chunks[n] = {k} /\ store[k] # None /\ row[n].size = store[k].size

\* The request has written one object, of the size of its content.
Uploaded(q) == \E k \in Keys : q.keys = {k} /\ store[k] # None /\ store[k].size = q.size

\* The objects to be written to a copy are those of a whole file of its size.
Taken(q) ==
  q.keys = {} \/ \E k \in Keys : q.keys = {k} /\ store[k] # None /\ store[k].size = q.prev

\* A row that was loaded is as it was, in or out of the trash.
Current(w) ==
  w.src \in Rows /\ w.row.size = row[w.src].size /\ w.row.folder = row[w.src].folder

\* What a request has done so far to the file it is at
Stage(r) ==
  LET q == req[r]
      n == q.node
      at == Head(q.todo)
  IN  /\ at \in {"upload", "size", "chunk", "drop", "load", "version", "chunks"} => n \in Files
      /\ at = "chunk" \/ (at \in {"upload", "size"} /\ q.op \in {"dav", "offline", "request"})
           => chunks[n] = {}
      /\ at = "upload" /\ q.op = "document" => chunks[n] = {}
      /\ at \in {"size", "chunk", "drop"} => Uploaded(q)
      /\ at = "chunk" /\ q.op \in {"dav", "offline", "request"} => row[n].size = q.size
      /\ at = "upload" /\ q.op = "request" => row[n].size = q.size
      /\ at = "chunks" => row[n].size = q.prev /\ chunks[n] = {} /\ Taken(q)
      /\ at = "size" /\ q.op \in {"document", "edit"} => chunks[n] = q.keys
      /\ at \in {"copies", "chunks", "save"} => \A w \in q.work : Current(w)

\* The file whose size is yet to be set to that of its chunk
Unsized(n) ==
  \E r \in Requests : At(r, "size") /\ req[r].op \in {"document", "edit"} /\ req[r].node = n

WholeInv ==
  regular =>
    /\ \A n \in Files : WholeFile(n) \/ Unsized(n)
    /\ \A r \in Requests : req[r] # None => Stage(r)

\* What does not depend on the requests: chunks are of rows, and rows of nodes
RowsKnown ==
  /\ row \in [Nodes -> Row \union {None}]
  /\ past \subseteq Nodes
  /\ DOMAIN chunks = Nodes
  /\ DOMAIN store = Keys
  /\ \A n \in Nodes : row[n] = None => chunks[n] = {}
  /\ \A n \in Nodes \ past : row[n] = None
DriveInv == Serial /\ RowsKnown

-----------------------------------------------------------------------------
\* The head of what is left, and the rest
LEMMA LeftFacts ==
  ASSUME NEW op, NEW t, Left(op, t)
  PROVE  /\ Has(op, Head(t))
         /\ Len(t) # 1 => Left(op, Tail(t)) /\ Follows(op, Head(t), Head(Tail(t)))
         /\ Len(t) = 1 => Head(t) \in {"insert", "charge", "version", "copies", "delete", "save"}
<1>1. t \in Seq(Names) /\ Len(t) \in Nat /\ Len(t) > 0 /\ Head(t) = t[1]
  BY DEF Left
<1>2. Has(op, Head(t))
  BY <1>1 DEF Left
<1>3. Len(t) = 1 => Head(t) \in {"insert", "charge", "version", "copies", "delete", "save"}
  BY <1>1 DEF Left
<1>4. ASSUME Len(t) # 1
      PROVE  Left(op, Tail(t)) /\ Follows(op, Head(t), Head(Tail(t)))
  <2> DEFINE u == Tail(t)
  <2>1. /\ u \in Seq(Names) /\ Len(u) > 0 /\ Len(u) = Len(t) - 1
        /\ \A i \in 1 .. Len(u) : i + 1 \in 2 .. Len(t) /\ u[i] = t[i + 1]
    BY <1>1, <1>4, LongFacts
  <2> HIDE DEF u
  <2>2. \A i \in 1 .. Len(u) : Has(op, u[i])
    BY <1>1, <2>1 DEF Left
  <2>3. \A i \in 2 .. Len(u) : Follows(op, u[i - 1], u[i])
    <3>1. \A i \in 2 .. Len(u) : /\ u[i - 1] = t[i] /\ u[i] = t[i + 1]
                                 /\ i + 1 \in 2 .. Len(t) /\ (i + 1) - 1 = i
      BY <1>1, <2>1, SMTT(20)
    <3>2. QED
      BY <3>1 DEF Left
  <2>4. u[Len(u)] = t[Len(t)]
    BY <1>1, <2>1
  <2>5. Follows(op, t[1], t[2]) /\ Head(u) = t[2]
    <3>1. 2 \in 2 .. Len(t) /\ 1 \in 1 .. Len(u)
      BY <1>1, <1>4, <2>1
    <3>2. Head(u) = u[1]
      BY <2>1
    <3>3. QED
      BY <2>1, <3>1, <3>2 DEF Left
  <2>6. QED
    BY <1>1, <2>1, <2>2, <2>3, <2>4, <2>5 DEF Left, u
<1>5. QED
  BY <1>2, <1>3, <1>4

\* Every operation begins with all its awaits.
LEMMA LeftAtFirst ==
  ASSUME NEW op \in Ops
  PROVE  Left(op, Awaits[op])
<1>1. CASE op = "document"
  BY <1>1, PlanFacts DEF Left, Has, Follows, Names, Writers
<1>2. CASE op = "dav"
  BY <1>2, PlanFacts DEF Left, Has, Follows, Names, Writers
<1>3. CASE op = "offline"
  BY <1>3, PlanFacts DEF Left, Has, Follows, Names, Writers
<1>4. CASE op = "request"
  BY <1>4, PlanFacts DEF Left, Has, Follows, Names, Writers
<1>5. CASE op = "edit"
  BY <1>5, PlanFacts DEF Left, Has, Follows, Names, Writers
<1>6. CASE op = "version"
  BY <1>6, PlanFacts DEF Left, Has, Follows, Names, Writers
<1>7. CASE op = "copy"
  BY <1>7, PlanFacts DEF Left, Has, Follows, Names, Writers
<1>8. CASE op = "purge"
  BY <1>8, PlanFacts DEF Left, Has, Follows, Names, Writers
<1>9. CASE op = "replace"
  BY <1>9, PlanFacts DEF Left, Has, Follows, Names, Writers
<1>10. CASE op = "admin"
  BY <1>10, PlanFacts DEF Left, Has, Follows, Names, Writers
<1>11. QED
  BY <1>1, <1>2, <1>3, <1>4, <1>5, <1>6, <1>7, <1>8, <1>9, <1>10 DEF Ops, Writers

\* The requests that go on, or end.  What a step writes to its request keeps it on
\* its way.
LEMMA WayWith ==
  ASSUME NEW P, NEW q, OnWay(q, P)
  PROVE  /\ \A x : (\A w \in x : w.src \in P /\ w.row \in Row) => OnWay([q EXCEPT !.work = x], P)
         /\ \A x : /\ OnWay([q EXCEPT !.count = x], P) /\ OnWay([q EXCEPT !.keys = x], P)
                   /\ OnWay([q EXCEPT !.node = x], P) /\ OnWay([q EXCEPT !.queue = x], P)
                   /\ OnWay([q EXCEPT !.parent = x], P)
         /\ \A x \in Nat : OnWay([q EXCEPT !.size = x], P) /\ OnWay([q EXCEPT !.prev = x], P)
         /\ \A x : Left(q.op, x) => OnWay([q EXCEPT !.todo = x], P)
         /\ \A Q : P \subseteq Q => OnWay(q, Q)
BY DEF OnWay, Fields

\* What is the same in a request, but for the awaits left
SameBut(p, q) ==
  /\ p.op = q.op
  /\ p.node = q.node
  /\ p.parent = q.parent
  /\ p.size = q.size
  /\ p.prev = q.prev
  /\ p.keys = q.keys
  /\ p.count = q.count
  /\ p.work = q.work
  /\ p.queue = q.queue

\* Only request r has moved.
Alone(r) ==
  /\ DOMAIN req' = Requests
  /\ \A s \in Requests : s # r => req'[s] = req[s]
  /\ req'[r] # None => OnWay(req'[r], past')

\* Request r has ended, or goes on as q after the next await.
Went(r, q) ==
  /\ Alone(r)
  /\ req'[r] # None =>
       SameBut(req'[r], q) /\ Follows(q.op, Head(q.todo), Head(req'[r].todo))

\* A request that goes on as q, or ends.
LEMMA GoWent ==
  ASSUME Serial, NEW r \in Requests, NEW q, OnWay(q, past'), Go(r, q) \/ Finish(r)
  PROVE  Went(r, q)
<1>1. CASE Finish(r) \/ (Go(r, q) /\ Len(q.todo) = 1)
  BY <1>1 DEF Serial, Finish, Go, Went, Alone
<1>2. CASE Go(r, q) /\ Len(q.todo) # 1
  <2> DEFINE p == [q EXCEPT !.todo = Tail(q.todo)]
  <2>1. Left(q.op, Tail(q.todo)) /\ Follows(q.op, Head(q.todo), Head(Tail(q.todo)))
    BY <1>2, LeftFacts DEF OnWay
  <2>2. OnWay(p, past') /\ SameBut(p, q) /\ p.todo = Tail(q.todo)
    BY <2>1, WayWith DEF OnWay, Fields, SameBut
  <2>3. req' = [req EXCEPT ![r] = p]
    BY <1>2 DEF Go
  <2> HIDE DEF p
  <2>4. QED
    BY <2>1, <2>2, <2>3 DEF Serial, Went, Alone
<1>3. QED
  BY <1>1, <1>2

\* A request that turns into q.
LEMMA BecomesAlone ==
  ASSUME Serial, NEW r \in Requests, NEW q, OnWay(q, past'), req' = [req EXCEPT ![r] = q]
  PROVE  Alone(r) /\ req'[r] = q
BY DEF Serial, Alone

\* One request moves, and none has begun beside another.
LEMMA SerialKept ==
  ASSUME Serial, NEW r \in Requests, Alone(r), past \subseteq past',
         regular' => regular /\ (req[r] # None \/ Idle)
  PROVE  Serial'
<1>1. \A s \in Requests : req'[s] # None => OnWay(req'[s], past')
  BY WayWith DEF Serial, Alone
<1>2. ASSUME regular', NEW s \in Requests, NEW t \in Requests, req'[s] # None, req'[t] # None
      PROVE  s = t
  <2>1. regular /\ (req[r] # None \/ Idle)
    BY <1>2
  <2>2. \A x \in Requests : x # r => req[x] = None
    BY <2>1 DEF Serial, Idle
  <2>3. QED
    BY <1>2, <2>2 DEF Alone
<1>3. QED
  BY <1>1, <1>2 DEF Serial, Alone

-----------------------------------------------------------------------------
\* The requests that begin

\* What is known of a request that has just begun as q
Begun(q) ==
  /\ Head(q.todo) = Head(Awaits[q.op])
  /\ q.op = "request" => link # None /\ q.count = link.count /\ link.count < MaxFiles
  /\ q.op \in {"edit", "version"} => q.node \in Files
  /\ q.op \in {"copy", "admin"} => \A w \in q.work : \E n \in Rows, p \in Places : w = Item(n, p)

\* A new request has all its awaits.
LEMMA NewWay ==
  ASSUME NEW P, NEW op \in Ops, NEW n, NEW p, NEW s \in Nat
  PROVE  /\ OnWay(Request(op, n, p, s), P)
         /\ Request(op, n, p, s).op = op /\ Request(op, n, p, s).node = n
         /\ Request(op, n, p, s).work = {} /\ Request(op, n, p, s).todo = Awaits[op]
BY LeftAtFirst DEF Request, OnWay, Fields

\* Items are rows that were loaded.
LEMMA ItemFacts ==
  ASSUME RowsKnown, NEW n \in Rows, NEW p
  PROVE  /\ Item(n, p).src = n /\ Item(n, p).row = row[n]
         /\ n \in past /\ row[n] \in Row /\ row[n].size \in Nat
BY DEF RowsKnown, Rows, Item, Row

\* A purge turns to a node.
LEMMA PurgingWay ==
  ASSUME NEW P, NEW q, OnWay(q, P), q.op \in {"purge", "replace"}, NEW w, NEW work,
         \A v \in work : v.src \in P /\ v.row \in Row, w.row \in Row
  PROVE  OnWay(Purging(q, w, work), P) /\ Purging(q, w, work).op = q.op
         /\ Head(Purging(q, w, work).todo) = Head(Awaits[q.op])
<1> DEFINE p == Purging(q, w, work)
<1>1. DOMAIN p = Fields /\ p.op = q.op /\ p.todo = Awaits[q.op] /\ p.work = work \ {w}
      /\ p.size = w.row.size /\ p.prev \in {0, 1}
  BY DEF Purging, OnWay, Fields
<1>2. w.row.size \in Nat
  BY DEF Row
<1>3. QED
  BY <1>1, <1>2, LeftAtFirst DEF OnWay

\* A request begins alone, where no other one is under way, or is not regular.
LEMMA StartFacts ==
  ASSUME DriveInv, NEW r \in Requests, NEW q, NEW b, Start(r, q, b), OnWay(q, past), Begun(q)
  PROVE  /\ Alone(r) /\ (req'[r] # None => Begun(req'[r]))
         /\ req[r] = None
         /\ UNCHANGED <<nodeVars, storeVars, used, linkVars>>
         /\ regular' => regular /\ Idle
<1>1. past' = past /\ req' = [req EXCEPT ![r] = q]
  BY DEF Start, nodeVars
<1>2. Alone(r) /\ req'[r] = q
  BY <1>1, BecomesAlone DEF DriveInv
<1>3. QED
  BY <1>2 DEF Start

\* The new requests of each kind
LEMMA BeginFacts ==
  ASSUME DriveInv, NEW r \in Requests,
         \/ BeginDocument(r) \/ BeginPut(r) \/ BeginOfflineDownload(r)
         \/ BeginUploadToRequest(r) \/ BeginUpdateContent(r) \/ BeginCreateVersion(r)
         \/ BeginCopy(r) \/ BeginPurge(r) \/ BeginReplace(r) \/ BeginDeleteFileAdmin(r)
  PROVE  /\ Alone(r) /\ (req'[r] # None => Begun(req'[r]))
         /\ req[r] = None
         /\ UNCHANGED <<nodeVars, storeVars, used, linkVars>>
         /\ regular' => regular /\ Idle
<1>0. \A s \in Sizes \union {0} : s \in Nat
  BY DriveAssumption
<1>1. \A op \in Ops \ {"request", "edit", "version"} : \A n, p : \A s \in Nat :
        OnWay(Request(op, n, p, s), past) /\ Begun(Request(op, n, p, s))
  <2> TAKE op \in Ops \ {"request", "edit", "version"}
  <2> TAKE n, p
  <2> TAKE s \in Nat
  <2> DEFINE q == Request(op, n, p, s)
  <2>1. OnWay(q, past) /\ q.op = op /\ q.work = {} /\ q.todo = Awaits[op]
    BY NewWay
  <2> HIDE DEF q
  <2>2. Begun(q)
    BY <2>1 DEF Begun
  <2>3. QED
    BY <2>1, <2>2 DEF q
<1>2. /\ "document" \in Ops /\ "dav" \in Ops /\ "offline" \in Ops /\ "request" \in Ops
      /\ "edit" \in Ops /\ "version" \in Ops /\ "copy" \in Ops /\ "purge" \in Ops
      /\ "replace" \in Ops /\ "admin" \in Ops /\ 0 \in Nat
  BY DEF Ops, Writers
<1>3. CASE BeginDocument(r)
  <2>1. PICK p \in LiveFolders : \E s \in Sizes \union {0} :
          LET q == Request("document", None, p, s)
          IN  Start(r, IF s = 0 THEN [q EXCEPT !.todo = <<"insert">>] ELSE q, TRUE)
    BY <1>3 DEF BeginDocument, Begin
  <2>2. PICK s \in Sizes \union {0} :
          LET q == Request("document", None, p, s)
          IN  Start(r, IF s = 0 THEN [q EXCEPT !.todo = <<"insert">>] ELSE q, TRUE)
    BY <2>1
  <2> DEFINE q == Request("document", None, p, s)
             e == [q EXCEPT !.todo = <<"insert">>]
  <2>3. OnWay(q, past) /\ Begun(q) /\ q.op = "document" /\ q.todo = Awaits["document"]
    <3>0. "document" \in Ops /\ s \in Nat
      BY <1>0, <1>2
    <3>1. OnWay(q, past) /\ q.op = "document" /\ q.todo = Awaits["document"]
      BY <3>0, NewWay
    <3>2. QED
      BY <1>0, <1>1, <1>2, <3>1
  <2>4. Left("document", <<"insert">>)
    BY DEF Left, Has, Follows, Names
  <2>5. OnWay(e, past) /\ e.op = "document" /\ e.todo = <<"insert">>
    BY <2>3, <2>4, WayWith DEF OnWay, Fields
  <2>6. Begun(e)
    BY <2>5, PlanFacts DEF Begun
  <2> HIDE DEF q, e
  <2>7. QED
    BY <2>2, <2>3, <2>5, <2>6, StartFacts DEF q, e
<1>4. CASE BeginPut(r) \/ BeginOfflineDownload(r)
  BY <1>0, <1>1, <1>2, <1>4, StartFacts DEF BeginPut, BeginOfflineDownload, Begin
<1>5. CASE BeginUploadToRequest(r)
  <2>1. PICK s \in Sizes :
          /\ link # None
          /\ link.count < MaxFiles
          /\ Start(r, [Request("request", None, link.folder, s) EXCEPT !.count = link.count], TRUE)
    BY <1>5 DEF BeginUploadToRequest, Begin
  <2> DEFINE q == Request("request", None, link.folder, s)
             e == [q EXCEPT !.count = link.count]
  <2>0. "request" \in Ops /\ s \in Nat
    BY <1>0, <1>2
  <2>2. OnWay(q, past) /\ q.op = "request" /\ q.todo = Awaits["request"]
    <3>1. \A p : LET u == Request("request", None, p, s)
                IN  OnWay(u, past) /\ u.op = "request" /\ u.todo = Awaits["request"]
      BY <2>0, NewWay
    <3>2. QED
      BY <3>1
  <2>3. OnWay(e, past) /\ e.op = "request" /\ e.todo = Awaits["request"] /\ e.count = link.count
    BY <2>2, WayWith DEF OnWay, Fields
  <2>4. Begun(e)
    BY <2>1, <2>3 DEF Begun
  <2> HIDE DEF e
  <2>5. QED
    BY <2>1, <2>3, <2>4, StartFacts DEF e
<1>6. CASE BeginUpdateContent(r)
  <2>1. PICK n \in Live \intersect Files, s \in Sizes :
          Start(r, [Request("edit", n, Top, s) EXCEPT !.prev = row[n].size], TRUE)
    BY <1>6 DEF BeginUpdateContent, Begin
  <2> DEFINE q == Request("edit", n, Top, s)
             e == [q EXCEPT !.prev = row[n].size]
  <2>0. "edit" \in Ops /\ s \in Nat
    BY <1>0, <1>2
  <2>2. OnWay(q, past) /\ q.op = "edit" /\ q.node = n /\ q.todo = Awaits["edit"]
    BY <2>0, NewWay
  <2>3. row[n].size \in Nat
    BY ItemFacts DEF Live, DriveInv
  <2>4. OnWay(e, past) /\ e.op = "edit" /\ e.node = n /\ e.todo = Awaits["edit"]
    BY <2>2, <2>3, WayWith DEF OnWay, Fields
  <2>5. Begun(e)
    BY <2>4 DEF Begun
  <2> HIDE DEF e
  <2>6. QED
    BY <2>1, <2>4, <2>5, StartFacts DEF e
<1>7. CASE BeginCreateVersion(r)
  <2>1. PICK n \in Live \intersect Files : Start(r, Request("version", n, Top, 0), TRUE)
    BY <1>7 DEF BeginCreateVersion, Begin
  <2> DEFINE q == Request("version", n, Top, 0)
  <2>2. "version" \in Ops /\ 0 \in Nat
    BY <1>2
  <2>3. OnWay(q, past) /\ q.op = "version" /\ q.node = n /\ q.todo = Awaits["version"]
    BY <2>2, NewWay
  <2>4. n \in Files
    OBVIOUS
  <2> HIDE DEF q
  <2>5. Begun(q)
    BY <2>3, <2>4 DEF Begun
  <2>6. QED
    BY <2>1, <2>3, <2>5, StartFacts DEF q
<1>8. ASSUME NEW op \in {"copy", "admin"}, NEW n \in Rows, NEW p \in Places, NEW m, NEW t, NEW b,
             Start(r, [Request(op, m, t, 0) EXCEPT !.work = {Item(n, p)}], b)
      PROVE  /\ Alone(r) /\ (req'[r] # None => Begun(req'[r]))
             /\ req[r] = None
             /\ UNCHANGED <<nodeVars, storeVars, used, linkVars>>
             /\ regular' => regular /\ Idle
  <2> DEFINE q == Request(op, m, t, 0)
             e == [q EXCEPT !.work = {Item(n, p)}]
  <2>0. op \in Ops
    BY <1>2
  <2>1. OnWay(q, past) /\ q.op = op /\ q.todo = Awaits[op]
    BY <2>0, NewWay
  <2>2. \A w \in {Item(n, p)} : w.src \in past /\ w.row \in Row
    BY ItemFacts DEF DriveInv
  <2>3. OnWay(e, past) /\ e.op = op /\ e.todo = Awaits[op] /\ e.work = {Item(n, p)}
    BY <2>1, <2>2, WayWith DEF OnWay, Fields
  <2>4. Begun(e)
    BY <2>3 DEF Begun
  <2> HIDE DEF e
  <2>5. QED
    BY <1>8, <2>3, <2>4, StartFacts DEF e
<1>9. CASE BeginCopy(r)
  <2>1. PICK n \in Live, p \in Rows \union {Top} :
          Start(r, [Request("copy", None, p, 0) EXCEPT !.work = {Item(n, p)}], p \notin Files)
    BY <1>9 DEF BeginCopy
  <2>2. n \in Rows /\ p \in Places
    BY DEF Live, Rows, Places
  <2>3. QED
    BY <1>8, <2>1, <2>2
<1>10. CASE BeginDeleteFileAdmin(r)
  <2>1. PICK n \in Live : Start(r, [Request("admin", n, Top, 0) EXCEPT !.work = {Item(n, Top)}], TRUE)
    BY <1>10 DEF BeginDeleteFileAdmin, Begin
  <2>2. n \in Rows /\ Top \in Places
    BY DEF Live, Places
  <2>3. QED
    BY <1>8, <2>1, <2>2
<1>11. ASSUME NEW op \in {"purge", "replace"}, NEW w, NEW work, NEW b,
              \A v \in work \union {w} : v.src \in past /\ v.row \in Row,
              Start(r, Purging(Request(op, None, Top, 0), w, work), b)
       PROVE  /\ Alone(r) /\ (req'[r] # None => Begun(req'[r]))
              /\ req[r] = None
              /\ UNCHANGED <<nodeVars, storeVars, used, linkVars>>
              /\ regular' => regular /\ Idle
  <2> DEFINE q == Request(op, None, Top, 0)
             e == Purging(q, w, work)
  <2>0. op \in Ops
    BY <1>2
  <2>1. OnWay(q, past) /\ q.op = op
    BY <2>0, NewWay
  <2>2. OnWay(e, past) /\ e.op = op /\ Head(e.todo) = Head(Awaits[op])
    BY <1>11, <2>1, PurgingWay
  <2>3. Begun(e)
    BY <2>2 DEF Begun
  <2> HIDE DEF e
  <2>4. QED
    BY <1>11, <2>2, <2>3, StartFacts DEF e
<1>12. CASE BeginPurge(r)
  <2>1. PICK S \in SUBSET Rows : \E w \in {Item(n, Top) : n \in S} :
          Start(r, Purging(Request("purge", None, Top, 0), w, {Item(n, Top) : n \in S}), TRUE)
    BY <1>12 DEF BeginPurge, Begin
  <2> DEFINE work == {Item(n, Top) : n \in S}
  <2>2. PICK w \in work : Start(r, Purging(Request("purge", None, Top, 0), w, work), TRUE)
    BY <2>1
  <2>3. \A v \in work \union {w} : v.src \in past /\ v.row \in Row
    BY ItemFacts DEF DriveInv
  <2> HIDE DEF work
  <2>4. QED
    BY <1>11, <2>2, <2>3
<1>13. CASE BeginReplace(r)
  <2>1. PICK n \in Live : Start(r, Purging(Request("replace", None, Top, 0), Item(n, Top), {}), TRUE)
    BY <1>13 DEF BeginReplace, Begin
  <2>2. \A v \in {} \union {Item(n, Top)} : v.src \in past /\ v.row \in Row
    BY ItemFacts DEF DriveInv, Live
  <2>3. QED
    BY <1>11, <2>1, <2>2
<1>14. QED
  BY <1>3, <1>4, <1>5, <1>6, <1>7, <1>9, <1>10, <1>12, <1>13

-----------------------------------------------------------------------------
\* The requests that are under way

\* A request at an await is on its way, and its operation has that await.
LEMMA AtWay ==
  ASSUME DriveInv, NEW r \in Requests, NEW a, At(r, a)
  PROVE  /\ req[r] # None /\ Head(req[r].todo) = a
         /\ OnWay(req[r], past) /\ Has(req[r].op, a)
         /\ \A P : past \subseteq P => OnWay(req[r], P)
<1>1. req[r] # None /\ Head(req[r].todo) = a /\ OnWay(req[r], past)
  BY DEF DriveInv, Serial, At
<1>2. Has(req[r].op, a)
  BY <1>1, LeftFacts DEF OnWay
<1>3. QED
  BY <1>1, <1>2, WayWith

\* The steps that write nothing to their request
LEMMA PlainWent ==
  ASSUME DriveInv, NEW r \in Requests,
         \/ SaveCount(r) \/ OwnerQuota(r) \/ SetSize(r) \/ Charge(r) \/ EndCopy(r)
         \/ Refund(r) \/ DeleteObjects(r) \/ SaveTrashed(r) \/ UploadFails(r)
         \/ SaveChunk(r) \/ DropChunks(r) \/ SaveVersion(r)
  PROVE  Went(r, req[r]) /\ past' = past /\ req[r] # None /\ (regular' => regular)
<1>1. OnWay(req[r], past) /\ req[r] # None
  BY AtWay DEF SaveCount, OwnerQuota, SetSize, Charge, EndCopy, Refund, DeleteObjects,
     SaveTrashed, UploadFails, SaveChunk, DropChunks, SaveVersion
<1>2. past' = past /\ (Go(r, req[r]) \/ Finish(r)) /\ (regular' => regular)
  <2>1. CASE SaveCount(r) \/ OwnerQuota(r) \/ SetSize(r) \/ Charge(r) \/ EndCopy(r)
    BY <2>1 DEF SaveCount, OwnerQuota, SetSize, Charge, EndCopy, nodeVars, ghosts
  <2>2. CASE Refund(r)
    <3>1. regular' => regular
      BY <2>2, Zenon DEF Refund
    <3>2. QED
      BY <2>2, <3>1 DEF Refund, nodeVars
  <2>7. CASE DeleteObjects(r)
    BY <2>7 DEF DeleteObjects, nodeVars, ghosts
  <2>3. CASE SaveTrashed(r) \/ SaveVersion(r)
    BY <2>3 DEF SaveTrashed, SaveVersion, ghosts
  <2>4. CASE UploadFails(r)
    BY <2>4 DEF UploadFails, DeleteRows, nodeVars, ghosts
  <2>5. CASE SaveChunk(r) \/ DropChunks(r)
    BY <2>5 DEF SaveChunk, DropChunks, ghosts
  <2>6. QED
    BY <2>1, <2>2, <2>3, <2>4, <2>5, <2>7
<1>3. QED
  BY <1>1, <1>2, GoWent DEF DriveInv

\* A node is inserted, or the request ends.
LEMMA InsertWent ==
  ASSUME DriveInv, NEW r \in Requests, InsertNode(r)
  PROVE  /\ req[r] # None /\ past \subseteq past' /\ past' \subseteq Nodes
         /\ regular' = regular /\ UNCHANGED <<chunks, store, link>>
         /\ \/ Alone(r) /\ req'[r] = None /\ UNCHANGED <<row, past, received>>
            \/ \E n \in Nodes \ past :
                 LET q == req[r]
                 IN  /\ Went(r, [q EXCEPT !.node = n])
                     /\ row' = [row EXCEPT ![n] =
                          NewRow(FALSE, q.parent, IF q.op = "request" THEN q.size ELSE 0)]
                     /\ q.parent \in Places
                     /\ past' = past \union {n}
                     /\ received' = IF q.op = "request" THEN received + 1 ELSE received
<1> DEFINE q == req[r]
<1>1. /\ At(r, "insert") /\ UNCHANGED <<chunks, store, link>> /\ regular' = regular
      /\ \/ Finish(r) /\ UNCHANGED <<row, past, received>>
         \/ \E n \in Nodes \ past :
              /\ row' = [row EXCEPT ![n] =
                   NewRow(FALSE, q.parent, IF q.op = "request" THEN q.size ELSE 0)]
              /\ q.parent \in Places
              /\ past' = past \union {n}
              /\ received' = IF q.op = "request" THEN received + 1 ELSE received
              /\ Go(r, [q EXCEPT !.node = n])
  BY DEF InsertNode, storeVars, ghosts, Places, Rows
<1>2. past \subseteq past' /\ past' \subseteq Nodes
  BY <1>1 DEF DriveInv, RowsKnown
<1>3. OnWay(q, past') /\ q # None
  BY <1>1, <1>2, AtWay
<1>4. \A n : OnWay([q EXCEPT !.node = n], past')
  BY <1>3, WayWith
<1>5. \A n : Go(r, [q EXCEPT !.node = n]) => Went(r, [q EXCEPT !.node = n])
  BY <1>4, GoWent DEF DriveInv
<1>6. Finish(r) => Alone(r) /\ req'[r] = None
  BY DEF Finish, Alone, DriveInv, Serial
<1>7. QED
  BY <1>1, <1>2, <1>3, <1>5, <1>6

\* An object is written.
LEMMA UploadWent ==
  ASSUME DriveInv, NEW r \in Requests, Upload(r)
  PROVE  /\ Went(r, [req[r] EXCEPT !.keys = {KeyOf(req[r].node)}]) /\ past' = past /\ req[r] # None
         /\ regular' = regular
<1>1. /\ At(r, "upload") /\ past' = past /\ regular' = regular
      /\ Go(r, [req[r] EXCEPT !.keys = {KeyOf(req[r].node)}])
  BY DEF Upload, nodeVars, ghosts
<1>2. OnWay(req[r], past) /\ req[r] # None
  BY <1>1, AtWay
<1>3. OnWay([req[r] EXCEPT !.keys = {KeyOf(req[r].node)}], past')
  BY <1>1, <1>2, WayWith
<1>4. QED
  BY <1>1, <1>2, <1>3, GoWent DEF DriveInv

\* Chunks are loaded, or an edit goes on without.
LEMMA LoadWent ==
  ASSUME DriveInv, NEW r \in Requests, LoadChunks(r)
  PROVE  /\ Alone(r) /\ past' = past /\ req[r] # None /\ regular' = regular
         /\ req'[r] # None =>
              /\ req'[r].op = req[r].op /\ req'[r].node = req[r].node
              /\ req'[r].size = req[r].size /\ req'[r].prev = req[r].prev
              /\ Head(req'[r].todo) \in {"version", "upload"}
              /\ Head(req'[r].todo) = "upload" => req[r].op = "edit"
<1> DEFINE q == req[r]
           loaded == [q EXCEPT !.keys = chunks[q.node], !.count = Cardinality(versions[q.node])]
           skipped == [q EXCEPT !.todo = Tail(@)]
<1>1. /\ At(r, "load") /\ past' = past /\ regular' = regular
      /\ Go(r, loaded) \/ (q.op = "edit" /\ Go(r, skipped)) \/ Finish(r)
  BY DEF LoadChunks, nodeVars, ghosts
<1>2. /\ OnWay(q, past') /\ q # None /\ Head(q.todo) = "load" /\ q.op \in {"edit", "version"}
  BY <1>1, AtWay DEF Has
<1>3. CASE Finish(r)
  BY <1>1, <1>2, <1>3 DEF Finish, Alone, DriveInv, Serial
<1>4. CASE Go(r, loaded)
  <2>1. OnWay([q EXCEPT !.keys = chunks[q.node]], past')
    BY <1>2, WayWith
  <2>2. OnWay([[q EXCEPT !.keys = chunks[q.node]] EXCEPT !.count = Cardinality(versions[q.node])],
              past')
    BY <2>1, WayWith
  <2>3. /\ OnWay(loaded, past') /\ loaded.op = q.op /\ loaded.node = q.node
        /\ loaded.size = q.size /\ loaded.prev = q.prev /\ loaded.todo = q.todo
    BY <1>2, <2>2 DEF OnWay, Fields
  <2> HIDE DEF loaded
  <2>4. Went(r, loaded)
    BY <1>4, <2>3, GoWent DEF DriveInv
  <2>5. QED
    BY <1>1, <1>2, <2>3, <2>4 DEF Went, SameBut, Follows
<1>5. CASE q.op = "edit" /\ Go(r, skipped)
  <2>1. CASE Len(q.todo) = 1
    BY <1>2, <2>1, LeftFacts DEF OnWay
  <2>2. CASE Len(q.todo) # 1
    <3>1. Left(q.op, Tail(q.todo)) /\ Head(Tail(q.todo)) = "version"
      BY <1>2, <2>2, LeftFacts DEF OnWay, Follows
    <3>2. /\ OnWay(skipped, past') /\ skipped.op = q.op /\ skipped.node = q.node
          /\ skipped.size = q.size /\ skipped.prev = q.prev /\ skipped.todo = Tail(q.todo)
      BY <1>2, <3>1, WayWith DEF OnWay, Fields
    <3> HIDE DEF skipped
    <3>3. Went(r, skipped)
      BY <1>5, <3>2, GoWent DEF DriveInv
    <3>4. QED
      BY <1>1, <1>2, <1>5, <3>1, <3>2, <3>3 DEF Went, SameBut, Follows
  <2>3. QED
    BY <2>1, <2>2
<1>6. QED
  BY <1>1, <1>3, <1>4, <1>5

\* The chunks of a copy are written.
LEMMA CopyChunksWent ==
  ASSUME DriveInv, NEW r \in Requests, CopyChunks(r)
  PROVE  /\ Alone(r) /\ past' = past /\ req[r] # None /\ regular' = regular
         /\ req'[r] # None =>
              /\ req'[r].op = req[r].op /\ Head(req'[r].todo) = "copies"
              /\ req'[r].work = req[r].work /\ req'[r].queue = req[r].queue
              /\ req'[r].size = req[r].size + req[r].prev /\ req'[r].prev = 0
<1> DEFINE q == req[r]
           p == [q EXCEPT !.size = @ + q.prev, !.prev = 0, !.keys = {}]
<1>1. At(r, "chunks") /\ past' = past /\ regular' = regular /\ (Go(r, p) \/ Finish(r))
  BY DEF CopyChunks, ghosts
<1>2. OnWay(q, past') /\ q # None /\ Head(q.todo) = "chunks"
  BY <1>1, AtWay
<1>3. /\ OnWay(p, past') /\ p.op = q.op /\ p.todo = q.todo /\ p.work = q.work
      /\ p.queue = q.queue /\ p.size = q.size + q.prev /\ p.prev = 0
  <2>1. q.size + q.prev \in Nat /\ 0 \in Nat
    BY <1>2 DEF OnWay
  <2>2. OnWay([q EXCEPT !.size = q.size + q.prev], past')
    BY <1>2, <2>1, WayWith
  <2>3. OnWay([[q EXCEPT !.size = q.size + q.prev] EXCEPT !.prev = 0], past')
    BY <2>1, <2>2, WayWith
  <2>4. OnWay([[[q EXCEPT !.size = q.size + q.prev] EXCEPT !.prev = 0] EXCEPT !.keys = {}], past')
    BY <2>3, WayWith
  <2>5. p = [[[q EXCEPT !.size = q.size + q.prev] EXCEPT !.prev = 0] EXCEPT !.keys = {}]
    BY <1>2 DEF OnWay, Fields
  <2>6. QED
    BY <1>2, <2>4, <2>5 DEF OnWay, Fields
<1> HIDE DEF p
<1>4. Went(r, p)
  BY <1>1, <1>3, GoWent DEF DriveInv
<1>5. QED
  BY <1>1, <1>2, <1>3, <1>4 DEF Went, SameBut, Follows

\* A copy takes a folder apart.
LEMMA CopyFolderWent ==
  ASSUME DriveInv, NEW r \in Requests, CopyFolder(r)
  PROVE  /\ Alone(r) /\ past' = past /\ req[r] # None /\ regular' = regular
         /\ UNCHANGED <<nodeVars, storeVars>>
         /\ req'[r] # None =>
              /\ req'[r].op = "copy" /\ Head(req'[r].todo) = "copies"
              /\ \A w \in req'[r].work : \E n \in Rows : w = Item(n, Head(req[r].queue)[2])
              /\ req[r].queue # <<>> /\ req'[r].queue = Tail(req[r].queue)
              /\ req'[r].size = req[r].size /\ req'[r].prev = req[r].prev
<1> DEFINE q == req[r]
           dst == Head(q.queue)[2]
           work == {Item(n, dst) : n \in Children({Head(q.queue)[1]}) \intersect Live}
           p == [q EXCEPT !.count = @ + 1, !.queue = Tail(@), !.work = work]
<1>1. /\ At(r, "copies") /\ past' = past /\ regular' = regular
      /\ UNCHANGED <<nodeVars, storeVars>> /\ q.queue # <<>>
      /\ req' = [req EXCEPT ![r] = p] \/ Finish(r)
  BY DEF CopyFolder, nodeVars, ghosts
<1>2. OnWay(q, past') /\ q # None /\ Head(q.todo) = "copies" /\ q.op = "copy"
  BY <1>1, AtWay DEF Has
<1>3. \A w \in work : \E n \in Rows : w = Item(n, dst)
  BY DEF Live
<1>4. \A w \in work : w.src \in past' /\ w.row \in Row
  <2>1. \A n \in Rows : Item(n, dst).src \in past /\ Item(n, dst).row \in Row
    BY ItemFacts DEF DriveInv
  <2> HIDE DEF work, dst
  <2>2. QED
    BY <1>1, <1>3, <2>1
<1>5. /\ OnWay(p, past') /\ p.op = q.op /\ p.todo = q.todo /\ p.work = work
      /\ p.queue = Tail(q.queue) /\ p.size = q.size /\ p.prev = q.prev
  <2>1. p = [[[q EXCEPT !.count = @ + 1] EXCEPT !.queue = Tail(@)] EXCEPT !.work = work]
    BY <1>2 DEF OnWay, Fields
  <2>2. OnWay([[q EXCEPT !.count = @ + 1] EXCEPT !.queue = Tail(@)], past')
    BY <1>2, WayWith
  <2>3. OnWay(p, past')
    BY <1>4, <2>1, <2>2, WayWith, ZenonT(40)
  <2>4. QED
    BY <1>2, <2>3 DEF OnWay, Fields
<1> HIDE DEF p, work
<1>6. CASE Finish(r)
  BY <1>1, <1>2, <1>6 DEF Finish, Alone, DriveInv, Serial
<1>7. CASE req' = [req EXCEPT ![r] = p]
  BY <1>1, <1>2, <1>3, <1>5, <1>7, BecomesAlone, ZenonT(40) DEF DriveInv
<1>8. QED
  BY <1>1, <1>6, <1>7

\* A purge goes on with the next of its nodes, or ends.
LEMMA DeleteNodeWent ==
  ASSUME DriveInv, NEW r \in Requests, DeleteNode(r)
  PROVE  /\ Alone(r) /\ past' = past /\ req[r] # None /\ regular' = regular
         /\ DeleteRows(Subtree({req[r].node})) /\ UNCHANGED storeVars
         /\ req'[r] # None =>
              /\ req'[r].op \in {"purge", "replace"}
              /\ Head(req'[r].todo) \in {"refund", "objects"}
              /\ \E w \in req[r].work : req'[r] = Purging(req[r], w, req[r].work)
<1> DEFINE q == req[r]
<1>1. /\ At(r, "delete") /\ past' = past /\ regular' = regular
      /\ DeleteRows(Subtree({q.node})) /\ UNCHANGED storeVars
      /\ Finish(r) \/ \E w \in q.work : req' = [req EXCEPT ![r] = Purging(q, w, q.work)]
  BY DEF DeleteNode, DeleteRows, ghosts
<1>2. OnWay(q, past') /\ q # None /\ q.op \in {"purge", "replace"}
  BY <1>1, AtWay DEF Has
<1>3. CASE Finish(r)
  BY <1>1, <1>2, <1>3 DEF Finish, Alone, DriveInv, Serial
<1>4. ASSUME NEW w \in q.work, req' = [req EXCEPT ![r] = Purging(q, w, q.work)]
      PROVE  /\ Alone(r)
             /\ req'[r] # None =>
                  /\ req'[r].op \in {"purge", "replace"}
                  /\ Head(req'[r].todo) \in {"refund", "objects"}
                  /\ \E v \in q.work : req'[r] = Purging(q, v, q.work)
  <2> DEFINE p == Purging(q, w, q.work)
  <2>1. OnWay(p, past') /\ p.op = q.op /\ Head(p.todo) = Head(Awaits[q.op])
    <3>1. (\A v \in q.work : v.src \in past' /\ v.row \in Row) /\ w.row \in Row
      BY <1>2 DEF OnWay
    <3>2. QED
      BY <1>2, <3>1, PurgingWay
  <2>2. Head(Awaits["purge"]) = "refund" /\ Head(Awaits["replace"]) = "objects"
    BY PlanFacts
  <2> HIDE DEF p
  <2>3. QED
    BY <1>2, <1>4, <2>1, <2>2, BecomesAlone DEF DriveInv, p
<1>5. QED
  BY <1>1, <1>2, <1>3, <1>4

-----------------------------------------------------------------------------
\* The invariant of the rows and of the order of a request

\* A new row is a row.
LEMMA NewRowFacts ==
  ASSUME NEW folder \in BOOLEAN, NEW p \in Places, NEW size \in Nat
  PROVE  /\ NewRow(folder, p, size) \in Row /\ NewRow(folder, p, size) # None
         /\ NewRow(folder, p, size).folder = folder /\ NewRow(folder, p, size).size = size
<1>1. /\ NewRow(folder, p, size) \in Row
      /\ NewRow(folder, p, size).folder = folder /\ NewRow(folder, p, size).size = size
  BY DEF NewRow, Row
<1>2. QED
  BY <1>1, RowAssumption

\* The rows that were known still are.
LEMMA RowsStay ==
  ASSUME RowsKnown, UNCHANGED <<row, past, chunks>>, DOMAIN store' = Keys
  PROVE  RowsKnown'
BY DEF RowsKnown

\* Rows that go take their chunks with them.
LEMMA RowsGo ==
  ASSUME RowsKnown, NEW S, DeleteRows(S), DOMAIN store' = Keys
  PROVE  RowsKnown'
BY DEF RowsKnown, DeleteRows

\* Objects are added, or taken away.
LEMMA StoreStays ==
  ASSUME RowsKnown, NEW r \in Requests, Upload(r) \/ DeleteObjects(r)
  PROVE  DOMAIN store' = Keys
BY DEF RowsKnown, Upload, DeleteObjects

\* What a request that is under way does to the rows
LEMMA RowsStep ==
  ASSUME DriveInv, NEW r \in Requests, Handler(r)
  PROVE  RowsKnown' /\ past \subseteq past'
<1>0. RowsKnown /\ DOMAIN store = Keys
  BY DEF DriveInv, RowsKnown
<1>1. CASE \/ BeginDocument(r) \/ BeginPut(r) \/ BeginOfflineDownload(r)
           \/ BeginUploadToRequest(r) \/ BeginUpdateContent(r) \/ BeginCreateVersion(r)
           \/ BeginCopy(r) \/ BeginPurge(r) \/ BeginReplace(r) \/ BeginDeleteFileAdmin(r)
  BY <1>0, <1>1, BeginFacts, RowsStay DEF nodeVars, storeVars
<1>2. CASE \/ SaveCount(r) \/ OwnerQuota(r) \/ Charge(r) \/ LoadChunks(r) \/ SaveVersion(r)
           \/ CopyFolder(r) \/ EndCopy(r) \/ Refund(r)
  <2>1. UNCHANGED <<row, past, chunks, store>>
    BY <1>2 DEF SaveCount, OwnerQuota, Charge, LoadChunks, SaveVersion, CopyFolder, EndCopy,
       Refund, nodeVars, storeVars
  <2>2. QED
    BY <1>0, <2>1, RowsStay
<1>3. CASE Upload(r) \/ DeleteObjects(r)
  <2>1. UNCHANGED <<row, past, chunks>>
    BY <1>3 DEF Upload, DeleteObjects, nodeVars
  <2>2. QED
    BY <1>0, <1>3, <2>1, StoreStays, RowsStay
<1>4. CASE UploadFails(r)
  <2>1. UNCHANGED store /\ (UNCHANGED nodeVars \/ DeleteRows(Subtree({req[r].node})))
    BY <1>4 DEF UploadFails, storeVars
  <2>2. QED
    BY <1>0, <2>1, RowsStay, RowsGo DEF nodeVars, DeleteRows
<1>5. CASE DeleteNode(r)
  <2>1. UNCHANGED store /\ DeleteRows(Subtree({req[r].node}))
    BY <1>5 DEF DeleteNode, storeVars
  <2>2. QED
    BY <1>0, <2>1, RowsGo DEF DeleteRows
<1>6. CASE SaveChunk(r) \/ DropChunks(r) \/ CopyChunks(r)
  <2> DEFINE n == req[r].node
  <2>1. /\ UNCHANGED <<row, past, store>>
        /\ \/ chunks' = chunks
           \/ n \in Rows /\ \E ks : chunks' = [chunks EXCEPT ![n] = ks]
           \/ chunks' = [chunks EXCEPT ![n] = {}]
    BY <1>6 DEF SaveChunk, DropChunks, CopyChunks, storeVars
  <2>2. QED
    BY <1>0, <2>1 DEF RowsKnown, Rows
<1>7. CASE InsertNode(r)
  <2>1. /\ past \subseteq past' /\ past' \subseteq Nodes /\ UNCHANGED <<chunks, store>>
        /\ \/ UNCHANGED <<row, past>>
           \/ \E n \in Nodes \ past :
                /\ row' = [row EXCEPT ![n] =
                     NewRow(FALSE, req[r].parent, IF req[r].op = "request" THEN req[r].size ELSE 0)]
                /\ req[r].parent \in Places
                /\ past' = past \union {n}
    BY <1>7, InsertWent
  <2>2. req[r].size \in Nat
    BY <1>7, AtWay DEF InsertNode, OnWay
  <2>3. CASE UNCHANGED <<row, past>>
    BY <1>0, <2>1, <2>3, RowsStay
  <2>4. CASE ~UNCHANGED <<row, past>>
    <3>1. PICK n \in Nodes \ past :
            /\ row' = [row EXCEPT ![n] =
                 NewRow(FALSE, req[r].parent, IF req[r].op = "request" THEN req[r].size ELSE 0)]
            /\ req[r].parent \in Places
            /\ past' = past \union {n}
      BY <2>1, <2>4
    <3>2. NewRow(FALSE, req[r].parent, IF req[r].op = "request" THEN req[r].size ELSE 0) \in Row
      BY <2>2, <3>1, NewRowFacts
    <3>3. QED
      BY <1>0, <2>1, <3>1, <3>2, RowAssumption DEF RowsKnown
  <2>5. QED
    BY <2>3, <2>4
<1>8. CASE SetSize(r)
  <2>1. /\ UNCHANGED <<past, chunks, store>>
        /\ \/ row' = row
           \/ req[r].node \in Rows /\ row' = [row EXCEPT ![req[r].node].size = req[r].size]
    BY <1>8 DEF SetSize, storeVars
  <2>2. req[r].size \in Nat
    BY <1>8, AtWay DEF SetSize, OnWay
  <2>3. \A x \in Row : [x EXCEPT !.size = req[r].size] \in Row
    BY <2>2 DEF Row
  <2>4. QED
    BY <1>0, <2>1, <2>3, RowAssumption DEF RowsKnown, Rows
<1>9. CASE CopyRow(r)
  <2>1. At(r, "copies") /\ UNCHANGED <<chunks, store>>
    BY <1>9 DEF CopyRow, storeVars
  <2>2. PICK w \in req[r].work :
          \/ UNCHANGED <<row, past>>
          \/ /\ w.parent \in Places
             /\ \E n \in Nodes \ past :
                  /\ row' = [row EXCEPT ![n] = NewRow(w.row.folder, w.parent, w.row.size)]
                  /\ past' = past \union {n}
    BY <1>9 DEF CopyRow, Rows, Places
  <2>3. w.row.folder \in BOOLEAN /\ w.row.size \in Nat
    BY <2>1, AtWay DEF OnWay, Row
  <2>4. w.parent \in Places => /\ NewRow(w.row.folder, w.parent, w.row.size) \in Row
                               /\ NewRow(w.row.folder, w.parent, w.row.size) # None
    BY <2>3, NewRowFacts
  <2>5. QED
    BY <1>0, <2>1, <2>2, <2>4 DEF RowsKnown
<1>10. CASE SaveTrashed(r)
  <2>1. At(r, "save") /\ UNCHANGED <<past, chunks, store>>
    BY <1>10 DEF SaveTrashed, storeVars
  <2>2. PICK w \in req[r].work :
          row' = row \/ row' = [row EXCEPT ![w.src] = [w.row EXCEPT !.trashed = TRUE]]
    BY <1>10 DEF SaveTrashed
  <2>3. w.src \in past /\ w.row \in Row
    BY <2>1, AtWay DEF OnWay
  <2>4. [w.row EXCEPT !.trashed = TRUE] \in Row
    BY <2>3 DEF Row
  <2>5. QED
    BY <1>0, <2>1, <2>2, <2>3, <2>4, RowAssumption DEF RowsKnown
<1>11. QED
  BY <1>1, <1>2, <1>3, <1>4, <1>5, <1>6, <1>7, <1>8, <1>9, <1>10 DEF Handler

\* After a file has been copied its chunks are, before the next row.
LEMMA ChunksFirst ==
  ASSUME NEW t, Left("copy", t), Head(t) = "copies"
  PROVE  Left("copy", <<"chunks">> \o t) /\ Head(<<"chunks">> \o t) = "chunks"
<1> DEFINE u == <<"chunks">> \o t
<1>1. t \in Seq(Names) /\ Len(t) > 0 /\ Len(t) \in Nat /\ t[1] = "copies"
  BY DEF Left
<1>2. <<"chunks">> \in Seq(Names) /\ Len(<<"chunks">>) = 1 /\ <<"chunks">>[1] = "chunks"
  BY DEF Names
<1>3. /\ u \in Seq(Names) /\ Len(u) = Len(t) + 1 /\ u[1] = "chunks" /\ Head(u) = "chunks"
      /\ \A i \in 2 .. Len(u) : i - 1 \in 1 .. Len(t) /\ u[i] = t[i - 1]
  BY <1>1, <1>2
<1> HIDE DEF u
<1>4. \A i \in 1 .. Len(u) : Has("copy", u[i])
  <2>1. Has("copy", "chunks")
    BY DEF Has, Names
  <2>2. \A i \in 1 .. Len(u) : i = 1 \/ i \in 2 .. Len(u)
    BY <1>1, <1>3
  <2>3. QED
    BY <1>3, <2>1, <2>2 DEF Left
<1>5. \A i \in 2 .. Len(u) : Follows("copy", u[i - 1], u[i])
  <2>1. CASE Len(u) = 2
    <3>1. Follows("copy", u[1], u[2])
      BY <1>1, <1>3 DEF Follows
    <3>2. QED
      BY <2>1, <3>1
  <2>2. Follows("copy", u[1], u[2])
    BY <1>1, <1>3 DEF Follows
  <2>3. ASSUME NEW i \in 3 .. Len(u)
        PROVE  Follows("copy", u[i - 1], u[i])
    <3>1. i - 1 \in 2 .. Len(t) /\ i - 1 \in 2 .. Len(u) /\ i \in 2 .. Len(u)
      BY <1>1, <1>3
    <3>2. u[i - 1] = t[(i - 1) - 1] /\ u[i] = t[i - 1]
      BY <1>3, <3>1
    <3>3. QED
      BY <3>1, <3>2 DEF Left
  <2>4. \A i \in 2 .. Len(u) : i \in 3 .. Len(u) \/ (i = 2 /\ i - 1 = 1)
    BY <1>1, <1>3
  <2>5. QED
    BY <2>2, <2>3, <2>4
<1>6. u[Len(u)] = t[Len(t)]
  BY <1>1, <1>3
<1>7. QED
  BY <1>1, <1>3, <1>4, <1>5, <1>6 DEF Left, u

\* A row is copied, and for a file its chunks are next.
LEMMA CopyRowWent ==
  ASSUME DriveInv, NEW r \in Requests, CopyRow(r)
  PROVE  /\ Alone(r) /\ req[r] # None /\ Head(req[r].todo) = "copies"
         /\ regular' = regular /\ UNCHANGED <<chunks, store>>
         /\ \/ req'[r] = None /\ UNCHANGED <<row, past>>
            \/ \E w \in req[r].work, n \in Nodes \ past :
                 /\ row' = [row EXCEPT ![n] = NewRow(w.row.folder, w.parent, w.row.size)]
                 /\ w.parent \in Places
                 /\ past' = past \union {n}
                 /\ req'[r] # None =>
                      /\ req'[r].op = "copy"
                      /\ req'[r].work = req[r].work \ {w} /\ req'[r].size = req[r].size
                      /\ w.row.folder =>
                           /\ Head(req'[r].todo) = "copies" /\ req'[r].prev = req[r].prev
                           /\ req'[r].queue = Append(req[r].queue, <<w.src, n>>)
                      /\ ~w.row.folder =>
                           /\ Head(req'[r].todo) = "chunks" /\ req'[r].queue = req[r].queue
                           /\ req'[r].node = n /\ req'[r].keys = chunks[w.src]
                           /\ req'[r].prev = w.row.size
<1>1. /\ At(r, "copies") /\ UNCHANGED <<chunks, store>> /\ regular' = regular
      /\ \E w \in req[r].work :
           LET q == [req[r] EXCEPT !.work = @ \ {w}]
           IN  \/ Finish(r) /\ UNCHANGED <<row, past>>
               \/ /\ w.parent \in Places
                  /\ \E n \in Nodes \ past :
                       /\ row' = [row EXCEPT ![n] = NewRow(w.row.folder, w.parent, w.row.size)]
                       /\ past' = past \union {n}
                       /\ req' = [req EXCEPT ![r] =
                            IF w.row.folder
                            THEN [q EXCEPT !.queue = Append(@, <<w.src, n>>)]
                            ELSE [q EXCEPT !.todo = <<"chunks">> \o @, !.node = n,
                                           !.keys = chunks[w.src], !.prev = w.row.size]]
  BY DEF CopyRow, storeVars, ghosts, Places, Rows
<1>2. /\ req[r] # None /\ Head(req[r].todo) = "copies" /\ req[r].op = "copy"
      /\ \A P : past \subseteq P => OnWay(req[r], P)
  BY <1>1, AtWay DEF Has
<1>3. CASE Finish(r) /\ UNCHANGED <<row, past>>
  BY <1>1, <1>2, <1>3 DEF Finish, Alone, DriveInv, Serial
<1>4. ASSUME NEW w \in req[r].work, w.parent \in Places, NEW n \in Nodes \ past,
             past' = past \union {n},
             req' = [req EXCEPT ![r] =
               IF w.row.folder
               THEN [[req[r] EXCEPT !.work = @ \ {w}] EXCEPT !.queue = Append(@, <<w.src, n>>)]
               ELSE [[req[r] EXCEPT !.work = @ \ {w}] EXCEPT !.todo = <<"chunks">> \o @,
                       !.node = n, !.keys = chunks[w.src], !.prev = w.row.size]]
      PROVE  /\ Alone(r)
             /\ req'[r] # None =>
                  /\ req'[r].op = "copy"
                  /\ req'[r].work = req[r].work \ {w} /\ req'[r].size = req[r].size
                  /\ w.row.folder =>
                       /\ Head(req'[r].todo) = "copies" /\ req'[r].prev = req[r].prev
                       /\ req'[r].queue = Append(req[r].queue, <<w.src, n>>)
                  /\ ~w.row.folder =>
                       /\ Head(req'[r].todo) = "chunks" /\ req'[r].queue = req[r].queue
                       /\ req'[r].node = n /\ req'[r].keys = chunks[w.src]
                       /\ req'[r].prev = w.row.size
  <2> DEFINE q == [req[r] EXCEPT !.work = @ \ {w}]
             t == <<"chunks">> \o q.todo
             folder == [q EXCEPT !.queue = Append(@, <<w.src, n>>)]
             file == [q EXCEPT !.todo = <<"chunks">> \o @, !.node = n,
                               !.keys = chunks[w.src], !.prev = w.row.size]
  <2>1. OnWay(req[r], past')
    BY <1>2, <1>4
  <2>2. (\A v \in req[r].work \ {w} : v.src \in past' /\ v.row \in Row) /\ w.row \in Row
    BY <2>1 DEF OnWay
  <2>3. /\ OnWay(q, past') /\ q.todo = req[r].todo /\ q.op = "copy"
        /\ q.work = req[r].work \ {w} /\ DOMAIN q = Fields
        /\ q.size = req[r].size /\ q.prev = req[r].prev /\ q.queue = req[r].queue
    BY <1>2, <2>1, <2>2, WayWith DEF OnWay, Fields
  <2>4. Left("copy", t) /\ Head(t) = "chunks"
    BY <1>2, <2>3, ChunksFirst DEF OnWay
  <2>5. w.row.size \in Nat /\ w.row.folder \in BOOLEAN
    BY <2>2 DEF Row
  <2> HIDE DEF q, t
  <2>6. /\ OnWay(folder, past') /\ folder.op = "copy" /\ folder.work = req[r].work \ {w}
        /\ Head(folder.todo) = "copies" /\ folder.size = req[r].size
        /\ folder.prev = req[r].prev /\ folder.queue = Append(req[r].queue, <<w.src, n>>)
    BY <1>2, <2>3, WayWith DEF OnWay, Fields
  <2>7. /\ OnWay(file, past') /\ file.op = "copy" /\ file.work = req[r].work \ {w}
        /\ Head(file.todo) = "chunks" /\ file.node = n /\ file.keys = chunks[w.src]
        /\ file.prev = w.row.size /\ file.size = req[r].size /\ file.queue = req[r].queue
    <3>1. file = [[[[q EXCEPT !.todo = t] EXCEPT !.node = n] EXCEPT !.keys = chunks[w.src]]
                    EXCEPT !.prev = w.row.size]
      BY <2>3 DEF Fields, t
    <3>2. OnWay([q EXCEPT !.todo = t], past')
      BY <2>3, <2>4, WayWith
    <3>3. OnWay([[q EXCEPT !.todo = t] EXCEPT !.node = n], past')
      BY <3>2, WayWith
    <3>4. OnWay([[[q EXCEPT !.todo = t] EXCEPT !.node = n] EXCEPT !.keys = chunks[w.src]], past')
      BY <3>3, WayWith
    <3>5. OnWay(file, past')
      BY <2>5, <3>1, <3>4, WayWith, ZenonT(40)
    <3>6. QED
      BY <2>3, <2>4, <3>1, <3>5 DEF Fields
  <2> HIDE DEF folder, file
  <2>8. CASE w.row.folder
    <3>1. req' = [req EXCEPT ![r] = folder]
      BY <1>4, <2>8 DEF folder, q
    <3>2. Alone(r) /\ req'[r] = folder
      BY <2>6, <3>1, BecomesAlone DEF DriveInv
    <3>3. QED
      BY <2>6, <2>8, <3>2
  <2>9. CASE ~w.row.folder
    <3>1. req' = [req EXCEPT ![r] = file]
      BY <1>4, <2>9 DEF file, q
    <3>2. Alone(r) /\ req'[r] = file
      BY <2>7, <3>1, BecomesAlone DEF DriveInv
    <3>3. QED
      BY <2>7, <2>9, <3>2
  <2>10. QED
    BY <2>5, <2>8, <2>9
<1>5. CASE ~(Finish(r) /\ UNCHANGED <<row, past>>)
  <2>1. PICK w \in req[r].work :
          /\ w.parent \in Places
          /\ \E n \in Nodes \ past :
               /\ row' = [row EXCEPT ![n] = NewRow(w.row.folder, w.parent, w.row.size)]
               /\ past' = past \union {n}
               /\ req' = [req EXCEPT ![r] =
                    IF w.row.folder
                    THEN [[req[r] EXCEPT !.work = @ \ {w}] EXCEPT !.queue = Append(@, <<w.src, n>>)]
                    ELSE [[req[r] EXCEPT !.work = @ \ {w}] EXCEPT !.todo = <<"chunks">> \o @,
                            !.node = n, !.keys = chunks[w.src], !.prev = w.row.size]]
    BY <1>1, <1>5
  <2>2. PICK n \in Nodes \ past :
          /\ row' = [row EXCEPT ![n] = NewRow(w.row.folder, w.parent, w.row.size)]
          /\ past' = past \union {n}
          /\ req' = [req EXCEPT ![r] =
               IF w.row.folder
               THEN [[req[r] EXCEPT !.work = @ \ {w}] EXCEPT !.queue = Append(@, <<w.src, n>>)]
               ELSE [[req[r] EXCEPT !.work = @ \ {w}] EXCEPT !.todo = <<"chunks">> \o @,
                       !.node = n, !.keys = chunks[w.src], !.prev = w.row.size]]
    BY <2>1
  <2>3. /\ Alone(r)
        /\ req'[r] # None =>
             /\ req'[r].op = "copy"
             /\ req'[r].work = req[r].work \ {w} /\ req'[r].size = req[r].size
             /\ w.row.folder =>
                  /\ Head(req'[r].todo) = "copies" /\ req'[r].prev = req[r].prev
                  /\ req'[r].queue = Append(req[r].queue, <<w.src, n>>)
             /\ ~w.row.folder =>
                  /\ Head(req'[r].todo) = "chunks" /\ req'[r].queue = req[r].queue
                  /\ req'[r].node = n /\ req'[r].keys = chunks[w.src]
                  /\ req'[r].prev = w.row.size
    BY <1>4, <2>1, <2>2
  <2>4. QED
    BY <1>1, <1>2, <2>1, <2>2, <2>3
<1>6. QED
  BY <1>3, <1>5

\* A handler moves one request, and is not regular beside another.
LEMMA HandlerAlone ==
  ASSUME DriveInv, NEW r \in Requests, Handler(r)
  PROVE  Alone(r) /\ (regular' => regular /\ (req[r] # None \/ Idle))
<1>1. CASE \/ BeginDocument(r) \/ BeginPut(r) \/ BeginOfflineDownload(r)
           \/ BeginUploadToRequest(r) \/ BeginUpdateContent(r) \/ BeginCreateVersion(r)
           \/ BeginCopy(r) \/ BeginPurge(r) \/ BeginReplace(r) \/ BeginDeleteFileAdmin(r)
  BY <1>1, BeginFacts
<1>2. CASE \/ SaveCount(r) \/ OwnerQuota(r) \/ SetSize(r) \/ Charge(r) \/ EndCopy(r)
           \/ Refund(r) \/ DeleteObjects(r) \/ SaveTrashed(r) \/ UploadFails(r)
           \/ SaveChunk(r) \/ DropChunks(r) \/ SaveVersion(r)
  BY <1>2, PlainWent DEF Went
<1>3. CASE InsertNode(r)
  BY <1>3, InsertWent DEF Went
<1>4. CASE Upload(r) \/ LoadChunks(r) \/ CopyChunks(r) \/ CopyFolder(r) \/ DeleteNode(r) \/ CopyRow(r)
  BY <1>4, UploadWent, LoadWent, CopyChunksWent, CopyFolderWent, DeleteNodeWent, CopyRowWent
     DEF Went
<1>5. QED
  BY <1>1, <1>2, <1>3, <1>4 DEF Handler

\* What happens beside the requests: rows are inserted, or marked, and nothing else
LEMMA BesideFacts ==
  ASSUME DriveInv,
         \/ \E n \in Nodes : \/ \E p \in Places : CreateFolder(n, p)
                             \/ Trash(n) \/ Restore(n) \/ CreateFileRequest(n)
         \/ LinkExpires \/ UNCHANGED vars
  PROVE  /\ UNCHANGED <<chunks, versions, storeVars, req, regular, received>>
         /\ RowsKnown' /\ past \subseteq past'
         /\ \A n \in Nodes :
              \/ row'[n] = row[n]
              \/ row[n] # None /\ row'[n] # None /\ row'[n].folder = row[n].folder
                 /\ row'[n].size = row[n].size
              \/ n \notin past /\ row'[n] # None /\ row'[n].folder
<1>0. RowsKnown /\ DOMAIN store = Keys
  BY DEF DriveInv, RowsKnown
<1>1. ASSUME NEW n \in Nodes, NEW p \in Places, CreateFolder(n, p)
      PROVE  /\ UNCHANGED <<chunks, versions, storeVars, req, regular, received>>
             /\ RowsKnown' /\ past \subseteq past'
             /\ \A m \in Nodes : row'[m] = row[m] \/ (m \notin past /\ row'[m] # None /\ row'[m].folder)
  <2>1. /\ n \notin past /\ row' = [row EXCEPT ![n] = NewRow(TRUE, p, 0)]
        /\ past' = past \union {n}
        /\ UNCHANGED <<chunks, versions, storeVars, req, regular, received>>
    BY <1>1 DEF CreateFolder, linkVars
  <2>2. NewRow(TRUE, p, 0) \in Row /\ NewRow(TRUE, p, 0) # None /\ NewRow(TRUE, p, 0).folder = TRUE
    BY NewRowFacts
  <2>3. QED
    BY <1>0, <2>1, <2>2 DEF RowsKnown, storeVars
<1>2. ASSUME NEW n \in Nodes, Trash(n) \/ Restore(n)
      PROVE  /\ UNCHANGED <<chunks, versions, storeVars, req, regular, received>>
             /\ RowsKnown' /\ past \subseteq past'
             /\ \A m \in Nodes :
                  \/ row'[m] = row[m]
                  \/ row[m] # None /\ row'[m] # None /\ row'[m].folder = row[m].folder
                     /\ row'[m].size = row[m].size
  <2>1. /\ UNCHANGED <<past, chunks, versions, storeVars, req, regular, received>>
        /\ \E S, b : b \in BOOLEAN /\ row' = [m \in Nodes |->
             IF m \in S \intersect Rows THEN [row[m] EXCEPT !.trashed = b] ELSE row[m]]
    BY <1>2 DEF Trash, Restore, linkVars
  <2>2. \A x \in Row : \A b \in BOOLEAN :
          /\ [x EXCEPT !.trashed = b] \in Row
          /\ [x EXCEPT !.trashed = b].folder = x.folder /\ [x EXCEPT !.trashed = b].size = x.size
    BY DEF Row
  <2>3. None \notin Row
    BY RowAssumption
  <2>4. QED
    BY <1>0, <2>1, <2>2, <2>3 DEF RowsKnown, Rows, storeVars
<1>3. CASE (\E n \in Nodes : CreateFileRequest(n)) \/ LinkExpires \/ UNCHANGED vars
  <2>1. UNCHANGED <<row, past, chunks, versions, storeVars, req, regular, received>>
    BY <1>3 DEF CreateFileRequest, LinkExpires, vars, nodeVars, ghosts, linkVars
  <2>2. QED
    BY <1>0, <2>1, RowsStay DEF storeVars
<1>4. QED
  BY <1>1, <1>2, <1>3

\* Whatever overlaps, requests are on their way and rows are known.
LEMMA DriveStep ==
  ASSUME DriveInv, [Next]_vars
  PROVE  DriveInv'
<1>1. ASSUME NEW r \in Requests, Handler(r)
      PROVE  DriveInv'
  <2>1. Alone(r) /\ (regular' => regular /\ (req[r] # None \/ Idle))
    BY <1>1, HandlerAlone
  <2>2. RowsKnown' /\ past \subseteq past'
    BY <1>1, RowsStep
  <2>3. Serial'
    BY <2>1, <2>2, SerialKept DEF DriveInv
  <2>4. QED
    BY <2>2, <2>3 DEF DriveInv
<1>2. ASSUME \/ \E n \in Nodes : \/ \E p \in Places : CreateFolder(n, p)
                                 \/ Trash(n) \/ Restore(n) \/ CreateFileRequest(n)
             \/ LinkExpires \/ UNCHANGED vars
      PROVE  DriveInv'
  <2>1. UNCHANGED <<req, regular>> /\ RowsKnown' /\ past \subseteq past'
    BY <1>2, BesideFacts
  <2>2. Serial'
    BY <2>1, WayWith DEF DriveInv, Serial
  <2>3. QED
    BY <2>1, <2>2 DEF DriveInv
<1>3. QED
  BY <1>1, <1>2 DEF Next

-----------------------------------------------------------------------------
\* A link takes the files its owner allowed.

\* Only the request of a count is at "quota" next, and only that of a quota at
\* "insert".
LEMMA NextAwait ==
  ASSUME NEW op, NEW a, NEW b, Has(op, a), Follows(op, a, b)
  PROVE  /\ b # "count"
         /\ b = "quota" => a = "count"
         /\ b = "insert" => a = "quota"
BY DEF Has, Follows, Names

\* Where an upload to the link stands, in the next state
Counted(r) ==
  req'[r] # None /\ req'[r].op = "request" =>
    /\ link # None
    /\ req'[r].count \in Nat
    /\ regular' =>
         /\ Head(req'[r].todo) = "count" => req'[r].count = link.count /\ link.count < MaxFiles
         /\ Head(req'[r].todo) \in {"quota", "insert"} => received < link.count

\* The steps that leave the link and its files alone
LEMMA LinkKept ==
  ASSUME DriveInv, LinkInv, NEW r \in Requests, Alone(r), UNCHANGED linkVars,
         regular' => regular, Counted(r)
  PROVE  LinkInv'
<1>1. received' = received /\ link' = link
  BY DEF linkVars
<1>2. \A s \in Requests : req'[s] # None /\ req'[s].op = "request" =>
        link # None /\ req'[s].count \in Nat
  BY DEF LinkInv, Alone, Counted
<1>3. ASSUME regular', link # None, NEW s \in Requests, req'[s] # None, req'[s].op = "request"
      PROVE  /\ Head(req'[s].todo) = "count" => req'[s].count = link.count /\ link.count < MaxFiles
             /\ Head(req'[s].todo) \in {"quota", "insert"} => received < link.count
  BY <1>3 DEF LinkInv, Alone, Counted, At
<1>4. QED
  BY <1>1, <1>2, <1>3 DEF LinkInv, At

\* What a new upload to the link has read is the count of the link.
LEMMA LinkBegins ==
  ASSUME DriveInv, LinkInv, NEW r \in Requests, Alone(r), req'[r] # None => Begun(req'[r])
  PROVE  Counted(r)
<1>1. ASSUME req'[r] # None, req'[r].op = "request"
      PROVE  link # None /\ req'[r].count = link.count /\ link.count < MaxFiles
             /\ Head(req'[r].todo) = "count"
  BY <1>1, PlanFacts DEF Begun
<1>2. link # None => link.count \in Nat
  BY DEF LinkInv, Link
<1>3. QED
  BY <1>1, <1>2 DEF Counted

\* A request that goes on is past its count.
LEMMA LinkGoes ==
  ASSUME DriveInv, LinkInv, NEW r \in Requests, NEW q, req[r] # None, Went(r, q),
         q.op = req[r].op, q.todo = req[r].todo, q.count = req[r].count
  PROVE  /\ req'[r] # None /\ req'[r].op = "request" =>
              /\ req[r].op = "request" /\ link # None
              /\ req'[r].count \in Nat
              /\ Head(req'[r].todo) # "count"
              /\ Head(req'[r].todo) = "quota" => At(r, "count")
              /\ Head(req'[r].todo) = "insert" => At(r, "quota")
<1>1. Has(req[r].op, Head(req[r].todo))
  BY LeftFacts DEF DriveInv, Serial, OnWay
<1>2. ASSUME req'[r] # None, req'[r].op = "request"
      PROVE  /\ req[r].op = "request" /\ req'[r].count = req[r].count
             /\ Follows(req[r].op, Head(req[r].todo), Head(req'[r].todo))
  BY <1>2 DEF Went, SameBut
<1>3. QED
  BY <1>1, <1>2, NextAwait DEF LinkInv, At

LEMMA LinkStep ==
  ASSUME DriveInv, LinkInv, NEW r \in Requests, Handler(r)
  PROVE  LinkInv'
<1>0. Alone(r) /\ (regular' => regular)
  BY HandlerAlone
<1>1. CASE \/ BeginDocument(r) \/ BeginPut(r) \/ BeginOfflineDownload(r)
           \/ BeginUploadToRequest(r) \/ BeginUpdateContent(r) \/ BeginCreateVersion(r)
           \/ BeginCopy(r) \/ BeginPurge(r) \/ BeginReplace(r) \/ BeginDeleteFileAdmin(r)
  <2>1. UNCHANGED linkVars /\ (req'[r] # None => Begun(req'[r]))
    BY <1>1, BeginFacts
  <2>2. QED
    BY <1>0, <2>1, LinkBegins, LinkKept
<1>2. CASE \/ SetSize(r) \/ Charge(r) \/ EndCopy(r) \/ Refund(r) \/ DeleteObjects(r)
           \/ SaveTrashed(r) \/ UploadFails(r) \/ SaveChunk(r) \/ DropChunks(r)
           \/ SaveVersion(r)
  <2>1. Went(r, req[r]) /\ req[r] # None
    BY <1>2, PlainWent
  <2>2. UNCHANGED linkVars /\ ~At(r, "count") /\ ~At(r, "quota")
    BY <1>2 DEF SetSize, Charge, EndCopy, Refund, DeleteObjects, SaveTrashed, UploadFails,
       SaveChunk, DropChunks, SaveVersion, At
  <2>3. Counted(r)
    BY <2>1, <2>2, LinkGoes DEF Counted
  <2>4. QED
    BY <1>0, <2>2, <2>3, LinkKept
<1>3. CASE OwnerQuota(r)
  <2>1. Went(r, req[r]) /\ req[r] # None
    BY <1>3, PlainWent
  <2>2. UNCHANGED linkVars /\ At(r, "quota")
    BY <1>3 DEF OwnerQuota
  <2>3. Counted(r)
    BY <1>0, <2>1, <2>2, LinkGoes DEF Counted, LinkInv, At
  <2>4. QED
    BY <1>0, <2>2, <2>3, LinkKept
<1>4. CASE SaveCount(r)
  <2>1. Went(r, req[r]) /\ req[r] # None
    BY <1>4, PlainWent
  <2>2. /\ At(r, "count") /\ received' = received /\ regular' = regular
        /\ link' = [link EXCEPT !.count = req[r].count + 1]
    BY <1>4 DEF SaveCount, ghosts
  <2>3. req[r].op = "request" /\ link # None /\ req[r].count \in Nat /\ link \in Link
    BY <2>2, AtWay DEF Has, LinkInv
  <2>4. link' \in Link /\ link'.count = req[r].count + 1
    BY <2>2, <2>3 DEF Link
  <2>5. link' # None
    BY <2>4, RowAssumption
  <2>6. \A s \in Requests : req'[s] # None /\ req'[s].op = "request" => req'[s].count \in Nat
    BY <1>0, <2>1, LinkGoes DEF LinkInv, Alone
  <2>7. ASSUME regular'
        PROVE  /\ link'.count <= MaxFiles
               /\ received < link'.count
               /\ \A s \in Requests : req'[s] # None /\ req'[s].op = "request" =>
                    Head(req'[s].todo) # "count"
    <3>1. req[r].count = link.count /\ link.count < MaxFiles /\ received <= link.count
      BY <2>1, <2>2, <2>3, <2>7 DEF LinkInv
    <3>2. MaxFiles \in Nat /\ received \in Nat
      BY DriveAssumption DEF LinkInv
    <3>3. \A s \in Requests : s # r => req'[s] = None
      BY <1>0, <2>1, <2>2, <2>7 DEF DriveInv, Serial, Alone
    <3>4. QED
      BY <2>1, <2>3, <2>4, <3>1, <3>2, <3>3, LinkGoes
  <2>8. received' \in Nat /\ received <= link'.count <=> received' <= link'.count
    BY <2>2 DEF LinkInv
  <2>9. received \in Nat /\ link'.count \in Nat
    BY <2>3, <2>4 DEF LinkInv
  <2>10. QED
    BY <2>2, <2>4, <2>5, <2>6, <2>7, <2>9 DEF LinkInv, At
<1>5. CASE InsertNode(r)
  <2>1. req[r] # None /\ link' = link /\ regular' = regular /\ At(r, "insert")
    BY <1>5, InsertWent DEF InsertNode
  <2>2. CASE req'[r] = None /\ UNCHANGED <<row, past, received>>
    BY <1>0, <2>1, <2>2, LinkKept DEF Counted, linkVars
  <2>3. CASE ~(req'[r] = None /\ UNCHANGED <<row, past, received>>)
    <3>1. PICK n \in Nodes \ past :
            /\ Went(r, [req[r] EXCEPT !.node = n])
            /\ received' = IF req[r].op = "request" THEN received + 1 ELSE received
      BY <1>5, <2>3, InsertWent
    <3> DEFINE q == [req[r] EXCEPT !.node = n]
    <3>2. q.op = req[r].op /\ q.todo = req[r].todo /\ q.count = req[r].count
      BY <2>1 DEF DriveInv, Serial, OnWay, Fields
    <3>3. req'[r] # None /\ req'[r].op = "request" =>
            /\ req'[r].count \in Nat /\ link # None
            /\ Head(req'[r].todo) \notin {"count", "quota", "insert"}
      BY <2>1, <3>1, <3>2, LinkGoes DEF At
    <3>4. CASE req[r].op # "request"
      BY <1>0, <2>1, <3>1, <3>3, <3>4, LinkKept DEF Counted, linkVars
    <3>5. CASE req[r].op = "request"
      <4>1. link # None /\ link \in Link /\ received \in Nat /\ received' = received + 1
        BY <2>1, <3>1, <3>5 DEF LinkInv
      <4>2. \A s \in Requests : req'[s] # None /\ req'[s].op = "request" =>
              req'[s].count \in Nat
        BY <1>0, <3>3 DEF LinkInv, Alone
      <4>3. ASSUME regular'
            PROVE  /\ received' <= link.count
                   /\ link.count <= MaxFiles
                   /\ \A s \in Requests : req'[s] # None /\ req'[s].op = "request" =>
                        Head(req'[s].todo) \notin {"count", "quota", "insert"}
        <5>1. received < link.count /\ link.count \in Nat /\ link.count <= MaxFiles
          BY <2>1, <3>5, <4>1, <4>3 DEF LinkInv, Link
        <5>2. \A s \in Requests : s # r => req'[s] = None
          BY <1>0, <2>1, <4>3 DEF DriveInv, Serial, Alone
        <5>3. QED
          BY <3>3, <4>1, <5>1, <5>2
      <4>4. QED
        BY <2>1, <4>1, <4>2, <4>3 DEF LinkInv, At
    <3>6. QED
      BY <3>4, <3>5
  <2>4. QED
    BY <2>2, <2>3
<1>6. CASE Upload(r)
  <2> DEFINE q == [req[r] EXCEPT !.keys = {KeyOf(req[r].node)}]
  <2>1. Went(r, q) /\ req[r] # None
    BY <1>6, UploadWent
  <2>2. UNCHANGED linkVars /\ At(r, "upload")
    BY <1>6 DEF Upload
  <2>3. q.op = req[r].op /\ q.todo = req[r].todo /\ q.count = req[r].count
    BY <2>1 DEF DriveInv, Serial, OnWay, Fields
  <2> HIDE DEF q
  <2>4. Counted(r)
    BY <2>1, <2>2, <2>3, LinkGoes DEF Counted, At
  <2>5. QED
    BY <1>0, <2>2, <2>4, LinkKept
<1>7. CASE LoadChunks(r) \/ CopyChunks(r) \/ CopyFolder(r) \/ DeleteNode(r) \/ CopyRow(r)
  <2>1. UNCHANGED linkVars
    BY <1>7 DEF LoadChunks, CopyChunks, CopyFolder, DeleteNode, CopyRow
  <2>2. req'[r] # None => req'[r].op # "request"
    <3>1. CASE LoadChunks(r)
      BY <3>1, LoadWent, AtWay DEF LoadChunks, Has
    <3>2. CASE CopyChunks(r)
      BY <3>2, CopyChunksWent, AtWay DEF CopyChunks, Has
    <3>3. CASE CopyFolder(r) \/ DeleteNode(r) \/ CopyRow(r)
      BY <3>3, CopyFolderWent, DeleteNodeWent, CopyRowWent
    <3>4. QED
      BY <1>7, <3>1, <3>2, <3>3
  <2>3. QED
    BY <1>0, <2>1, <2>2, LinkKept DEF Counted
<1>8. QED
  BY <1>1, <1>2, <1>3, <1>4, <1>5, <1>6, <1>7 DEF Handler

\* Links come and expire beside the requests.
LEMMA LinkBeside ==
  ASSUME DriveInv, LinkInv,
         \/ \E n \in Nodes : \/ \E p \in Places : CreateFolder(n, p)
                             \/ Trash(n) \/ Restore(n) \/ CreateFileRequest(n)
         \/ LinkExpires \/ UNCHANGED vars
  PROVE  LinkInv'
<1>1. UNCHANGED <<req, regular, received>>
  BY BesideFacts
<1>2. CASE UNCHANGED link
  BY <1>1, <1>2 DEF LinkInv, At
<1>3. ASSUME NEW n \in Nodes, CreateFileRequest(n)
      PROVE  LinkInv'
  <2>1. link = None /\ link' = [count |-> 0, open |-> TRUE, folder |-> n] /\ received = 0
    BY <1>3 DEF CreateFileRequest, LinkInv
  <2>2. link' \in Link /\ link'.count = 0
    BY <2>1 DEF Link
  <2>3. 0 <= MaxFiles
    BY DriveAssumption
  <2>4. \A r \in Requests : req[r] # None => req[r].op # "request"
    BY <2>1 DEF LinkInv
  <2>5. QED
    BY <1>1, <2>1, <2>2, <2>3, <2>4, RowAssumption DEF LinkInv, At
<1>4. CASE LinkExpires
  <2>1. link # None /\ link \in Link /\ link' = [link EXCEPT !.open = FALSE]
    BY <1>4 DEF LinkExpires, LinkInv
  <2>2. link' \in Link /\ link'.count = link.count
    BY <2>1 DEF Link
  <2>3. QED
    BY <1>1, <2>1, <2>2, RowAssumption DEF LinkInv, At
<1>5. UNCHANGED link \/ (\E n \in Nodes : CreateFileRequest(n)) \/ LinkExpires
  BY DEF CreateFolder, Trash, Restore, linkVars, vars
<1>6. QED
  BY <1>2, <1>3, <1>4, <1>5

\* The state before the first request
LEMMA DriveFirst ==
  ASSUME Init
  PROVE  DriveInv /\ LinkInv
<1>1. RowsKnown
  BY DriveAssumption DEF Init, RowsKnown
<1>2. Serial /\ LinkInv
  BY DEF Init, Serial, LinkInv
<1>3. QED
  BY <1>1, <1>2 DEF DriveInv

\* A link takes no more files than its owner allowed, while uploads to it do not
\* overlap: uploadToFileRequest saves its count before the file has come in.
THEOREM LinkHasItsLimit == Spec => []LinkWithinLimit
<1>1. Init => DriveInv /\ LinkInv
  BY DriveFirst
<1>2. DriveInv /\ LinkInv /\ [Next]_vars => DriveInv' /\ LinkInv'
  <2>1. ASSUME DriveInv, LinkInv, Next \/ UNCHANGED vars
        PROVE  LinkInv'
    BY <2>1, LinkStep, LinkBeside DEF Next
  <2>2. QED
    BY <2>1, DriveStep
<1>3. LinkInv => LinkWithinLimit
  <2> SUFFICES ASSUME LinkInv, regular
               PROVE  received <= MaxFiles
    BY DEF LinkWithinLimit
  <2>1. MaxFiles \in Nat /\ received \in Nat
    BY DriveAssumption DEF LinkInv
  <2>2. CASE link = None
    BY <2>1, <2>2 DEF LinkInv
  <2>3. CASE link # None
    <3>1. link.count \in Nat /\ link.count <= MaxFiles /\ received <= link.count
      BY <2>3 DEF LinkInv, Link
    <3>2. QED
      BY <2>1, <3>1
  <2>4. QED
    BY <2>2, <2>3
<1>4. QED
  BY <1>1, <1>2, <1>3, PTL DEF Spec

-----------------------------------------------------------------------------
\* A file is whole between requests that do not overlap.

\* With no other request under way, what holds of the files and of request r
Calm(r) ==
  /\ DriveInv
  /\ KeyInv
  /\ regular
  /\ \A s \in Requests : req[s] # None => s = r
  /\ \A n \in Files : WholeFile(n) \/ Unsized(n)
  /\ req[r] # None => Stage(r)

\* A request that has begun is calm, and one that begins when none has.
LEMMA CalmBefore ==
  ASSUME DriveInv, KeyInv, WholeInv, NEW r \in Requests, regular, req[r] # None \/ Idle
  PROVE  Calm(r)
<1>1. \A s \in Requests : req[s] # None => s = r
  BY DEF DriveInv, Serial, Idle
<1>2. QED
  BY <1>1 DEF Calm, WholeInv

\* The invariant after a step of the only request
LEMMA WholeAfter ==
  ASSUME NEW r \in Requests, Calm(r), Alone(r),
         regular' => \A n \in Files' : WholeFile(n)' \/ Unsized(n)',
         regular' /\ req'[r] # None => Stage(r)'
  PROVE  WholeInv'
<1>1. \A s \in Requests : req'[s] # None => s = r
  BY DEF Calm, Alone
<1>2. regular' => \A s \in Requests : req'[s] # None => Stage(s)'
  BY <1>1
<1>3. QED
  BY <1>2 DEF WholeInv

\* No file waits for its size when the request is at another await.
LEMMA AllWhole ==
  ASSUME NEW r \in Requests, Calm(r),
         \/ req[r] = None
         \/ Head(req[r].todo) # "size"
         \/ req[r].op \notin {"document", "edit"}
  PROVE  \A n \in Files : WholeFile(n)
BY DEF Calm, Unsized, At

\* A file stays whole with the same chunks, and the objects they point to.
LEMMA FileStays ==
  ASSUME NEW n \in Nodes,
         \/ chunks'[n] = {}
         \/ /\ WholeFile(n)
            /\ chunks'[n] = chunks[n]
            /\ row'[n].size = row[n].size
            /\ \A k \in chunks[n] : store'[k] = store[k]
  PROVE  WholeFile(n)'
<1>1. CASE chunks'[n] = {}
  BY <1>1 DEF WholeFile
<1>2. CASE /\ WholeFile(n)
           /\ chunks'[n] = chunks[n]
           /\ row'[n].size = row[n].size
           /\ \A k \in chunks[n] : store'[k] = store[k]
  BY <1>2 DEF WholeFile
<1>3. QED
  BY <1>1, <1>2

\* What leaves rows, chunks and objects alone leaves files as they are.
LEMMA FilesStay ==
  ASSUME UNCHANGED <<row, chunks, store>>, \A n \in Files : WholeFile(n)
  PROVE  \A n \in Files' : WholeFile(n)' /\ n \in Files
BY FileStays DEF Files, Rows

-----------------------------------------------------------------------------
\* The requests that begin load rows as they are.
LEMMA BeginWhole ==
  ASSUME NEW r \in Requests, Calm(r), Alone(r), req[r] = None,
         req'[r] # None => Begun(req'[r]), UNCHANGED <<nodeVars, storeVars>>
  PROVE  WholeInv'
<1>1. UNCHANGED <<row, chunks, store>>
  BY DEF nodeVars, storeVars
<1>2. \A n \in Files' : WholeFile(n)'
  BY <1>1, AllWhole, FilesStay
<1>3. ASSUME req'[r] # None
      PROVE  Stage(r)'
  <2> DEFINE p == req'[r]
  <2>1. Begun(p) /\ p.op \in Ops
    BY <1>3 DEF Alone, OnWay
  <2>2. Head(p.todo) = Head(Awaits[p.op])
    BY <2>1 DEF Begun
  <2>3. /\ Head(p.todo) \in {"insert", "count", "load", "copies", "refund", "objects", "save"}
        /\ Head(p.todo) = "load" => p.op \in {"edit", "version"}
        /\ Head(p.todo) \in {"copies", "save"} => p.op \in {"copy", "admin"}
    BY <2>1, <2>2, PlanFacts DEF Ops, Writers
  <2>4. p.op \in {"edit", "version"} => p.node \in Files'
    BY <1>1, <2>1 DEF Begun, Files, Rows
  <2>5. p.op \in {"copy", "admin"} => \A w \in p.work : Current(w)'
    BY <1>1, <2>1 DEF Begun, Current, Item, Rows
  <2> HIDE DEF p
  <2>6. QED
    BY <2>3, <2>4, <2>5 DEF Stage, p
<1>4. QED
  BY <1>2, <1>3, WholeAfter

\* The steps that only move their request on, or end it: to an await that asks
\* nothing of its file
LEMMA QuietWhole ==
  ASSUME NEW r \in Requests, Calm(r), Alone(r), req[r] # None,
         UNCHANGED <<row, chunks, store>>,
         Head(req[r].todo) # "size",
         req'[r] # None =>
           /\ Head(req'[r].todo) \notin {"size", "chunk", "drop", "chunks", "copies", "save"}
           /\ Head(req'[r].todo) = "upload" => req'[r].op = "edit"
           /\ Head(req'[r].todo) \in {"upload", "load", "version"} => req'[r].node \in Files
  PROVE  WholeInv'
<1>1. \A n \in Files' : WholeFile(n)'
  BY AllWhole, FilesStay
<1>2. Files' = Files
  BY DEF Files, Rows
<1>3. req'[r] # None => Stage(r)'
  BY <1>2 DEF Stage
<1>4. QED
  BY <1>1, <1>3, WholeAfter

\* The steps that touch neither rows nor chunks nor objects
LEMMA QuietSteps ==
  ASSUME NEW r \in Requests, Calm(r), Backend = "local",
         \/ SaveCount(r) \/ OwnerQuota(r) \/ Charge(r) \/ EndCopy(r) \/ Refund(r)
         \/ DeleteObjects(r) \/ SaveVersion(r) \/ LoadChunks(r)
  PROVE  WholeInv'
<1> DEFINE q == req[r]
           at == Head(q.todo)
<1>0. DriveInv /\ (q # None => Stage(r))
  BY DEF Calm
<1>1. UNCHANGED <<row, chunks, store>>
  BY DEF SaveCount, OwnerQuota, Charge, EndCopy, Refund, DeleteObjects, SaveVersion, LoadChunks,
     nodeVars, storeVars
<1>2. CASE \/ SaveCount(r) \/ OwnerQuota(r) \/ Charge(r) \/ EndCopy(r) \/ Refund(r)
           \/ DeleteObjects(r) \/ SaveVersion(r)
  <2>1. Went(r, q) /\ q # None
    BY <1>0, <1>2, PlainWent
  <2>2. at \in {"count", "quota", "charge", "copies", "refund", "objects", "version"}
    BY <1>2 DEF SaveCount, OwnerQuota, Charge, EndCopy, Refund, DeleteObjects, SaveVersion, At
  <2>3. at = "version" => q.node \in Files
    BY <1>0, <2>1 DEF Stage
  <2>4. req'[r] # None =>
          /\ req'[r].op = q.op /\ req'[r].node = q.node
          /\ Follows(q.op, at, Head(req'[r].todo))
    BY <2>1 DEF Went, SameBut
  <2>5. req'[r] # None =>
           /\ Head(req'[r].todo) \notin {"size", "chunk", "drop", "chunks", "copies", "save"}
           /\ Head(req'[r].todo) = "upload" => req'[r].op = "edit"
           /\ Head(req'[r].todo) \in {"upload", "load", "version"} => req'[r].node \in Files
    BY <2>2, <2>3, <2>4 DEF Follows
  <2>6. Alone(r) /\ at # "size"
    BY <2>1, <2>2 DEF Went
  <2>7. QED
    BY <1>1, <2>1, <2>5, <2>6, QuietWhole
<1>3. CASE LoadChunks(r)
  <2>1. /\ Alone(r) /\ q # None
        /\ req'[r] # None =>
             /\ req'[r].op = q.op /\ req'[r].node = q.node
             /\ Head(req'[r].todo) \in {"version", "upload"}
             /\ Head(req'[r].todo) = "upload" => q.op = "edit"
    BY <1>0, <1>3, LoadWent
  <2>2. at = "load"
    BY <1>3 DEF LoadChunks, At
  <2>3. q.node \in Files
    BY <1>0, <2>1, <2>2 DEF Stage
  <2>4. QED
    BY <1>1, <2>1, <2>2, <2>3, QuietWhole
<1>4. QED
  BY <1>2, <1>3

\* A file that is inserted has no chunks.
LEMMA InsertWhole ==
  ASSUME NEW r \in Requests, Calm(r), InsertNode(r)
  PROVE  WholeInv'
<1> DEFINE q == req[r]
<1>0. DriveInv /\ RowsKnown
  BY DEF Calm, DriveInv
<1>1. /\ q # None /\ UNCHANGED <<chunks, store>>
      /\ \/ Alone(r) /\ req'[r] = None /\ UNCHANGED <<row, past, received>>
         \/ \E n \in Nodes \ past :
              /\ Went(r, [q EXCEPT !.node = n])
              /\ row' = [row EXCEPT ![n] =
                   NewRow(FALSE, q.parent, IF q.op = "request" THEN q.size ELSE 0)]
              /\ q.parent \in Places
  BY <1>0, InsertWent
<1>2. Head(q.todo) = "insert" /\ OnWay(q, past)
  BY <1>0, AtWay DEF InsertNode
<1>3. \A m \in Files : WholeFile(m)
  BY <1>2, AllWhole
<1>4. CASE Alone(r) /\ req'[r] = None /\ UNCHANGED <<row, past, received>>
  BY <1>1, <1>2, <1>4, QuietWhole
<1>5. CASE ~(Alone(r) /\ req'[r] = None /\ UNCHANGED <<row, past, received>>)
  <2>1. PICK n \in Nodes \ past :
          /\ Went(r, [q EXCEPT !.node = n])
          /\ row' = [row EXCEPT ![n] =
               NewRow(FALSE, q.parent, IF q.op = "request" THEN q.size ELSE 0)]
          /\ q.parent \in Places
    BY <1>1, <1>5
  <2> DEFINE size == IF q.op = "request" THEN q.size ELSE 0
             new == NewRow(FALSE, q.parent, size)
             p == [q EXCEPT !.node = n]
  <2>2. size \in Nat
    BY <1>2 DEF OnWay
  <2>3. new # None /\ new.folder = FALSE /\ new.size = size
    BY <2>1, <2>2, NewRowFacts
  <2>4. p.node = n /\ p.op = q.op /\ p.size = q.size /\ p.todo = q.todo
    BY <1>2 DEF OnWay, Fields
  <2>5. row' = [row EXCEPT ![n] = new] /\ Went(r, p)
    BY <2>1
  <2> HIDE DEF new, p
  <2>6. chunks'[n] = {} /\ row'[n] = new /\ n \in Files'
    BY <1>0, <1>1, <2>3, <2>5 DEF RowsKnown, Files, Rows
  <2>7. ASSUME NEW m \in Files'
        PROVE  WholeFile(m)'
    <3>1. CASE m = n
      BY <2>6, <3>1, FileStays
    <3>2. CASE m # n
      <4>1. m \in Files /\ row'[m] = row[m] /\ m \in Nodes
        BY <1>0, <2>5, <3>2 DEF RowsKnown, Files, Rows
      <4>2. QED
        BY <1>1, <1>3, <4>1, FileStays
    <3>3. QED
      BY <3>1, <3>2
  <2>8. ASSUME req'[r] # None
        PROVE  Stage(r)'
    <3>1. /\ req'[r].node = n /\ req'[r].op = q.op /\ req'[r].size = q.size
          /\ Head(req'[r].todo) = "upload"
      BY <1>2, <2>4, <2>5, <2>8 DEF Went, SameBut, Follows
    <3>2. q.op = "request" => row'[n].size = q.size
      BY <2>3, <2>6
    <3>3. QED
      BY <2>6, <3>1, <3>2 DEF Stage
  <2>9. QED
    BY <2>5, <2>7, <2>8, WholeAfter DEF Went
<1>6. QED
  BY <1>4, <1>5

\* An object is written that no file points to yet.
LEMMA UploadWhole ==
  ASSUME NEW r \in Requests, Calm(r), Backend = "local", Upload(r)
  PROVE  WholeInv'
<1> DEFINE q == req[r]
           k == uploads + 1
           c == [upload |-> k, size |-> q.size]
<1>0. DriveInv /\ KeyInv /\ (q # None => Stage(r))
  BY DEF Calm
<1>1. /\ Head(q.todo) = "upload" /\ OnWay(q, past) /\ q # None
      /\ Has(q.op, "upload")
  BY <1>0, AtWay DEF Upload
<1>2. /\ UNCHANGED <<row, chunks>>
      /\ store' = [store EXCEPT ![k] = c]
      /\ Went(r, [q EXCEPT !.keys = {k}])
  BY <1>0, UploadWent DEF Upload, KeyOf, nodeVars
<1>3. /\ k \in Keys /\ k \in Nat /\ DOMAIN store = Keys /\ uploads \in Nat
      /\ \A n \in Nodes : k \notin chunks[n]
  BY <1>0, DriveAssumption DEF Upload, KeyInv, Shapes, Keys, Written
<1>4. store'[k] = c /\ c # None /\ c.size = q.size
  <2>1. c \in [upload : Nat, size : Nat]
    BY <1>1, <1>3 DEF OnWay
  <2>2. QED
    BY <1>2, <1>3, <2>1, RowAssumption
<1> HIDE DEF c
<1>5. Files' = Files
  BY <1>2 DEF Files, Rows
<1>6. \A n \in Files' : WholeFile(n)'
  <2> SUFFICES ASSUME NEW n \in Files
               PROVE  WholeFile(n)'
    BY <1>5
  <2>1. WholeFile(n) /\ n \in Nodes
    BY <1>1, AllWhole DEF Files, Rows
  <2>2. \A x \in chunks[n] : store'[x] = store[x]
    BY <1>2, <1>3, <2>1
  <2>3. QED
    BY <1>2, <2>1, <2>2, FileStays
<1>7. ASSUME req'[r] # None
      PROVE  Stage(r)'
  <2> DEFINE p == [q EXCEPT !.keys = {k}]
  <2>1. p.op = q.op /\ p.node = q.node /\ p.size = q.size /\ p.keys = {k} /\ p.todo = q.todo
    BY <1>1 DEF OnWay, Fields
  <2> HIDE DEF p
  <2>2. /\ req'[r].node = q.node /\ req'[r].op = q.op /\ req'[r].size = q.size
        /\ req'[r].keys = {k}
        /\ Head(req'[r].todo) = IF q.op = "edit" THEN "drop"
                                ELSE IF q.op \in {"dav", "offline"} THEN "size" ELSE "chunk"
    BY <1>1, <1>2, <1>7, <2>1 DEF Went, SameBut, Follows, p
  <2>3. /\ q.node \in Files'
        /\ q.op # "edit" => chunks'[q.node] = {}
        /\ q.op = "request" => row'[q.node].size = q.size
    BY <1>0, <1>1, <1>2, <1>5 DEF Stage, Has, Writers
  <2>4. Uploaded(req[r])'
    BY <1>3, <1>4, <2>2 DEF Uploaded
  <2>5. QED
    BY <1>1, <2>2, <2>3, <2>4 DEF Stage, Has, Writers
<1>8. QED
  BY <1>2, <1>6, <1>7, WholeAfter DEF Went

\* Rows go with their chunks, and the others stay as they are.
LEMMA DeleteWhole ==
  ASSUME NEW S, DeleteRows(S), UNCHANGED store, \A n \in Files : WholeFile(n)
  PROVE  \A n \in Files' : WholeFile(n)'
<1> SUFFICES ASSUME NEW n \in Files'
             PROVE  WholeFile(n)'
  OBVIOUS
<1>1. n \in Nodes /\ row'[n] # None
  BY DEF Files, Rows
<1>2. n \in Files /\ row'[n] = row[n] /\ chunks'[n] = chunks[n]
  BY <1>1 DEF DeleteRows, Files, Rows
<1>3. QED
  BY <1>1, <1>2, FileStays

\* An upload that fails, and a node that is purged
LEMMA GoneWhole ==
  ASSUME NEW r \in Requests, Calm(r), UploadFails(r) \/ DeleteNode(r)
  PROVE  WholeInv'
<1>0. DriveInv
  BY DEF Calm
<1>1. CASE UploadFails(r)
  <2>1. /\ Alone(r) /\ req[r] # None /\ req'[r] = None /\ Head(req[r].todo) = "upload"
        /\ UNCHANGED store
        /\ DeleteRows(Subtree({req[r].node})) \/ UNCHANGED nodeVars
    BY <1>0, <1>1, PlainWent DEF UploadFails, Finish, Went, At, storeVars, DriveInv, Serial
  <2>2. \A n \in Files : WholeFile(n)
    BY <2>1, AllWhole
  <2>3. \A n \in Files' : WholeFile(n)'
    BY <2>1, <2>2, DeleteWhole, FilesStay DEF nodeVars
  <2>4. QED
    BY <2>1, <2>3, WholeAfter
<1>2. CASE DeleteNode(r)
  <2>1. /\ Alone(r) /\ req[r] # None /\ DeleteRows(Subtree({req[r].node})) /\ UNCHANGED storeVars
        /\ req'[r] # None => Head(req'[r].todo) \in {"refund", "objects"}
    BY <1>0, <1>2, DeleteNodeWent
  <2>2. Head(req[r].todo) = "delete"
    BY <1>2 DEF DeleteNode, At
  <2>3. \A n \in Files : WholeFile(n)
    BY <2>2, AllWhole
  <2>4. \A n \in Files' : WholeFile(n)'
    BY <2>1, <2>3, DeleteWhole DEF storeVars
  <2>5. req'[r] # None => Stage(r)'
    BY <2>1 DEF Stage
  <2>6. QED
    BY <2>1, <2>4, <2>5, WholeAfter
<1>3. QED
  BY <1>1, <1>2

-----------------------------------------------------------------------------
\* The steps that write chunks, sizes and rows

\* A request that does not end is still there.
LEMMA GoOn ==
  ASSUME Serial, NEW r \in Requests, NEW q, OnWay(q, past'), Go(r, q), DOMAIN None # Fields,
         Head(q.todo) \notin {"insert", "charge", "version", "copies", "delete", "save"}
  PROVE  req'[r] # None
<1>1. Len(q.todo) # 1 /\ Left(q.op, Tail(q.todo))
  BY LeftFacts DEF OnWay
<1>2. OnWay([q EXCEPT !.todo = Tail(q.todo)], past')
  BY <1>1, WayWith
<1>3. DOMAIN [q EXCEPT !.todo = Tail(q.todo)] = Fields
  BY <1>2 DEF OnWay
<1>4. req'[r] = [q EXCEPT !.todo = Tail(q.todo)]
  BY <1>1 DEF Go, Serial
<1>5. QED
  BY <1>3, <1>4

\* The chunk of a new content is written before its size or after it.
LEMMA ChunkWhole ==
  ASSUME NEW r \in Requests, Calm(r), DOMAIN None # Fields, SaveChunk(r)
  PROVE  WholeInv'
<1> DEFINE q == req[r]
<1> PICK n : n = q.node
  OBVIOUS
<1>0. DriveInv /\ RowsKnown
  BY DEF Calm, DriveInv
<1>1. /\ At(r, "chunk") /\ q # None /\ Head(q.todo) = "chunk" /\ OnWay(q, past)
      /\ Has(q.op, "chunk") /\ Went(r, q) /\ Stage(r)
      /\ UNCHANGED <<row, past, store>>
  BY <1>0, AtWay, PlainWent DEF SaveChunk, Calm, storeVars
<1>2. n \in Files /\ n \in Nodes /\ n \in Rows /\ chunks[n] = {} /\ Uploaded(q)
  BY <1>1 DEF Stage, Files, Rows
<1>3. chunks' = [chunks EXCEPT ![n] = q.keys] /\ Go(r, q)
  <2>1. chunks' = [chunks EXCEPT ![n] = chunks[n] \union q.keys] /\ Go(r, q)
    BY <1>2 DEF SaveChunk
  <2>2. QED
    BY <1>2, <2>1
<1>4. DOMAIN chunks = Nodes /\ chunks'[n] = q.keys /\ Files' = Files
  BY <1>0, <1>1, <1>2, <1>3 DEF RowsKnown, Files, Rows
<1>5. req'[r] # None => Follows(q.op, "chunk", Head(req'[r].todo)) /\ SameBut(req'[r], q)
  BY <1>1 DEF Went
<1>6. ASSUME NEW m \in Files', m # n
      PROVE  WholeFile(m)'
  <2>1. WholeFile(m) /\ m \in Nodes /\ chunks'[m] = chunks[m] /\ row'[m].size = row[m].size
    BY <1>1, <1>3, <1>4, <1>6, AllWhole DEF Files, Rows
  <2>2. QED
    BY <1>1, <2>1, FileStays
<1>7. PICK k \in Keys : q.keys = {k} /\ store[k] # None /\ store[k].size = q.size
  BY <1>2 DEF Uploaded
<1>8. CASE q.op \in {"document", "edit"}
  <2>1. req'[r] # None
    BY <1>0, <1>1, <1>3, GoOn DEF DriveInv
  <2>2. /\ Head(req'[r].todo) = "size" /\ req'[r].node = n /\ req'[r].op = q.op
        /\ req'[r].keys = q.keys /\ req'[r].size = q.size
    BY <1>5, <1>8, <2>1 DEF Follows, SameBut
  <2>3. Unsized(n)'
    BY <1>8, <2>1, <2>2 DEF Unsized, At
  <2>4. Uploaded(req[r])'
    BY <1>1, <1>7, <2>2 DEF Uploaded
  <2>5. Stage(r)'
    BY <1>2, <1>4, <1>8, <2>2, <2>4 DEF Stage
  <2>6. QED
    BY <1>1, <1>6, <2>3, <2>5, WholeAfter DEF Went
<1>9. CASE q.op \notin {"document", "edit"}
  <2>1. row[n].size = q.size
    BY <1>1, <1>9 DEF Stage, Has, Writers
  <2>2. WholeFile(n)'
    BY <1>1, <1>4, <1>7, <2>1 DEF WholeFile
  <2>3. req'[r] # None => Head(req'[r].todo) = "charge"
    BY <1>5, <1>9 DEF Follows
  <2>4. req'[r] # None => Stage(r)'
    BY <2>3 DEF Stage
  <2>5. QED
    BY <1>1, <1>6, <2>2, <2>4, WholeAfter DEF Went
<1>10. QED
  BY <1>8, <1>9

\* The old chunks go, and the new object is to be recorded.
LEMMA DropWhole ==
  ASSUME NEW r \in Requests, Calm(r), DropChunks(r)
  PROVE  WholeInv'
<1> DEFINE q == req[r]
           n == q.node
<1>0. DriveInv /\ RowsKnown
  BY DEF Calm, DriveInv
<1>1. /\ At(r, "drop") /\ q # None /\ Head(q.todo) = "drop" /\ OnWay(q, past)
      /\ q.op = "edit" /\ Went(r, q) /\ Stage(r)
      /\ UNCHANGED <<row, past, store>> /\ chunks' = [chunks EXCEPT ![n] = {}]
  BY <1>0, AtWay, PlainWent DEF DropChunks, Calm, storeVars, Has
<1>2. n \in Files /\ n \in Nodes /\ Uploaded(q) /\ chunks'[n] = {} /\ Files' = Files
  BY <1>0, <1>1 DEF Stage, Files, Rows, RowsKnown
<1>3. ASSUME NEW m \in Files'
      PROVE  WholeFile(m)'
  <2>1. WholeFile(m) /\ m \in Nodes /\ row'[m].size = row[m].size
        /\ (chunks'[m] = chunks[m] \/ chunks'[m] = {})
    BY <1>0, <1>1, <1>2, <1>3, AllWhole DEF Files, Rows, RowsKnown
  <2>2. QED
    BY <1>1, <2>1, FileStays
<1>4. ASSUME req'[r] # None
      PROVE  Stage(r)'
  <2>1. /\ Head(req'[r].todo) = "chunk" /\ req'[r].node = n /\ req'[r].op = "edit"
        /\ req'[r].keys = q.keys /\ req'[r].size = q.size
    BY <1>1, <1>4 DEF Went, Follows, SameBut
  <2>2. Uploaded(req[r])'
    BY <1>1, <1>2, <2>1 DEF Uploaded
  <2>3. QED
    BY <1>2, <2>1, <2>2 DEF Stage
<1>5. QED
  BY <1>1, <1>3, <1>4, WholeAfter DEF Went

\* The size of a file becomes that of the object its chunk points to, or will.
LEMMA SizeWhole ==
  ASSUME NEW r \in Requests, Calm(r), SetSize(r)
  PROVE  WholeInv'
<1> DEFINE q == req[r]
<1> PICK n : n = q.node
  OBVIOUS
<1>0. DriveInv /\ RowsKnown
  BY DEF Calm, DriveInv
<1>1. /\ At(r, "size") /\ q # None /\ Head(q.todo) = "size" /\ OnWay(q, past)
      /\ Has(q.op, "size") /\ Went(r, q) /\ Stage(r)
      /\ UNCHANGED <<chunks, past, store>>
  BY <1>0, AtWay, PlainWent DEF SetSize, Calm, storeVars
<1>2. n \in Files /\ n \in Nodes /\ n \in Rows /\ Uploaded(q) /\ row[n] \in Row
  BY <1>0, <1>1 DEF Stage, Files, Rows, RowsKnown
<1>3. row' = [row EXCEPT ![n] = [row[n] EXCEPT !.size = q.size]]
  BY <1>2 DEF SetSize
<1>4. [row[n] EXCEPT !.size = q.size] \in Row /\ [row[n] EXCEPT !.size = q.size].size = q.size
      /\ [row[n] EXCEPT !.size = q.size].folder = row[n].folder
  BY <1>1, <1>2 DEF OnWay, Row
<1>5. row'[n].size = q.size /\ Files' = Files /\ \A m \in Nodes : m # n => row'[m] = row[m]
  BY <1>0, <1>2, <1>3, <1>4, RowAssumption DEF RowsKnown, Files, Rows
<1>6. PICK k \in Keys : q.keys = {k} /\ store[k] # None /\ store[k].size = q.size
  BY <1>2 DEF Uploaded
<1>7. ASSUME NEW m \in Files, m # n
      PROVE  WholeFile(m)'
  <2>1. ~Unsized(m)
    BY <1>7 DEF Unsized, At, Calm
  <2>2. WholeFile(m) /\ m \in Nodes
    BY <1>7, <2>1 DEF Calm, Files, Rows
  <2>3. QED
    BY <1>1, <1>5, <1>7, <2>2, FileStays
<1>8. req'[r] # None => Follows(q.op, "size", Head(req'[r].todo)) /\ SameBut(req'[r], q)
  BY <1>1 DEF Went
<1>9. CASE q.op \in {"document", "edit"}
  <2>1. chunks[n] = q.keys
    BY <1>1, <1>9 DEF Stage
  <2>2. WholeFile(n)'
    BY <1>1, <1>5, <1>6, <2>1 DEF WholeFile
  <2>3. req'[r] # None => Head(req'[r].todo) = "charge"
    BY <1>8, <1>9 DEF Follows
  <2>4. req'[r] # None => Stage(r)'
    BY <2>3 DEF Stage
  <2>5. QED
    BY <1>1, <1>5, <1>7, <2>2, <2>4, WholeAfter DEF Went
<1>10. CASE q.op \notin {"document", "edit"}
  <2>1. chunks[n] = {} /\ q.op \in {"dav", "offline"}
    BY <1>1, <1>10 DEF Stage, Has, Writers
  <2>2. WholeFile(n)'
    BY <1>1, <1>2, <2>1, FileStays
  <2>3. ASSUME req'[r] # None
        PROVE  Stage(r)'
    <3>1. /\ Head(req'[r].todo) = "chunk" /\ req'[r].node = n /\ req'[r].op = q.op
          /\ req'[r].keys = q.keys /\ req'[r].size = q.size
      BY <1>8, <1>10, <2>3 DEF Follows, SameBut
    <3>2. Uploaded(req[r])'
      BY <1>1, <1>6, <3>1 DEF Uploaded
    <3>3. QED
      BY <1>1, <1>2, <1>5, <2>1, <3>1, <3>2 DEF Stage
  <2>4. QED
    BY <1>1, <1>5, <1>7, <2>2, <2>3, WholeAfter DEF Went
<1>11. QED
  BY <1>9, <1>10

\* A row is copied, as it still is; the copy of a file has no chunks yet.
LEMMA CopyRowWhole ==
  ASSUME NEW r \in Requests, Calm(r), CopyRow(r)
  PROVE  WholeInv'
<1> DEFINE q == req[r]
<1>0. DriveInv /\ RowsKnown
  BY DEF Calm, DriveInv
<1>1. /\ Alone(r) /\ q # None /\ Head(q.todo) = "copies" /\ UNCHANGED <<chunks, store>>
      /\ \/ req'[r] = None /\ UNCHANGED <<row, past>>
         \/ \E w \in q.work, n \in Nodes \ past :
              /\ row' = [row EXCEPT ![n] = NewRow(w.row.folder, w.parent, w.row.size)]
              /\ w.parent \in Places
              /\ past' = past \union {n}
              /\ req'[r] # None =>
                   /\ req'[r].op = "copy"
                   /\ req'[r].work = q.work \ {w}
                   /\ w.row.folder => Head(req'[r].todo) = "copies"
                   /\ ~w.row.folder =>
                        /\ Head(req'[r].todo) = "chunks"
                        /\ req'[r].node = n /\ req'[r].keys = chunks[w.src]
                        /\ req'[r].prev = w.row.size
  BY <1>0, CopyRowWent
<1>2. (\A m \in Files : WholeFile(m)) /\ Stage(r) /\ OnWay(q, past)
  BY <1>0, <1>1, AllWhole DEF Calm, DriveInv, Serial
<1>3. CASE req'[r] = None /\ UNCHANGED <<row, past>>
  BY <1>1, <1>3, QuietWhole
<1>4. CASE ~(req'[r] = None /\ UNCHANGED <<row, past>>)
  <2>1. PICK w \in q.work, n \in Nodes \ past :
          /\ row' = [row EXCEPT ![n] = NewRow(w.row.folder, w.parent, w.row.size)]
          /\ w.parent \in Places
          /\ req'[r] # None =>
               /\ req'[r].op = "copy"
               /\ req'[r].work = q.work \ {w}
               /\ w.row.folder => Head(req'[r].todo) = "copies"
               /\ ~w.row.folder =>
                    /\ Head(req'[r].todo) = "chunks"
                    /\ req'[r].node = n /\ req'[r].keys = chunks[w.src]
                    /\ req'[r].prev = w.row.size
    BY <1>1, <1>4
  <2> DEFINE new == NewRow(w.row.folder, w.parent, w.row.size)
  <2>2. w.row.size \in Nat /\ w.row.folder \in BOOLEAN
    BY <1>2 DEF OnWay, Row
  <2>3. new # None /\ new.folder = w.row.folder /\ new.size = w.row.size
    BY <2>1, <2>2, NewRowFacts
  <2>4. row' = [row EXCEPT ![n] = new]
    BY <2>1
  <2> HIDE DEF new
  <2>5. /\ row[n] = None /\ chunks'[n] = {} /\ row'[n] = new
        /\ \A m \in Nodes : m # n => row'[m] = row[m]
    BY <1>0, <1>1, <2>4 DEF RowsKnown
  <2>6. ASSUME NEW m \in Files'
        PROVE  WholeFile(m)'
    <3>1. CASE m = n
      BY <2>5, <3>1, FileStays
    <3>2. CASE m # n
      <4>1. m \in Files /\ row'[m] = row[m] /\ m \in Nodes
        BY <2>5, <3>2 DEF Files, Rows
      <4>2. QED
        BY <1>1, <1>2, <4>1, FileStays
    <3>3. QED
      BY <3>1, <3>2
  <2>7. \A v \in q.work : Current(v)
    BY <1>1, <1>2 DEF Stage
  <2>8. \A v \in q.work : Current(v)'
    BY <2>5, <2>7 DEF Current, Rows
  <2>9. ASSUME req'[r] # None
        PROVE  Stage(r)'
    <3>1. CASE w.row.folder
      BY <2>1, <2>8, <2>9, <3>1 DEF Stage
    <3>2. CASE ~w.row.folder
      <4>1. n \in Files' /\ row'[n].size = w.row.size
        BY <2>2, <2>3, <2>5, <3>2 DEF Files, Rows
      <4>2. w.src \in Files /\ row[w.src].size = w.row.size
        BY <2>7, <3>2 DEF Current, Files, Rows
      <4>3. WholeFile(w.src)
        BY <1>2, <4>2
      <4>4. /\ Head(req'[r].todo) = "chunks" /\ req'[r].node = n /\ req'[r].op = "copy"
            /\ req'[r].keys = chunks[w.src] /\ req'[r].prev = w.row.size
            /\ req'[r].work = q.work \ {w}
        BY <2>1, <2>9, <3>2
      <4>5. Taken(req[r])'
        BY <1>1, <4>2, <4>3, <4>4 DEF Taken, WholeFile
      <4>6. QED
        BY <2>5, <2>8, <4>1, <4>4, <4>5 DEF Stage
    <3>3. QED
      BY <3>1, <3>2
  <2>10. QED
    BY <1>1, <2>6, <2>9, WholeAfter
<1>5. QED
  BY <1>3, <1>4

\* The chunks of a file are written to its copy.
LEMMA CopyChunksWhole ==
  ASSUME NEW r \in Requests, Calm(r), CopyChunks(r)
  PROVE  WholeInv'
<1> DEFINE q == req[r]
           n == q.node
<1>0. DriveInv /\ RowsKnown
  BY DEF Calm, DriveInv
<1>1. /\ Alone(r) /\ q # None
      /\ req'[r] # None =>
           req'[r].op = q.op /\ Head(req'[r].todo) = "copies" /\ req'[r].work = q.work
      /\ Head(q.todo) = "chunks" /\ Stage(r)
      /\ UNCHANGED <<row, store>>
      /\ chunks' = chunks \/ chunks' = [chunks EXCEPT ![n] = q.keys]
  BY <1>0, CopyChunksWent DEF CopyChunks, At, Calm, storeVars
<1>2. /\ n \in Files /\ n \in Nodes /\ row[n].size = q.prev /\ Taken(q)
      /\ \A w \in q.work : Current(w)
  BY <1>1 DEF Stage, Files, Rows
<1>3. \A m \in Files : WholeFile(m)
  BY <1>1, AllWhole
<1>4. ASSUME NEW m \in Files'
      PROVE  WholeFile(m)'
  <2>1. m \in Files /\ m \in Nodes /\ row'[m].size = row[m].size
    BY <1>1, <1>4 DEF Files, Rows
  <2>2. CASE chunks'[m] = chunks[m]
    BY <1>1, <1>3, <2>1, <2>2, FileStays
  <2>3. CASE chunks'[m] # chunks[m]
    <3>1. m = n /\ chunks'[m] = q.keys
      BY <1>0, <1>1, <2>1, <2>3 DEF RowsKnown
    <3>2. QED
      BY <1>1, <1>2, <3>1 DEF Taken, WholeFile
  <2>4. QED
    BY <2>2, <2>3
<1>5. \A w \in q.work : Current(w)'
  BY <1>1, <1>2 DEF Current, Rows
<1>6. req'[r] # None => Stage(r)'
  BY <1>1, <1>5 DEF Stage
<1>7. QED
  BY <1>1, <1>4, <1>6, WholeAfter

\* The children of a folder are loaded as they are.
LEMMA CopyFolderWhole ==
  ASSUME NEW r \in Requests, Calm(r), CopyFolder(r)
  PROVE  WholeInv'
<1>0. DriveInv
  BY DEF Calm
<1>1. /\ Alone(r) /\ req[r] # None /\ UNCHANGED <<row, chunks, store>>
      /\ Head(req[r].todo) = "copies"
      /\ req'[r] # None =>
           /\ req'[r].op = "copy" /\ Head(req'[r].todo) = "copies"
           /\ \A w \in req'[r].work : \E n \in Rows : \E p : w = Item(n, p)
  BY <1>0, CopyFolderWent DEF CopyFolder, At, nodeVars, storeVars
<1>2. \A m \in Files' : WholeFile(m)'
  BY <1>1, AllWhole, FilesStay
<1>3. \A n \in Rows : \A p : Current(Item(n, p))
  BY DEF Current, Item
<1>4. \A w : Current(w) => Current(w)'
  BY <1>1 DEF Current, Rows
<1>5. req'[r] # None => Stage(r)'
  BY <1>1, <1>3, <1>4 DEF Stage
<1>6. QED
  BY <1>1, <1>2, <1>5, WholeAfter

\* The row an administrator saves is the one he loaded, but for the trash.
LEMMA SaveTrashedWhole ==
  ASSUME NEW r \in Requests, Calm(r), SaveTrashed(r)
  PROVE  WholeInv'
<1> DEFINE q == req[r]
<1>0. DriveInv /\ RowsKnown
  BY DEF Calm, DriveInv
<1>1. /\ q # None /\ Head(q.todo) = "save" /\ OnWay(q, past) /\ Went(r, q) /\ Stage(r)
      /\ UNCHANGED <<chunks, store>>
  BY <1>0, AtWay, PlainWent DEF SaveTrashed, Calm, storeVars
<1>2. PICK w \in q.work :
        row' = row \/ row' = [row EXCEPT ![w.src] = [w.row EXCEPT !.trashed = TRUE]]
  BY DEF SaveTrashed
<1>3. Current(w) /\ w.row \in Row /\ w.src \in Nodes
  BY <1>1, <1>2 DEF Stage, OnWay, Current, Rows
<1>4. /\ [w.row EXCEPT !.trashed = TRUE] \in Row
      /\ [w.row EXCEPT !.trashed = TRUE].folder = row[w.src].folder
      /\ [w.row EXCEPT !.trashed = TRUE].size = row[w.src].size
  BY <1>3 DEF Current, Row
<1>5. \A m \in Files' : m \in Files /\ m \in Nodes /\ row'[m].size = row[m].size
  BY <1>0, <1>2, <1>3, <1>4, RowAssumption DEF RowsKnown, Files, Rows, Current
<1>6. \A m \in Files' : WholeFile(m)'
  BY <1>1, <1>5, AllWhole, FileStays
<1>7. req'[r] = None
  BY <1>1 DEF Went, Follows
<1>8. QED
  BY <1>1, <1>6, <1>7, WholeAfter DEF Went

\* What happens beside the requests leaves files as long as they are.
LEMMA WholeBeside ==
  ASSUME DriveInv, WholeInv,
         \/ \E n \in Nodes : \/ \E p \in Places : CreateFolder(n, p)
                             \/ Trash(n) \/ Restore(n) \/ CreateFileRequest(n)
         \/ LinkExpires \/ UNCHANGED vars
  PROVE  WholeInv'
<1>0. RowsKnown
  BY DEF DriveInv
<1>1. /\ UNCHANGED <<chunks, store, req, regular>>
      /\ \A n \in Nodes :
           \/ row'[n] = row[n]
           \/ row[n] # None /\ row'[n] # None /\ row'[n].folder = row[n].folder
              /\ row'[n].size = row[n].size
           \/ n \notin past /\ row'[n] # None /\ row'[n].folder
  BY BesideFacts DEF storeVars
<1>2. \A n \in Files' : n \in Files /\ n \in Nodes /\ row'[n].size = row[n].size
  BY <1>1 DEF Files, Rows
<1>3. \A n \in Files : n \in Files' /\ row'[n].size = row[n].size
  BY <1>0, <1>1 DEF Files, Rows, RowsKnown
<1>4. \A w : Current(w) => Current(w)'
  BY <1>0, <1>1 DEF Current, Rows, RowsKnown
<1>5. ASSUME regular', NEW n \in Files'
      PROVE  WholeFile(n)' \/ Unsized(n)'
  <2>1. WholeFile(n) \/ Unsized(n)
    BY <1>1, <1>2, <1>5 DEF WholeInv
  <2>2. CASE WholeFile(n)
    BY <1>1, <1>2, <2>2, FileStays
  <2>3. CASE Unsized(n)
    BY <1>1, <2>3 DEF Unsized, At
  <2>4. QED
    BY <2>1, <2>2, <2>3
<1>6. ASSUME regular', NEW r \in Requests, req'[r] # None
      PROVE  Stage(r)'
  <2>1. Stage(r) /\ req'[r] = req[r]
    BY <1>1, <1>6 DEF WholeInv
  <2>2. Uploaded(req[r]) => Uploaded(req[r])'
    BY <1>1 DEF Uploaded
  <2>3. Taken(req[r]) => Taken(req[r])'
    BY <1>1 DEF Taken
  <2>4. QED
    BY <1>1, <1>3, <1>4, <2>1, <2>2, <2>3 DEF Stage
<1>7. QED
  BY <1>5, <1>6 DEF WholeInv

\* One step of a request, regular or not
LEMMA WholeStep ==
  ASSUME DriveInv, KeyInv, WholeInv, Backend = "local", DOMAIN None # Fields,
         NEW r \in Requests, Handler(r)
  PROVE  WholeInv'
<1>1. Alone(r) /\ (regular' => regular /\ (req[r] # None \/ Idle))
  BY HandlerAlone
<1>2. CASE ~regular'
  BY <1>2 DEF WholeInv
<1>3. CASE regular'
  <2>1. Calm(r)
    BY <1>1, <1>3, CalmBefore
  <2>2. CASE \/ BeginDocument(r) \/ BeginPut(r) \/ BeginOfflineDownload(r)
             \/ BeginUploadToRequest(r) \/ BeginUpdateContent(r) \/ BeginCreateVersion(r)
             \/ BeginCopy(r) \/ BeginPurge(r) \/ BeginReplace(r) \/ BeginDeleteFileAdmin(r)
    BY <2>1, <2>2, BeginFacts, BeginWhole
  <2>3. CASE \/ SaveCount(r) \/ OwnerQuota(r) \/ Charge(r) \/ EndCopy(r) \/ Refund(r)
             \/ DeleteObjects(r) \/ SaveVersion(r) \/ LoadChunks(r)
    BY <2>1, <2>3, QuietSteps
  <2>4. CASE InsertNode(r) \/ Upload(r) \/ UploadFails(r) \/ DeleteNode(r)
    BY <2>1, <2>4, InsertWhole, UploadWhole, GoneWhole
  <2>5. CASE SaveChunk(r) \/ DropChunks(r) \/ SetSize(r)
    BY <2>1, <2>5, ChunkWhole, DropWhole, SizeWhole
  <2>6. CASE CopyRow(r) \/ CopyChunks(r) \/ CopyFolder(r) \/ SaveTrashed(r)
    BY <2>1, <2>6, CopyRowWhole, CopyChunksWhole, CopyFolderWhole, SaveTrashedWhole
  <2>7. QED
    BY <2>2, <2>3, <2>4, <2>5, <2>6 DEF Handler
<1>4. QED
  BY <1>2, <1>3

\* With the local storage, a file whose chunks are recorded is whole between requests
\* that do not overlap, however they end
THEOREM FilesStayWhole ==
  ASSUME Backend = "local", DOMAIN None # Fields
  PROVE  Spec => []FilesAreWhole
<1>1. Init => DriveInv /\ KeyInv /\ WholeInv
  BY DriveFirst, KeyFirst DEF Init, WholeInv, Files, Rows
<1>2. DriveInv /\ KeyInv /\ WholeInv /\ [Next]_vars => DriveInv' /\ KeyInv' /\ WholeInv'
  <2>1. ASSUME DriveInv, KeyInv, WholeInv, Next \/ UNCHANGED vars
        PROVE  WholeInv'
    BY <2>1, WholeStep, WholeBeside DEF Next
  <2>2. QED
    BY <2>1, DriveStep, InvStep
<1>3. WholeInv => FilesAreWhole
  <2> SUFFICES ASSUME WholeInv, regular, Idle, NEW n \in Files, chunks[n] # {}
               PROVE  \E k \in Keys : /\ chunks[n] = {k}
                                      /\ store[k] # None
                                      /\ row[n].size = store[k].size
    BY DEF FilesAreWhole
  <2>1. WholeFile(n)
    BY DEF WholeInv, Unsized, At, Idle
  <2>2. QED
    BY <2>1 DEF WholeFile
<1>4. QED
  BY <1>1, <1>2, <1>3, PTL DEF Spec
-----------------------------------------------------------------------------
\* Sums of sizes, and what is below a node: by induction over the naturals

\* A set of naturals that is not empty has a least element.
LEMMA LeastOf ==
  ASSUME NEW T, T \subseteq Nat, T # {}
  PROVE  \E x \in T : \A y \in T : x <= y
<1>1. PICK x \in T : \A y \in T : <<y, x>> \notin OpToRel(<, Nat)
  BY NatLessThanWellFounded, WFMin
<1>2. \A y \in T : ~(y < x)
  BY <1>1 DEF OpToRel
<1>3. QED
  BY <1>2

\* A set that has 0, and n + 1 whenever it has n, has every natural.
LEMMA HasAll ==
  ASSUME NEW P, 0 \in P, \A n \in Nat : n \in P => n + 1 \in P
  PROVE  Nat \subseteq P
<1> SUFFICES ASSUME Nat \ P # {}
             PROVE  FALSE
  OBVIOUS
<1>1. PICK x \in Nat \ P : \A y \in Nat \ P : x <= y
  BY LeastOf
<1>2. x # 0 /\ x - 1 \in Nat /\ (x - 1) + 1 = x
  OBVIOUS
<1>3. x - 1 \in P
  BY <1>1, <1>2
<1>4. QED
  BY <1>1, <1>2, <1>3

\* The element of S that a sum takes first
Some(S) == CHOOSE x \in S : TRUE

\* h is the sums of the subsets of S, each from that of one element less.
AddsUp(rw, S, h) ==
  h = [s \in SUBSET S |-> IF s = {} THEN 0 ELSE rw[Some(s)].size + h[s \ {Some(s)}]]

\* The subsets of S of at most k elements
UpTo(S, k) == {s \in SUBSET S : Cardinality(s) <= k}

LEMMA SomeIn ==
  ASSUME NEW S, IsFiniteSet(S), S # {}
  PROVE  /\ Some(S) \in S /\ IsFiniteSet(S \ {Some(S)})
         /\ Cardinality(S) \in Nat \ {0} /\ Cardinality(S \ {Some(S)}) = Cardinality(S) - 1
<1>1. Some(S) \in S
  BY DEF Some
<1>2. Cardinality(S) \in Nat /\ Cardinality(S) # 0
  BY FS_CardinalityType, FS_EmptySet
<1>3. QED
  BY <1>1, <1>2, FS_RemoveElement

LEMMA SumsExist ==
  ASSUME NEW rw, NEW S, IsFiniteSet(S)
  PROVE  \E h : AddsUp(rw, S, h)
<1> DEFINE Next1(h, s) == IF s = {} THEN 0 ELSE rw[Some(s)].size + h[s \ {Some(s)}]
           Good(h, k) == h = [s \in UpTo(S, k) |-> Next1(h, s)]
           P == {k \in Nat : \E h : Good(h, k)}
<1>0. \A s \in SUBSET S : IsFiniteSet(s) /\ Cardinality(s) \in Nat /\ Cardinality(s) <= Cardinality(S)
  BY FS_Subset, FS_CardinalityType
<1>1. \A k \in Nat : \A s \in UpTo(S, k + 1) : s # {} => s \ {Some(s)} \in UpTo(S, k)
  <2> SUFFICES ASSUME NEW k \in Nat, NEW s \in UpTo(S, k + 1), s # {}
               PROVE  s \ {Some(s)} \in UpTo(S, k)
    OBVIOUS
  <2>1. s \in SUBSET S /\ IsFiniteSet(s) /\ Cardinality(s) <= k + 1
    BY <1>0 DEF UpTo
  <2>2. Cardinality(s) \in Nat /\ Cardinality(s \ {Some(s)}) = Cardinality(s) - 1
    BY <2>1, SomeIn
  <2>3. Cardinality(s \ {Some(s)}) <= k
    BY <2>1, <2>2
  <2>4. QED
    BY <2>1, <2>3 DEF UpTo
<1>2. 0 \in P
  <2> DEFINE g == [s \in UpTo(S, 0) |-> 0]
  <2>1. \A s \in UpTo(S, 0) : s = {}
    BY <1>0, FS_EmptySet DEF UpTo
  <2>2. Good(g, 0)
    BY <2>1
  <2>3. QED
    BY <2>2
<1>3. ASSUME NEW k \in Nat, k \in P
      PROVE  k + 1 \in P
  <2>1. PICK h : Good(h, k)
    BY <1>3
  <2> DEFINE g == [s \in UpTo(S, k + 1) |-> Next1(h, s)]
  <2>2. \A s \in UpTo(S, k) : s \in UpTo(S, k + 1) /\ g[s] = h[s]
    <3>1. \A s \in UpTo(S, k) : s \in UpTo(S, k + 1)
      BY <1>0 DEF UpTo
    <3>2. \A s \in UpTo(S, k) : h[s] = Next1(h, s)
      BY <2>1
    <3>3. QED
      BY <3>1, <3>2
  <2>3. \A s \in UpTo(S, k + 1) : Next1(h, s) = Next1(g, s)
    BY <1>1, <2>2
  <2>4. Good(g, k + 1)
    BY <2>3
  <2> HIDE DEF g, Good
  <2>5. QED
    BY <2>4
<1>4. Cardinality(S) \in P
  BY <1>2, <1>3, HasAll, FS_CardinalityType
<1>5. UpTo(S, Cardinality(S)) = SUBSET S
  BY <1>0 DEF UpTo
<1>6. QED
  BY <1>4, <1>5 DEF AddsUp

\* A set that has a subset of S whenever it has the subset less any element has them all.
LEMMA HasSubsets ==
  ASSUME NEW S, IsFiniteSet(S), NEW P,
         \A s \in SUBSET S : (\A x \in s : s \ {x} \in P) => s \in P
  PROVE  SUBSET S \subseteq P
<1> DEFINE N == {k \in Nat : UpTo(S, k) \subseteq P}
<1>0. \A s \in SUBSET S : IsFiniteSet(s) /\ Cardinality(s) \in Nat /\ Cardinality(s) <= Cardinality(S)
  BY FS_Subset, FS_CardinalityType
<1>1. 0 \in N
  BY <1>0, FS_EmptySet DEF UpTo
<1>2. ASSUME NEW k \in Nat, k \in N
      PROVE  k + 1 \in N
  <2> SUFFICES ASSUME NEW s \in SUBSET S, Cardinality(s) <= k + 1, NEW x \in s
               PROVE  s \ {x} \in UpTo(S, k)
    BY <1>2 DEF UpTo
  <2>1. IsFiniteSet(s) /\ Cardinality(s) \in Nat
    BY <1>0
  <2>2. Cardinality(s \ {x}) = Cardinality(s) - 1
    BY <2>1, FS_RemoveElement
  <2>3. QED
    BY <2>1, <2>2 DEF UpTo
<1>3. Cardinality(S) \in N
  BY <1>1, <1>2, HasAll, FS_CardinalityType
<1>4. QED
  BY <1>0, <1>3 DEF UpTo

\* Whichever set the sums are made for, those of its subsets are the same.
LEMMA SumsAgree ==
  ASSUME NEW rw, NEW S, IsFiniteSet(S), NEW T \in SUBSET S,
         NEW g, NEW h, AddsUp(rw, T, g), AddsUp(rw, S, h)
  PROVE  \A s \in SUBSET T : g[s] = h[s]
<1> DEFINE P == {s \in SUBSET T : g[s] = h[s]}
<1>1. IsFiniteSet(T)
  BY FS_Subset
<1>2. ASSUME NEW s \in SUBSET T, \A x \in s : s \ {x} \in P
      PROVE  s \in P
  <2>1. /\ g[s] = IF s = {} THEN 0 ELSE rw[Some(s)].size + g[s \ {Some(s)}]
        /\ h[s] = IF s = {} THEN 0 ELSE rw[Some(s)].size + h[s \ {Some(s)}]
    BY DEF AddsUp
  <2>2. s # {} => Some(s) \in s
    BY DEF Some
  <2>3. QED
    BY <1>2, <2>1, <2>2
<1>3. SUBSET T \subseteq P
  <2> HIDE DEF P
  <2> QED
    BY <1>1, <1>2, HasSubsets
<1>4. QED
  BY <1>3

\* A sum is the size of one element and the sum of the others.
LEMMA TotalSteps ==
  ASSUME NEW rw, NEW S, IsFiniteSet(S)
  PROVE  Total(rw, S) = IF S = {} THEN 0 ELSE rw[Some(S)].size + Total(rw, S \ {Some(S)})
<1>1. \A T \in SUBSET S : \E h : AddsUp(rw, T, h) /\ Total(rw, T) = h[T]
  <2> SUFFICES ASSUME NEW T \in SUBSET S
               PROVE  \E h : AddsUp(rw, T, h) /\ Total(rw, T) = h[T]
    OBVIOUS
  <2>1. \E h : AddsUp(rw, T, h)
    BY SumsExist, FS_Subset
  <2>2. Total(rw, T) = (CHOOSE h : AddsUp(rw, T, h))[T]
    BY DEF Total, MapThenSumSet, MapThenFoldSet, AddsUp, Some
  <2>3. QED
    BY <2>1, <2>2
<1>2. PICK h : AddsUp(rw, S, h) /\ Total(rw, S) = h[S]
  BY <1>1
<1>3. \A T \in SUBSET S : Total(rw, T) = h[T]
  <2> SUFFICES ASSUME NEW T \in SUBSET S
               PROVE  Total(rw, T) = h[T]
    OBVIOUS
  <2>1. PICK g : AddsUp(rw, T, g) /\ Total(rw, T) = g[T]
    BY <1>1
  <2>2. g[T] = h[T]
    BY <1>2, <2>1, SumsAgree
  <2>3. QED
    BY <2>1, <2>2
<1>4. h[S] = IF S = {} THEN 0 ELSE rw[Some(S)].size + h[S \ {Some(S)}]
  BY <1>2 DEF AddsUp
<1>5. QED
  BY <1>2, <1>3, <1>4

\* The sizes of S are numbers.
Sized(rw, S) == IsFiniteSet(S) /\ \A n \in S : rw[n].size \in Nat

LEMMA SizedPart ==
  ASSUME NEW rw, NEW S, Sized(rw, S), NEW T \in SUBSET S
  PROVE  Sized(rw, T)
BY FS_Subset DEF Sized

\* A sum of numbers is one.
LEMMA TotalType ==
  ASSUME NEW rw, NEW S, Sized(rw, S)
  PROVE  Total(rw, S) \in Nat
<1> DEFINE P == {s \in SUBSET S : Total(rw, s) \in Nat}
<1>1. ASSUME NEW s \in SUBSET S, \A x \in s : s \ {x} \in P
      PROVE  s \in P
  <2>1. Total(rw, s) = IF s = {} THEN 0 ELSE rw[Some(s)].size + Total(rw, s \ {Some(s)})
    BY SizedPart, TotalSteps DEF Sized
  <2>2. s # {} => Some(s) \in s /\ rw[Some(s)].size \in Nat
    BY DEF Some, Sized
  <2>3. QED
    BY <1>1, <2>1, <2>2
<1>2. SUBSET S \subseteq P
  <2> HIDE DEF P
  <2> QED
    BY <1>1, HasSubsets DEF Sized
<1>3. QED
  BY <1>2

\* Any element may be the one that is taken out.
LEMMA TotalTakes ==
  ASSUME NEW rw, NEW S, Sized(rw, S)
  PROVE  \A x \in S : Total(rw, S) = rw[x].size + Total(rw, S \ {x})
<1> DEFINE Right(s) == \A x \in s : Total(rw, s) = rw[x].size + Total(rw, s \ {x})
           P == {s \in SUBSET S : Right(s)}
<1>1. ASSUME NEW s \in SUBSET S, \A x \in s : s \ {x} \in P
      PROVE  s \in P
  <2> SUFFICES ASSUME NEW x \in s
               PROVE  Total(rw, s) = rw[x].size + Total(rw, s \ {x})
    OBVIOUS
  <2> DEFINE c == Some(s)
             both == s \ {c, x}
  <2>1. c \in s /\ Sized(rw, s)
    BY SizedPart DEF Some
  <2>2. Total(rw, s) = rw[c].size + Total(rw, s \ {c})
    BY <2>1, TotalSteps DEF Sized
  <2>3. CASE x = c
    BY <2>2, <2>3
  <2>4. CASE x # c
    <3>1. x \in s \ {c} /\ c \in s \ {x} /\ (s \ {c}) \ {x} = both /\ (s \ {x}) \ {c} = both
      BY <2>1, <2>4
    <3>2. Total(rw, s \ {c}) = rw[x].size + Total(rw, both)
      BY <1>1, <2>1, <3>1
    <3>3. Total(rw, s \ {x}) = rw[c].size + Total(rw, both)
      BY <1>1, <2>1, <3>1
    <3>4. rw[x].size \in Nat /\ rw[c].size \in Nat /\ Total(rw, both) \in Nat
      BY <2>1, SizedPart, TotalType DEF Sized
    <3> HIDE DEF c, both
    <3>5. QED
      BY <2>2, <3>2, <3>3, <3>4
  <2>5. QED
    BY <2>3, <2>4
<1>2. SUBSET S \subseteq P
  <2> HIDE DEF P
  <2> QED
    BY <1>1, HasSubsets DEF Sized
<1>3. QED
  BY <1>2

\* A set may be summed in two parts.
LEMMA TotalParts ==
  ASSUME NEW rw, NEW S, Sized(rw, S), NEW T \in SUBSET S
  PROVE  Total(rw, S) = Total(rw, T) + Total(rw, S \ T)
<1> DEFINE P == {s \in SUBSET T : Total(rw, S) = Total(rw, S \ s) + Total(rw, s)}
<1>0. Total(rw, {}) = 0 /\ Sized(rw, T)
  BY TotalSteps, FS_EmptySet, SizedPart
<1>1. ASSUME NEW s \in SUBSET T, \A x \in s : s \ {x} \in P
      PROVE  s \in P
  <2>1. CASE s = {}
    <3>1. S \ s = S /\ Total(rw, S) \in Nat
      BY <2>1, TotalType
    <3>2. QED
      BY <1>0, <2>1, <3>1
  <2>2. CASE s # {}
    <3>1. PICK x \in s : TRUE
      BY <2>2
    <3> DEFINE t == s \ {x}
               u == S \ s
    <3>2. Total(rw, S) = Total(rw, S \ t) + Total(rw, t)
      BY <1>1
    <3>3. x \in S \ t /\ (S \ t) \ {x} = u
      OBVIOUS
    <3>4. /\ Sized(rw, S \ t) /\ Sized(rw, s) /\ Sized(rw, u) /\ Sized(rw, t)
          /\ rw[x].size \in Nat
      BY SizedPart DEF Sized
    <3>5. Total(rw, S \ t) = rw[x].size + Total(rw, u) /\ Total(rw, s) = rw[x].size + Total(rw, t)
      BY <3>3, <3>4, TotalTakes
    <3>6. Total(rw, u) \in Nat /\ Total(rw, t) \in Nat
      BY <3>4, TotalType
    <3> HIDE DEF t
    <3>7. Total(rw, S) = Total(rw, u) + Total(rw, s)
      <4> HIDE DEF u
      <4> QED
        BY <3>2, <3>4, <3>5, <3>6
    <3>8. QED
      BY <3>7
  <2>3. QED
    BY <2>1, <2>2
<1>2. T \in P
  <2> HIDE DEF P
  <2> QED
    BY <1>0, <1>1, HasSubsets DEF Sized
<1>3. Total(rw, T) \in Nat /\ Total(rw, S \ T) \in Nat
  BY SizedPart, TotalType
<1>4. QED
  BY <1>2, <1>3

\* Only the sizes count.
LEMMA TotalSame ==
  ASSUME NEW rw, NEW rv, NEW S, IsFiniteSet(S), \A n \in S : rw[n].size = rv[n].size
  PROVE  Total(rw, S) = Total(rv, S)
<1> DEFINE P == {s \in SUBSET S : Total(rw, s) = Total(rv, s)}
<1>1. ASSUME NEW s \in SUBSET S, \A x \in s : s \ {x} \in P
      PROVE  s \in P
  <2>1. /\ Total(rw, s) = IF s = {} THEN 0 ELSE rw[Some(s)].size + Total(rw, s \ {Some(s)})
        /\ Total(rv, s) = IF s = {} THEN 0 ELSE rv[Some(s)].size + Total(rv, s \ {Some(s)})
    BY FS_Subset, TotalSteps
  <2>2. s # {} => Some(s) \in s
    BY DEF Some
  <2>3. QED
    BY <1>1, <2>1, <2>2
<1>2. SUBSET S \subseteq P
  <2> HIDE DEF P
  <2> QED
    BY <1>1, HasSubsets
<1>3. QED
  BY <1>2

-----------------------------------------------------------------------------
\* The sizes of the files, in this state or the next

\* The rows of files of rw
FilesIn(rw) == {n \in Nodes : rw[n] # None /\ ~rw[n].folder}

LEMMA SizeIs ==
  /\ Files = FilesIn(row) /\ Files' = FilesIn(row')
  /\ \A S : SizeOf(S) = Total(row, S \intersect FilesIn(row))
  /\ SizeOf(Rows) = Total(row, FilesIn(row))
  /\ SizeOf(Rows)' = Total(row', FilesIn(row'))
<1>1. Files = FilesIn(row) /\ Files' = FilesIn(row')
  BY DEF Files, Rows, FilesIn
<1>2. \A S : SizeOf(S) = Total(row, S \intersect FilesIn(row))
  BY <1>1 DEF SizeOf
<1>3. Rows \intersect Files = Files /\ (Rows \intersect Files)' = Files'
  BY DEF Files
<1>4. SizeOf(Rows) = Total(row, Rows \intersect Files)
  BY DEF SizeOf
<1>5. SizeOf(Rows)' = Total(row', (Rows \intersect Files)')
  BY DEF SizeOf
<1>6. QED
  BY <1>1, <1>2, <1>3, <1>4, <1>5

\* The sizes of rows are numbers, and their sums.
LEMMA RowsSized ==
  ASSUME NEW rw \in [Nodes -> Row \union {None}]
  PROVE  \A S : S \subseteq FilesIn(rw) => Sized(rw, S) /\ Total(rw, S) \in Nat
<1>1. \A n \in FilesIn(rw) : rw[n].size \in Nat
  BY DEF FilesIn, Row
<1>2. IsFiniteSet(FilesIn(rw))
  BY NodesAssumption, FS_Subset DEF FilesIn
<1>3. Sized(rw, FilesIn(rw))
  BY <1>1, <1>2 DEF Sized
<1>4. QED
  BY <1>3, SizedPart, TotalType

\* A part of the files weighs no more than all of them.
LEMMA PartWeighs ==
  ASSUME NEW rw \in [Nodes -> Row \union {None}], NEW S, S \subseteq FilesIn(rw),
         NEW T, T \subseteq S
  PROVE  Total(rw, T) <= Total(rw, S)
<1>1. Total(rw, S) = Total(rw, T) + Total(rw, S \ T)
  BY RowsSized, TotalParts
<1>2. Total(rw, S) \in Nat /\ Total(rw, T) \in Nat /\ Total(rw, S \ T) \in Nat
  BY RowsSized
<1>3. QED
  BY <1>1, <1>2

\* The same files of the same sizes
LEMMA SumStays ==
  ASSUME NEW rw \in [Nodes -> Row \union {None}], NEW rv,
         FilesIn(rv) = FilesIn(rw), \A n \in FilesIn(rw) : rv[n].size = rw[n].size
  PROVE  Total(rv, FilesIn(rv)) = Total(rw, FilesIn(rw))
BY RowsSized, TotalSame DEF Sized

\* One more file
LEMMA SumGrows ==
  ASSUME NEW rw \in [Nodes -> Row \union {None}], NEW rv \in [Nodes -> Row \union {None}],
         NEW m, m \notin FilesIn(rw), FilesIn(rv) = FilesIn(rw) \union {m},
         \A n \in FilesIn(rw) : rv[n].size = rw[n].size
  PROVE  Total(rv, FilesIn(rv)) = Total(rw, FilesIn(rw)) + rv[m].size
<1>1. FilesIn(rv) \ {m} = FilesIn(rw) /\ m \in FilesIn(rv)
  OBVIOUS
<1>2. Total(rv, FilesIn(rv)) = rv[m].size + Total(rv, FilesIn(rw))
  BY <1>1, RowsSized, TotalTakes
<1>3. Total(rv, FilesIn(rw)) = Total(rw, FilesIn(rw))
  BY RowsSized, TotalSame DEF Sized
<1>4. rv[m].size \in Nat /\ Total(rw, FilesIn(rw)) \in Nat
  BY <1>1, RowsSized DEF Sized
<1>5. QED
  BY <1>2, <1>3, <1>4

\* One file of another size
LEMMA SumChanges ==
  ASSUME NEW rw \in [Nodes -> Row \union {None}], NEW rv \in [Nodes -> Row \union {None}],
         NEW m \in FilesIn(rw), FilesIn(rv) = FilesIn(rw),
         \A n \in FilesIn(rw) \ {m} : rv[n].size = rw[n].size
  PROVE  Total(rv, FilesIn(rv)) = Total(rw, FilesIn(rw)) + rv[m].size - rw[m].size
<1> DEFINE rest == FilesIn(rw) \ {m}
<1>1. /\ Total(rv, FilesIn(rv)) = rv[m].size + Total(rv, rest)
      /\ Total(rw, FilesIn(rw)) = rw[m].size + Total(rw, rest)
  BY RowsSized, TotalTakes
<1>2. Total(rv, rest) = Total(rw, rest)
  BY RowsSized, TotalSame DEF Sized
<1>3. rv[m].size \in Nat /\ rw[m].size \in Nat /\ Total(rw, rest) \in Nat
  BY RowsSized DEF Sized
<1> HIDE DEF rest
<1>4. QED
  BY <1>1, <1>2, <1>3

\* The rows of S go.
LEMMA SumShrinks ==
  ASSUME NEW rw \in [Nodes -> Row \union {None}], NEW S,
         NEW rv, rv = [n \in Nodes |-> IF n \in S THEN None ELSE rw[n]]
  PROVE  Total(rw, FilesIn(rw)) = Total(rv, FilesIn(rv)) + Total(rw, S \intersect FilesIn(rw))
<1> DEFINE gone == S \intersect FilesIn(rw)
<1>1. FilesIn(rv) = FilesIn(rw) \ gone /\ \A n \in FilesIn(rv) : rv[n].size = rw[n].size
  BY DEF FilesIn
<1>2. Total(rw, FilesIn(rw)) = Total(rw, gone) + Total(rw, FilesIn(rw) \ gone)
  BY RowsSized, TotalParts
<1>3. Total(rv, FilesIn(rv)) = Total(rw, FilesIn(rw) \ gone)
  <2>1. IsFiniteSet(FilesIn(rv))
    BY <1>1, RowsSized DEF Sized
  <2>2. Total(rv, FilesIn(rv)) = Total(rw, FilesIn(rv))
    BY <1>1, <2>1, TotalSame
  <2>3. QED
    BY <1>1, <2>2
<1>4. Total(rw, gone) \in Nat /\ Total(rw, FilesIn(rw) \ gone) \in Nat
  BY RowsSized
<1>5. Total(rw, FilesIn(rw)) = Total(rv, FilesIn(rv)) + Total(rw, gone)
  <2> HIDE DEF gone
  <2> QED
    BY <1>2, <1>3, <1>4
<1>6. QED
  BY <1>5

-----------------------------------------------------------------------------
\* What is below a node

\* The children that rw has for S, and what the walk from S has found after each level
Kids(rw, S) == {n \in Nodes : rw[n] # None /\ rw[n].parent \in S}
Walks(rw, S, k, g) ==
  g = [i \in 0 .. k |-> IF i = 0 THEN S ELSE g[i - 1] \union Kids(rw, g[i - 1])]

LEMMA WalkExists ==
  ASSUME NEW rw, NEW S, NEW k \in Nat
  PROVE  \E g : Walks(rw, S, k, g)
<1> DEFINE P == {i \in Nat : \E g : Walks(rw, S, i, g)}
<1>1. 0 \in P
  <2> DEFINE g == [i \in 0 .. 0 |-> S]
  <2>1. Walks(rw, S, 0, g)
    BY DEF Walks
  <2>2. QED
    BY <2>1
<1>2. ASSUME NEW i \in Nat, i \in P
      PROVE  i + 1 \in P
  <2>1. PICK g : Walks(rw, S, i, g)
    BY <1>2
  <2> DEFINE h == [j \in 0 .. (i + 1) |->
                     IF j = 0 THEN S ELSE g[j - 1] \union Kids(rw, g[j - 1])]
  <2>2. \A j \in 0 .. i : h[j] = g[j]
    <3>0. \A j \in 0 .. i : j \in 0 .. (i + 1)
      OBVIOUS
    <3>1. \A j \in 0 .. i : g[j] = IF j = 0 THEN S ELSE g[j - 1] \union Kids(rw, g[j - 1])
      BY <2>1 DEF Walks
    <3>2. QED
      BY <3>0, <3>1
  <2>3. \A j \in 0 .. (i + 1) : j # 0 => j - 1 \in 0 .. i /\ h[j - 1] = g[j - 1]
    <3>1. \A j \in 0 .. (i + 1) : j # 0 => j - 1 \in 0 .. i
      OBVIOUS
    <3>2. QED
      BY <2>2, <3>1
  <2>4. Walks(rw, S, i + 1, h)
    BY <2>3 DEF Walks
  <2> HIDE DEF h
  <2>5. QED
    BY <2>4
<1> HIDE DEF P
<1>3. k \in P
  BY <1>1, <1>2, HasAll
<1>4. QED
  BY <1>3 DEF P

\* The nodes that rw has at S and below
Below(rw, S) == (CHOOSE g : Walks(rw, S, Cardinality(Nodes), g))[Cardinality(Nodes)]

LEMMA SubtreeIs ==
  \A S : Subtree(S) = Below(row, S)
<1> SUFFICES ASSUME NEW S
             PROVE  Subtree(S) = Below(row, S)
  OBVIOUS
<1>1. QED
  BY DEF Subtree, Children, Rows, Below, Walks, Kids

LEMMA BelowIs ==
  ASSUME NEW rw, NEW S
  PROVE  \E g : Walks(rw, S, Cardinality(Nodes), g) /\ Below(rw, S) = g[Cardinality(Nodes)]
<1>1. Cardinality(Nodes) \in Nat
  BY NodesAssumption, FS_CardinalityType
<1>2. \E g : Walks(rw, S, Cardinality(Nodes), g)
  BY <1>1, WalkExists
<1>3. QED
  BY <1>2 DEF Below

\* Nothing is below a node without children.
LEMMA LeafBelow ==
  ASSUME NEW rw, NEW n, Kids(rw, {n}) = {}
  PROVE  Below(rw, {n}) = {n}
<1>1. Cardinality(Nodes) \in Nat
  BY NodesAssumption, FS_CardinalityType
<1>2. PICK g : Walks(rw, {n}, Cardinality(Nodes), g) /\ Below(rw, {n}) = g[Cardinality(Nodes)]
  BY BelowIs
<1> DEFINE P == {i \in Nat : i <= Cardinality(Nodes) => g[i] = {n}}
<1>3. 0 \in P
  BY <1>1, <1>2 DEF Walks
<1>4. ASSUME NEW i \in Nat, i \in P
      PROVE  i + 1 \in P
  <2> SUFFICES ASSUME i + 1 <= Cardinality(Nodes)
               PROVE  g[i + 1] = {n}
    OBVIOUS
  <2>1. i + 1 \in 0 .. Cardinality(Nodes) /\ i + 1 # 0 /\ (i + 1) - 1 = i /\ g[i] = {n}
    BY <1>1, <1>4
  <2>2. g[i + 1] = g[i] \union Kids(rw, g[i])
    BY <1>2, <2>1 DEF Walks
  <2>3. QED
    BY <2>1, <2>2
<1>5. Cardinality(Nodes) \in P
  <2> HIDE DEF P
  <2> QED
    BY <1>1, <1>3, <1>4, HasAll
<1>6. QED
  BY <1>1, <1>2, <1>5

\* New nodes without children are all that is added below S when rows are inserted.
LEMMA BelowGains ==
  ASSUME NEW rw, NEW rv, NEW S, NEW M,
         \A n \in Nodes \ M : rv[n] # None => rw[n] # None /\ rw[n].parent = rv[n].parent,
         \A n \in Nodes : rv[n] # None => rv[n].parent \notin M
  PROVE  Below(rv, S) \subseteq Below(rw, S) \union M
<1> DEFINE last == Cardinality(Nodes)
<1>1. last \in Nat
  BY NodesAssumption, FS_CardinalityType
<1>2. PICK g : Walks(rw, S, last, g) /\ Below(rw, S) = g[last]
  BY BelowIs
<1>3. PICK h : Walks(rv, S, last, h) /\ Below(rv, S) = h[last]
  BY BelowIs
<1> HIDE DEF last
<1> DEFINE P == {i \in Nat : i <= last => h[i] \subseteq g[i] \union M}
<1>4. 0 \in P
  BY <1>1, <1>2, <1>3 DEF Walks
<1>5. ASSUME NEW i \in Nat, i \in P
      PROVE  i + 1 \in P
  <2> SUFFICES ASSUME i + 1 <= last
               PROVE  h[i + 1] \subseteq g[i + 1] \union M
    OBVIOUS
  <2>1. i + 1 \in 0 .. last /\ i + 1 # 0 /\ (i + 1) - 1 = i /\ h[i] \subseteq g[i] \union M
    BY <1>1, <1>5
  <2>2. g[i + 1] = g[i] \union Kids(rw, g[i])
    BY <1>2, <2>1, ZenonT(40) DEF Walks
  <2>3. h[i + 1] = h[i] \union Kids(rv, h[i])
    BY <1>3, <2>1, ZenonT(40) DEF Walks
  <2>4. Kids(rv, h[i]) \subseteq Kids(rw, g[i]) \union M
    BY <2>1 DEF Kids
  <2>5. QED
    BY <2>1, <2>2, <2>3, <2>4
<1>6. last \in P
  <2> HIDE DEF P
  <2> QED
    BY <1>1, <1>4, <1>5, HasAll
<1>7. QED
  BY <1>1, <1>2, <1>3, <1>6

-----------------------------------------------------------------------------
\* The owner is never charged more than the files he has.

\* What the files of rw weigh together, and those at n and below
Worth(rw) == Total(rw, FilesIn(rw))
Weight(rw, n) == Total(rw, Below(rw, {n}) \intersect FilesIn(rw))

\* No file, now or later: a folder, the top, or a node that has gone
NotFile(x) == x \in past \union {Top} /\ x \notin Files

\* A row has the size of the content already, and the account has not.
Ahead(q) ==
  \/ Head(q.todo) = "charge"
  \/ Head(q.todo) = "chunk" /\ q.op \in {"dav", "offline", "request"}
  \/ Head(q.todo) = "upload" /\ q.op = "request"

\* The bytes of a node have been given back, and the node is there.
Refunded(q) == Head(q.todo) = "delete" \/ (Head(q.todo) = "objects" /\ q.op = "purge")

\* What the request has to charge still, or has given back too early
Owed(r) ==
  LET q == req[r]
  IN  IF q.op = "copy" THEN q.size + q.prev
      ELSE IF Ahead(q) THEN q.size - q.prev
      ELSE IF Refunded(q) THEN Weight(row, q.node)
      ELSE 0

\* The row of n, while there is one, is as it was loaded, and a file has nothing below.
Loaded(n, size, folder) ==
  /\ n \in past
  /\ n \in Rows => row[n].size = size /\ row[n].folder = folder
  /\ ~folder => \A m \in Rows : row[m].parent # n

\* Folders that have been copied, with their copies
Pairs == Nodes \X {x \in Nodes : NotFile(x)}

\* What request r relies on: the row it is at is as it takes it to be, and nothing will be
\* put below a file.
Steady(r) ==
  LET q == req[r]
      at == Head(q.todo)
  IN  /\ q.op \in {"document", "dav", "offline", "request"} => q.prev = 0
      /\ at \in {"count", "quota", "insert"} => NotFile(q.parent)
      /\ at \in {"load", "version", "upload", "drop", "chunk", "size"} /\ q.op \in Writers
           => q.node \in Files /\ (Ahead(q) \/ row[q.node].size = q.prev)
      /\ q.op = "copy" =>
           /\ at = "copies" => q.prev = 0
           /\ \A w \in q.work : NotFile(w.parent)
           /\ q.queue \in Seq(Pairs)
      /\ q.op = "admin" => \A w \in q.work : Current(w) /\ NotFile(w.row.parent)
      /\ q.op \in {"purge", "replace"} =>
           /\ Loaded(q.node, q.size, IsFolder(q))
           /\ \A w \in q.work : Loaded(w.src, w.row.size, w.row.folder)

\* No row is below a file, nor will one come there through the link.
Upright ==
  /\ \A m \in Rows : NotFile(row[m].parent)
  /\ link # None => NotFile(link.folder)

\* Between requests the account is within the files; a request that has given bytes back
\* or has bytes to charge leaves room for them.
PaidInv ==
  /\ used \in Int
  /\ regular =>
       /\ Upright
       /\ Idle => used <= Worth(row)
       /\ \A r \in Requests : req[r] # None => Steady(r) /\ used + Owed(r) <= Worth(row)

\* The same, when request r is the only one there may be
Sole(r) ==
  /\ DriveInv /\ LinkInv /\ regular /\ used \in Int /\ Upright
  /\ \A s \in Requests : req[s] # None => s = r
  /\ req[r] = None => used <= Worth(row)
  /\ req[r] # None => Steady(r) /\ used + Owed(r) <= Worth(row)

LEMMA SoleBefore ==
  ASSUME DriveInv, LinkInv, PaidInv, NEW r \in Requests, regular, req[r] # None \/ Idle
  PROVE  Sole(r)
<1>1. \A s \in Requests : req[s] # None => s = r
  BY DEF DriveInv, Serial, Idle
<1>2. req[r] = None => Idle
  OBVIOUS
<1>3. QED
  BY <1>1, <1>2 DEF Sole, PaidInv

\* The invariant after a step of the only request
LEMMA PaidAfter ==
  ASSUME NEW r \in Requests, Sole(r), Alone(r), used' \in Int,
         regular' => Upright',
         regular' /\ req'[r] = None => used' <= Worth(row'),
         regular' /\ req'[r] # None => Steady(r)' /\ used' + Owed(r)' <= Worth(row')
  PROVE  PaidInv'
<1>1. \A s \in Requests : req'[s] # None => s = r
  BY DEF Sole, Alone
<1>2. Idle' => req'[r] = None
  BY DEF Idle
<1>3. regular' => \A s \in Requests : req'[s] # None =>
        Steady(s)' /\ used' + Owed(s)' <= Worth(row')
  BY <1>1
<1>4. QED
  BY <1>2, <1>3 DEF PaidInv

\* Folders are no files, and rows have been there.
LEMMA FolderFacts ==
  ASSUME RowsKnown
  PROVE  /\ Rows \subseteq past /\ Rows \subseteq Nodes /\ Files \subseteq Rows
         /\ NotFile(Top) /\ \A p \in LiveFolders : NotFile(p)
         /\ \A n \in Rows : row[n] \in Row
<1>1. Rows \subseteq past /\ Rows \subseteq Nodes /\ Files \subseteq Rows
  BY DEF RowsKnown, Rows, Files
<1>2. Top \notin Nodes
  BY DriveAssumption
<1>3. NotFile(Top) /\ \A p \in LiveFolders : NotFile(p)
  BY <1>1, <1>2 DEF NotFile, LiveFolders, Live, Folders
<1>4. \A n \in Rows : row[n] \in Row
  BY DEF RowsKnown, Rows
<1>5. QED
  BY <1>1, <1>3, <1>4

\* Sums are numbers.
LEMMA SumTypes ==
  ASSUME RowsKnown
  PROVE  Worth(row) \in Nat /\ \A n : Weight(row, n) \in Nat
<1>1. row \in [Nodes -> Row \union {None}]
  BY DEF RowsKnown
<1>2. \A n : Below(row, {n}) \intersect FilesIn(row) \subseteq FilesIn(row)
  OBVIOUS
<1>3. QED
  BY <1>1, <1>2, RowsSized DEF Worth, Weight

\* A request owes something, and only an edit may owe less than nothing.
LEMMA OwedType ==
  ASSUME DriveInv, NEW r \in Requests, req[r] # None
  PROVE  /\ Owed(r) \in Int
         /\ req[r].op # "edit" /\ Steady(r) => Owed(r) >= 0
<1> DEFINE q == req[r]
<1>1. OnWay(q, past) /\ q.size \in Nat /\ q.prev \in Nat /\ Has(q.op, Head(q.todo))
  BY LeftFacts DEF DriveInv, Serial, OnWay
<1>2. Weight(row, q.node) \in Nat
  BY SumTypes DEF DriveInv
<1>3. Ahead(q) /\ q.op # "edit" => q.op \in {"document", "dav", "offline", "request"}
  BY <1>1 DEF Ahead, Has, Writers
<1>4. Steady(r) /\ q.op \in {"document", "dav", "offline", "request"} => q.prev = 0
  BY DEF Steady
<1> HIDE DEF q
<1>5. QED
  BY <1>1, <1>2, <1>3, <1>4 DEF Owed, q

\* What holds of rows that are as they were
LEMMA RowsSame ==
  ASSUME UNCHANGED <<row, past>>
  PROVE  /\ Rows' = Rows /\ Files' = Files /\ (\A x : NotFile(x)' <=> NotFile(x))
         /\ \A n, s, f : Loaded(n, s, f)' <=> Loaded(n, s, f)
         /\ Pairs' = Pairs
         /\ Upright /\ (link' # None => link # None /\ link'.folder = link.folder) => Upright'
<1>1. Rows' = Rows /\ Files' = Files
  BY DEF Rows, Files
<1>2. \A x : NotFile(x)' <=> NotFile(x)
  BY <1>1 DEF NotFile
<1>3. \A n, s, f : Loaded(n, s, f)' <=> Loaded(n, s, f)
  BY <1>1 DEF Loaded
<1>4. Pairs' = Pairs
  BY <1>2 DEF Pairs
<1>5. ASSUME Upright, link' # None => link # None /\ link'.folder = link.folder
      PROVE  Upright'
  <2>1. \A m \in Rows' : NotFile(row[m].parent)'
    BY <1>1, <1>2, <1>5 DEF Upright
  <2>2. link' # None => NotFile(link.folder)'
    BY <1>1, <1>5 DEF Upright, NotFile
  <2>3. QED
    BY <2>1, <2>2 DEF Upright
<1>6. QED
  BY <1>1, <1>2, <1>3, <1>4, <1>5

-----------------------------------------------------------------------------
\* Requests begin, and go on without a change of the rows.

\* The fields of a new request
LEMMA RequestIs ==
  ASSUME NEW op, NEW n, NEW p, NEW s
  PROVE  LET q == Request(op, n, p, s)
         IN  /\ DOMAIN q = Fields
             /\ q.op = op /\ q.todo = Awaits[op] /\ q.node = n /\ q.parent = p /\ q.size = s
             /\ q.prev = 0 /\ q.keys = {} /\ q.count = 0 /\ q.work = {} /\ q.queue = <<>>
BY DEF Request, Fields

\* A request begins that owes nothing.
LEMMA PaidBegins ==
  ASSUME NEW r \in Requests, Sole(r),
         \/ BeginDocument(r) \/ BeginPut(r) \/ BeginOfflineDownload(r)
         \/ BeginUploadToRequest(r) \/ BeginUpdateContent(r) \/ BeginCreateVersion(r)
         \/ BeginCopy(r) \/ BeginPurge(r) \/ BeginReplace(r) \/ BeginDeleteFileAdmin(r)
  PROVE  PaidInv'
<1>0. DriveInv /\ RowsKnown /\ Upright /\ used \in Int
  BY DEF Sole, DriveInv
<1>1. /\ Alone(r) /\ req[r] = None /\ UNCHANGED <<row, past, used, link>>
  BY <1>0, BeginFacts DEF nodeVars, linkVars
<1>2. /\ Rows' = Rows /\ Files' = Files /\ (\A x : NotFile(x)' <=> NotFile(x))
      /\ (\A n, s, f : Loaded(n, s, f)' <=> Loaded(n, s, f)) /\ Pairs' = Pairs /\ Upright'
  BY <1>0, <1>1, RowsSame
<1>3. /\ Rows \subseteq past /\ Rows \subseteq Nodes /\ Files \subseteq Rows /\ NotFile(Top)
      /\ (\A p \in LiveFolders : NotFile(p)) /\ \A n \in Rows : row[n] \in Row
  BY <1>0, FolderFacts
<1>4. \A n \in Rows : Loaded(n, row[n].size, row[n].folder)
  <2> SUFFICES ASSUME NEW n \in Rows, ~row[n].folder, NEW m \in Rows
               PROVE  row[m].parent # n
    BY <1>3 DEF Loaded
  <2>1. n \in Files
    BY DEF Files
  <2>2. QED
    BY <1>0, <2>1 DEF Upright, NotFile
<1>5. SUFFICES ASSUME regular', req'[r] # None
               PROVE  Steady(r)' /\ Owed(r)' = 0
  <2>1. used <= Worth(row) /\ used' = used /\ Worth(row') = Worth(row) /\ used' + 0 = used
    BY <1>0, <1>1 DEF Sole
  <2>2. QED
    BY <1>0, <1>1, <1>2, <1>5, <2>1, PaidAfter
<1>6. /\ Head(Awaits["document"]) = "insert" /\ Head(Awaits["dav"]) = "insert"
      /\ Head(Awaits["offline"]) = "insert" /\ Head(Awaits["request"]) = "count"
      /\ Head(Awaits["edit"]) = "load" /\ Head(Awaits["version"]) = "load"
      /\ Head(Awaits["copy"]) = "copies" /\ Head(Awaits["purge"]) = "refund"
      /\ Head(Awaits["replace"]) = "objects" /\ Head(Awaits["admin"]) = "save"
  BY PlanFacts
<1> DEFINE q == req'[r]
<1>7. ASSUME q.op \in {"document", "dav", "offline", "request"}, q.prev = 0, NotFile(q.parent),
             Head(q.todo) \in {"insert", "count"}
      PROVE  Steady(r)' /\ Owed(r)' = 0
  <2>1. Owed(r)' = 0
    BY <1>7 DEF Owed, Ahead, Refunded
  <2>2. Steady(r)'
    BY <1>2, <1>7 DEF Steady
  <2>3. QED
    BY <2>1, <2>2
<1>8. \A x, b : Start(r, x, b) => q = x /\ b
  BY <1>0, <1>5 DEF Start, Sole, DriveInv, Serial
<1> HIDE DEF q
<1>9. CASE BeginDocument(r)
  <2>0. PICK p \in LiveFolders : \E s \in Sizes \union {0} :
          LET x == Request("document", None, p, s)
          IN  Start(r, IF s = 0 THEN [x EXCEPT !.todo = <<"insert">>] ELSE x, TRUE)
    BY <1>9 DEF BeginDocument, Begin
  <2>4. PICK s \in Sizes \union {0} :
          LET x == Request("document", None, p, s)
          IN  Start(r, IF s = 0 THEN [x EXCEPT !.todo = <<"insert">>] ELSE x, TRUE)
    BY <2>0
  <2> DEFINE x == Request("document", None, p, s)
             e == IF s = 0 THEN [x EXCEPT !.todo = <<"insert">>] ELSE x
  <2> HIDE DEF e
  <2>5. q = e
    BY <1>8, <2>4 DEF e
  <2>1. q = IF s = 0 THEN [x EXCEPT !.todo = <<"insert">>] ELSE x
    BY <2>5 DEF e
  <2>2. q.op = "document" /\ q.prev = 0 /\ q.parent = p /\ Head(q.todo) = "insert"
    BY <1>6, <2>1, RequestIs DEF Fields
  <2>3. QED
    BY <1>3, <1>7, <2>2
<1>10. CASE BeginPut(r) \/ BeginOfflineDownload(r)
  <2>0. PICK p \in LiveFolders : \E s \in Sizes, op \in {"dav", "offline"} :
          Start(r, Request(op, None, p, s), TRUE)
    BY <1>10 DEF BeginPut, BeginOfflineDownload, Begin
  <2>4. PICK s \in Sizes, op \in {"dav", "offline"} : Start(r, Request(op, None, p, s), TRUE)
    BY <2>0
  <2>1. q = Request(op, None, p, s)
    BY <1>8, <2>4
  <2>2. q.op = op /\ q.prev = 0 /\ q.parent = p /\ Head(q.todo) = "insert"
    BY <1>6, <2>1, RequestIs
  <2>3. QED
    BY <1>3, <1>7, <2>2
<1>11. CASE BeginUploadToRequest(r)
  <2>1. PICK s \in Sizes :
          link # None /\ q = [Request("request", None, link.folder, s) EXCEPT !.count = link.count]
    BY <1>8, <1>11 DEF BeginUploadToRequest, Begin
  <2>2. q.op = "request" /\ q.prev = 0 /\ q.parent = link.folder /\ Head(q.todo) = "count"
    BY <1>6, <2>1, RequestIs DEF Fields
  <2>3. NotFile(link.folder)
    BY <1>0, <2>1 DEF Upright
  <2>4. QED
    BY <1>7, <2>2, <2>3
<1>12. CASE BeginUpdateContent(r)
  <2>1. PICK n \in Files, s \in Sizes :
          q = [Request("edit", n, Top, s) EXCEPT !.prev = row[n].size]
    BY <1>8, <1>12 DEF BeginUpdateContent, Begin
  <2>2. q.op = "edit" /\ q.prev = row[n].size /\ q.node = n /\ Head(q.todo) = "load"
    BY <1>6, <2>1, RequestIs DEF Fields
  <2>3. Owed(r)' = 0
    BY <2>2 DEF Owed, Ahead, Refunded, q
  <2>4. Steady(r)'
    BY <1>1, <1>2, <2>2 DEF Steady, q
  <2>5. QED
    BY <2>3, <2>4
<1>13. CASE BeginCreateVersion(r)
  <2>0. PICK n \in Files : Start(r, Request("version", n, Top, 0), TRUE)
    BY <1>13 DEF BeginCreateVersion, Begin
  <2>1. q = Request("version", n, Top, 0)
    BY <1>8, <2>0
  <2>2. q.op = "version" /\ Head(q.todo) = "load"
    BY <1>6, <2>1, RequestIs
  <2>3. Owed(r)' = 0
    BY <2>2 DEF Owed, Ahead, Refunded, q
  <2>4. Steady(r)'
    BY <2>2 DEF Steady, Writers, q
  <2>5. QED
    BY <2>3, <2>4
<1>14. CASE BeginCopy(r)
  <2>1. PICK n \in Live, p \in Rows \union {Top} :
          p \notin Files /\ q = [Request("copy", None, p, 0) EXCEPT !.work = {Item(n, p)}]
    BY <1>8, <1>14 DEF BeginCopy
  <2>2. /\ q.op = "copy" /\ q.prev = 0 /\ q.size = 0 /\ q.work = {Item(n, p)} /\ q.queue = <<>>
        /\ Head(q.todo) = "copies"
    BY <1>6, <2>1, RequestIs DEF Fields
  <2>3. NotFile(p) /\ Item(n, p).parent = p
    BY <1>3, <2>1 DEF NotFile, Item
  <2>4. Owed(r)' = 0
    BY <2>2 DEF Owed, q
  <2>5. Steady(r)'
    <3>1. <<>> \in Seq(Pairs)
      OBVIOUS
    <3>2. QED
      BY <1>2, <2>2, <2>3, <3>1 DEF Steady, Writers, q
  <2>6. QED
    BY <2>4, <2>5
<1>15. CASE BeginDeleteFileAdmin(r)
  <2>1. PICK n \in Live : q = [Request("admin", n, Top, 0) EXCEPT !.work = {Item(n, Top)}]
    BY <1>8, <1>15 DEF BeginDeleteFileAdmin, Begin
  <2>2. q.op = "admin" /\ q.work = {Item(n, Top)} /\ Head(q.todo) = "save"
    BY <1>6, <2>1, RequestIs DEF Fields
  <2>3. /\ n \in Rows /\ Item(n, Top).src = n /\ Item(n, Top).row = row[n]
        /\ NotFile(row[n].parent)
    BY <1>0 DEF Live, Item, Upright
  <2>4. Owed(r)' = 0
    BY <2>2 DEF Owed, Ahead, Refunded, q
  <2>5. Steady(r)'
    BY <1>1, <1>2, <2>2, <2>3 DEF Steady, Current, Writers, q
  <2>6. QED
    BY <2>4, <2>5
<1>16. ASSUME NEW op \in {"purge", "replace"}, NEW S \in SUBSET Rows, NEW n \in S, NEW work,
              \A w \in work : \E m \in S : w = Item(m, Top),
              q = Purging(Request(op, None, Top, 0), Item(n, Top), work)
       PROVE  Steady(r)' /\ Owed(r)' = 0
  <2>1. /\ q.op = op /\ q.node = n /\ q.size = row[n].size /\ q.work \subseteq work
        /\ q.prev = IF row[n].folder THEN 1 ELSE 0
        /\ Head(q.todo) = IF op = "purge" THEN "refund" ELSE "objects"
    BY <1>6, <1>16, RequestIs DEF Purging, Fields, Item
  <2>2. row[n].folder \in BOOLEAN
    BY <1>3 DEF Row
  <2>3. IsFolder(q) = row[n].folder
    BY <2>1, <2>2 DEF IsFolder
  <2>4. \A w \in q.work : Loaded(w.src, w.row.size, w.row.folder)
    BY <1>4, <1>16, <2>1 DEF Item
  <2>5. Loaded(q.node, q.size, IsFolder(q))
    BY <1>4, <2>1, <2>3
  <2>6. Owed(r)' = 0
    BY <2>1 DEF Owed, Ahead, Refunded, q
  <2>7. Steady(r)'
    BY <1>2, <2>1, <2>4, <2>5 DEF Steady, Writers, IsFolder, q
  <2>8. QED
    BY <2>6, <2>7
<1>17. CASE BeginPurge(r)
  <2>0. PICK S \in SUBSET Rows : \E w \in {Item(n, Top) : n \in S} :
          Start(r, Purging(Request("purge", None, Top, 0), w, {Item(n, Top) : n \in S}), TRUE)
    BY <1>17 DEF BeginPurge, Begin
  <2>1. PICK n \in S :
          Start(r, Purging(Request("purge", None, Top, 0), Item(n, Top), {Item(m, Top) : m \in S}), TRUE)
    BY <2>0
  <2>2. q = Purging(Request("purge", None, Top, 0), Item(n, Top), {Item(m, Top) : m \in S})
    BY <1>8, <2>1
  <2>3. QED
    BY <1>16, <2>2
<1>18. CASE BeginReplace(r)
  <2>0. PICK n \in Live : Start(r, Purging(Request("replace", None, Top, 0), Item(n, Top), {}), TRUE)
    BY <1>18 DEF BeginReplace, Begin
  <2>1. q = Purging(Request("replace", None, Top, 0), Item(n, Top), {})
    BY <1>8, <2>0
  <2>2. {n} \in SUBSET Rows /\ n \in {n}
    BY DEF Live
  <2>3. QED
    BY <1>16, <2>1, <2>2
<1>19. QED
  BY <1>9, <1>10, <1>11, <1>12, <1>13, <1>14, <1>15, <1>17, <1>18

\* What the only request is, on its way
LEMMA SoleFacts ==
  ASSUME NEW r \in Requests, Sole(r), req[r] # None
  PROVE  /\ DriveInv /\ RowsKnown /\ LinkInv /\ Upright /\ used \in Int /\ regular
         /\ Steady(r) /\ used + Owed(r) <= Worth(row) /\ Worth(row) \in Nat /\ Owed(r) \in Int
         /\ OnWay(req[r], past) /\ Has(req[r].op, Head(req[r].todo))
         /\ req[r].size \in Nat /\ req[r].prev \in Nat
<1>1. DriveInv /\ RowsKnown /\ LinkInv /\ Upright /\ used \in Int /\ regular
  BY DEF Sole, DriveInv
<1>2. Steady(r) /\ used + Owed(r) <= Worth(row)
  BY DEF Sole
<1>3. OnWay(req[r], past)
  BY <1>1 DEF DriveInv, Serial
<1>4. Has(req[r].op, Head(req[r].todo)) /\ req[r].size \in Nat /\ req[r].prev \in Nat
  BY <1>3, LeftFacts DEF OnWay
<1>5. Worth(row) \in Nat /\ Owed(r) \in Int
  BY <1>1, SumTypes, OwedType
<1>6. QED
  BY <1>1, <1>2, <1>3, <1>4, <1>5

\* A step that leaves the rows, the account and what the request owes
LEMMA QuietPaid ==
  ASSUME NEW r \in Requests, Sole(r), req[r] # None, Alone(r), UNCHANGED <<row, past, used>>,
         link' # None => link # None /\ link'.folder = link.folder,
         Head(req[r].todo) \in
           {"count", "quota", "load", "version", "upload", "drop", "chunk", "objects"},
         req'[r] # None =>
           LET p == req'[r]
               q == req[r]
           IN  /\ p.op = q.op /\ p.node = q.node /\ p.size = q.size /\ p.prev = q.prev
               /\ Head(q.todo) # "load" => p.parent = q.parent /\ p.work = q.work
               /\ (Ahead(p) <=> Ahead(q)) /\ (Refunded(p) <=> Refunded(q))
               /\ Head(p.todo) \in {"count", "quota", "insert"} =>
                    Head(q.todo) \in {"count", "quota"}
               /\ Head(p.todo) \in {"load", "version", "upload", "drop", "chunk", "size"} =>
                    Head(q.todo) \in {"load", "version", "upload", "drop", "chunk"}
  PROVE  PaidInv'
<1> DEFINE q == req[r]
           p == req'[r]
<1>0. /\ DriveInv /\ RowsKnown /\ LinkInv /\ Upright /\ used \in Int /\ regular
      /\ Steady(r) /\ used + Owed(r) <= Worth(row) /\ Worth(row) \in Nat /\ Owed(r) \in Int
      /\ Has(q.op, Head(q.todo))
  BY SoleFacts
<1>1. /\ Rows' = Rows /\ Files' = Files /\ (\A x : NotFile(x)' <=> NotFile(x))
      /\ (\A n, s, f : Loaded(n, s, f)' <=> Loaded(n, s, f)) /\ Upright'
  BY <1>0, RowsSame
<1>2. q.op \notin {"copy", "admin"}
  BY <1>0 DEF Has, Writers
<1>3. Owed(r) >= 0
  <2>1. CASE q.op = "edit"
    <3>1. ~Ahead(q) /\ ~Refunded(q)
      BY <1>0, <2>1 DEF Ahead, Refunded, Has
    <3>2. QED
      BY <2>1, <3>1 DEF Owed
  <2>2. QED
    BY <1>0, <2>1, OwedType
<1>4. ASSUME p # None
      PROVE  Owed(r)' = Owed(r)
  BY <1>4 DEF Owed, IsFolder
<1>5. ASSUME p # None
      PROVE  Steady(r)'
  <2>1. /\ p.op = q.op /\ p.node = q.node /\ p.size = q.size /\ p.prev = q.prev
        /\ (Ahead(p) <=> Ahead(q))
        /\ IsFolder(p) = IsFolder(q)
        /\ Head(p.todo) \in {"count", "quota", "insert"} =>
             Head(q.todo) \in {"count", "quota"} /\ p.parent = q.parent
        /\ Head(p.todo) \in {"load", "version", "upload", "drop", "chunk", "size"} =>
             Head(q.todo) \in {"load", "version", "upload", "drop", "chunk"}
        /\ q.op \in {"purge", "replace"} => p.work = q.work
    BY <1>0, <1>5 DEF IsFolder, Has
  <2>2. /\ q.op \in {"document", "dav", "offline", "request"} => q.prev = 0
        /\ Head(q.todo) \in {"count", "quota"} => NotFile(q.parent)
        /\ Head(q.todo) \in {"load", "version", "upload", "drop", "chunk"} /\ q.op \in Writers
             => q.node \in Files /\ (Ahead(q) \/ row[q.node].size = q.prev)
        /\ q.op \in {"purge", "replace"} =>
             /\ Loaded(q.node, q.size, IsFolder(q))
             /\ \A w \in q.work : Loaded(w.src, w.row.size, w.row.folder)
    BY <1>0 DEF Steady
  <2> HIDE DEF p, q
  <2>3. /\ p.op \in {"document", "dav", "offline", "request"} => p.prev = 0
        /\ Head(p.todo) \in {"count", "quota", "insert"} => NotFile(p.parent)
        /\ Head(p.todo) \in {"load", "version", "upload", "drop", "chunk", "size"} /\ p.op \in Writers
             => p.node \in Files /\ (Ahead(p) \/ row[p.node].size = p.prev)
        /\ p.op \in {"purge", "replace"} =>
             /\ Loaded(p.node, p.size, IsFolder(p))
             /\ \A w \in p.work : Loaded(w.src, w.row.size, w.row.folder)
        /\ p.op \notin {"copy", "admin"}
    BY <1>2, <2>1, <2>2
  <2>4. QED
    BY <1>1, <2>3 DEF Steady, p
<1>6. used' \in Int /\ used' <= Worth(row')
  BY <1>0, <1>3
<1>7. p # None => used' + Owed(r)' <= Worth(row')
  BY <1>0, <1>4
<1>8. QED
  BY <1>1, <1>5, <1>6, <1>7, PaidAfter

\* Counts, quotas, chunks, objects and versions
LEMMA PaidQuietly ==
  ASSUME NEW r \in Requests, Sole(r),
         \/ SaveCount(r) \/ OwnerQuota(r) \/ Upload(r) \/ SaveChunk(r) \/ DropChunks(r)
         \/ LoadChunks(r) \/ SaveVersion(r) \/ DeleteObjects(r)
  PROVE  PaidInv'
<1> DEFINE q == req[r]
           at == Head(q.todo)
<1>0. DriveInv /\ LinkInv /\ req[r] # None /\ Has(q.op, at)
  <2>1. req[r] # None
    BY DEF SaveCount, OwnerQuota, Upload, SaveChunk, DropChunks, LoadChunks, SaveVersion,
       DeleteObjects, At
  <2>2. QED
    BY <2>1, SoleFacts
<1>1. /\ UNCHANGED <<row, past, used>>
      /\ at \in {"count", "quota", "load", "version", "upload", "drop", "chunk", "objects"}
  <2>1. CASE SaveCount(r) \/ OwnerQuota(r) \/ Upload(r) \/ LoadChunks(r) \/ DeleteObjects(r)
    BY <2>1 DEF SaveCount, OwnerQuota, Upload, LoadChunks, DeleteObjects, At, nodeVars
  <2>2. CASE SaveChunk(r) \/ DropChunks(r) \/ SaveVersion(r)
    BY <2>2 DEF SaveChunk, DropChunks, SaveVersion, At
  <2>3. QED
    BY <2>1, <2>2
<1>2. link' # None => link # None /\ link'.folder = link.folder
  <2>1. CASE SaveCount(r)
    <3>1. q.op = "request"
      BY <1>0, <2>1 DEF SaveCount, At, Has
    <3>2. link # None /\ link \in Link
      BY <1>0, <3>1 DEF LinkInv
    <3>3. link' = [link EXCEPT !.count = q.count + 1]
      BY <2>1 DEF SaveCount
    <3>4. QED
      BY <3>2, <3>3 DEF Link
  <2>2. CASE \/ OwnerQuota(r) \/ Upload(r) \/ SaveChunk(r) \/ DropChunks(r)
             \/ LoadChunks(r) \/ SaveVersion(r) \/ DeleteObjects(r)
    BY <2>2 DEF OwnerQuota, Upload, LoadChunks, DeleteObjects, SaveChunk, DropChunks,
       SaveVersion, linkVars
  <2>3. QED
    BY <2>1, <2>2
<1>3. CASE LoadChunks(r)
  <2>1. at = "load"
    BY <1>3 DEF LoadChunks, At
  <2>2. /\ Alone(r)
        /\ req'[r] # None =>
              /\ req'[r].op = q.op /\ req'[r].node = q.node
              /\ req'[r].size = q.size /\ req'[r].prev = q.prev
              /\ Head(req'[r].todo) \in {"version", "upload"}
              /\ Head(req'[r].todo) = "upload" => q.op = "edit"
    BY <1>0, <1>3, LoadWent
  <2>3. req'[r] # None => /\ ~Ahead(req'[r]) /\ ~Ahead(q)
                          /\ ~Refunded(req'[r]) /\ ~Refunded(q)
    BY <2>1, <2>2 DEF Ahead, Refunded
  <2> HIDE DEF q
  <2>4. QED
    BY <1>0, <1>1, <1>2, <2>1, <2>2, <2>3, QuietPaid DEF q
<1>4. CASE ~LoadChunks(r)
  <2>1. Alone(r) /\
        (req'[r] # None =>
           LET p == req'[r]
           IN  /\ p.op = q.op /\ p.node = q.node /\ p.parent = q.parent
               /\ p.size = q.size /\ p.prev = q.prev /\ p.work = q.work
               /\ Follows(q.op, at, Head(p.todo)))
    <3>1. CASE Upload(r)
      <4>1. Went(r, [q EXCEPT !.keys = {KeyOf(q.node)}])
        BY <1>0, <3>1, UploadWent
      <4>2. DOMAIN q = Fields
        BY <1>0 DEF DriveInv, Serial, OnWay
      <4>3. QED
        BY <4>1, <4>2 DEF Went, SameBut, Fields
    <3>2. CASE ~Upload(r)
      <4>1. Went(r, q)
        BY <1>0, <1>4, <3>2, PlainWent
      <4>2. QED
        BY <4>1 DEF Went, SameBut
    <3>3. QED
      BY <3>1, <3>2
  <2>2. at # "load"
    BY <1>4 DEF SaveCount, OwnerQuota, Upload, SaveChunk, DropChunks, LoadChunks, SaveVersion,
       DeleteObjects, At
  <2> DEFINE p == req'[r]
             next == Head(p.todo)
  <2>3. ASSUME p # None
        PROVE  /\ (Ahead(p) <=> Ahead(q)) /\ (Refunded(p) <=> Refunded(q))
               /\ next \in {"count", "quota", "insert"} => at \in {"count", "quota"}
               /\ next \in {"load", "version", "upload", "drop", "chunk", "size"} =>
                    at \in {"load", "version", "upload", "drop", "chunk"}
    <3>1. p.op = q.op /\ Follows(q.op, at, next) /\ Has(q.op, at)
      BY <1>0, <2>1, <2>3
    <3> HIDE DEF p, q
    <3>2. CASE at \in {"count", "quota", "drop", "version"}
      BY <3>1, <3>2 DEF Ahead, Refunded, Follows, Has
    <3>3. CASE at \in {"upload", "chunk"}
      BY <3>1, <3>3 DEF Ahead, Refunded, Follows, Has, Writers
    <3>4. CASE at = "objects"
      BY <3>1, <3>4 DEF Ahead, Refunded, Follows, Has
    <3>5. QED
      BY <1>1, <2>2, <3>2, <3>3, <3>4
  <2> HIDE DEF q
  <2>4. QED
    BY <1>0, <1>1, <1>2, <2>1, <2>3, QuietPaid DEF q
<1>5. QED
  BY <1>3, <1>4

-----------------------------------------------------------------------------
\* What is written is there before it is charged.

\* One more row
LEMMA RowAdded ==
  ASSUME RowsKnown, NEW n \in Nodes \ past, NEW f \in BOOLEAN, NEW p \in Places, NEW s \in Nat,
         row' = [row EXCEPT ![n] = NewRow(f, p, s)], past' = past \union {n}
  PROVE  /\ Rows' = Rows \union {n} /\ Files' = IF f THEN Files ELSE Files \union {n}
         /\ n \notin Rows /\ row'[n].size = s /\ \A m \in Nodes \ {n} : row'[m] = row[m]
         /\ (\A x : NotFile(x) => NotFile(x)') /\ (f => NotFile(n)')
         /\ Worth(row') = Worth(row) + IF f THEN 0 ELSE s
         /\ Upright /\ NotFile(p) /\ link' = link => Upright'
<1>0. /\ NewRow(f, p, s) \in Row /\ NewRow(f, p, s) # None
      /\ NewRow(f, p, s).folder = f /\ NewRow(f, p, s).size = s /\ NewRow(f, p, s).parent = p
  BY NewRowFacts DEF NewRow
<1>1. /\ row \in [Nodes -> Row \union {None}] /\ row' \in [Nodes -> Row \union {None}]
      /\ row'[n] = NewRow(f, p, s) /\ \A m \in Nodes \ {n} : row'[m] = row[m]
      /\ row[n] = None
  BY <1>0 DEF RowsKnown
<1>2. Rows' = Rows \union {n} /\ n \notin Rows /\ Files' = IF f THEN Files ELSE Files \union {n}
  BY <1>0, <1>1 DEF Rows, Files
<1>3. /\ Rows \subseteq past /\ Rows \subseteq Nodes /\ Files \subseteq Rows
  BY FolderFacts
<1>4. \A x : NotFile(x) => NotFile(x)'
  <2> SUFFICES ASSUME NEW x, NotFile(x)
               PROVE  NotFile(x)'
    OBVIOUS
  <2>1. x # n
    BY DriveAssumption DEF NotFile
  <2>2. QED
    BY <1>2, <2>1 DEF NotFile
<1>5. f => NotFile(n)'
  BY <1>2, <1>3 DEF NotFile
<1>6. Worth(row') = Worth(row) + IF f THEN 0 ELSE s
  <2>1. Files = FilesIn(row) /\ Files' = FilesIn(row') /\ Worth(row) \in Nat
    BY SizeIs, SumTypes
  <2>2. \A m \in FilesIn(row) : row'[m].size = row[m].size
    BY <1>1, <1>2, <1>3, <2>1
  <2>3. CASE f
    <3>1. FilesIn(row') = FilesIn(row)
      BY <1>2, <2>1, <2>3
    <3>2. Worth(row') = Worth(row)
      BY <1>1, <2>2, <3>1, SumStays DEF Worth
    <3>3. QED
      BY <2>1, <2>3, <3>2
  <2>4. CASE ~f
    <3>1. n \notin FilesIn(row) /\ FilesIn(row') = FilesIn(row) \union {n}
      BY <1>2, <1>3, <2>1, <2>4
    <3>2. Worth(row') = Worth(row) + row'[n].size
      BY <1>1, <2>2, <3>1, SumGrows DEF Worth
    <3>3. QED
      BY <1>0, <1>1, <2>4, <3>2
  <2>5. QED
    BY <2>3, <2>4
<1>7. ASSUME Upright, NotFile(p), link' = link
      PROVE  Upright'
  <2>1. \A m \in Rows' : NotFile(row'[m].parent)
    BY <1>0, <1>1, <1>2, <1>3, <1>7 DEF Upright
  <2>2. link # None => NotFile(link.folder)
    BY <1>7 DEF Upright
  <2>3. QED
    BY <1>4, <1>7, <2>1, <2>2 DEF Upright
<1>8. QED
  BY <1>0, <1>1, <1>2, <1>4, <1>5, <1>6, <1>7

\* Rows go, and the others are as they were.
LEMMA RowsRemoved ==
  ASSUME RowsKnown, NEW S, DeleteRows(S), link' = link
  PROVE  /\ Rows' \subseteq Rows /\ Files' \subseteq Files
         /\ (\A x : NotFile(x) => NotFile(x)')
         /\ (\A n, s, f : Loaded(n, s, f) => Loaded(n, s, f)')
         /\ Worth(row') \in Nat
         /\ Worth(row) = Worth(row') + Total(row, S \intersect FilesIn(row))
         /\ Upright => Upright'
<1>0. /\ row' = [n \in Nodes |-> IF n \in S THEN None ELSE row[n]] /\ past' = past
  BY DEF DeleteRows
<1>1. row \in [Nodes -> Row \union {None}] /\ row' \in [Nodes -> Row \union {None}]
  BY <1>0 DEF RowsKnown
<1>2. /\ Rows' \subseteq Rows /\ Files' \subseteq Files /\ \A n \in Rows' : row'[n] = row[n]
  BY <1>0 DEF Rows, Files
<1>3. \A x : NotFile(x) => NotFile(x)'
  BY <1>0, <1>2 DEF NotFile
<1>4. \A n, s, f : Loaded(n, s, f) => Loaded(n, s, f)'
  BY <1>0, <1>2 DEF Loaded
<1>5. Worth(row') \in Nat
  BY <1>1, RowsSized DEF Worth
<1>6. Worth(row) = Worth(row') + Total(row, S \intersect FilesIn(row))
  BY <1>0, <1>1, SumShrinks DEF Worth
<1>7. ASSUME Upright
      PROVE  Upright'
  <2>1. \A m \in Rows' : NotFile(row'[m].parent)
    BY <1>2, <1>7 DEF Upright
  <2>2. link # None => NotFile(link.folder)
    BY <1>7 DEF Upright
  <2>3. QED
    BY <1>3, <2>1, <2>2 DEF Upright
<1>8. QED
  BY <1>2, <1>3, <1>4, <1>5, <1>6, <1>7

\* What is at a node and below weighs no more than its file, if it was one.
LEMMA FileWeighs ==
  ASSUME RowsKnown, NEW n, NEW s \in Nat, Loaded(n, s, FALSE)
  PROVE  /\ Weight(row, n) <= s
         /\ Weight(row, n) = Total(row, Subtree({n}) \intersect FilesIn(row))
<1>0. row \in [Nodes -> Row \union {None}] /\ Files = FilesIn(row) /\ Files \subseteq Rows
  BY SizeIs, FolderFacts DEF RowsKnown
<1>1. Kids(row, {n}) = {}
  BY DEF Kids, Loaded, Rows
<1>2. Below(row, {n}) = {n}
  BY <1>1, LeafBelow
<1>3. CASE n \in FilesIn(row)
  <2>1. {n} \intersect FilesIn(row) = {n} /\ {n} \ {n} = {}
    BY <1>3
  <2>2. Total(row, {n}) = row[n].size + Total(row, {n} \ {n})
    BY <1>0, <1>3, RowsSized, TotalTakes
  <2>3. Total(row, {}) = 0
    BY TotalSteps, FS_EmptySet
  <2>4. row[n].size = s
    BY <1>0, <1>3 DEF Loaded
  <2>5. QED
    BY <1>2, <2>1, <2>2, <2>3, <2>4, SubtreeIs DEF Weight
<1>4. CASE n \notin FilesIn(row)
  <2>1. {n} \intersect FilesIn(row) = {}
    BY <1>4
  <2>2. Total(row, {}) = 0
    BY TotalSteps, FS_EmptySet
  <2>3. QED
    BY <1>2, <2>1, <2>2, SubtreeIs DEF Weight
<1>5. QED
  BY <1>3, <1>4

\* A node is inserted below a folder or the top.
LEMMA PaidInserts ==
  ASSUME NEW r \in Requests, Sole(r), InsertNode(r)
  PROVE  PaidInv'
<1> DEFINE q == req[r]
           s == IF q.op = "request" THEN q.size ELSE 0
<1>1. At(r, "insert") /\ used' = used /\ link' = link
  BY DEF InsertNode
<1>2. /\ DriveInv /\ RowsKnown /\ Upright /\ used \in Int /\ Steady(r)
      /\ used + Owed(r) <= Worth(row) /\ Worth(row) \in Nat /\ Has(q.op, "insert")
      /\ q.size \in Nat /\ OnWay(q, past) /\ Head(q.todo) = "insert"
  BY <1>1, SoleFacts DEF At
<1>3. Owed(r) = 0 /\ q.op \in {"document", "dav", "offline", "request"} /\ q.prev = 0 /\ NotFile(q.parent)
  BY <1>2 DEF Has, Owed, Ahead, Refunded, Steady
<1>4. used <= Worth(row)
  BY <1>2, <1>3
<1>5. CASE Alone(r) /\ req'[r] = None /\ UNCHANGED <<row, past>>
  <2>1. Upright'
    BY <1>1, <1>2, <1>5, RowsSame
  <2>2. QED
    BY <1>1, <1>2, <1>4, <1>5, <2>1, PaidAfter
<1>6. ASSUME NEW n \in Nodes \ past, Went(r, [q EXCEPT !.node = n]), q.parent \in Places,
             row' = [row EXCEPT ![n] = NewRow(FALSE, q.parent, s)], past' = past \union {n}
      PROVE  PaidInv'
  <2>0. s \in Nat
    BY <1>2
  <2>1. /\ Files' = Files \union {n} /\ row'[n].size = s /\ Worth(row') = Worth(row) + s /\ Upright'
    BY <1>1, <1>2, <1>3, <1>6, <2>0, RowAdded
  <2>2. Alone(r)
    BY <1>6 DEF Went
  <2>3. ASSUME req'[r] # None
        PROVE  Steady(r)' /\ Owed(r)' = s
    <3> DEFINE p == req'[r]
    <3>1. /\ p.op = q.op /\ p.size = q.size /\ p.prev = 0 /\ p.node = n /\ Head(p.todo) = "upload"
      BY <1>2, <1>3, <1>6, <2>3 DEF Went, SameBut, Follows, OnWay, Fields
    <3>2. (Ahead(p) <=> q.op = "request") /\ ~Refunded(p)
      BY <3>1 DEF Ahead, Refunded
    <3>3. Owed(r)' = s
      BY <1>2, <1>3, <3>1, <3>2 DEF Owed
    <3>4. p.op \in Writers
      BY <1>3, <3>1 DEF Writers
    <3>5. Steady(r)'
      BY <1>3, <2>1, <3>1, <3>2, <3>4 DEF Steady
    <3>6. QED
      BY <3>3, <3>5
  <2>4. used' \in Int /\ used' <= Worth(row') /\ used' + s <= Worth(row')
    BY <1>1, <1>2, <1>4, <2>0, <2>1
  <2>5. QED
    BY <2>1, <2>2, <2>3, <2>4, PaidAfter
<1>7. QED
  BY <1>2, <1>5, <1>6, InsertWent

\* The upload has failed, and an offline download takes its row of no bytes away.
LEMMA PaidUploadFails ==
  ASSUME NEW r \in Requests, Sole(r), UploadFails(r)
  PROVE  PaidInv'
<1> DEFINE q == req[r]
<1>1. At(r, "upload") /\ used' = used /\ link' = link /\ Finish(r)
  BY DEF UploadFails, linkVars
<1>2. /\ DriveInv /\ RowsKnown /\ Upright /\ used \in Int /\ Steady(r)
      /\ used + Owed(r) <= Worth(row) /\ Worth(row) \in Nat /\ Owed(r) \in Int
      /\ Has(q.op, "upload") /\ Head(q.todo) = "upload"
  BY <1>1, SoleFacts DEF At
<1>3. Alone(r) /\ req'[r] = None
  BY <1>1, <1>2 DEF Finish, Alone, DriveInv, Serial
<1>4. Owed(r) >= 0
  <2>1. q.op = "edit" => Owed(r) = 0
    BY <1>2 DEF Owed, Ahead, Refunded
  <2>2. QED
    BY <1>1, <1>2, <2>1, OwedType DEF At
<1>5. used <= Worth(row)
  BY <1>2, <1>4
<1>6. CASE q.op # "offline"
  <2>1. UNCHANGED <<row, past>>
    BY <1>6 DEF UploadFails, nodeVars
  <2>2. Upright'
    BY <1>1, <1>2, <2>1, RowsSame
  <2>3. QED
    BY <1>1, <1>2, <1>3, <1>5, <2>1, <2>2, PaidAfter
<1>7. CASE q.op = "offline"
  <2>1. DeleteRows(Subtree({q.node}))
    BY <1>7 DEF UploadFails
  <2>2. q.node \in Files /\ row[q.node].size = 0
    BY <1>2, <1>7 DEF Steady, Ahead, Writers
  <2>3. Loaded(q.node, 0, FALSE)
    BY <1>2, <2>2, FolderFacts DEF Loaded, Files, Upright, NotFile, Row
  <2>4. Weight(row, q.node) = Total(row, Subtree({q.node}) \intersect FilesIn(row))
        /\ Weight(row, q.node) <= 0
    BY <1>2, <2>3, FileWeighs
  <2>5. /\ Worth(row') \in Nat /\ Upright'
        /\ Worth(row) = Worth(row') + Total(row, Subtree({q.node}) \intersect FilesIn(row))
    BY <1>1, <1>2, <2>1, RowsRemoved
  <2>6. Weight(row, q.node) \in Nat
    BY <1>2, SumTypes
  <2>7. used' <= Worth(row')
    BY <1>1, <1>2, <1>5, <2>4, <2>5, <2>6
  <2>8. QED
    BY <1>1, <1>2, <1>3, <2>5, <2>7, PaidAfter
<1>8. QED
  BY <1>6, <1>7

\* A size is written, which the account is to be charged with.
LEMMA PaidSizes ==
  ASSUME DOMAIN None # Fields, NEW r \in Requests, Sole(r), SetSize(r)
  PROVE  PaidInv'
<1> DEFINE q == req[r]
           p == req'[r]
           n == q.node
<1>1. /\ At(r, "size") /\ used' = used /\ link' = link /\ past' = past /\ Go(r, q)
      /\ row' = IF n \in Rows THEN [row EXCEPT ![n].size = q.size] ELSE row
  BY DEF SetSize, linkVars
<1>2. /\ DriveInv /\ RowsKnown /\ Upright /\ used \in Int /\ Steady(r)
      /\ used + Owed(r) <= Worth(row) /\ Worth(row) \in Nat /\ OnWay(q, past)
      /\ Has(q.op, "size") /\ Head(q.todo) = "size" /\ q.size \in Nat /\ q.prev \in Nat
  BY <1>1, SoleFacts DEF At
<1>3. Owed(r) = 0 /\ n \in Files /\ row[n].size = q.prev
  <2>1. ~Ahead(q) /\ ~Refunded(q) /\ q.op \in Writers
    BY <1>2 DEF Has, Ahead, Refunded
  <2>2. QED
    BY <1>2, <2>1 DEF Owed, Steady, Writers
<1>4. /\ n \in Rows /\ n \in Nodes /\ row \in [Nodes -> Row \union {None}] /\ row[n] \in Row
      /\ Files = FilesIn(row)
  BY <1>2, <1>3, FolderFacts, SizeIs DEF RowsKnown
<1>5. /\ row' \in [Nodes -> Row \union {None}] /\ row'[n].size = q.size
      /\ row'[n].folder = row[n].folder /\ row'[n].parent = row[n].parent
      /\ row'[n] # None /\ \A m \in Nodes \ {n} : row'[m] = row[m]
  <2>1. [row[n] EXCEPT !.size = q.size] \in Row
    BY <1>2, <1>4 DEF Row
  <2>2. row'[n] = [row[n] EXCEPT !.size = q.size]
    BY <1>1, <1>4
  <2>3. QED
    BY <1>1, <1>4, <2>1, <2>2, RowAssumption DEF Row
<1>6. /\ Rows' = Rows /\ Files' = Files /\ Files' = FilesIn(row')
      /\ \A x : NotFile(x)' <=> NotFile(x)
  <2>1. \A m \in Nodes : /\ row'[m] # None <=> row[m] # None
                         /\ row[m] # None => row'[m].folder = row[m].folder
    BY <1>4, <1>5 DEF Rows
  <2>2. Rows' = Rows
    BY <2>1 DEF Rows
  <2>3. Files' = Files
    BY <2>1, <2>2 DEF Rows, Files
  <2>4. \A x : NotFile(x)' <=> NotFile(x)
    BY <1>1, <2>3 DEF NotFile
  <2>5. QED
    BY <2>2, <2>3, <2>4, SizeIs
<1>7. Worth(row') = Worth(row) + q.size - q.prev
  <2>1. FilesIn(row) \subseteq Nodes
    BY DEF FilesIn
  <2>2. \A m \in FilesIn(row) \ {n} : row'[m].size = row[m].size
    BY <1>5, <2>1
  <2>3. n \in FilesIn(row) /\ FilesIn(row') = FilesIn(row)
    BY <1>3, <1>4, <1>6
  <2>4. Worth(row') = Worth(row) + row'[n].size - row[n].size
    BY <1>4, <1>5, <2>2, <2>3, SumChanges DEF Worth
  <2>5. QED
    BY <1>3, <1>5, <2>4
<1>8. Upright'
  <2>1. \A m \in Rows : row'[m].parent = row[m].parent
    BY <1>4, <1>5 DEF Rows
  <2>2. (\A m \in Rows : NotFile(row'[m].parent)) /\ (link # None => NotFile(link.folder))
    BY <1>2, <2>1 DEF Upright
  <2>3. QED
    BY <1>1, <1>6, <2>2 DEF Upright
<1>9. Went(r, q) /\ Alone(r)
  BY <1>2, PlainWent DEF Went
<1>10. p # None
  BY <1>1, <1>2, GoOn DEF DriveInv
<1>11. /\ p.op = q.op /\ p.size = q.size /\ p.prev = q.prev /\ p.node = n /\ p.op \in Writers \ {"request"}
       /\ Head(p.todo) = IF q.op \in {"document", "edit"} THEN "charge" ELSE "chunk"
  BY <1>2, <1>9, <1>10 DEF Went, SameBut, Follows, Has
<1>12. Ahead(p) /\ p.op # "copy"
  BY <1>11 DEF Ahead, Writers
<1>13. Owed(r)' = q.size - q.prev
  BY <1>11, <1>12 DEF Owed
<1>14. Steady(r)'
  <2>1. p.op \in {"document", "dav", "offline", "request"} => p.prev = 0
    BY <1>2, <1>11 DEF Steady
  <2>2. p.node \in Files' /\ p.op \notin {"copy", "admin", "purge", "replace"}
        /\ Head(p.todo) \notin {"count", "quota", "insert"}
    BY <1>3, <1>6, <1>11 DEF Writers
  <2>3. QED
    BY <1>12, <2>1, <2>2 DEF Steady
<1>15. used' \in Int /\ used' + Owed(r)' <= Worth(row')
  BY <1>1, <1>2, <1>3, <1>7, <1>13
<1>16. QED
  BY <1>8, <1>9, <1>10, <1>14, <1>15, PaidAfter

\* The account is charged with what has been written.
LEMMA PaidCharges ==
  ASSUME NEW r \in Requests, Sole(r), Charge(r)
  PROVE  PaidInv'
<1> DEFINE q == req[r]
<1>1. /\ At(r, "charge") /\ used' = used + q.size - q.prev /\ UNCHANGED <<row, past, link>>
  BY DEF Charge, nodeVars, linkVars
<1>2. /\ DriveInv /\ RowsKnown /\ Upright /\ used \in Int
      /\ used + Owed(r) <= Worth(row) /\ Worth(row) \in Nat
      /\ Has(q.op, "charge") /\ Head(q.todo) = "charge" /\ q.size \in Nat /\ q.prev \in Nat
  BY <1>1, SoleFacts DEF At
<1>3. Owed(r) = q.size - q.prev
  BY <1>2 DEF Owed, Ahead, Has, Writers
<1>4. Alone(r) /\ req'[r] = None
  BY <1>2, PlainWent DEF Went, Follows
<1>5. Upright'
  BY <1>1, <1>2, RowsSame
<1>6. used' \in Int /\ used' <= Worth(row')
  BY <1>1, <1>2, <1>3
<1>7. QED
  BY <1>4, <1>5, <1>6, PaidAfter

-----------------------------------------------------------------------------
\* Copies are charged at the end.

\* What a copy is, on its way
LEMMA CopyFacts ==
  ASSUME NEW r \in Requests, Sole(r), req[r] # None, Head(req[r].todo) \in {"copies", "chunks"}
  PROVE  LET q == req[r]
         IN  /\ q.op = "copy" /\ Owed(r) = q.size + q.prev /\ Owed(r) >= 0
             /\ Head(q.todo) = "copies" => q.prev = 0
             /\ \A w \in q.work : NotFile(w.parent) /\ w.src \in Nodes /\ w.row \in Row
             /\ q.queue \in Seq(Pairs)
<1> DEFINE q == req[r]
<1>1. /\ Steady(r) /\ Has(q.op, Head(q.todo)) /\ q.size \in Nat /\ q.prev \in Nat
      /\ OnWay(q, past) /\ RowsKnown
  BY SoleFacts
<1>2. q.op = "copy"
  BY <1>1 DEF Has
<1>3. Owed(r) = q.size + q.prev
  BY <1>2 DEF Owed
<1>4. \A w \in q.work : w.src \in Nodes /\ w.row \in Row
  BY <1>1 DEF OnWay, RowsKnown
<1>5. /\ Head(q.todo) = "copies" => q.prev = 0
      /\ \A w \in q.work : NotFile(w.parent)
      /\ q.queue \in Seq(Pairs)
  BY <1>1, <1>2 DEF Steady
<1> HIDE DEF q
<1>6. QED
  BY <1>1, <1>2, <1>3, <1>4, <1>5 DEF q

\* A copy goes on as it has to.
LEMMA CopyGoesOn ==
  ASSUME NEW r \in Requests, req'[r].op = "copy", req'[r].size \in Nat, req'[r].prev \in Nat,
         Head(req'[r].todo) \in {"copies", "chunks"},
         Head(req'[r].todo) = "copies" => req'[r].prev = 0,
         \A w \in req'[r].work : NotFile(w.parent)',
         req'[r].queue \in Seq(Pairs')
  PROVE  Steady(r)' /\ Owed(r)' = req'[r].size + req'[r].prev
<1>1. Owed(r)' = req'[r].size + req'[r].prev
  BY DEF Owed
<1>2. Steady(r)'
  BY DEF Steady, Writers
<1>3. QED
  BY <1>1, <1>2

\* A row is copied below a folder or the top.
LEMMA PaidCopiesRow ==
  ASSUME NEW r \in Requests, Sole(r), CopyRow(r)
  PROVE  PaidInv'
<1> DEFINE q == req[r]
           p == req'[r]
<1>1. At(r, "copies") /\ used' = used /\ link' = link
  BY DEF CopyRow, linkVars
<1>2. /\ DriveInv /\ RowsKnown /\ Upright /\ used \in Int
      /\ used + Owed(r) <= Worth(row) /\ Worth(row) \in Nat /\ q.size \in Nat
  BY <1>1, SoleFacts DEF At
<1>3. /\ Owed(r) = q.size + q.prev /\ q.prev = 0
      /\ \A w \in q.work : NotFile(w.parent) /\ w.src \in Nodes /\ w.row \in Row
      /\ q.queue \in Seq(Pairs)
  BY <1>1, CopyFacts DEF At
<1>4. Alone(r)
  BY <1>2, CopyRowWent
<1>5. used + q.size <= Worth(row) /\ used <= Worth(row)
  BY <1>2, <1>3
<1>6. CASE req'[r] = None /\ UNCHANGED <<row, past>>
  <2>1. Upright'
    BY <1>1, <1>2, <1>6, RowsSame
  <2>2. QED
    BY <1>1, <1>2, <1>4, <1>5, <1>6, <2>1, PaidAfter
<1>7. ASSUME NEW w \in q.work, NEW n \in Nodes \ past,
             row' = [row EXCEPT ![n] = NewRow(w.row.folder, w.parent, w.row.size)],
             w.parent \in Places, past' = past \union {n},
             p # None =>
               /\ p.op = "copy" /\ p.work = q.work \ {w} /\ p.size = q.size
               /\ w.row.folder =>
                    /\ Head(p.todo) = "copies" /\ p.prev = q.prev
                    /\ p.queue = Append(q.queue, <<w.src, n>>)
               /\ ~w.row.folder =>
                    /\ Head(p.todo) = "chunks" /\ p.queue = q.queue
                    /\ p.prev = w.row.size
      PROVE  PaidInv'
  <2>1. /\ w.row.folder \in BOOLEAN /\ w.row.size \in Nat /\ NotFile(w.parent) /\ w.src \in Nodes
    BY <1>3 DEF Row
  <2>2. /\ (\A x : NotFile(x) => NotFile(x)') /\ (w.row.folder => NotFile(n)') /\ Upright'
        /\ Worth(row') = Worth(row) + IF w.row.folder THEN 0 ELSE w.row.size
    <3> DEFINE f == w.row.folder
               s == w.row.size
               u == w.parent
    <3>1. /\ row' = [row EXCEPT ![n] = NewRow(f, u, s)] /\ past' = past \union {n}
          /\ f \in BOOLEAN /\ s \in Nat /\ u \in Places /\ NotFile(u)
      BY <1>7, <2>1
    <3> HIDE DEF f, s, u
    <3>2. /\ (\A x : NotFile(x) => NotFile(x)') /\ (f => NotFile(n)') /\ Upright'
          /\ Worth(row') = Worth(row) + IF f THEN 0 ELSE s
      BY <1>1, <1>2, <3>1, RowAdded
    <3>3. QED
      BY <3>2 DEF f, s
  <2>3. Pairs \subseteq Pairs'
    BY <2>2 DEF Pairs
  <2>4. q.queue \in Seq(Pairs')
    BY <1>3, <2>3
  <2>5. ASSUME p # None
        PROVE  Steady(r)' /\ used' + Owed(r)' <= Worth(row')
    <3>1. \A v \in p.work : NotFile(v.parent)'
      BY <1>3, <1>7, <2>2, <2>5
    <3>2. CASE w.row.folder
      <4>1. <<w.src, n>> \in Pairs'
        BY <2>1, <2>2, <3>2 DEF Pairs
      <4>2. p.queue \in Seq(Pairs')
        <5>1. Append(q.queue, <<w.src, n>>) \in Seq(Pairs')
          BY <2>4, <4>1
        <5>2. QED
          BY <1>7, <2>5, <3>2, <5>1
      <4>3. Steady(r)' /\ Owed(r)' = p.size + p.prev
        <5>1. p.op = "copy" /\ Head(p.todo) = "copies" /\ p.size = q.size /\ p.prev = q.prev
          BY <1>7, <2>5, <3>2
        <5>2. p.size \in Nat /\ p.prev \in Nat /\ p.prev = 0
          BY <1>2, <1>3, <5>1
        <5>3. QED
          BY <3>1, <4>2, <5>1, <5>2, CopyGoesOn
      <4>4. QED
        <5>1. p.size = q.size /\ p.prev = 0 /\ q.size + 0 = q.size
          BY <1>2, <1>3, <1>7, <2>5, <3>2
        <5>2. Owed(r)' = q.size
          BY <4>3, <5>1
        <5>3. Worth(row') = Worth(row)
          BY <1>2, <2>2, <3>2
        <5>4. QED
          BY <1>1, <1>5, <4>3, <5>2, <5>3
    <3>3. CASE ~w.row.folder
      <4>1. Steady(r)' /\ Owed(r)' = p.size + p.prev
        <5>1. /\ p.op = "copy" /\ Head(p.todo) = "chunks" /\ p.queue = q.queue
              /\ p.size \in Nat /\ p.prev \in Nat
          BY <1>2, <1>7, <2>1, <2>5, <3>3
        <5>2. QED
          BY <2>4, <3>1, <5>1, CopyGoesOn
      <4>2. QED
        BY <1>1, <1>2, <1>5, <1>7, <2>1, <2>2, <2>5, <3>3, <4>1
    <3>4. QED
      BY <3>2, <3>3
  <2>6. used' \in Int /\ used' <= Worth(row')
    BY <1>1, <1>2, <1>5, <2>1, <2>2
  <2>7. QED
    BY <1>4, <2>2, <2>5, <2>6, PaidAfter
<1>8. QED
  BY <1>2, <1>6, <1>7, CopyRowWent

\* The chunks of the copy are written, and its bytes counted.
LEMMA PaidCopiesChunks ==
  ASSUME NEW r \in Requests, Sole(r), CopyChunks(r)
  PROVE  PaidInv'
<1> DEFINE q == req[r]
           p == req'[r]
<1>1. At(r, "chunks") /\ UNCHANGED <<row, past, used, link>>
  BY DEF CopyChunks, linkVars
<1>2. /\ DriveInv /\ RowsKnown /\ Upright /\ used \in Int
      /\ used + Owed(r) <= Worth(row) /\ Worth(row) \in Nat /\ q.size \in Nat /\ q.prev \in Nat
  BY <1>1, SoleFacts DEF At
<1>3. /\ Owed(r) = q.size + q.prev
      /\ \A w \in q.work : NotFile(w.parent)
      /\ q.queue \in Seq(Pairs)
  BY <1>1, CopyFacts DEF At
<1>4. /\ Alone(r)
      /\ p # None =>
           /\ p.op = q.op /\ Head(p.todo) = "copies" /\ p.work = q.work /\ p.queue = q.queue
           /\ p.size = q.size + q.prev /\ p.prev = 0
  BY <1>2, CopyChunksWent
<1>5. (\A x : NotFile(x)' <=> NotFile(x)) /\ Pairs' = Pairs /\ Upright'
  BY <1>1, <1>2, RowsSame
<1>6. q.op = "copy"
  BY <1>1, CopyFacts DEF At
<1>7. ASSUME p # None
      PROVE  Steady(r)' /\ used' + Owed(r)' <= Worth(row')
  <2>1. p.size \in Nat /\ p.prev \in Nat /\ p.size + p.prev = q.size + q.prev
    BY <1>2, <1>4, <1>7
  <2>2. Steady(r)' /\ Owed(r)' = p.size + p.prev
    BY <1>3, <1>4, <1>5, <1>6, <1>7, <2>1, CopyGoesOn
  <2>3. QED
    BY <1>1, <1>2, <1>3, <2>1, <2>2
<1>8. used' \in Int /\ used' <= Worth(row')
  BY <1>1, <1>2, <1>3
<1>9. QED
  BY <1>4, <1>5, <1>7, <1>8, PaidAfter

\* The next folder is taken apart; its children will be copied into its copy.
LEMMA PaidCopiesFolder ==
  ASSUME NEW r \in Requests, Sole(r), CopyFolder(r)
  PROVE  PaidInv'
<1> DEFINE q == req[r]
           p == req'[r]
<1>1. At(r, "copies") /\ UNCHANGED <<row, past, used, link>>
  BY DEF CopyFolder, nodeVars, linkVars
<1>2. /\ DriveInv /\ RowsKnown /\ Upright /\ used \in Int
      /\ used + Owed(r) <= Worth(row) /\ Worth(row) \in Nat /\ q.size \in Nat /\ q.prev \in Nat
  BY <1>1, SoleFacts DEF At
<1>3. /\ Owed(r) = q.size + q.prev /\ q.prev = 0
      /\ q.queue \in Seq(Pairs)
  BY <1>1, CopyFacts DEF At
<1>4. /\ Alone(r)
      /\ p # None =>
           /\ p.op = "copy" /\ Head(p.todo) = "copies"
           /\ \A w \in p.work : \E n \in Rows : w = Item(n, Head(q.queue)[2])
           /\ q.queue # <<>> /\ p.queue = Tail(q.queue)
           /\ p.size = q.size /\ p.prev = q.prev
  BY <1>2, CopyFolderWent
<1>5. (\A x : NotFile(x)' <=> NotFile(x)) /\ Pairs' = Pairs /\ Upright'
  BY <1>1, <1>2, RowsSame
<1>6. ASSUME p # None
      PROVE  Steady(r)' /\ used' + Owed(r)' <= Worth(row')
  <2>1. Head(q.queue) \in Pairs /\ Tail(q.queue) \in Seq(Pairs)
    <3>1. q.queue # <<>>
      BY <1>4, <1>6
    <3>2. QED
      BY <1>3, <3>1
  <2>2. NotFile(Head(q.queue)[2])
    BY <2>1 DEF Pairs
  <2>3. \A w \in p.work : NotFile(w.parent)'
    BY <1>4, <1>5, <1>6, <2>2 DEF Item
  <2>4. p.queue \in Seq(Pairs')
    BY <1>4, <1>5, <1>6, <2>1
  <2>5. Steady(r)' /\ Owed(r)' = p.size + p.prev
    BY <1>2, <1>3, <1>4, <1>6, <2>3, <2>4, CopyGoesOn
  <2>6. QED
    BY <1>1, <1>2, <1>3, <1>4, <1>6, <2>5
<1>7. used' \in Int /\ used' <= Worth(row')
  BY <1>1, <1>2, <1>3
<1>8. QED
  BY <1>4, <1>5, <1>6, <1>7, PaidAfter

\* The account is charged with all that has been copied.
LEMMA PaidCopies ==
  ASSUME NEW r \in Requests, Sole(r), EndCopy(r)
  PROVE  PaidInv'
<1> DEFINE q == req[r]
<1>1. At(r, "copies") /\ used' = used + q.size /\ UNCHANGED <<row, past, link>> /\ Finish(r)
  BY DEF EndCopy, nodeVars, linkVars
<1>2. /\ DriveInv /\ RowsKnown /\ Upright /\ used \in Int
      /\ used + Owed(r) <= Worth(row) /\ Worth(row) \in Nat /\ q.size \in Nat
  BY <1>1, SoleFacts DEF At
<1>3. Owed(r) = q.size + q.prev /\ q.prev = 0
  BY <1>1, CopyFacts DEF At
<1>4. Alone(r) /\ req'[r] = None
  BY <1>1, <1>2 DEF Finish, Alone, DriveInv, Serial
<1>5. Upright'
  BY <1>1, <1>2, RowsSame
<1>6. used' \in Int /\ used' <= Worth(row')
  BY <1>1, <1>2, <1>3
<1>7. QED
  BY <1>4, <1>5, <1>6, PaidAfter

-----------------------------------------------------------------------------
\* What is purged has been given back before.

\* Bytes are given back for a node that is there: no fewer than it weighs.
LEMMA PaidRefunds ==
  ASSUME NEW r \in Requests, Sole(r), Refund(r)
  PROVE  PaidInv'
<1> DEFINE q == req[r]
           p == req'[r]
<1>1. /\ At(r, "refund") /\ UNCHANGED <<row, past, link>>
      /\ used' = IF ~IsFolder(q) THEN used - q.size
                 ELSE IF q.op = "purge" THEN used - SizeOf(Subtree({q.node})) ELSE used
  BY DEF Refund, nodeVars, linkVars
<1>2. regular' => ~(IsFolder(q) /\ q.op = "replace")
  BY Zenon DEF Refund
<1>3. /\ DriveInv /\ RowsKnown /\ Upright /\ used \in Int /\ Steady(r)
      /\ used + Owed(r) <= Worth(row) /\ Worth(row) \in Nat /\ q.size \in Nat
      /\ Has(q.op, "refund") /\ Head(q.todo) = "refund"
  BY <1>1, SoleFacts DEF At
<1>4. q.op \in {"purge", "replace"} /\ Owed(r) = 0
  BY <1>3 DEF Has, Owed, Ahead, Refunded
<1>5. /\ Loaded(q.node, q.size, IsFolder(q))
      /\ \A w \in q.work : Loaded(w.src, w.row.size, w.row.folder)
  BY <1>3, <1>4 DEF Steady
<1>6. Weight(row, q.node) \in Nat /\ SizeOf(Subtree({q.node})) = Weight(row, q.node)
  BY <1>3, SumTypes, SizeIs, SubtreeIs DEF Weight
<1>7. used' \in Int /\ (regular' => used' + Weight(row, q.node) <= Worth(row))
  <2>1. CASE ~IsFolder(q)
    <3>1. Loaded(q.node, q.size, FALSE)
      BY <1>5, <2>1 DEF IsFolder
    <3>2. Weight(row, q.node) <= q.size
      BY <1>3, <3>1, FileWeighs
    <3>3. QED
      BY <1>1, <1>3, <1>4, <1>6, <2>1, <3>2
  <2>2. CASE IsFolder(q)
    BY <1>1, <1>2, <1>3, <1>4, <1>6, <2>2
  <2>3. QED
    BY <2>1, <2>2
<1>8. Went(r, q)
  BY <1>3, PlainWent
<1>9. /\ (\A n, s, f : Loaded(n, s, f)' <=> Loaded(n, s, f)) /\ Upright'
  BY <1>1, <1>3, RowsSame
<1>10. ASSUME p # None
       PROVE  Steady(r)' /\ Owed(r)' = Weight(row, q.node)
  <2>1. /\ p.op = q.op /\ p.node = q.node /\ p.size = q.size /\ p.prev = q.prev /\ p.work = q.work
        /\ Head(p.todo) = IF q.op = "purge" THEN "objects" ELSE "delete"
    BY <1>3, <1>8, <1>10 DEF Went, SameBut, Follows
  <2>2. Refunded(p) /\ ~Ahead(p) /\ p.op \notin Writers /\ p.op \in {"purge", "replace"}
    BY <1>4, <2>1 DEF Refunded, Ahead, Writers
  <2>3. Owed(r)' = Weight(row, q.node)
    BY <1>1, <2>1, <2>2 DEF Owed, Writers
  <2>4. Steady(r)'
    BY <1>5, <1>9, <2>1, <2>2 DEF Steady, IsFolder, Writers
  <2>5. QED
    BY <2>3, <2>4
<1>11. regular' => used' <= Worth(row)
  BY <1>3, <1>6, <1>7
<1>12. QED
  BY <1>1, <1>7, <1>8, <1>9, <1>10, <1>11, PaidAfter DEF Went

\* The node goes, with all below it, and the purge goes on with the next.
LEMMA PaidDeletes ==
  ASSUME NEW r \in Requests, Sole(r), DeleteNode(r)
  PROVE  PaidInv'
<1> DEFINE q == req[r]
           p == req'[r]
<1>1. At(r, "delete") /\ UNCHANGED <<used, link>>
  BY DEF DeleteNode, linkVars
<1>2. /\ DriveInv /\ RowsKnown /\ Upright /\ used \in Int /\ Steady(r)
      /\ used + Owed(r) <= Worth(row) /\ Worth(row) \in Nat
      /\ Has(q.op, "delete") /\ Head(q.todo) = "delete" /\ OnWay(q, past)
  BY <1>1, SoleFacts DEF At
<1>3. q.op \in {"purge", "replace"} /\ Owed(r) = Weight(row, q.node)
  BY <1>2 DEF Has, Owed, Ahead, Refunded
<1>4. \A w \in q.work : Loaded(w.src, w.row.size, w.row.folder) /\ w.row \in Row
  BY <1>2, <1>3 DEF Steady, OnWay
<1>5. /\ Alone(r) /\ DeleteRows(Subtree({q.node}))
      /\ p # None => \E w \in q.work : p = Purging(q, w, q.work)
  BY <1>2, DeleteNodeWent
<1>6. /\ (\A n, s, f : Loaded(n, s, f) => Loaded(n, s, f)') /\ Upright' /\ Worth(row') \in Nat
      /\ Worth(row) = Worth(row') + Total(row, Subtree({q.node}) \intersect FilesIn(row))
  BY <1>1, <1>2, <1>5, RowsRemoved
<1>7. Total(row, Subtree({q.node}) \intersect FilesIn(row)) = Weight(row, q.node)
      /\ Weight(row, q.node) \in Nat
  BY <1>2, SubtreeIs, SumTypes DEF Weight
<1>8. used' \in Int /\ used' <= Worth(row') /\ used' + 0 <= Worth(row')
  BY <1>1, <1>2, <1>3, <1>6, <1>7
<1>9. ASSUME p # None
      PROVE  Steady(r)' /\ Owed(r)' = 0
  <2>1. PICK w \in q.work : p = Purging(q, w, q.work)
    BY <1>5, <1>9
  <2>2. DOMAIN q = Fields
    BY <1>2 DEF OnWay
  <2>3. /\ p.op = q.op /\ p.node = w.src /\ p.size = w.row.size /\ p.work \subseteq q.work
        /\ p.prev = IF w.row.folder THEN 1 ELSE 0
        /\ p.todo = Awaits[q.op]
    BY <2>1, <2>2 DEF Purging, Fields
  <2>4. Head(p.todo) = IF q.op = "purge" THEN "refund" ELSE "objects"
    BY <1>3, <2>3, PlanFacts
  <2>5. IsFolder(p) = w.row.folder
    BY <1>4, <2>3 DEF IsFolder, Row
  <2>6. \A n, s, f : n = p.node /\ s = p.size /\ f = IsFolder(p) => Loaded(n, s, f)'
    BY <1>4, <1>6, <2>3, <2>5
  <2>7. \A v \in p.work : Loaded(v.src, v.row.size, v.row.folder)'
    BY <1>4, <1>6, <2>3
  <2>8. Owed(r)' = 0
    BY <1>3, <2>3, <2>4 DEF Owed, Ahead, Refunded
  <2>9. Steady(r)'
    <3>1. /\ p.op \in {"purge", "replace"} /\ p.op \notin Writers
          /\ Head(p.todo) \in {"refund", "objects"}
      BY <1>3, <2>3, <2>4 DEF Writers
    <3>2. Loaded(req[r].node, req[r].size, IsFolder(req[r]))'
      BY <2>6
    <3>3. \A v \in p.work : Loaded(v.src, v.row.size, v.row.folder)'
      BY <2>7
    <3>4. QED
      BY <3>1, <3>2, <3>3 DEF Steady, Writers
  <2>10. QED
    BY <2>8, <2>9
<1>10. QED
  BY <1>5, <1>6, <1>8, <1>9, PaidAfter

\* The administrator's entity is written over a row of the same size.
LEMMA PaidTrashes ==
  ASSUME NEW r \in Requests, Sole(r), SaveTrashed(r)
  PROVE  PaidInv'
<1> DEFINE q == req[r]
<1>1. At(r, "save") /\ UNCHANGED <<used, link, past>>
  BY DEF SaveTrashed, linkVars
<1>2. /\ DriveInv /\ RowsKnown /\ Upright /\ used \in Int /\ Steady(r)
      /\ used + Owed(r) <= Worth(row) /\ Worth(row) \in Nat
      /\ Has(q.op, "save") /\ Head(q.todo) = "save" /\ OnWay(q, past)
  BY <1>1, SoleFacts DEF At
<1>3. q.op = "admin" /\ Owed(r) = 0
  BY <1>2 DEF Has, Owed, Ahead, Refunded
<1>4. \A w \in q.work : Current(w) /\ NotFile(w.row.parent) /\ w.row \in Row
  BY <1>2, <1>3 DEF Steady, OnWay
<1>5. Alone(r) /\ req'[r] = None
  BY <1>2, PlainWent DEF Went, Follows
<1>6. used' \in Int /\ used' <= Worth(row)
  BY <1>1, <1>2, <1>3
<1>7. CASE UNCHANGED row
  <2>1. Upright'
    BY <1>1, <1>2, <1>7, RowsSame
  <2>2. QED
    BY <1>5, <1>6, <1>7, <2>1, PaidAfter
<1>8. ASSUME NEW w \in q.work, row' = [row EXCEPT ![w.src] = [w.row EXCEPT !.trashed = TRUE]]
      PROVE  PaidInv'
  <2> DEFINE n == w.src
             v == [w.row EXCEPT !.trashed = TRUE]
  <2>1. /\ n \in Rows /\ n \in Nodes /\ row[n].size = v.size /\ row[n].folder = v.folder
        /\ NotFile(v.parent) /\ v # None
    BY <1>4, RowAssumption DEF Current, Row, Rows
  <2>2. /\ row \in [Nodes -> Row \union {None}] /\ row'[n] = v
        /\ \A m \in Nodes \ {n} : row'[m] = row[m]
    BY <1>2, <1>8, <2>1 DEF RowsKnown
  <2> HIDE DEF n, v
  <2>3. \A m \in Nodes : /\ row'[m] # None <=> row[m] # None
                         /\ row[m] # None =>
                              /\ row'[m].folder = row[m].folder /\ row'[m].size = row[m].size
    BY <2>1, <2>2 DEF Rows
  <2>4. Rows' = Rows
    BY <2>3 DEF Rows
  <2>5. Files' = Files
    BY <2>3, <2>4 DEF Files, Rows
  <2>6. \A x : NotFile(x)' <=> NotFile(x)
    BY <1>1, <2>5 DEF NotFile
  <2>7. Worth(row') = Worth(row)
    <3>1. FilesIn(row') = FilesIn(row)
      BY <2>5, SizeIs
    <3>2. \A m \in FilesIn(row) : row'[m].size = row[m].size
      BY <2>3 DEF FilesIn
    <3>3. QED
      BY <2>2, <3>1, <3>2, SumStays DEF Worth
  <2>8. Upright'
    <3>1. \A m \in Rows : NotFile(row'[m].parent)
      BY <1>2, <2>1, <2>2 DEF Upright, Rows
    <3>2. link # None => NotFile(link.folder)
      BY <1>2 DEF Upright
    <3>3. QED
      BY <1>1, <2>4, <2>6, <3>1, <3>2 DEF Upright
  <2>9. QED
    BY <1>5, <1>6, <2>7, <2>8, PaidAfter
<1>9. QED
  BY <1>7, <1>8 DEF SaveTrashed

\* What a request does
LEMMA PaidStep ==
  ASSUME DOMAIN None # Fields, DriveInv, LinkInv, PaidInv, NEW r \in Requests, Handler(r)
  PROVE  PaidInv'
<1>1. CASE ~regular'
  <2>1. used \in Int
    BY DEF PaidInv
  <2>2. used' \in Int
    <3>1. CASE \/ BeginDocument(r) \/ BeginPut(r) \/ BeginOfflineDownload(r)
               \/ BeginUploadToRequest(r) \/ BeginUpdateContent(r) \/ BeginCreateVersion(r)
               \/ BeginCopy(r) \/ BeginPurge(r) \/ BeginReplace(r) \/ BeginDeleteFileAdmin(r)
      BY <2>1, <3>1, BeginFacts
    <3>2. CASE \/ SaveCount(r) \/ OwnerQuota(r) \/ InsertNode(r) \/ Upload(r) \/ UploadFails(r)
               \/ SaveChunk(r) \/ DropChunks(r) \/ SetSize(r) \/ LoadChunks(r) \/ SaveVersion(r)
               \/ CopyRow(r) \/ CopyChunks(r) \/ CopyFolder(r) \/ DeleteObjects(r)
               \/ DeleteNode(r) \/ SaveTrashed(r)
      BY <2>1, <3>2 DEF SaveCount, OwnerQuota, InsertNode, Upload, UploadFails, SaveChunk,
         DropChunks, SetSize, LoadChunks, SaveVersion, CopyRow, CopyChunks, CopyFolder,
         DeleteObjects, DeleteNode, SaveTrashed
    <3>3. CASE Charge(r) \/ EndCopy(r) \/ Refund(r)
      <4>1. OnWay(req[r], past)
        BY <3>3 DEF DriveInv, Serial, Charge, EndCopy, Refund, At
      <4>2. req[r].size \in Int /\ req[r].prev \in Int
        BY <4>1 DEF OnWay
      <4>3. SizeOf(Subtree({req[r].node})) \in Int
        <5>1. SizeOf(Subtree({req[r].node})) = Weight(row, req[r].node)
          BY SizeIs, SubtreeIs DEF Weight
        <5>2. QED
          BY <5>1, SumTypes DEF DriveInv
      <4>4. QED
        BY <2>1, <3>3, <4>2, <4>3 DEF Charge, EndCopy, Refund
    <3>4. QED
      BY <3>1, <3>2, <3>3 DEF Handler
  <2>3. QED
    BY <1>1, <2>2 DEF PaidInv
<1>2. CASE regular'
  <2>1. Sole(r)
    BY <1>2, HandlerAlone, SoleBefore
  <2>2. CASE \/ BeginDocument(r) \/ BeginPut(r) \/ BeginOfflineDownload(r)
             \/ BeginUploadToRequest(r) \/ BeginUpdateContent(r) \/ BeginCreateVersion(r)
             \/ BeginCopy(r) \/ BeginPurge(r) \/ BeginReplace(r) \/ BeginDeleteFileAdmin(r)
    BY <2>1, <2>2, PaidBegins
  <2>3. CASE \/ SaveCount(r) \/ OwnerQuota(r) \/ Upload(r) \/ SaveChunk(r) \/ DropChunks(r)
             \/ LoadChunks(r) \/ SaveVersion(r) \/ DeleteObjects(r)
    BY <2>1, <2>3, PaidQuietly
  <2>4. CASE \/ InsertNode(r) \/ UploadFails(r) \/ SetSize(r) \/ Charge(r)
    BY <2>1, <2>4, PaidInserts, PaidUploadFails, PaidSizes, PaidCharges
  <2>5. CASE \/ CopyRow(r) \/ CopyChunks(r) \/ CopyFolder(r) \/ EndCopy(r)
    BY <2>1, <2>5, PaidCopiesRow, PaidCopiesChunks, PaidCopiesFolder, PaidCopies
  <2>6. CASE Refund(r) \/ DeleteNode(r) \/ SaveTrashed(r)
    BY <2>1, <2>6, PaidRefunds, PaidDeletes, PaidTrashes
  <2>7. QED
    BY <2>2, <2>3, <2>4, <2>5, <2>6 DEF Handler
<1>3. QED
  BY <1>1, <1>2

-----------------------------------------------------------------------------
\* What no request does

\* Nothing that weighs comes below a node.
LEMMA WeighsLess ==
  ASSUME NEW rw \in [Nodes -> Row \union {None}], NEW rv \in [Nodes -> Row \union {None}], NEW M,
         FilesIn(rv) = FilesIn(rw), \A n \in FilesIn(rw) : n \notin M /\ rv[n].size = rw[n].size,
         \A n \in Nodes \ M : rv[n] # None => rw[n] # None /\ rw[n].parent = rv[n].parent,
         \A n \in Nodes : rv[n] # None => rv[n].parent \notin M
  PROVE  \A n : Weight(rv, n) <= Weight(rw, n)
<1> SUFFICES ASSUME NEW n
             PROVE  Weight(rv, n) <= Weight(rw, n)
  OBVIOUS
<1> DEFINE S == Below(rv, {n}) \intersect FilesIn(rv)
           T == Below(rw, {n}) \intersect FilesIn(rw)
<1>1. Below(rv, {n}) \subseteq Below(rw, {n}) \union M
  BY BelowGains
<1>2. S \subseteq T /\ S \subseteq FilesIn(rw) /\ T \subseteq FilesIn(rw)
  BY <1>1
<1> HIDE DEF S, T
<1>3. IsFiniteSet(S)
  BY <1>2, RowsSized DEF Sized
<1>4. \A m \in S : rv[m].size = rw[m].size
  BY <1>2
<1>5. Total(rv, S) = Total(rw, S)
  BY <1>3, <1>4, TotalSame
<1>6. Total(rw, S) <= Total(rw, T)
  BY <1>2, PartWeighs
<1>7. QED
  BY <1>5, <1>6 DEF Weight, S, T

\* What no request does: files stay as they are, and nothing is put below one.
LEMMA PaidBeside ==
  ASSUME PaidInv, regular, UNCHANGED <<used, req>>, DriveInv, Upright',
         past \subseteq past', Rows \subseteq Rows', Files' = Files,
         \A n \in Rows : row'[n].size = row[n].size /\ row'[n].folder = row[n].folder,
         \A x : NotFile(x) => NotFile(x)',
         \A n, s, f : Loaded(n, s, f) => Loaded(n, s, f)',
         \A n : Weight(row', n) <= Weight(row, n),
         row' \in [Nodes -> Row \union {None}], Worth(row') = Worth(row)
  PROVE  PaidInv'
<1>1. RowsKnown /\ used \in Int /\ Worth(row) \in Nat
  BY SumTypes DEF DriveInv, PaidInv
<1>2. Idle' => used' <= Worth(row')
  BY DEF PaidInv, Idle
<1>3. ASSUME NEW r \in Requests, req'[r] # None
      PROVE  Steady(r)' /\ used' + Owed(r)' <= Worth(row')
  <2> DEFINE q == req[r]
  <2>1. Steady(r) /\ used + Owed(r) <= Worth(row) /\ Owed(r) \in Int /\ q # None
    BY <1>3, OwedType DEF PaidInv
  <2>2. q.size \in Nat /\ q.prev \in Nat
    BY <2>1 DEF DriveInv, Serial, OnWay
  <2>3. Weight(row, q.node) \in Nat /\ Weight(row', q.node) \in Nat
    <3>1. Below(row', {q.node}) \intersect FilesIn(row') \subseteq FilesIn(row')
      OBVIOUS
    <3>2. QED
      BY <1>1, <3>1, SumTypes, RowsSized DEF Weight
  <2>4. Owed(r)' \in Int /\ Owed(r)' <= Owed(r)
    BY <2>2, <2>3 DEF Owed
  <2>5. Pairs \subseteq Pairs'
    BY DEF Pairs
  <2>6. q.queue \in Seq(Pairs) => q.queue \in Seq(Pairs')
    BY <2>5
  <2>7. \A w : Current(w) => Current(w)'
    BY DEF Current
  <2>8. \A n \in Files : row'[n].size = row[n].size
    BY <1>1, FolderFacts
  <2>9. /\ q.op \in {"document", "dav", "offline", "request"} => q.prev = 0
        /\ Head(q.todo) \in {"count", "quota", "insert"} => NotFile(q.parent)'
        /\ Head(q.todo) \in {"load", "version", "upload", "drop", "chunk", "size"} /\ q.op \in Writers
             => q.node \in Files' /\ (Ahead(q) \/ row'[q.node].size = q.prev)
    BY <2>1, <2>8 DEF Steady
  <2>10. q.op = "copy" =>
           /\ Head(q.todo) = "copies" => q.prev = 0
           /\ \A w \in q.work : NotFile(w.parent)'
           /\ q.queue \in Seq(Pairs')
    BY <2>1, <2>6 DEF Steady
  <2>11. q.op = "admin" => \A w \in q.work : Current(w)' /\ NotFile(w.row.parent)'
    BY <2>1, <2>7 DEF Steady
  <2>12. q.op \in {"purge", "replace"} =>
           /\ Loaded(q.node, q.size, IsFolder(q))'
           /\ \A w \in q.work : Loaded(w.src, w.row.size, w.row.folder)'
    BY <2>1 DEF Steady, IsFolder
  <2>13. Steady(r)'
    BY <2>9, <2>10, <2>11, <2>12 DEF Steady
  <2>14. QED
    BY <1>1, <2>1, <2>4, <2>13
<1>4. QED
  BY <1>1, <1>2, <1>3 DEF PaidInv

\* A folder is created below a folder or the top.
LEMMA PaidFolder ==
  ASSUME DriveInv, PaidInv, regular, NEW n \in Nodes, NEW p \in Places, CreateFolder(n, p)
  PROVE  PaidInv'
<1>1. /\ n \in Nodes \ past /\ p \in LiveFolders /\ row' = [row EXCEPT ![n] = NewRow(TRUE, p, 0)]
      /\ past' = past \union {n} /\ UNCHANGED <<used, req, link>>
  BY DEF CreateFolder, linkVars
<1>2. RowsKnown /\ Upright
  BY DEF DriveInv, PaidInv
<1>3. /\ Rows \subseteq past /\ Rows \subseteq Nodes /\ Files \subseteq Rows /\ NotFile(p)
      /\ p \in Rows \union {Top}
  BY <1>1, <1>2, FolderFacts DEF LiveFolders, Live
<1>4. TRUE \in BOOLEAN /\ 0 \in Nat
  OBVIOUS
<1>5. /\ Rows' = Rows \union {n} /\ Files' = Files /\ n \notin Rows
      /\ (\A m \in Nodes \ {n} : row'[m] = row[m]) /\ (\A x : NotFile(x) => NotFile(x)')
      /\ Worth(row') = Worth(row) + 0 /\ Upright'
  BY <1>1, <1>2, <1>3, <1>4, RowAdded
<1>6. /\ row \in [Nodes -> Row \union {None}] /\ row' \in [Nodes -> Row \union {None}]
      /\ row'[n].parent = p /\ Worth(row) \in Nat
  BY <1>1, <1>2, NewRowFacts, SumTypes DEF RowsKnown, NewRow
<1>7. p # n
  BY <1>1, <1>3, DriveAssumption
<1>8. \A m \in Rows : row[m].parent # n
  BY <1>1, <1>2, DriveAssumption DEF Upright, NotFile
<1>9. \A m, s, f : Loaded(m, s, f) => Loaded(m, s, f)'
  <2> SUFFICES ASSUME NEW m, NEW s, NEW f, Loaded(m, s, f)
               PROVE  Loaded(m, s, f)'
    OBVIOUS
  <2>1. m \in past /\ m # n
    BY <1>1 DEF Loaded
  <2>2. ~f => p # m
    <3>1. ASSUME ~f, p = m
          PROVE  FALSE
      <4>1. m \in Rows /\ row[m].folder = f
        BY <1>2, <1>3, <2>1, <3>1, DriveAssumption DEF Loaded, RowsKnown
      <4>2. m \in Files
        BY <3>1, <4>1 DEF Files
      <4>3. QED
        BY <1>3, <3>1, <4>2 DEF NotFile
    <3>2. QED
      BY <3>1
  <2>3. m \in Rows' => m \in Rows /\ row'[m] = row[m]
    BY <1>3, <1>5, <2>1
  <2>4. ~f => \A k \in Rows' : row'[k].parent # m
    BY <1>3, <1>5, <1>6, <2>2 DEF Loaded
  <2>5. QED
    BY <1>1, <2>1, <2>3, <2>4 DEF Loaded
<1>10. \A x : Weight(row', x) <= Weight(row, x)
  <2>1. FilesIn(row') = FilesIn(row) /\ FilesIn(row) = Files
    BY <1>5, SizeIs
  <2>2. \A m \in FilesIn(row) : m \notin {n} /\ row'[m].size = row[m].size
    BY <1>3, <1>5, <2>1
  <2>3. \A m \in Nodes \ {n} : row'[m] # None => row[m] # None /\ row[m].parent = row'[m].parent
    BY <1>5
  <2>4. \A m \in Nodes : row'[m] # None => row'[m].parent \notin {n}
    BY <1>5, <1>6, <1>7, <1>8 DEF Rows
  <2>5. QED
    BY <1>6, <2>1, <2>2, <2>3, <2>4, WeighsLess
<1>11. \A m \in Rows : row'[m].size = row[m].size /\ row'[m].folder = row[m].folder
  BY <1>3, <1>5
<1>12. Worth(row') = Worth(row)
  BY <1>5, <1>6
<1>13. QED
  BY <1>1, <1>5, <1>6, <1>9, <1>10, <1>11, <1>12, PaidBeside

\* Rows go in or out of the trash.
LEMMA PaidMarked ==
  ASSUME DriveInv, PaidInv, regular, NEW n \in Nodes, Trash(n) \/ Restore(n)
  PROVE  PaidInv'
<1>1. /\ UNCHANGED <<past, used, req, link>>
      /\ \E S, b : b \in BOOLEAN /\ row' = [m \in Nodes |->
             IF m \in S \intersect Rows THEN [row[m] EXCEPT !.trashed = b] ELSE row[m]]
  BY DEF Trash, Restore, linkVars
<1>2. RowsKnown /\ Upright
  BY DEF DriveInv, PaidInv
<1>3. \A x \in Row : \A b \in BOOLEAN :
        LET y == [x EXCEPT !.trashed = b]
        IN  y \in Row /\ y # None /\ y.folder = x.folder /\ y.size = x.size /\ y.parent = x.parent
  BY RowAssumption DEF Row
<1>4. row \in [Nodes -> Row \union {None}]
  BY <1>2 DEF RowsKnown
<1>5. \A m \in Nodes :
        /\ row'[m] \in Row \union {None} /\ (row'[m] # None <=> row[m] # None)
        /\ row[m] # None => /\ row'[m].folder = row[m].folder /\ row'[m].size = row[m].size
                            /\ row'[m].parent = row[m].parent
  BY <1>1, <1>3, <1>4 DEF Rows
<1>6. row' \in [Nodes -> Row \union {None}]
  BY <1>1, <1>5
<1>7. Rows' = Rows
  BY <1>5 DEF Rows
<1>8. Files' = Files
  BY <1>5, <1>7 DEF Files, Rows
<1>9. \A x : NotFile(x)' <=> NotFile(x)
  BY <1>1, <1>8 DEF NotFile
<1>10. \A m \in Rows : /\ row'[m].folder = row[m].folder /\ row'[m].size = row[m].size
                       /\ row'[m].parent = row[m].parent
  BY <1>5 DEF Rows
<1>11. \A m, s, f : Loaded(m, s, f) => Loaded(m, s, f)'
  BY <1>1, <1>7, <1>10 DEF Loaded
<1>12. Upright'
  <2>1. (\A m \in Rows : NotFile(row'[m].parent)) /\ (link # None => NotFile(link.folder))
    BY <1>2, <1>10 DEF Upright
  <2>2. QED
    BY <1>1, <1>7, <1>9, <2>1 DEF Upright
<1>13. FilesIn(row') = FilesIn(row) /\ \A m \in FilesIn(row) : row'[m].size = row[m].size
  BY <1>5, <1>8, SizeIs DEF FilesIn
<1>14. Worth(row') = Worth(row)
  BY <1>4, <1>13, SumStays DEF Worth
<1>15. \A x : Weight(row', x) <= Weight(row, x)
  <2> DEFINE none == {}
  <2>1. /\ \A m \in Nodes \ none : row'[m] # None => row[m] # None /\ row[m].parent = row'[m].parent
        /\ \A m \in FilesIn(row) : m \notin none /\ row'[m].size = row[m].size
        /\ \A m \in Nodes : row'[m] # None => row'[m].parent \notin none
    BY <1>5, <1>13
  <2> HIDE DEF none
  <2>2. QED
    BY <1>4, <1>6, <1>13, <2>1, WeighsLess
<1>16. QED
  BY <1>1, <1>6, <1>7, <1>8, <1>9, <1>10, <1>11, <1>12, <1>14, <1>15, PaidBeside

\* A link is made, or expires, or nothing happens.
LEMMA PaidLink ==
  ASSUME DriveInv, LinkInv, PaidInv, regular,
         (\E n \in Nodes : CreateFileRequest(n)) \/ LinkExpires \/ UNCHANGED vars
  PROVE  PaidInv'
<1>1. UNCHANGED <<row, past, used, req>>
  BY DEF CreateFileRequest, LinkExpires, vars, nodeVars
<1>2. RowsKnown /\ Upright /\ row \in [Nodes -> Row \union {None}]
  BY DEF DriveInv, PaidInv, RowsKnown
<1>3. link' # None => NotFile(link'.folder)
  <2>1. ASSUME NEW n \in Nodes, CreateFileRequest(n)
        PROVE  NotFile(link'.folder)
    <3>1. n \in Rows \ Files /\ link'.folder = n
      BY <2>1 DEF CreateFileRequest, Live, Folders
    <3>2. QED
      BY <1>2, <3>1, FolderFacts DEF NotFile
  <2>2. CASE LinkExpires
    <3>1. link # None /\ link \in Link /\ link' = [link EXCEPT !.open = FALSE]
      BY <2>2 DEF LinkExpires, LinkInv
    <3>2. link'.folder = link.folder
      BY <3>1 DEF Link
    <3>3. QED
      BY <1>2, <3>1, <3>2 DEF Upright
  <2>3. CASE UNCHANGED vars
    <3>1. link' = link
      BY <2>3 DEF vars, linkVars
    <3>2. QED
      BY <1>2, <3>1 DEF Upright
  <2>4. QED
    BY <2>1, <2>2, <2>3
<1>4. Rows' = Rows /\ Files' = Files
  BY <1>1 DEF Rows, Files
<1>5. \A x : NotFile(x)' <=> NotFile(x)
  BY <1>1, <1>4 DEF NotFile
<1>6. \A m, s, f : Loaded(m, s, f)' <=> Loaded(m, s, f)
  BY <1>1, <1>4 DEF Loaded
<1>7. Upright'
  BY <1>1, <1>2, <1>3, <1>4, <1>5 DEF Upright
<1>8. \A x : Weight(row', x) <= Weight(row, x)
  BY <1>1, <1>2, SumTypes
<1>9. QED
  BY <1>1, <1>2, <1>4, <1>5, <1>6, <1>7, <1>8, PaidBeside

\* Whoever moves
LEMMA PaidNext ==
  ASSUME DOMAIN None # Fields, DriveInv, LinkInv, PaidInv, [Next]_vars
  PROVE  PaidInv'
<1>1. ASSUME NEW r \in Requests, Handler(r)
      PROVE  PaidInv'
  BY <1>1, PaidStep
<1>2. ASSUME \/ \E n \in Nodes : \/ \E p \in Places : CreateFolder(n, p)
                                 \/ Trash(n) \/ Restore(n) \/ CreateFileRequest(n)
             \/ LinkExpires \/ UNCHANGED vars
      PROVE  PaidInv'
  <2>1. CASE ~regular
    <3>1. regular' = regular
      BY <1>2, BesideFacts
    <3>2. used' = used
      BY <1>2 DEF CreateFolder, Trash, Restore, CreateFileRequest, LinkExpires, vars
    <3>3. QED
      BY <2>1, <3>1, <3>2 DEF PaidInv
  <2>2. CASE regular
    BY <1>2, <2>2, PaidFolder, PaidMarked, PaidLink
  <2>3. QED
    BY <2>1, <2>2
<1>3. QED
  BY <1>1, <1>2 DEF Next

\* The owner is never charged more than the files he has: whatever is created, copied,
\* overwritten, trashed and purged, of however many files and folders, below one another.
THEOREM OwnerNeverOvercharged ==
  ASSUME DOMAIN None # Fields
  PROVE  Spec => []NeverOvercharged
<1>1. Init => DriveInv /\ LinkInv /\ PaidInv
  <2>1. ASSUME Init
        PROVE  PaidInv
    <3>1. DriveInv /\ Rows = {} /\ used = 0 /\ link = None /\ Idle
      BY <2>1, DriveFirst DEF Init, Rows, Idle
    <3>2. Worth(row) \in Nat
      BY <3>1, SumTypes DEF DriveInv
    <3>3. QED
      BY <3>1, <3>2 DEF PaidInv, Upright, Idle
  <2>2. QED
    BY <2>1, DriveFirst
<1>2. DriveInv /\ LinkInv /\ PaidInv /\ [Next]_vars => DriveInv' /\ LinkInv' /\ PaidInv'
  <2>1. ASSUME DriveInv, LinkInv, [Next]_vars
        PROVE  LinkInv'
    BY <2>1, LinkStep, LinkBeside DEF Next
  <2>2. QED
    BY <2>1, DriveStep, PaidNext
<1>3. DriveInv /\ PaidInv => NeverOvercharged
  BY SizeIs DEF NeverOvercharged, PaidInv, Worth
<1>4. QED
  BY <1>1, <1>2, <1>3, PTL DEF Spec

-----------------------------------------------------------------------------
\* Billing, with one webhook handled at a time

\* Webhooks are handled one after the other.
OneWebhook == \A v, w \in Webhooks : v = w

\* The plan of the subscription once Stripe has sent e
PlanAfter(e) == IF e.kind = "deleted" THEN "free" ELSE e.plan

\* A subscription has been checked out, the first event is of a checkout, the last
\* one leads to the subscription as it is, and a checkout is for the plan in the
\* metadata.
Sent ==
  /\ stripe # "free" => bought \in Paid /\ Len(events) > 0
  /\ Len(events) > 0 => events[1].kind = "checkout" /\ stripe = PlanAfter(events[Len(events)])
  /\ \A i \in 1 .. Len(events) : events[i].kind = "checkout" => events[i].plan = events[i].bought

\* What a call is about to do fits its event, and the row it has loaded is s.
CallFits(c, s) ==
  /\ c.event.kind = "checkout" => c.event.plan = c.event.bought
  /\ c.at = "update" => c.event.kind = "deleted"
  /\ c.at = "retrieve" => c.event.kind = "failed"
  /\ c.event.kind = "deleted" => c.at \in {"update", "quota"}
  /\ c.at = "save" => c.snap = s

Handled == \A w \in Webhooks : call[w] # None => CallFits(call[w], sub)

\* Without an error, the quota is that of the plan, or about to be.
PlanPaid ==
  ~failed =>
    /\ (\A w \in Webhooks : ~B!At(w, "quota")) /\ sub # None => quota = sub.plan
    /\ \A w \in Webhooks : B!At(w, "quota") /\ sub # None => sub.plan = call[w].plan

\* The plan the user will have once call c is through
Leads(c) == IF c.at = "quota" THEN c.plan ELSE PlanAfter(c.event)

\* In order, the first event that is handled makes the row, and the newest of all
\* leads to what Stripe has.
Settling ==
  ~failed /\ inOrder =>
    /\ B!Quiet /\ latest > 0 => sub # None
    /\ \A w \in Webhooks : call[w] # None =>
         /\ latest > 0
         /\ sub # None \/ (call[w].event.kind = "checkout" /\ call[w].at \in {"find", "save"})
    /\ latest = Len(events) /\ latest > 0 =>
         /\ B!Quiet => quota = stripe
         /\ \A w \in Webhooks : call[w] # None => Leads(call[w]) = stripe

BillingInv == B!TypeOK /\ Sent /\ Handled /\ PlanPaid /\ Settling

\* What is sent follows what was sent.
LEMMA SendFacts ==
  ASSUME events \in Seq(B!Event), NEW es \in Seq(B!Event), Len(es) > 0, B!Send(es)
  PROVE  /\ events' \in Seq(B!Event)
         /\ Len(events') = Len(events) + Len(es)
         /\ \A i \in 1 .. Len(events) : events'[i] = events[i]
         /\ \A i \in 1 .. Len(es) : events'[Len(events) + i] = es[i]
         /\ UNCHANGED <<latest, inOrder, failed, sub, quota, call>>
BY DEF B!Send

\* A change of the subscription at Stripe leaves the calls and the rows alone, and
\* there is an event more than has been handled.
LEMMA SendKeeps ==
  ASSUME BillingInv, NEW es \in Seq(B!Event), Len(es) > 0, B!Send(es),
         stripe' \in B!Plans, bought' \in B!Plans, stripe' # "free" => bought' \in Paid,
         Len(events) = 0 => es[1].kind = "checkout",
         stripe' = PlanAfter(es[Len(es)]),
         \A i \in 1 .. Len(es) : es[i].kind = "checkout" => es[i].plan = es[i].bought
  PROVE  BillingInv'
<1>1. /\ events \in Seq(B!Event) /\ latest \in 0 .. Len(events)
      /\ Len(events) \in Nat /\ Len(es) \in Nat
  BY DEF BillingInv, B!TypeOK
<1>2. /\ events' \in Seq(B!Event)
      /\ Len(events') = Len(events) + Len(es)
      /\ \A i \in 1 .. Len(events) : events'[i] = events[i]
      /\ \A i \in 1 .. Len(es) : events'[Len(events) + i] = es[i]
      /\ UNCHANGED <<latest, inOrder, failed, sub, quota, call>>
  BY <1>1, SendFacts
<1>3. B!TypeOK'
  BY <1>1, <1>2 DEF BillingInv, B!TypeOK, B!Plans
<1>4. Sent'
  <2>1. events'[Len(events')] = es[Len(es)]
    <3>1. Len(es) \in 1 .. Len(es)
      BY <1>1
    <3>2. QED
      BY <1>2, <3>1
  <2>2. events'[1].kind = "checkout"
    <3>1. CASE Len(events) = 0
      <4>1. 1 \in 1 .. Len(es) /\ Len(events) + 1 = 1 /\ es[1].kind = "checkout"
        BY <3>1
      <4>2. events'[Len(events) + 1] = es[1]
        BY <1>2, <4>1
      <4>3. QED
        BY <4>1, <4>2
    <3>2. CASE Len(events) > 0
      <4>1. events[1].kind = "checkout" /\ 1 \in 1 .. Len(events)
        BY <1>1, <3>2 DEF BillingInv, Sent
      <4>2. QED
        BY <1>2, <4>1
    <3>3. QED
      BY <1>1, <3>1, <3>2
  <2>3. ASSUME NEW i \in 1 .. Len(events'), events'[i].kind = "checkout"
        PROVE  events'[i].plan = events'[i].bought
    <3>1. CASE i <= Len(events)
      BY <1>1, <1>2, <2>3, <3>1 DEF BillingInv, Sent
    <3>2. CASE i > Len(events)
      <4> DEFINE j == i - Len(events)
      <4>1. j \in 1 .. Len(es) /\ i = Len(events) + j
        BY <1>1, <1>2, <3>2
      <4>2. QED
        BY <1>2, <2>3, <4>1
    <3>3. QED
      BY <1>1, <3>1, <3>2
  <2>4. QED
    BY <1>1, <1>2, <2>1, <2>2, <2>3 DEF Sent, PlanAfter
<1>5. Handled' /\ PlanPaid'
  BY <1>2 DEF BillingInv, Handled, CallFits, PlanPaid, B!At
<1>6. Settling'
  <2>1. latest' # Len(events')
    BY <1>1, <1>2
  <2>2. QED
    BY <1>2, <2>1 DEF BillingInv, Settling, B!Quiet
<1>7. QED
  BY <1>3, <1>4, <1>5, <1>6 DEF BillingInv

\* What Stripe does
LEMMA StripeKeeps ==
  ASSUME BillingInv,
         \/ \E p \in Paid : B!Checkout(p) \/ B!ChangePlan(p)
         \/ B!PaymentFails
         \/ B!EndSubscription
  PROVE  BillingInv'
<1>1. stripe \in B!Plans /\ bought \in B!Plans /\ (stripe # "free" => stripe \in Paid /\ bought \in Paid)
  BY DEF BillingInv, Sent, B!TypeOK, B!Plans
<1>2. Len(events) = 0 => stripe = "free"
  BY DEF BillingInv, Sent, B!TypeOK
<1>3. ASSUME NEW p \in Paid, B!Checkout(p)
      PROVE  BillingInv'
  <2> DEFINE e == B!Of("checkout", p, p, "active")
             f == B!Of("synced", p, p, "active")
             es == <<e, f>>
  <2>1. e \in B!Event /\ f \in B!Event
    BY DEF B!Of, B!Event, B!Statuses
  <2>2. es \in Seq(B!Event) /\ Len(es) = 2 /\ es[1] = e /\ es[2] = f
    BY <2>1
  <2>3. \A i \in 1 .. Len(es) : es[i].kind = "checkout" => es[i].plan = es[i].bought
    BY <2>2 DEF B!Of
  <2>4. es[1].kind = "checkout" /\ PlanAfter(es[Len(es)]) = p /\ Len(es) > 0
    BY <2>2 DEF B!Of, PlanAfter
  <2>5. stripe' = p /\ bought' = p /\ B!Send(es)
    BY <1>3 DEF B!Checkout
  <2>6. /\ stripe' \in B!Plans /\ bought' \in B!Plans /\ (stripe' # "free" => bought' \in Paid)
        /\ stripe' = PlanAfter(es[Len(es)])
    BY <2>4, <2>5 DEF B!Plans
  <2> HIDE DEF es, e, f
  <2>7. QED
    BY <2>2, <2>3, <2>4, <2>5, <2>6, SendKeeps
<1>4. ASSUME NEW kind \in {"synced", "failed", "deleted"}, NEW plan \in Paid,
             NEW status \in B!Statuses, stripe # "free",
             B!Send(<<B!Of(kind, plan, bought, status)>>), UNCHANGED bought,
             stripe' = IF kind = "deleted" THEN "free" ELSE plan
      PROVE  BillingInv'
  <2> DEFINE e == B!Of(kind, plan, bought, status)
             es == <<e>>
  <2>1. e \in B!Event
    BY <1>1, <1>4 DEF B!Of, B!Event, B!Statuses
  <2>2. es \in Seq(B!Event) /\ Len(es) = 1 /\ es[1] = e
    BY <2>1
  <2>3. \A i \in 1 .. Len(es) : es[i].kind = "checkout" => es[i].plan = es[i].bought
    BY <2>2 DEF B!Of
  <2>4. stripe' = PlanAfter(es[Len(es)]) /\ Len(es) > 0
    BY <1>4, <2>2 DEF B!Of, PlanAfter
  <2>5. B!Send(es) /\ Len(events) # 0
    BY <1>2, <1>4
  <2>6. stripe' \in B!Plans /\ bought' \in B!Plans /\ (stripe' # "free" => bought' \in Paid)
    BY <1>1, <1>4 DEF B!Plans
  <2> HIDE DEF es, e
  <2>7. QED
    BY <2>2, <2>3, <2>4, <2>5, <2>6, SendKeeps
<1>5. ASSUME NEW p \in Paid, B!ChangePlan(p)
      PROVE  BillingInv'
  <2>1. stripe # "free" /\ stripe' = p /\ B!Send(<<B!Of("synced", p, bought, "active")>>)
        /\ UNCHANGED bought
    BY <1>5 DEF B!ChangePlan
  <2>2. QED
    BY <1>4, <2>1 DEF B!Statuses
<1>6. CASE B!PaymentFails
  <2>1. stripe # "free" /\ stripe' = stripe /\ B!Send(<<B!Of("failed", stripe, bought, "past_due")>>)
        /\ UNCHANGED bought
    BY <1>6 DEF B!PaymentFails
  <2>2. QED
    BY <1>1, <1>4, <2>1 DEF B!Statuses
<1>7. CASE B!EndSubscription
  <2>1. stripe # "free" /\ stripe' = "free" /\ B!Send(<<B!Of("deleted", stripe, bought, "canceled")>>)
        /\ UNCHANGED bought
    BY <1>7 DEF B!EndSubscription
  <2>2. QED
    BY <1>1, <1>4, <2>1 DEF B!Statuses
<1>8. QED
  BY <1>3, <1>5, <1>6, <1>7

-----------------------------------------------------------------------------
\* The only call there is goes on as c, or ends: what that takes.
LEMMA CallFacts ==
  ASSUME B!TypeOK, OneWebhook, NEW w \in Webhooks, NEW c, call' = [call EXCEPT ![w] = c]
  PROVE  /\ call'[w] = c
         /\ \A v \in Webhooks : v = w
         /\ B!Quiet <=> call[w] = None
         /\ B!Quiet' <=> c = None
         /\ c \in B!Call \union {None} => call' \in [Webhooks -> B!Call \union {None}]
BY DEF B!TypeOK, OneWebhook, B!Quiet

\* What is known of the call that moves.
LEMMA CallTypes ==
  ASSUME BillingInv, NEW w \in Webhooks, call[w] # None
  PROVE  /\ call[w] \in B!Call
         /\ call[w].event \in B!Event
         /\ call[w].snap \in B!SubRow \union {None}
         /\ call[w].plan \in B!Plans
         /\ CallFits(call[w], sub)
BY DEF BillingInv, Handled, B!TypeOK, B!Call

\* A step of the call that leaves Stripe alone: the parts that it may disturb.
LEMMA MovesKeep ==
  ASSUME BillingInv, OneWebhook, NEW w \in Webhooks,
         NEW c \in B!Call \union {None}, call' = [call EXCEPT ![w] = c],
         UNCHANGED <<stripe, bought, events>>,
         latest' \in 0 .. Len(events), inOrder' \in BOOLEAN, failed' \in BOOLEAN,
         sub' \in B!SubRow \union {None}, quota' \in B!Plans,
         c # None => CallFits(c, sub'),
         ~failed' => IF c # None /\ c.at = "quota"
                     THEN sub' # None => sub'.plan = c.plan
                     ELSE sub' # None => quota' = sub'.plan,
         ~failed' /\ inOrder' =>
           IF c = None
           THEN latest' > 0 => sub' # None /\ (latest' = Len(events) => quota' = stripe)
           ELSE /\ latest' > 0
                /\ sub' # None \/ (c.event.kind = "checkout" /\ c.at \in {"find", "save"})
                /\ latest' = Len(events) => Leads(c) = stripe
  PROVE  BillingInv'
<1>1. /\ call'[w] = c
      /\ \A v \in Webhooks : v = w
      /\ B!Quiet' <=> c = None
      /\ call' \in [Webhooks -> B!Call \union {None}]
  BY CallFacts DEF BillingInv
<1>2. B!TypeOK'
  BY <1>1 DEF BillingInv, B!TypeOK, B!Plans
<1>3. Sent' /\ Handled'
  BY <1>1 DEF BillingInv, Sent, Handled, PlanAfter, CallFits
<1>4. PlanPaid'
  BY <1>1 DEF PlanPaid, B!At
<1>5. Settling'
  BY <1>1 DEF Settling, Leads, PlanAfter
<1>6. QED
  BY <1>2, <1>3, <1>4, <1>5 DEF BillingInv

\* A webhook is received.
LEMMA ReceiveKeeps ==
  ASSUME BillingInv, OneWebhook,
         NEW w \in Webhooks, NEW i \in 1 .. Len(events), B!Receive(w, i)
  PROVE  BillingInv'
<1> DEFINE e == events[i]
           at == CASE e.kind = "deleted" -> "update"
                   [] e.kind = "failed" -> "retrieve"
                   [] OTHER -> "find"
           c == [event |-> e, at |-> at, snap |-> None, plan |-> "free"]
<1>1. /\ events \in Seq(B!Event) /\ latest \in 0 .. Len(events) /\ Len(events) \in Nat
      /\ i \in Nat /\ i > 0 /\ i <= Len(events)
      /\ sub \in B!SubRow \union {None} /\ quota \in B!Plans
      /\ failed \in BOOLEAN /\ inOrder \in BOOLEAN
  BY DEF BillingInv, B!TypeOK
<1>2. /\ call[w] = None /\ call' = [call EXCEPT ![w] = c]
      /\ inOrder' = (inOrder /\ i \in {latest, latest + 1})
      /\ latest' = IF i > latest THEN i ELSE latest
      /\ UNCHANGED <<stripe, bought, events, failed, sub, quota>>
  BY DEF B!Receive
<1>3. e \in B!Event
  BY <1>1
<1>4. e.kind \in {"checkout", "synced", "failed", "deleted"}
  BY <1>3 DEF B!Event
<1>5. /\ at \in {"update", "retrieve", "find"}
      /\ e.kind = "deleted" <=> at = "update"
      /\ e.kind = "failed" <=> at = "retrieve"
  BY <1>4
<1>6. B!Quiet
  BY <1>2, CallFacts DEF BillingInv
<1>7. /\ c.event = e /\ c.at = at /\ c.snap = None /\ c.plan = "free"
      /\ c \in B!Call /\ c # None
  BY <1>3, <1>5, BillingAssumption DEF B!Call, B!Plans
<1>8. e.kind = "checkout" => e.plan = e.bought
  BY DEF BillingInv, Sent
<1>9. CallFits(c, sub')
  BY <1>5, <1>7, <1>8 DEF CallFits
<1>10. ~failed /\ sub # None => quota = sub.plan
  BY <1>6 DEF BillingInv, PlanPaid, B!Quiet, B!At
<1>11. latest' \in 0 .. Len(events) /\ latest' > 0 /\ inOrder' \in BOOLEAN
  BY <1>1, <1>2
<1>12. ASSUME ~failed', inOrder'
       PROVE  /\ sub' # None \/ (c.event.kind = "checkout" /\ c.at \in {"find", "save"})
              /\ latest' = Len(events) => Leads(c) = stripe
  <2>1. inOrder /\ ~failed /\ latest' = i
    BY <1>1, <1>2, <1>12
  <2>2. ASSUME latest = 0
        PROVE  c.event.kind = "checkout" /\ c.at \in {"find", "save"}
    <3>1. i = 1
      BY <1>1, <1>2, <1>12, <2>2
    <3>2. e.kind = "checkout"
      BY <1>1, <3>1 DEF BillingInv, Sent
    <3>3. QED
      BY <1>4, <1>5, <1>7, <3>2
  <2>3. ASSUME latest > 0
        PROVE  sub' # None
    BY <1>2, <1>6, <2>1, <2>3 DEF BillingInv, Settling
  <2>4. ASSUME latest' = Len(events)
        PROVE  Leads(c) = stripe
    <3>1. stripe = PlanAfter(e)
      BY <1>1, <2>1, <2>4 DEF BillingInv, Sent
    <3>2. QED
      BY <1>5, <1>7, <3>1 DEF Leads
  <2>5. QED
    BY <1>1, <2>2, <2>3, <2>4
<1> HIDE DEF c, at, e
<1>13. QED
  BY <1>1, <1>2, <1>5, <1>7, <1>9, <1>10, <1>11, <1>12, MovesKeep

\* The call ends with an error.
LEMMA SwallowKeeps ==
  ASSUME BillingInv, OneWebhook, NEW w \in Webhooks, B!Swallow(w)
  PROVE  BillingInv'
<1>1. /\ call' = [call EXCEPT ![w] = None] /\ failed' /\ failed' \in BOOLEAN
      /\ UNCHANGED <<stripe, bought, events, latest, inOrder, sub, quota>>
  BY DEF B!Swallow, B!EndCall
<1>2. /\ latest \in 0 .. Len(events) /\ inOrder \in BOOLEAN
      /\ sub \in B!SubRow \union {None} /\ quota \in B!Plans
  BY DEF BillingInv, B!TypeOK
<1>3. QED
  BY <1>1, <1>2, MovesKeep

\* What is known before a call moves.
LEMMA BusyFacts ==
  ASSUME BillingInv, OneWebhook, NEW w \in Webhooks, call[w] # None
  PROVE  /\ call[w] \in B!Call /\ CallFits(call[w], sub)
         /\ latest \in 0 .. Len(events) /\ inOrder \in BOOLEAN /\ failed \in BOOLEAN
         /\ sub \in B!SubRow \union {None} /\ quota \in B!Plans
         /\ ~failed => IF call[w].at = "quota"
                       THEN sub # None => sub.plan = call[w].plan
                       ELSE sub # None => quota = sub.plan
         /\ ~failed /\ inOrder =>
              /\ latest > 0
              /\ sub # None \/ (call[w].event.kind = "checkout" /\ call[w].at \in {"find", "save"})
              /\ latest = Len(events) => Leads(call[w]) = stripe
<1>1. \A v \in Webhooks : v = w
  BY DEF OneWebhook
<1>2. ~failed => IF call[w].at = "quota"
                 THEN sub # None => sub.plan = call[w].plan
                 ELSE sub # None => quota = sub.plan
  BY <1>1 DEF BillingInv, PlanPaid, B!At
<1>3. ~failed /\ inOrder =>
        /\ latest > 0
        /\ sub # None \/ (call[w].event.kind = "checkout" /\ call[w].at \in {"find", "save"})
        /\ latest = Len(events) => Leads(call[w]) = stripe
  BY <1>1 DEF BillingInv, Settling
<1>4. QED
  BY <1>2, <1>3, CallTypes DEF BillingInv, B!TypeOK

\* The subscription is asked of Stripe, as it is by now.
LEMMA RetrieveKeeps ==
  ASSUME BillingInv, OneWebhook, NEW w \in Webhooks, B!Retrieve(w)
  PROVE  BillingInv'
<1> DEFINE d == call[w]
<1>1. /\ d # None /\ d.at = "retrieve"
      /\ UNCHANGED <<stripe, bought, events, latest, inOrder, failed, sub, quota>>
  BY DEF B!Retrieve, B!At
<1>2. PICK s \in B!Statuses :
        call' = [call EXCEPT ![w].at = "find",
                             ![w].event.plan = IF stripe = "free" THEN @ ELSE stripe,
                             ![w].event.status = s]
  BY DEF B!Retrieve, B!Statuses
<1> DEFINE e == [d.event EXCEPT !.plan = IF stripe = "free" THEN d.event.plan ELSE stripe,
                                !.status = s]
           c == [d EXCEPT !.at = "find", !.event = e]
<1>3. /\ d \in B!Call /\ CallFits(d, sub) /\ d.event \in B!Event
  BY <1>1, BusyFacts DEF B!Call
<1>4. d.event.kind = "failed"
  BY <1>1, <1>3 DEF CallFits
<1>5. stripe # "free" => stripe \in Paid
  BY DEF BillingInv, B!TypeOK, B!Plans
<1>6. /\ e \in B!Event /\ e.kind = "failed"
      /\ e.plan = IF stripe = "free" THEN d.event.plan ELSE stripe
  BY <1>2, <1>3, <1>4, <1>5 DEF B!Event
<1>7. c \in B!Call /\ c.event = e /\ c.at = "find"
  BY <1>3, <1>6 DEF B!Call
<1>8. call' = [call EXCEPT ![w] = c]
  <2>1. d.event = [kind |-> d.event.kind, plan |-> d.event.plan, bought |-> d.event.bought,
                   status |-> d.event.status]
    BY <1>3 DEF B!Event
  <2>2. d = [event |-> d.event, at |-> d.at, snap |-> d.snap, plan |-> d.plan]
    BY <1>3 DEF B!Call
  <2>3. [[[d EXCEPT !.at = "find"] EXCEPT !.event.plan = IF stripe = "free" THEN @ ELSE stripe]
           EXCEPT !.event.status = s] = c
    BY <2>1, <2>2
  <2>4. call' = [call EXCEPT ![w] =
           [[[d EXCEPT !.at = "find"] EXCEPT !.event.plan = IF stripe = "free" THEN @ ELSE stripe]
              EXCEPT !.event.status = s]]
    BY <1>2, <2>2, Zenon
  <2>5. QED
    BY <2>3, <2>4
<1>9. CallFits(c, sub')
  BY <1>6, <1>7 DEF CallFits
<1>10. Leads(d) = stripe => Leads(c) = stripe
  BY <1>1, <1>4, <1>6, <1>7 DEF Leads, PlanAfter
<1> HIDE DEF c, e
<1>11. QED
  <2>1. /\ c # None /\ c \in B!Call \union {None}
        /\ latest' \in 0 .. Len(events) /\ inOrder' \in BOOLEAN /\ failed' \in BOOLEAN
        /\ sub' \in B!SubRow \union {None} /\ quota' \in B!Plans
        /\ ~failed' /\ sub' # None => quota' = sub'.plan
    BY <1>1, <1>7, BusyFacts, BillingAssumption
  <2>2. ~failed' /\ inOrder' =>
          /\ latest' > 0 /\ sub' # None
          /\ latest' = Len(events) => Leads(c) = stripe
    BY <1>1, <1>4, <1>10, BusyFacts
  <2>3. QED
    BY <1>1, <1>7, <1>8, <1>9, <2>1, <2>2, MovesKeep

\* The row is loaded.
LEMMA FindSubKeeps ==
  ASSUME BillingInv, OneWebhook, NEW w \in Webhooks, B!FindSub(w)
  PROVE  BillingInv'
<1> DEFINE d == call[w]
           c == [d EXCEPT !.at = "save", !.snap = sub]
<1>1. /\ d # None /\ d.at = "find"
      /\ call' = [call EXCEPT ![w].at = "save", ![w].snap = sub]
      /\ UNCHANGED <<stripe, bought, events, latest, inOrder, failed, sub, quota>>
  BY DEF B!FindSub, B!At
<1>2. d \in B!Call /\ CallFits(d, sub) /\ sub \in B!SubRow \union {None}
  BY <1>1, BusyFacts
<1>3. c \in B!Call /\ c.event = d.event /\ c.at = "save" /\ c.snap = sub
  BY <1>2 DEF B!Call
<1>4. call' = [call EXCEPT ![w] = c]
  BY <1>1, <1>2 DEF B!Call
<1>5. CallFits(c, sub')
  BY <1>1, <1>2, <1>3 DEF CallFits
<1>6. Leads(c) = Leads(d)
  BY <1>1, <1>3 DEF Leads
<1> HIDE DEF c
<1>7. QED
  <2>1. /\ c # None /\ c \in B!Call \union {None}
        /\ latest' \in 0 .. Len(events) /\ inOrder' \in BOOLEAN /\ failed' \in BOOLEAN
        /\ sub' \in B!SubRow \union {None} /\ quota' \in B!Plans
        /\ ~failed' /\ sub' # None => quota' = sub'.plan
    BY <1>1, <1>3, BusyFacts, BillingAssumption
  <2>2. ~failed' /\ inOrder' =>
          /\ latest' > 0
          /\ sub' # None \/ (c.event.kind = "checkout" /\ c.at \in {"find", "save"})
          /\ latest' = Len(events) => Leads(c) = stripe
    BY <1>1, <1>3, <1>6, BusyFacts
  <2>3. QED
    BY <1>1, <1>3, <1>4, <1>5, <2>1, <2>2, MovesKeep

\* The row is saved as it should be: no other call has made it meanwhile.
LEMMA SaveSubKeeps ==
  ASSUME BillingInv, OneWebhook, NEW w \in Webhooks, B!SaveSub(w)
  PROVE  BillingInv'
<1> DEFINE d == call[w]
           e == d.event
           new == IF e.kind = "checkout" THEN B!CheckoutRow(e) ELSE B!SyncedRow(e, d.snap)
           c == [d EXCEPT !.at = "quota", !.plan = new.plan]
<1>1. /\ d # None /\ d.at = "save"
      /\ UNCHANGED <<stripe, bought, events, latest, inOrder, failed, quota>>
  BY DEF B!SaveSub, B!At
<1>2. d \in B!Call /\ CallFits(d, sub) /\ e \in B!Event /\ d.snap = sub
  BY <1>1, BusyFacts DEF B!Call, CallFits
<1>3. sub' = new /\ call' = [call EXCEPT ![w].at = "quota", ![w].plan = new.plan]
  BY <1>2 DEF B!SaveSub
<1>4. /\ new \in B!SubRow
      /\ new.plan = IF e.kind = "checkout" \/ sub = None THEN e.bought ELSE e.plan
  BY <1>2 DEF B!CheckoutRow, B!SyncedRow, B!SubRow, B!Event, B!Plans, B!Statuses
<1>5. new # None /\ new.plan \in B!Plans
  BY <1>4, BillingAssumption DEF B!SubRow
<1> HIDE DEF new
<1>6. c \in B!Call /\ c.event = e /\ c.at = "quota" /\ c.plan = new.plan /\ c # None
  BY <1>2, <1>5, BillingAssumption DEF B!Call
<1>7. call' = [call EXCEPT ![w] = c]
  BY <1>2, <1>3 DEF B!Call
<1>8. CallFits(c, sub')
  BY <1>1, <1>2, <1>6 DEF CallFits
<1>9. ASSUME ~failed, inOrder, Leads(d) = stripe
      PROVE  Leads(c) = stripe
  <2>1. sub # None \/ e.kind = "checkout"
    BY <1>1, <1>9, BusyFacts
  <2>2. e.kind # "deleted" /\ (e.kind = "checkout" => e.plan = e.bought)
    BY <1>1, <1>2 DEF CallFits
  <2>3. new.plan = e.plan
    BY <1>4, <2>1, <2>2
  <2>4. QED
    BY <1>1, <1>6, <1>9, <2>2, <2>3 DEF Leads, PlanAfter
<1> HIDE DEF c
<1>10. QED
  BY <1>1, <1>3, <1>4, <1>5, <1>6, <1>7, <1>8, <1>9, BusyFacts, MovesKeep

\* The row, if there is one, is that of a plan that was cancelled.
LEMMA CancelSubKeeps ==
  ASSUME BillingInv, OneWebhook, NEW w \in Webhooks, B!CancelSub(w)
  PROVE  BillingInv'
<1> DEFINE d == call[w]
           free == [plan |-> "free", status |-> "canceled"]
           c == [d EXCEPT !.at = "quota", !.plan = "free"]
<1>1. /\ d # None /\ d.at = "update"
      /\ sub' = IF sub = None THEN None ELSE free
      /\ call' = [call EXCEPT ![w].at = "quota", ![w].plan = "free"]
      /\ UNCHANGED <<stripe, bought, events, latest, inOrder, failed, quota>>
  BY DEF B!CancelSub, B!At
<1>2. d \in B!Call /\ CallFits(d, sub) /\ d.event.kind = "deleted"
  BY <1>1, BusyFacts DEF CallFits
<1>3. free \in B!SubRow /\ free # None /\ free.plan = "free"
  BY BillingAssumption DEF B!SubRow, B!Plans, B!Statuses
<1>4. c \in B!Call /\ c.event = d.event /\ c.at = "quota" /\ c.plan = "free" /\ c # None
  BY <1>2, BillingAssumption DEF B!Call, B!Plans
<1>5. call' = [call EXCEPT ![w] = c]
  BY <1>1, <1>2 DEF B!Call
<1>6. CallFits(c, sub')
  BY <1>2, <1>4 DEF CallFits
<1>7. Leads(d) = Leads(c)
  BY <1>1, <1>2, <1>4 DEF Leads, PlanAfter
<1> HIDE DEF c, free
<1>8. QED
  <2>1. /\ c \in B!Call \union {None}
        /\ latest' \in 0 .. Len(events) /\ inOrder' \in BOOLEAN /\ failed' \in BOOLEAN
        /\ sub' \in B!SubRow \union {None} /\ quota' \in B!Plans
        /\ sub' # None => sub'.plan = c.plan
    BY <1>1, <1>3, <1>4, BusyFacts
  <2>2. ~failed' /\ inOrder' =>
          /\ latest' > 0 /\ sub' # None
          /\ latest' = Len(events) => Leads(c) = stripe
    BY <1>1, <1>2, <1>3, <1>7, BusyFacts
  <2>3. QED
    BY <1>1, <1>4, <1>5, <1>6, <2>1, <2>2, MovesKeep

\* The quota is that of the plan the call has written.
LEMMA SetQuotaKeeps ==
  ASSUME BillingInv, OneWebhook, NEW w \in Webhooks, B!SetQuota(w)
  PROVE  BillingInv'
<1>1. /\ call[w] # None /\ call[w].at = "quota"
      /\ quota' = call[w].plan /\ call' = [call EXCEPT ![w] = None]
      /\ UNCHANGED <<stripe, bought, events, latest, inOrder, failed, sub>>
  BY DEF B!SetQuota, B!At, B!EndCall
<1>2. call[w].plan \in B!Plans
  BY <1>1, CallTypes
<1>3. ~failed /\ inOrder /\ latest > 0 =>
        sub # None /\ (latest = Len(events) => quota' = stripe)
  BY <1>1, BusyFacts DEF Leads
<1>4. ~failed /\ sub # None => quota' = sub.plan
  BY <1>1, BusyFacts
<1>5. /\ latest \in 0 .. Len(events) /\ inOrder \in BOOLEAN /\ failed \in BOOLEAN
      /\ sub \in B!SubRow \union {None}
  BY <1>1, BusyFacts
<1>6. QED
  BY <1>1, <1>2, <1>3, <1>4, <1>5, MovesKeep

-----------------------------------------------------------------------------
\* The invariant holds at first, and every step keeps it.
LEMMA BillingHolds ==
  ASSUME OneWebhook
  PROVE  ServerSpec => []BillingInv
<1>1. ServerInit => BillingInv
  <2> SUFFICES ASSUME B!Init
               PROVE  BillingInv
    BY DEF ServerInit
  <2>1. Len(events) = 0 /\ events \in Seq(B!Event)
    BY DEF B!Init
  <2>2. B!TypeOK
    <3>1. sub \in B!SubRow \union {None}
      BY DEF B!Init, B!Plans, B!SubRow, B!Statuses
    <3>2. call \in [Webhooks -> B!Call \union {None}]
      BY DEF B!Init
    <3>3. inOrder \in BOOLEAN /\ failed \in BOOLEAN
      BY DEF B!Init
    <3>4. QED
      BY <2>1, <3>1, <3>2, <3>3 DEF B!Init, B!TypeOK, B!Plans
  <2>3. Sent /\ Handled
    BY <2>1 DEF B!Init, Sent, Handled
  <2>4. PlanPaid /\ Settling
    BY DEF B!Init, PlanPaid, Settling, B!At, B!Quiet
  <2>5. QED
    BY <2>2, <2>3, <2>4 DEF BillingInv
<1>2. BillingInv /\ [ServerNext]_allVars => BillingInv'
  <2> SUFFICES ASSUME BillingInv, [ServerNext]_allVars
               PROVE  BillingInv'
    OBVIOUS
  <2>1. CASE UNCHANGED billing
    BY <2>1 DEF billing, BillingInv, B!TypeOK, Sent, Handled, PlanPaid, Settling, B!At,
       B!Quiet, CallFits, Leads, PlanAfter
  <2>2. CASE B!Next
    <3>1. ASSUME NEW w \in Webhooks, B!Handle(w)
          PROVE  BillingInv'
      BY <3>1, RetrieveKeeps, FindSubKeeps, SaveSubKeeps, CancelSubKeeps, SetQuotaKeeps
         DEF B!Handle
    <3>2. QED
      BY <2>2, <3>1, StripeKeeps, ReceiveKeeps, SwallowKeeps DEF B!Next
  <2>3. QED
    BY <2>1, <2>2 DEF ServerNext, allVars
<1>3. QED
  BY <1>1, <1>2, PTL DEF ServerSpec

\* Billing: whatever events came, repeated and in whatever order, handled one at a
\* time and none with an error, the quota is that of the plan in the subscription.
THEOREM QuotaIsOfThePlan ==
  ASSUME OneWebhook
  PROVE  ServerSpec => []QuotaFollowsPlan
<1>1. BillingInv => QuotaFollowsPlan
  BY DEF BillingInv, PlanPaid, QuotaFollowsPlan, B!QuotaFollowsPlan, B!Quiet, B!At
<1>2. QED
  BY <1>1, BillingHolds, PTL

\* Billing: events handled one at a time, in Stripe's order, each at least once and
\* without error, leave the user with what Stripe has.
THEOREM OrderedEventsSettle ==
  ASSUME OneWebhook
  PROVE  ServerSpec => []InOrderSettles
<1>1. BillingInv => InOrderSettles
  BY DEF BillingInv, PlanPaid, Settling, InOrderSettles, B!InOrderSettles, B!Quiet, B!At
<1>2. QED
  BY <1>1, BillingHolds, PTL

-----------------------------------------------------------------------------
\* The parts in the server

\* What is proved of Drive holds of the server, of which it is a part.
THEOREM ServerRunsDrive == ServerSpec => Spec
<1>1. ServerInit => Init
  BY DEF ServerInit
<1>2. [ServerNext]_allVars => [Next]_vars
  BY DEF ServerNext, allVars
<1>3. QED
  BY <1>1, <1>2, PTL DEF ServerSpec, Spec

VP == INSTANCE Verification_proofs WITH req <- guess, used <- spent

\* The module of the proofs has the steps of Verification itself.
LEMMA SameSteps == V!Next => VP!Next
BY DEF V!Next, VP!Next, V!BeginSend, VP!BeginSend, V!Begin, VP!Begin, V!Reserve,
   VP!Reserve, V!InsertCode, VP!InsertCode, V!FindCode, VP!FindCode, V!ComparePrivate,
   VP!ComparePrivate, V!CompareFile, VP!CompareFile, V!CompareConfirm,
   VP!CompareConfirm, V!MarkUsed, VP!MarkUsed, V!ClearFails, VP!ClearFails, V!Count,
   VP!Count, V!SetExpiry, VP!SetExpiry, V!LockOut, VP!LockOut, V!ResetFails,
   VP!ResetFails, V!Abort, VP!Abort, V!ExpireRate, VP!ExpireRate, V!ExpireFails,
   VP!ExpireFails, V!ExpireLock, VP!ExpireLock, V!ExpireCode, VP!ExpireCode, V!At,
   VP!At, V!GoTo, VP!GoTo, V!End, VP!End, V!Missed, VP!Missed, V!world, VP!world,
   V!records, VP!records, V!keys, VP!keys, V!ghosts, VP!ghosts

\* And so have the behaviours of the server.
LEMMA ServerRunsVerification == ServerSpec => VP!Spec
<1>1. ServerInit => VP!Init
  BY DEF ServerInit, V!Init, VP!Init, V!Guards, VP!Guards
<1>2. [ServerNext]_allVars => [VP!Next]_(VP!vars)
  BY SameSteps DEF ServerNext, allVars, verification, VP!vars, VP!world, VP!keys, VP!records,
     VP!ghosts
<1>3. QED
  BY <1>1, <1>2, PTL DEF ServerSpec, VP!Spec

\* Verification, in the server: a code is accepted once.
THEOREM ServerUsesCodesOnce == ServerSpec => []CodeUsedOnce
<1>1. VP!CodeUsedOnce => CodeUsedOnce
  BY DEF CodeUsedOnce, V!CodeUsedOnce, VP!CodeUsedOnce
<1>2. QED
  BY <1>1, ServerRunsVerification, VP!OnlyOnce, PTL

\* Each instance has definitions of its own of what it EXTENDS.
LEMMA SameSets ==
  /\ IsFiniteSet(Requests) => VP!IsFiniteSet(Requests)
  /\ VP!Cardinality(Requests) = V!Cardinality(Requests)
<1>1. IsFiniteSet(Requests) => VP!IsFiniteSet(Requests)
  BY DEF IsFiniteSet, VP!IsFiniteSet
<1>2. VP!Cardinality(Requests) = V!Cardinality(Requests)
  BY DEF VP!Cardinality, V!Cardinality
<1>3. QED
  BY <1>1, <1>2

\* Verification, in the server: few wrong guesses are evaluated.
THEOREM ServerBoundsGuesses == ServerSpec => []GuessesBounded
<1>1. VP!BoundAssumption
  BY VerificationAssumption, SameSets DEF VP!BoundAssumption, VP!Awaits, V!Awaits
<1>2. VP!GuessesBounded => GuessesBounded
  BY SameSets DEF GuessesBounded, V!GuessesBounded, VP!GuessesBounded
<1>3. QED
  BY <1>1, <1>2, ServerRunsVerification, VP!FewWrongGuesses, PTL
=============================================================================
