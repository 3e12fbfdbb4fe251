------------------------------- MODULE Drive --------------------------------
(***************************************************************************)
(* What the drive of one user holds: the tables nodes, file_chunks,        *)
(* node_versions and file_requests, the storage objects they point to and  *)
(* users.used_bytes, with the requests of FilesService, WebdavService and  *)
(* AdminService that write more than one of them.  Requests interleave at  *)
(* every await.  Moves, and the level by level walks of trash and restore, *)
(* are in module FileTree; uploads in chunks in module ChunkUpload.        *)
(*                                                                         *)
(* The content of a file is one stored object, kept as its size and the    *)
(* number of the upload that wrote it.  A file has at most one chunk       *)
(* unless two requests write it at once.  Names, keys, locks, thumbnails   *)
(* and the audit log are left out.                                         *)
(***************************************************************************)
EXTENDS Integers, Sequences, FiniteSets, FiniteSetsExt

CONSTANTS
  Nodes,         \* identities a row may take, never used twice
  Top,           \* parent_id null
  None,          \* no row, no object, no request
  Requests,      \* requests the server handles at a time
  Sizes,         \* sizes of a content that is written
  Quota,         \* quota_bytes
  Backend,       \* the primary storage: "local" or "r2"
  StorageFails,  \* an upload to the storage may fail
  VersionLimit,  \* AUTO_VERSION_LIMIT
  MaxFiles,      \* max_files of a file request
  MaxFolders,    \* folders a copy takes apart (10000 in the code)
  MaxBegun,      \* bound on the requests ever begun
  MaxUploads     \* bound on the objects ever written

ASSUME DriveAssumption ==
  /\ Top \notin Nodes
  /\ None \notin Nodes \union Nat
  /\ Sizes \subseteq Nat \ {0}
  /\ Quota \in Nat
  /\ Backend \in {"local", "r2"}
  /\ StorageFails \in BOOLEAN
  /\ {VersionLimit, MaxFiles, MaxFolders, MaxBegun, MaxUploads} \subseteq Nat \ {0}

\* Sums and walks go over finitely many rows.
ASSUME NodesAssumption == IsFiniteSet(Nodes)

VARIABLES
  row,       \* nodes: row[n], None when there is none
  past,      \* the nodes that ever had a row
  chunks,    \* file_chunks: the objects node n points to
  versions,  \* node_versions of n
  store,     \* the storage: the content of an object, None when there is none
  uploads,   \* uploads the storage has taken
  used,      \* users.used_bytes
  link,      \* the row of file_requests, None before there is one
  received,  \* files that came in through link
  req,       \* the request each slot handles
  begun,     \* requests begun so far
  regular    \* no two requests have overlapped, no MOVE has replaced a folder and
             \* nothing has been copied below a file

nodeVars == <<row, past, chunks, versions>>
storeVars == <<store, uploads>>
linkVars == <<link, received>>
ghosts == <<begun, regular>>
vars == <<nodeVars, storeVars, used, linkVars, req, ghosts>>

Keys == Nodes \union (1 .. MaxUploads)
Places == Nodes \union {Top}

Row == [folder : BOOLEAN, parent : Places, size : Nat, trashed : BOOLEAN]
Link == [count : Nat, open : BOOLEAN, folder : Nodes]
Content == [upload : 1 .. MaxUploads, size : Sizes]

\* None is no row, no link and no content.
ASSUME RowAssumption == None \notin Row \union Link \union [upload : Nat, size : Nat]

\* `was` is the content when the version was made: no code reads it.
Version == [number : Nat, keys : SUBSET Keys, was : SUBSET Content]

Writers == {"document", "dav", "offline", "request", "edit"}
Ops == Writers \union {"version", "copy", "purge", "replace", "admin"}

\* The awaits of an operation, in their order.  A purge goes through its own for
\* each of its nodes, and a copy through "row" and, for a file, "chunks".
Awaits ==
  [document |-> <<"insert", "upload", "chunk", "size", "charge">>,
   dav      |-> <<"insert", "upload", "size", "chunk", "charge">>,
   offline  |-> <<"insert", "upload", "size", "chunk", "charge">>,
   request  |-> <<"count", "quota", "insert", "upload", "chunk", "charge">>,
   edit     |-> <<"load", "version", "upload", "drop", "chunk", "size", "charge">>,
   version  |-> <<"load", "version">>,
   copy     |-> <<"copies">>,
   purge    |-> <<"refund", "objects", "delete">>,
   replace  |-> <<"objects", "refund", "delete">>,
   admin    |-> <<"save">>]

TypeOK ==
  /\ row \in [Nodes -> Row \union {None}]
  /\ past \subseteq Nodes
  /\ chunks \in [Nodes -> SUBSET Keys]
  /\ \A n \in Nodes : versions[n] \subseteq Version
  /\ store \in [Keys -> Content \union {None}]
  /\ uploads \in 0 .. MaxUploads
  /\ used \in Int
  /\ link \in Link \union {None}
  /\ received \in Nat
  /\ \A r \in Requests : req[r] # None => req[r].op \in Ops /\ req[r].todo # <<>>
  /\ begun \in 0 .. MaxBegun
  /\ regular \in BOOLEAN

Init ==
  /\ row = [n \in Nodes |-> None]
  /\ past = {}
  /\ chunks = [n \in Nodes |-> {}]
  /\ versions = [n \in Nodes |-> {}]
  /\ store = [k \in Keys |-> None]
  /\ uploads = 0
  /\ used = 0
  /\ link = None
  /\ received = 0
  /\ req = [r \in Requests |-> None]
  /\ begun = 0
  /\ regular = TRUE

-----------------------------------------------------------------------------
\* Helpers

Rows == {n \in Nodes : row[n] # None}
Live == {n \in Rows : ~row[n].trashed}
Files == {n \in Rows : ~row[n].folder}
Folders == Rows \ Files
LiveFolders == (Live \intersect Folders) \union {Top}

Children(S) == {n \in Rows : row[n].parent \in S}

\* S and all that is below
Subtree(S) ==
  LET grow[i \in 0 .. Cardinality(Nodes)] ==
        IF i = 0 THEN S ELSE grow[i - 1] \union Children(grow[i - 1])
  IN  grow[Cardinality(Nodes)]

\* The sizes that rs has for S, added up
Total(rs, S) == MapThenSumSet(LAMBDA n : rs[n].size, S)

SizeOf(S) == Total(row, S \intersect Files)

NewRow(folder, parent, size) ==
  [folder |-> folder, parent |-> parent, size |-> size, trashed |-> FALSE]

\* The foreign keys of nodes.parent_id, file_chunks and node_versions cascade.
DeleteRows(S) ==
  /\ row' = [n \in Nodes |-> IF n \in S THEN None ELSE row[n]]
  /\ chunks' = [n \in Nodes |-> IF n \in S THEN {} ELSE chunks[n]]
  /\ versions' = [n \in Nodes |-> IF n \in S THEN {} ELSE versions[n]]
  /\ UNCHANGED past

\* Variant: the local storage keeps the name its caller gives.
NodeKeyOf(n) == n

\* The object buildR2Key names for node n, or a file of a new random name.
KeyOf(n) == IF Backend = "r2" THEN n ELSE uploads + 1

-----------------------------------------------------------------------------
\* A request: its operation, the awaits left, the node it is at, the parent of
\* the node to insert, the size to write, the size the node had when it was
\* loaded, the objects it has loaded or written, the count it has read, what is
\* left of a purge or a copy, and the folders a copy has to take apart.
Request(op, node, parent, size) ==
  [op |-> op, todo |-> Awaits[op], node |-> node, parent |-> parent,
   size |-> size, prev |-> 0, keys |-> {}, count |-> 0, work |-> {}, queue |-> <<>>]

\* One more request
Count == begun < MaxBegun /\ begun' = begun + 1

Idle == \A r \in Requests : req[r] = None

Start(r, q, asExpected) ==
  /\ req[r] = None
  /\ Count
  /\ req' = [req EXCEPT ![r] = q]
  /\ regular' = (regular /\ Idle /\ asExpected)
  /\ UNCHANGED <<nodeVars, storeVars, used, linkVars>>

Begin(r, q) == Start(r, q, TRUE)

At(r, await) == req[r] # None /\ Head(req[r].todo) = await

\* The request as q, past the await it is at.
Go(r, q) ==
  req' = [req EXCEPT ![r] = IF Len(q.todo) = 1 THEN None
                            ELSE [q EXCEPT !.todo = Tail(@)]]

Finish(r) == req' = [req EXCEPT ![r] = None]

-----------------------------------------------------------------------------
\* New files and new contents

\* FilesService.createFolder
CreateFolder(n, p) ==
  /\ Count
  /\ n \notin past
  /\ p \in LiveFolders
  /\ row' = [row EXCEPT ![n] = NewRow(TRUE, p, 0)]
  /\ past' = past \union {n}
  /\ UNCHANGED <<chunks, versions, storeVars, used, linkVars, req, regular>>

\* createDocument, with a content or, of size 0, without
BeginDocument(r) ==
  \E p \in LiveFolders, s \in Sizes \union {0} :
    LET q == Request("document", None, p, s)
    IN  Begin(r, IF s = 0 THEN [q EXCEPT !.todo = <<"insert">>] ELSE q)

\* WebdavService.put
BeginPut(r) ==
  \E p \in LiveFolders, s \in Sizes :
    used + s <= Quota /\ Begin(r, Request("dav", None, p, s))

\* createOfflineDownload: the size is not known when the quota is looked at.
BeginOfflineDownload(r) ==
  \E p \in LiveFolders, s \in Sizes :
    used < Quota /\ Begin(r, Request("offline", None, p, s))

\* Variant: one file too many.
BeginUploadUpTo(r) ==
  \E s \in Sizes :
    /\ link # None
    /\ link.open
    /\ link.count <= MaxFiles
    /\ Begin(r, [Request("request", None, link.folder, s) EXCEPT !.count = link.count])

\* uploadToFileRequest: the link as it is loaded
BeginUploadToRequest(r) ==
  \E s \in Sizes :
    /\ link # None
    /\ link.open
    /\ link.count < MaxFiles
    /\ Begin(r, [Request("request", None, link.folder, s) EXCEPT !.count = link.count])

\* updateFileContent
BeginUpdateContent(r) ==
  \E n \in Live \intersect Files, s \in Sizes :
    Begin(r, [Request("edit", n, Top, s) EXCEPT !.prev = row[n].size])

\* createVersion
BeginCreateVersion(r) ==
  \E n \in Live \intersect Files : Begin(r, Request("version", n, Top, 0))

\* The whole entity is saved, with the count it was loaded with.
SaveCount(r) ==
  /\ At(r, "count")
  /\ link' = [link EXCEPT !.count = req[r].count + 1]
  /\ Go(r, req[r])
  /\ UNCHANGED <<nodeVars, storeVars, used, received, ghosts>>

OwnerQuota(r) ==
  /\ At(r, "quota")
  /\ IF used + req[r].size <= Quota THEN Go(r, req[r]) ELSE Finish(r)
  /\ UNCHANGED <<nodeVars, storeVars, used, linkVars, ghosts>>

\* The row is inserted with size 0; that of an upload to a link with its own.
\* The insertion is refused when the parent is gone.
InsertNode(r) ==
  /\ At(r, "insert")
  /\ LET q == req[r]
     IN  IF q.parent \in Rows \union {Top}
         THEN \E n \in Nodes \ past :
                /\ row' = [row EXCEPT ![n] =
                     NewRow(FALSE, q.parent, IF q.op = "request" THEN q.size ELSE 0)]
                /\ past' = past \union {n}
                /\ received' = IF q.op = "request" THEN received + 1 ELSE received
                /\ Go(r, [q EXCEPT !.node = n])
         ELSE Finish(r) /\ UNCHANGED <<row, past, received>>
  /\ UNCHANGED <<chunks, versions, storeVars, used, link, ghosts>>

\* StorageService.upload
Upload(r) ==
  /\ At(r, "upload")
  /\ uploads < MaxUploads
  /\ LET k == KeyOf(req[r].node)
     IN  /\ store' = [store EXCEPT ![k] = [upload |-> uploads + 1, size |-> req[r].size]]
         /\ Go(r, [req[r] EXCEPT !.keys = {k}])
  /\ uploads' = uploads + 1
  /\ UNCHANGED <<nodeVars, used, linkVars, ghosts>>

\* The request fails.  Only the offline download takes its node away again; its
\* fetch may fail whatever the storage does.
UploadFails(r) ==
  /\ At(r, "upload")
  /\ StorageFails \/ req[r].op = "offline"
  /\ IF req[r].op = "offline"
     THEN DeleteRows(Subtree({req[r].node})) ELSE UNCHANGED nodeVars
  /\ Finish(r)
  /\ UNCHANGED <<storeVars, used, linkVars, ghosts>>

\* The chunk of a node that is gone is refused.
SaveChunk(r) ==
  /\ At(r, "chunk")
  /\ LET n == req[r].node
     IN  IF n \in Rows
         THEN /\ chunks' = [chunks EXCEPT ![n] = @ \union req[r].keys]
              /\ Go(r, req[r])
         ELSE Finish(r) /\ UNCHANGED chunks
  /\ UNCHANGED <<row, past, versions, storeVars, used, linkVars, ghosts>>

DropChunks(r) ==
  /\ At(r, "drop")
  /\ chunks' = [chunks EXCEPT ![req[r].node] = {}]
  /\ Go(r, req[r])
  /\ UNCHANGED <<row, past, versions, storeVars, used, linkVars, ghosts>>

SetSize(r) ==
  /\ At(r, "size")
  /\ LET n == req[r].node
     IN  row' = IF n \in Rows THEN [row EXCEPT ![n].size = req[r].size] ELSE row
  /\ Go(r, req[r])
  /\ UNCHANGED <<past, chunks, versions, storeVars, used, linkVars, ghosts>>

\* Variant: the bytes of the content that was replaced stay on the account.
ChargeAll(r) ==
  /\ At(r, "charge")
  /\ used' = used + req[r].size
  /\ Go(r, req[r])
  /\ UNCHANGED <<nodeVars, storeVars, linkVars, ghosts>>

Charge(r) ==
  /\ At(r, "charge")
  /\ used' = used + req[r].size - req[r].prev
  /\ Go(r, req[r])
  /\ UNCHANGED <<nodeVars, storeVars, linkVars, ghosts>>

-----------------------------------------------------------------------------
\* Versions: autoSaveVersion, whose failures are ignored, and createVersion

Contents(ks) == {store[k] : k \in ks} \ {None}

\* Without chunks there is nothing to save: the edit goes on, createVersion is
\* refused.
LoadChunks(r) ==
  /\ At(r, "load")
  /\ LET q == req[r]
         ks == chunks[q.node]
     IN  IF ks # {}
         THEN Go(r, [q EXCEPT !.keys = ks, !.count = Cardinality(versions[q.node])])
         ELSE IF q.op = "edit" THEN Go(r, [q EXCEPT !.todo = Tail(@)]) ELSE Finish(r)
  /\ UNCHANGED <<nodeVars, storeVars, used, linkVars, ghosts>>

\* What is left of vs when k versions of the lowest numbers have been dropped:
\* which of those that share a number is for the database to choose.
DropLowest(vs, k) ==
  {kept \in SUBSET vs :
     /\ Cardinality(kept) = IF k < Cardinality(vs) THEN Cardinality(vs) - k ELSE 0
     /\ \A v \in kept, w \in vs \ kept : w.number <= v.number}

Excess(r) ==
  IF req[r].op = "edit" /\ req[r].count >= VersionLimit
  THEN req[r].count - VersionLimit + 1
  ELSE 0

SaveVersion(r) ==
  /\ At(r, "version")
  /\ LET q == req[r]
         n == q.node
     IN  IF n \in Rows
         THEN \E kept \in DropLowest(versions[n], Excess(r)) :
                versions' = [versions EXCEPT ![n] = kept \union
                  {[number |-> q.count + 1, keys |-> q.keys, was |-> Contents(q.keys)]}]
         ELSE UNCHANGED versions
  /\ Go(r, req[r])
  /\ UNCHANGED <<row, past, chunks, storeVars, used, linkVars, ghosts>>

\* What getVersionDownloadInfo leads to
Download(v) == Contents(v.keys)

-----------------------------------------------------------------------------
\* FilesService.copy: breadth first, with the children of a folder as they were
\* when the folder was taken apart.  The target is not looked at.

Item(n, p) == [src |-> n, parent |-> p, row |-> row[n]]

BeginCopy(r) ==
  \E n \in Live, p \in Rows \union {Top} :
    Start(r, [Request("copy", None, p, 0) EXCEPT !.work = {Item(n, p)}], p \notin Files)

\* The copy of one row.  The bytes are added up in `size`.
CopyRow(r) ==
  /\ At(r, "copies")
  /\ \E w \in req[r].work :
       LET q == [req[r] EXCEPT !.work = @ \ {w}]
       IN  IF w.parent \in Rows \union {Top}
           THEN \E n \in Nodes \ past :
                  /\ row' = [row EXCEPT ![n] = NewRow(w.row.folder, w.parent, w.row.size)]
                  /\ past' = past \union {n}
                  /\ req' = [req EXCEPT ![r] =
                       IF w.row.folder
                       THEN [q EXCEPT !.queue = Append(@, <<w.src, n>>)]
                       ELSE [q EXCEPT !.todo = <<"chunks">> \o @, !.node = n,
                                      !.keys = chunks[w.src], !.prev = w.row.size]]
           ELSE Finish(r) /\ UNCHANGED <<row, past>>
  /\ UNCHANGED <<chunks, versions, storeVars, used, linkVars, ghosts>>

\* The chunks of the copy point to the objects of the original.
CopyChunks(r) ==
  /\ At(r, "chunks")
  /\ LET q == req[r]
     IN  IF q.node \in Rows \/ q.keys = {}
         THEN /\ chunks' = [chunks EXCEPT ![q.node] = q.keys]
              /\ Go(r, [q EXCEPT !.size = @ + q.prev, !.prev = 0, !.keys = {}])
         ELSE Finish(r) /\ UNCHANGED chunks
  /\ UNCHANGED <<row, past, versions, storeVars, used, linkVars, ghosts>>

\* The children of the next folder that are not in the trash.  A copy of too
\* many folders ends where it is, and what it has copied stays uncharged.
CopyFolder(r) ==
  /\ At(r, "copies")
  /\ LET q == req[r]
     IN  /\ q.work = {}
         /\ q.queue # <<>>
         /\ IF q.count < MaxFolders
            THEN LET src == Head(q.queue)[1]
                     dst == Head(q.queue)[2]
                 IN  req' = [req EXCEPT ![r] =
                       [q EXCEPT !.count = @ + 1, !.queue = Tail(@),
                                 !.work = {Item(n, dst) : n \in Children({src}) \intersect Live}]]
            ELSE Finish(r)
  /\ UNCHANGED <<nodeVars, storeVars, used, linkVars, ghosts>>

EndCopy(r) ==
  /\ At(r, "copies")
  /\ req[r].work = {}
  /\ req[r].queue = <<>>
  /\ used' = used + req[r].size
  /\ Finish(r)
  /\ UNCHANGED <<nodeVars, storeVars, linkVars, ghosts>>

-----------------------------------------------------------------------------
\* Nodes that go

\* FilesService.permanentDelete: the rows as they were loaded, one after the
\* other in no given order.  A MOVE that finds a node in its way deletes that one.
Purging(q, w, work) ==
  [q EXCEPT !.todo = Awaits[q.op], !.node = w.src, !.size = w.row.size,
            !.prev = IF w.row.folder THEN 1 ELSE 0, !.work = work \ {w}]

BeginPurge(r) ==
  \E S \in SUBSET Rows :
    LET work == {Item(n, Top) : n \in S}
    IN  \E w \in work : Begin(r, Purging(Request("purge", None, Top, 0), w, work))

BeginReplace(r) ==
  \E n \in Live : Begin(r, Purging(Request("replace", None, Top, 0), Item(n, Top), {}))

IsFolder(q) == q.prev = 1

\* The size of a file is given back as it was loaded; for a folder, a purge adds
\* up the files below, and a MOVE gives nothing back.
Refund(r) ==
  /\ At(r, "refund")
  /\ LET q == req[r]
     IN  /\ used' = IF ~IsFolder(q) THEN used - q.size
                    ELSE IF q.op = "purge" THEN used - SizeOf(Subtree({q.node}))
                    ELSE used
         /\ regular' = (regular /\ ~(IsFolder(q) /\ q.op = "replace"))
         /\ Go(r, q)
  /\ UNCHANGED <<nodeVars, storeVars, linkVars, begun>>

\* Variant: objects are deleted in the local storage as well.
DeleteAnyObjects(r) ==
  /\ At(r, "objects")
  /\ store' = [k \in Keys |-> IF k \in chunks[req[r].node] THEN None ELSE store[k]]
  /\ Go(r, req[r])
  /\ UNCHANGED <<nodeVars, uploads, used, linkVars, ghosts>>

\* The objects of the node itself, in the storages that are asked to
DeleteObjects(r) ==
  /\ At(r, "objects")
  /\ store' = IF Backend = "r2"
              THEN [k \in Keys |-> IF k \in chunks[req[r].node] THEN None ELSE store[k]]
              ELSE store
  /\ Go(r, req[r])
  /\ UNCHANGED <<nodeVars, uploads, used, linkVars, ghosts>>

DeleteNode(r) ==
  /\ At(r, "delete")
  /\ DeleteRows(Subtree({req[r].node}))
  /\ LET q == req[r]
     IN  IF q.work = {} THEN Finish(r)
         ELSE \E w \in q.work : req' = [req EXCEPT ![r] = Purging(q, w, q.work)]
  /\ UNCHANGED <<storeVars, used, linkVars, ghosts>>

-----------------------------------------------------------------------------
\* The trash.  FilesService.softDelete, and restoreTrash of any node

Trash(n) ==
  /\ Count
  /\ n \in Live
  /\ row' = [m \in Nodes |->
       IF m \in Subtree({n}) \intersect Rows THEN [row[m] EXCEPT !.trashed = TRUE] ELSE row[m]]
  /\ UNCHANGED <<past, chunks, versions, storeVars, used, linkVars, req, regular>>

Restore(n) ==
  /\ Count
  /\ n \in Rows \ Live
  /\ row' = [m \in Nodes |->
       IF m \in Subtree({n}) \intersect Rows THEN [row[m] EXCEPT !.trashed = FALSE] ELSE row[m]]
  /\ UNCHANGED <<past, chunks, versions, storeVars, used, linkVars, req, regular>>

\* AdminService.deleteFileAdmin saves the whole entity, of one node: TypeORM
\* writes the columns that differ from the row, or inserts the row again.
BeginDeleteFileAdmin(r) ==
  \E n \in Live :
    Begin(r, [Request("admin", n, Top, 0) EXCEPT !.work = {Item(n, Top)}])

SaveTrashed(r) ==
  /\ At(r, "save")
  /\ \E w \in req[r].work :
       IF w.row.parent \in Rows \union {Top}
       THEN row' = [row EXCEPT ![w.src] = [w.row EXCEPT !.trashed = TRUE]]
       ELSE UNCHANGED row
  /\ Go(r, req[r])
  /\ UNCHANGED <<past, chunks, versions, storeVars, used, linkVars, ghosts>>

-----------------------------------------------------------------------------
\* File requests

CreateFileRequest(n) ==
  /\ Count
  /\ link = None
  /\ n \in Live \intersect Folders
  /\ link' = [count |-> 0, open |-> TRUE, folder |-> n]
  /\ UNCHANGED <<nodeVars, storeVars, used, received, req, regular>>

\* expires_at passes.
LinkExpires ==
  /\ link # None
  /\ link.open
  /\ link' = [link EXCEPT !.open = FALSE]
  /\ UNCHANGED <<nodeVars, storeVars, used, received, req, ghosts>>

-----------------------------------------------------------------------------
Handler(r) ==
  \/ BeginDocument(r)
  \/ BeginPut(r)
  \/ BeginOfflineDownload(r)
  \/ BeginUploadToRequest(r)
  \/ BeginUpdateContent(r)
  \/ BeginCreateVersion(r)
  \/ BeginCopy(r)
  \/ BeginPurge(r)
  \/ BeginReplace(r)
  \/ BeginDeleteFileAdmin(r)
  \/ SaveCount(r)
  \/ OwnerQuota(r)
  \/ InsertNode(r)
  \/ Upload(r)
  \/ UploadFails(r)
  \/ SaveChunk(r)
  \/ DropChunks(r)
  \/ SetSize(r)
  \/ Charge(r)
  \/ LoadChunks(r)
  \/ SaveVersion(r)
  \/ CopyRow(r)
  \/ CopyChunks(r)
  \/ CopyFolder(r)
  \/ EndCopy(r)
  \/ Refund(r)
  \/ DeleteObjects(r)
  \/ DeleteNode(r)
  \/ SaveTrashed(r)

Next ==
  \/ \E r \in Requests : Handler(r)
  \/ \E n \in Nodes :
       \/ \E p \in Places : CreateFolder(n, p)
       \/ Trash(n)
       \/ Restore(n)
       \/ CreateFileRequest(n)
  \/ LinkExpires

Spec == Init /\ [][Next]_vars

-----------------------------------------------------------------------------
\* Correctness

\* A version leads to the content the file had when the version was made,
\* whatever was written, copied or purged since: node_versions keeps references
\* to objects, never a copy of them.
VersionKeepsContent ==
  \A n \in Rows : \A v \in versions[n] : Download(v) = v.was

\* Between requests that did not overlap, a file whose chunks are recorded has one,
\* its object is there and as long as the file is said to be, through edits, copies
\* that share objects, purges of either and uploads that fail.
FilesAreWhole ==
  regular /\ Idle =>
    \A n \in Files : chunks[n] # {} =>
      \E k \in Keys : /\ chunks[n] = {k}
                      /\ store[k] # None
                      /\ row[n].size = store[k].size

\* The owner is never charged more than the files he has, the trash included:
\* bytes are given back by the purge of a file, of a folder, of files in it, and
\* the overwriting of a file, as often as they were charged.
NeverOvercharged == regular /\ Idle => used <= SizeOf(Rows)

\* A link takes no more files than its owner allowed, one upload at a time.
LinkWithinLimit == regular => received <= MaxFiles
=============================================================================
