------------------------------ MODULE FileTree ------------------------------
(***************************************************************************)
(* The folder tree of one user: the parent_id and deleted_at columns of    *)
(* nodes, and the requests of FilesService and WebdavService that write    *)
(* them.  A request reads row by row, or level by level, and writes at the *)
(* end; requests interleave at every await.                                *)
(*                                                                         *)
(* The nodes are those below a folder Top that no modelled request moves   *)
(* or deletes.  Names are left out: a name already taken or a full folder  *)
(* is a refusal that may happen, and a WebDAV path stands for the node it  *)
(* resolves to, if it does.  A walk up from the target of a file, which    *)
(* WebDAV saves itself, finds nothing; the set of visited rows that ends   *)
(* its walks in a cycle is left out.  Storage objects, quota and the audit *)
(* log are not modelled here.                                              *)
(***************************************************************************)
EXTENDS Integers, FiniteSets

CONSTANTS
  Nodes,    \* identities a row may take, never used twice
  Top,      \* the folder above them all
  Movers,   \* move requests the server handles at a time
  Keepers,  \* other requests it handles at a time
  LateTargets  \* a WebDAV target may turn up between two queries for it

ASSUME TreeAssumption ==
  /\ Top \notin Nodes
  /\ LateTargets \in BOOLEAN

VARIABLES
  rows,     \* the nodes that have a row
  past,     \* the nodes that ever had one
  folders,  \* those of type folder
  parent,   \* parent_id
  trashed,  \* those with a deleted_at
  \* move requests
  mpc,      \* the await a move is at
  door,     \* "api": FilesService.move, "dav": WebdavService.move
  node,     \* the node to move
  target,   \* the folder to move it to
  from,     \* its parent when it was loaded
  at,       \* the row isDescendant reads next, on its way up from target;
            \* later, the row to overwrite
  \* other requests
  kpc,      \* the await such a request is at
  root,     \* the node it is about
  found,    \* the descendants of root collected so far
  level     \* those whose children are read next

treeVars == <<rows, past, folders, parent, trashed>>
moveVars == <<mpc, door, node, target, from, at>>
keepVars == <<kpc, root, found, level>>
vars == <<treeVars, moveVars, keepVars>>

Places == Nodes \union {Top}

TreeTypes ==
  /\ rows \subseteq past
  /\ past \subseteq Nodes
  /\ folders \subseteq rows
  /\ trashed \subseteq rows
  /\ parent \in [Nodes -> Places]
  \* the foreign key of parent_id, and the nodes that have no row
  /\ \A n \in rows : parent[n] \in rows \union {Top}
  /\ \A n \in Nodes \ rows : parent[n] = Top

MoveTypes ==
  /\ mpc \in [Movers -> {"idle", "target", "walk", "resolve",
                       "overwrite", "update"}]
  /\ door \in [Movers -> {"api", "dav"}]
  /\ node \in [Movers -> Places]
  /\ target \in [Movers -> Places]
  /\ from \in [Movers -> Places]
  /\ at \in [Movers -> Places]

KeepTypes ==
  /\ kpc \in [Keepers -> {"idle", "insert", "trash", "davTrash", "restore", "purge"}]
  /\ root \in [Keepers -> Places]
  /\ found \in [Keepers -> SUBSET Nodes]
  /\ level \in [Keepers -> SUBSET Nodes]

TypeOK == TreeTypes /\ MoveTypes /\ KeepTypes

Init ==
  /\ rows = {}
  /\ past = {}
  /\ folders = {}
  /\ parent = [n \in Nodes |-> Top]
  /\ trashed = {}
  /\ mpc = [m \in Movers |-> "idle"]
  /\ door = [m \in Movers |-> "api"]
  /\ node = [m \in Movers |-> Top]
  /\ target = [m \in Movers |-> Top]
  /\ from = [m \in Movers |-> Top]
  /\ at = [m \in Movers |-> Top]
  /\ kpc = [k \in Keepers |-> "idle"]
  /\ root = [k \in Keepers |-> Top]
  /\ found = [k \in Keepers |-> {}]
  /\ level = [k \in Keepers |-> {}]

Live == rows \ trashed
LiveFolders == (Live \intersect folders) \union {Top}

\* The rows whose parent is in S.
Children(S) == {n \in rows : parent[n] \in S}

-----------------------------------------------------------------------------
\* Move

EndMove(m) ==
  /\ mpc' = [mpc EXCEPT ![m] = "idle"]
  /\ door' = [door EXCEPT ![m] = "api"]
  /\ node' = [node EXCEPT ![m] = Top]
  /\ target' = [target EXCEPT ![m] = Top]
  /\ from' = [from EXCEPT ![m] = Top]
  /\ at' = [at EXCEPT ![m] = Top]

Continue(m, p) ==
  /\ mpc' = [mpc EXCEPT ![m] = p]
  /\ UNCHANGED <<door, node, target, from>>

\* The node is loaded; a move to itself is refused on the spot.
BeginMove(m) ==
  /\ mpc[m] = "idle"
  /\ \E n \in Live, t \in rows \union {Top}, d \in {"api", "dav"} :
       /\ t # n
       /\ node' = [node EXCEPT ![m] = n]
       /\ target' = [target EXCEPT ![m] = t]
       /\ door' = [door EXCEPT ![m] = d]
       /\ from' = [from EXCEPT ![m] = parent[n]]
  /\ mpc' = [mpc EXCEPT ![m] = "target"]
  /\ UNCHANGED <<at, treeVars, keepVars>>

\* Variant: any live node will do as the target.
LoadAnyTarget(m) ==
  /\ mpc[m] = "target"
  /\ \/ /\ target[m] \in Live \union {Top}
        /\ at' = [at EXCEPT ![m] = target[m]]
        /\ Continue(m, "walk")
     \/ /\ target[m] \notin Live \union {Top}
        /\ EndMove(m)
  /\ UNCHANGED <<treeVars, keepVars>>

\* A target that is missing ends a move; but WebDAV just leaves out the walk
\* then, and looks for the target again.
LoadTarget(m) ==
  /\ mpc[m] = "target"
  /\ \/ /\ target[m] \in LiveFolders
        /\ at' = [at EXCEPT ![m] = target[m]]
        /\ Continue(m, "walk")
     \/ /\ target[m] \notin LiveFolders
        /\ IF door[m] = "dav" /\ LateTargets
             THEN Continue(m, "resolve") /\ UNCHANGED at
             ELSE EndMove(m)
  /\ UNCHANGED <<treeVars, keepVars>>

\* What follows the walk: WebDAV resolves the target again.
AfterWalk(m) == IF door[m] = "api" THEN "update" ELSE "resolve"

\* Variant: only the parent of the target is looked at.
WalkOneStep(m) ==
  /\ mpc[m] = "walk"
  /\ \/ /\ at[m] \in rows /\ parent[at[m]] = node[m]
        /\ EndMove(m)
     \/ /\ ~(at[m] \in rows /\ parent[at[m]] = node[m])
        /\ Continue(m, AfterWalk(m))
        /\ UNCHANGED at
  /\ UNCHANGED <<treeVars, keepVars>>

\* Variant: the loop does not go on to the parent.
WalkInPlace(m) ==
  /\ mpc[m] = "walk"
  /\ \/ /\ at[m] \notin rows
        /\ Continue(m, AfterWalk(m))
        /\ UNCHANGED at
     \/ /\ at[m] \in rows
        /\ parent[at[m]] = node[m]
        /\ EndMove(m)
  /\ UNCHANGED <<treeVars, keepVars>>

\* One turn of isDescendant: the row is read, its parent compared.  It ends at
\* the top, or at a row that is gone.
Walk(m) ==
  /\ mpc[m] = "walk"
  /\ \/ /\ at[m] \notin rows
        /\ Continue(m, AfterWalk(m))
        /\ UNCHANGED at
     \/ /\ at[m] \in rows
        /\ parent[at[m]] = node[m]
        /\ EndMove(m)
     \/ /\ at[m] \in rows
        /\ parent[at[m]] # node[m]
        /\ at' = [at EXCEPT ![m] = parent[at[m]]]
        /\ Continue(m, "walk")
  /\ UNCHANGED <<treeVars, keepVars>>

\* Variant: no cascade.
OnlyItself(n) == {n}

\* n and everything below it: ON DELETE CASCADE of parent_id.
Below(n) ==
  {x \in rows : \A S \in SUBSET rows :
                  {n} \intersect rows \subseteq S /\ Children(S) \subseteq S
                    => x \in S}

\* The rows of S are gone for good.
Delete(S) ==
  /\ rows' = rows \ S
  /\ folders' = folders \ S
  /\ trashed' = trashed \ S
  /\ parent' = [n \in Nodes |-> IF n \in S THEN Top ELSE parent[n]]

\* WebDAV resolves the target again, and looks for a node there that has the
\* new name.
Resolve(m) ==
  /\ mpc[m] = "resolve"
  /\ \/ /\ target[m] \in LiveFolders
        /\ Continue(m, "update")
        /\ UNCHANGED at
     \/ /\ target[m] \in LiveFolders
        /\ \E n \in (Children({target[m]}) \ trashed) \ {node[m]} :
             at' = [at EXCEPT ![m] = n]
        /\ Continue(m, "overwrite")
     \/ /\ target[m] \notin LiveFolders
        /\ EndMove(m)
  /\ UNCHANGED <<treeVars, keepVars>>

\* That node is deleted, whatever it is, with all that is below it.
Overwrite(m) ==
  /\ mpc[m] = "overwrite"
  /\ Delete(Below(at[m]))
  /\ Continue(m, "update")
  /\ UNCHANGED <<at, past, keepVars>>

\* The folder limit or the name is against the move; or WebDAV, which asks for
\* the target of a file once more, does not find it.
RefuseMove(m) ==
  /\ mpc[m] = "update"
  /\ door[m] = "dav" =>
       node[m] \notin folders /\ target[m] \notin LiveFolders /\ target[m] # from[m]
  /\ EndMove(m)
  /\ UNCHANGED <<treeVars, keepVars>>

\* Variant: the update before P1-B5.
UnconditionalUpdate(m) ==
  /\ mpc[m] = "update"
  /\ parent' = IF node[m] \in rows /\ target[m] \in rows \union {Top}
               THEN [parent EXCEPT ![node[m]] = target[m]] ELSE parent
  /\ EndMove(m)
  /\ UNCHANGED <<rows, past, folders, trashed, keepVars>>

\* FilesService.move requires the row to be what it loaded; WebDAV writes a
\* parent_id only if it is not the one it loaded.
Writes(m) ==
  IF door[m] = "api" THEN parent[node[m]] = from[m] /\ node[m] \notin trashed
                     ELSE target[m] # from[m]

\* UPDATE nodes SET parent_id = target WHERE ...; the foreign key rejects a
\* target that is gone.
Update(m) ==
  /\ mpc[m] = "update"
  /\ parent' = IF /\ node[m] \in rows
                  /\ target[m] \in rows \union {Top}
                  /\ Writes(m)
               THEN [parent EXCEPT ![node[m]] = target[m]] ELSE parent
  /\ EndMove(m)
  /\ UNCHANGED <<rows, past, folders, trashed, keepVars>>

Move(m) ==
  \/ LoadTarget(m)
  \/ Walk(m)
  \/ Resolve(m)
  \/ Overwrite(m)
  \/ Update(m)

-----------------------------------------------------------------------------
\* Create, trash, restore and purge

EndKeep(k) ==
  /\ kpc' = [kpc EXCEPT ![k] = "idle"]
  /\ root' = [root EXCEPT ![k] = Top]
  /\ found' = [found EXCEPT ![k] = {}]
  /\ level' = [level EXCEPT ![k] = {}]

BeginKeep(k, op, n, S) ==
  /\ kpc[k] = "idle"
  /\ kpc' = [kpc EXCEPT ![k] = op]
  /\ root' = [root EXCEPT ![k] = n]
  /\ found' = [found EXCEPT ![k] = S]
  /\ level' = [level EXCEPT ![k] = S]
  /\ UNCHANGED <<treeVars, moveVars>>

\* validateParent, then the limit and the name.
BeginCreate(k) == \E p \in LiveFolders : BeginKeep(k, "insert", p, {})

\* The foreign key rejects a parent that is gone, not one in the trash.
Insert(k) ==
  /\ kpc[k] = "insert"
  /\ \/ /\ root[k] \in rows \union {Top}
        /\ \E n \in Nodes \ past :
             /\ rows' = rows \union {n}
             /\ past' = past \union {n}
             /\ folders' \in {folders, folders \union {n}}
             /\ parent' = [parent EXCEPT ![n] = root[k]]
     \/ /\ root[k] \notin rows \union {Top} \/ past = Nodes
        /\ UNCHANGED <<rows, past, folders, parent>>
  /\ EndKeep(k)
  /\ UNCHANGED <<trashed, moveVars>>

BeginTrash(k) == \E n \in Live : BeginKeep(k, "trash", n, {n})
BeginDavTrash(k) == \E n \in Live : BeginKeep(k, "davTrash", n, {n})
BeginRestore(k) == \E n \in trashed : BeginKeep(k, "restore", n, {n})
BeginPurge(k) == \E n \in rows : BeginKeep(k, "purge", n, {})

Collecting == {"trash", "davTrash", "restore"}

\* One round of collectDescendantIds.  WebDAV's goes through live nodes only.
NextLevel(k) ==
  IF kpc[k] = "davTrash" THEN Children(level[k]) \ trashed
                         ELSE Children(level[k]) \ found[k]

Collect(k) ==
  /\ kpc[k] \in Collecting
  /\ level[k] # {}
  /\ found' = [found EXCEPT ![k] = @ \union NextLevel(k)]
  /\ level' = [level EXCEPT ![k] = NextLevel(k)]
  /\ UNCHANGED <<kpc, root, treeVars, moveVars>>

\* One UPDATE of all that was collected.
Mark(k) ==
  /\ kpc[k] \in Collecting
  /\ level[k] = {}
  /\ trashed' = IF kpc[k] = "restore" THEN trashed \ found[k]
                ELSE trashed \union (found[k] \intersect rows)
  /\ EndKeep(k)
  /\ UNCHANGED <<rows, past, folders, parent, moveVars>>

\* permanentDelete: the last of its steps, DELETE with its cascade.
Purge(k) ==
  /\ kpc[k] = "purge"
  /\ Delete(Below(root[k]))
  /\ EndKeep(k)
  /\ UNCHANGED <<past, moveVars>>

Keep(k) ==
  \/ Insert(k)
  \/ Collect(k)
  \/ Mark(k)
  \/ Purge(k)

-----------------------------------------------------------------------------
Next ==
  \/ \E m \in Movers : BeginMove(m) \/ Move(m) \/ RefuseMove(m)
  \/ \E k \in Keepers :
       \/ BeginCreate(k)
       \/ BeginTrash(k)
       \/ BeginDavTrash(k)
       \/ BeginRestore(k)
       \/ BeginPurge(k)
       \/ Keep(k)

Spec == Init /\ [][Next]_vars

\* A move that was accepted is run on by the event loop; nothing is asked of
\* the other requests.
Fairness == \A m \in Movers : WF_vars(Move(m))

FairSpec == Spec /\ Fairness

-----------------------------------------------------------------------------
\* Properties

\* parent_id has no cycle: in every set of rows one has its parent outside.
\* The guarantee of isDescendant (P1-B6), however many rows come and go while
\* it walks up, as long as moves do not overlap and no WebDAV move finds its
\* target only after it has left out the walk.
Acyclic ==
  \A S \in SUBSET rows : S # {} => \E n \in S : parent[n] \notin S

\* A node hangs below a folder that exists, never below a file.
ParentsAreFolders ==
  \A n \in rows : parent[n] \in (rows \intersect folders) \union {Top}

\* A node changes its place only in a move of it, and FilesService.move does
\* that only if the node is still where it was when it was loaded, and not in
\* the trash by then (P1-B5).
ApiMovesWhatItLoaded ==
  [][\A n \in rows :
       rows' = rows /\ parent'[n] # parent[n] =>
         \E m \in Movers :
           /\ node[m] = n
           /\ door[m] = "api" => n \notin trashed /\ parent[n] = from[m]]_vars

\* A move is answered: the loop of isDescendant, which has no bound, ends.
MoveEnds == \A m \in Movers : mpc[m] # "idle" ~> mpc[m] = "idle"
=============================================================================
