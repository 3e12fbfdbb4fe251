--------------------------- MODULE FileTree_proofs ---------------------------
(***************************************************************************)
(* Proofs about FileTree, for any number of nodes and of requests that do  *)
(* not move: parent_id stays a foreign key to a folder, and as long as     *)
(* moves do not overlap, and walk, it has no cycle.                        *)
(***************************************************************************)
EXTENDS FileTree, TLAPS

\* The cascade takes along every row below one it takes, and rows only.
LEMMA BelowClosed ==
  ASSUME NEW n
  PROVE  /\ Below(n) \subseteq rows
         /\ Children(Below(n)) \subseteq Below(n)
<1>1. Below(n) \subseteq rows
  BY DEF Below
<1>2. ASSUME NEW y \in rows, parent[y] \in Below(n),
             NEW S \in SUBSET rows,
             {n} \intersect rows \subseteq S, Children(S) \subseteq S
      PROVE  y \in S
  <2>1. parent[y] \in S
    BY <1>2 DEF Below
  <2> QED
    BY <1>2, <2>1 DEF Children
<1> QED
  BY <1>1, <1>2 DEF Below, Children

\* What a deletion leaves is a well-formed part of the tree.
LEMMA DeleteKeepsTree ==
  ASSUME TreeTypes, NEW n, Delete(Below(n)), past' = past
  PROVE  /\ TreeTypes'
         /\ rows' \subseteq rows
         /\ folders' = folders \intersect rows'
         /\ \A x \in Nodes : parent'[x] = IF x \in rows' THEN parent[x] ELSE Top
<1> DEFINE B == Below(n)
<1>1. B \subseteq rows /\ \A x \in rows : parent[x] \in B => x \in B
  BY BelowClosed DEF Children
<1>2. /\ rows' = rows \ B
      /\ folders' = folders \ B
      /\ trashed' = trashed \ B
      /\ parent' = [x \in Nodes |-> IF x \in B THEN Top ELSE parent[x]]
  BY DEF Delete
<1> HIDE DEF B
<1> QED
  BY <1>1, <1>2 DEF TreeTypes, Places

-----------------------------------------------------------------------------
\* Type correctness

\* What the steps of a move do to the move itself.
LEMMA MoveStepTypes ==
  ASSUME TypeOK, NEW m \in Movers, BeginMove(m) \/ Move(m) \/ RefuseMove(m)
  PROVE  MoveTypes'
<1> USE DEF TypeOK, TreeTypes, MoveTypes, Places
<1>1. CASE BeginMove(m)
  BY <1>1 DEF BeginMove, Live
<1>2. CASE EndMove(m)
  BY <1>2 DEF EndMove
<1>3. CASE LoadTarget(m)
  BY <1>2, <1>3 DEF LoadTarget, Continue
<1>4. CASE Walk(m)
  BY <1>2, <1>4 DEF Walk, Continue, AfterWalk
<1>5. CASE Resolve(m) \/ Overwrite(m)
  BY <1>2, <1>5 DEF Resolve, Overwrite, Continue, Children
<1>6. CASE Update(m) \/ RefuseMove(m)
  BY <1>2, <1>6 DEF Update, RefuseMove
<1> QED
  BY <1>1, <1>3, <1>4, <1>5, <1>6 DEF Move

\* The steps of a move keep the tree well formed.
LEMMA MoveStepTree ==
  ASSUME TypeOK, NEW m \in Movers, BeginMove(m) \/ Move(m) \/ RefuseMove(m)
  PROVE  TreeTypes' /\ past' = past /\ UNCHANGED keepVars
<1>1. CASE BeginMove(m) \/ LoadTarget(m) \/ Walk(m) \/ Resolve(m) \/ RefuseMove(m)
  BY <1>1 DEF TypeOK, TreeTypes, BeginMove, LoadTarget, Walk, Resolve, RefuseMove,
              treeVars
<1>2. CASE Overwrite(m)
  BY <1>2, DeleteKeepsTree DEF TypeOK, TreeTypes, Overwrite
<1>3. CASE Update(m)
  BY <1>3 DEF TypeOK, TreeTypes, MoveTypes, Places, Update
<1> QED
  BY <1>1, <1>2, <1>3 DEF Move

\* The requests that do not move: what they may begin.
Begins(k) ==
  \/ BeginCreate(k)
  \/ BeginTrash(k)
  \/ BeginDavTrash(k)
  \/ BeginRestore(k)
  \/ BeginPurge(k)

LEMMA BeginsTypes ==
  ASSUME TypeOK, NEW k \in Keepers, Begins(k)
  PROVE  KeepTypes' /\ UNCHANGED <<treeVars, moveVars>>
BY DEF TypeOK, TreeTypes, KeepTypes, Places, Begins, BeginCreate, BeginTrash,
       BeginDavTrash, BeginRestore, BeginPurge, BeginKeep, Live, LiveFolders

LEMMA KeepStepTypes ==
  ASSUME TypeOK, NEW k \in Keepers, Keep(k)
  PROVE  KeepTypes' /\ UNCHANGED moveVars
<1> USE DEF TypeOK, TreeTypes, KeepTypes
<1>1. CASE EndKeep(k) /\ UNCHANGED moveVars
  BY <1>1 DEF EndKeep, Places
<1>2. CASE Collect(k)
  BY <1>2 DEF Collect, NextLevel, Children
<1> QED
  BY <1>1, <1>2 DEF Keep, Insert, Mark, Purge

LEMMA KeepStepTree ==
  ASSUME TypeOK, NEW k \in Keepers, Keep(k)
  PROVE  TreeTypes'
<1>1. CASE Insert(k)
  BY <1>1, TreeAssumption DEF TypeOK, TreeTypes, KeepTypes, Places, Insert
<1>2. CASE Collect(k)
  BY <1>2 DEF TypeOK, TreeTypes, Collect, treeVars
<1>3. CASE Mark(k)
  BY <1>3 DEF TypeOK, TreeTypes, Mark
<1>4. CASE Purge(k)
  BY <1>4, DeleteKeepsTree DEF TypeOK, Purge
<1> QED
  BY <1>1, <1>2, <1>3, <1>4 DEF Keep

LEMMA TypeStep == TypeOK /\ [Next]_vars => TypeOK'
<1> SUFFICES ASSUME TypeOK, [Next]_vars
             PROVE  TypeOK'
  OBVIOUS
<1>1. ASSUME NEW m \in Movers, BeginMove(m) \/ Move(m) \/ RefuseMove(m)
      PROVE  TypeOK'
  BY <1>1, MoveStepTypes, MoveStepTree DEF TypeOK, KeepTypes, keepVars
<1>2. ASSUME NEW k \in Keepers, Begins(k)
      PROVE  TypeOK'
  BY <1>2, BeginsTypes DEF TypeOK, TreeTypes, MoveTypes, treeVars, moveVars
<1>3. ASSUME NEW k \in Keepers, Keep(k)
      PROVE  TypeOK'
  BY <1>3, KeepStepTypes, KeepStepTree DEF TypeOK, MoveTypes, moveVars
<1>4. CASE UNCHANGED vars
  BY <1>4 DEF TypeOK, TreeTypes, MoveTypes, KeepTypes, vars, treeVars, moveVars,
              keepVars
<1> QED
  BY <1>1, <1>2, <1>3, <1>4 DEF Next, Begins

\* TypeOK, and with it that parent_id names a row or the top in every state,
\* whatever is moved, created and purged at the same time.
THEOREM TreeTypeCorrect == Spec => []TypeOK
<1>1. Init => TypeOK
  BY DEF Init, TypeOK, TreeTypes, MoveTypes, KeepTypes, Places
<1> QED
  BY <1>1, TypeStep, PTL DEF Spec

-----------------------------------------------------------------------------
\* Folders

\* The strengthening of ParentsAreFolders: the folder a request has checked
\* and will hang a node below is a folder still, or gone for good.
FolderOrGone(t) == t \in folders \union {Top} \/ t \in past \ rows

FolderInv ==
  /\ ParentsAreFolders
  /\ \A m \in Movers : mpc[m] \in {"walk", "overwrite", "update"}
                         => FolderOrGone(target[m])
  /\ \A k \in Keepers : kpc[k] = "insert" => FolderOrGone(root[k])

LEMMA FolderStep == TypeOK /\ FolderInv /\ [Next]_vars => FolderInv'
<1> SUFFICES ASSUME TypeOK, FolderInv, [Next]_vars
             PROVE  FolderInv'
  OBVIOUS
<1> USE DEF TypeOK, FolderInv, ParentsAreFolders, FolderOrGone
\* Deletion, which takes what is below along.
<1>1. ASSUME NEW n, Delete(Below(n)), past' = past,
             \A m \in Movers : mpc'[m] \in {"walk", "overwrite", "update"}
               => mpc[m] \in {"walk", "overwrite", "update"} /\ target'[m] = target[m],
             \A k \in Keepers : kpc'[k] = "insert"
               => kpc[k] = "insert" /\ root'[k] = root[k]
      PROVE  FolderInv'
  BY <1>1, DeleteKeepsTree DEF TreeTypes
<1>2. ASSUME UNCHANGED treeVars,
             \A m \in Movers : mpc'[m] \in {"walk", "overwrite", "update"}
               => FolderOrGone(target'[m]),
             \A k \in Keepers : kpc'[k] = "insert" => FolderOrGone(root'[k])
      PROVE  FolderInv'
  BY <1>2 DEF treeVars
<1>3. ASSUME NEW m \in Movers, BeginMove(m) \/ Move(m) \/ RefuseMove(m)
      PROVE  FolderInv'
  <2>1. CASE BeginMove(m) \/ LoadTarget(m) \/ Walk(m) \/ Resolve(m) \/ RefuseMove(m)
    <3>1. UNCHANGED treeVars /\ UNCHANGED keepVars
      BY <2>1 DEF BeginMove, LoadTarget, Walk, Resolve, RefuseMove
    <3>2. ASSUME NEW x \in Movers, mpc'[x] \in {"walk", "overwrite", "update"}
          PROVE  FolderOrGone(target'[x])
      BY <2>1, <3>2
      DEF BeginMove, LoadTarget, Walk, AfterWalk, Resolve, RefuseMove, EndMove,
          Continue, MoveTypes, LiveFolders
    <3> QED
      BY <1>2, <3>1, <3>2 DEF keepVars
  <2>2. CASE Overwrite(m)
    <3>1. /\ \A x \in Movers : mpc'[x] \in {"walk", "overwrite", "update"}
               => mpc[x] \in {"walk", "overwrite", "update"} /\ target'[x] = target[x]
          /\ past' = past /\ UNCHANGED keepVars
      BY <2>2 DEF Overwrite, Continue, MoveTypes
    <3> QED
      BY <1>1, <2>2, <3>1 DEF Overwrite, keepVars
  <2>3. CASE Update(m)
    <3>1. \A x \in Movers : mpc'[x] \in {"walk", "overwrite", "update"}
            => mpc[x] \in {"walk", "overwrite", "update"} /\ target'[x] = target[x]
      BY <2>3 DEF Update, EndMove, MoveTypes
    <3>2. ASSUME NEW n \in rows
          PROVE  parent'[n] \in (rows \intersect folders) \union {Top}
      BY <2>3 DEF Update, MoveTypes, TreeTypes
    <3> QED
      BY <2>3, <3>1, <3>2 DEF Update, keepVars
  <2> QED
    BY <1>3, <2>1, <2>2, <2>3 DEF Move
<1>4. ASSUME NEW k \in Keepers, Begins(k)
      PROVE  FolderInv'
  <2>1. ASSUME NEW x \in Keepers, kpc'[x] = "insert"
        PROVE  FolderOrGone(root'[x])
    BY <1>4, <2>1
    DEF Begins, BeginCreate, BeginTrash, BeginDavTrash, BeginRestore, BeginPurge,
        BeginKeep, KeepTypes, LiveFolders
  <2> QED
    BY <1>2, <1>4, <2>1, BeginsTypes DEF moveVars
<1>5. ASSUME NEW k \in Keepers, Keep(k)
      PROVE  FolderInv'
  <2>0. \A x \in Keepers : kpc'[x] = "insert"
          => kpc[x] = "insert" /\ root'[x] = root[x]
    BY <1>5 DEF Keep, Insert, Collect, Mark, Purge, EndKeep, KeepTypes, Collecting
  <2>1. CASE Insert(k)
    BY <1>5, <2>0, <2>1, KeepStepTypes DEF Insert, moveVars, TreeTypes, KeepTypes
  <2>2. CASE Collect(k)
    BY <1>2, <2>0, <2>2 DEF Collect, moveVars
  <2>3. CASE Mark(k)
    BY <2>0, <2>3 DEF Mark, moveVars
  <2>4. CASE Purge(k)
    BY <1>1, <2>0, <2>4 DEF Purge, moveVars
  <2> QED
    BY <1>5, <2>1, <2>2, <2>3, <2>4 DEF Keep
<1>6. CASE UNCHANGED vars
  BY <1>6 DEF vars, treeVars, moveVars, keepVars
<1> QED
  BY <1>3, <1>4, <1>5, <1>6 DEF Next, Begins

\* ParentsAreFolders: no node ever hangs below a file, although every request
\* looks at the type of the folder long before it writes.
THEOREM TreeParentsAreFolders == Spec => []ParentsAreFolders
<1>1. Init => FolderInv
  BY DEF Init, FolderInv, ParentsAreFolders
<1>2. FolderInv => ParentsAreFolders
  BY DEF FolderInv
<1> QED
  BY <1>1, <1>2, FolderStep, TreeTypeCorrect, PTL DEF Spec

-----------------------------------------------------------------------------
\* No cycles

\* Moves do not overlap, and none leaves out its walk.
AtMostOneMove == \A a, b \in Movers : a = b
OneMoveWalked == AtMostOneMove /\ ~LateTargets

\* What the walk of a move has established when it has come to a row: the rows
\* it has left behind, a set W without the node, lead nowhere but to each
\* other, to the row it is at, or out of the table.  Nothing another request
\* does while it walks changes that, moves excepted.
Climbed(m, W) ==
  /\ node[m] \notin W
  /\ \/ target[m] \in W
     \/ target[m] \notin rows
     \/ mpc[m] = "walk" /\ target[m] = at[m]
  /\ \A w \in W : \/ parent[w] \in W
                  \/ parent[w] \notin rows
                  \/ mpc[m] = "walk" /\ parent[w] = at[m]

MoveFact(m) ==
  /\ mpc[m] # "idle" => /\ node[m] \in past
                        /\ target[m] \in past \union {Top}
                        /\ target[m] # node[m]
  /\ mpc[m] = "walk" => at[m] \in past \union {Top} /\ at[m] # node[m]
  /\ mpc[m] \in {"walk", "resolve", "overwrite", "update"} => \E W \in SUBSET past : Climbed(m, W)

CycleInv == Acyclic /\ \A m \in Movers : MoveFact(m)

\* The tree stays acyclic when rows are deleted and parents of the others kept.
LEMMA AcyclicSubset ==
  ASSUME Acyclic, rows' \subseteq rows, \A n \in rows' : parent'[n] = parent[n]
  PROVE  Acyclic'
BY DEF Acyclic

\* A row that is new is a leaf.
LEMMA AcyclicLeaf ==
  ASSUME TypeOK, Acyclic, NEW n \in Nodes \ past, NEW p \in rows \union {Top},
         rows' = rows \union {n}, parent' = [parent EXCEPT ![n] = p]
  PROVE  Acyclic'
<1> USE DEF TypeOK, TreeTypes
<1>1. ASSUME NEW S \in SUBSET rows', S # {}
      PROVE  \E x \in S : parent'[x] \notin S
  <2>1. CASE S \ {n} = {}
    BY <1>1, <2>1, TreeAssumption
  <2>2. CASE S \ {n} # {}
    <3>1. S \ {n} \in SUBSET rows
      OBVIOUS
    <3>2. PICK x \in S \ {n} : parent[x] \notin S \ {n}
      BY <2>2, <3>1 DEF Acyclic
    <3>3. parent[x] # n /\ parent'[x] = parent[x]
      BY <3>1, <3>2, TreeAssumption
    <3> QED
      BY <3>2, <3>3
  <2> QED
    BY <2>1, <2>2
<1> QED
  BY <1>1 DEF Acyclic

\* The heart of it: hanging a node below a target from which the walk came out
\* of the table without meeting the node closes no cycle.
LEMMA AcyclicMove ==
  ASSUME TypeOK, Acyclic, NEW n \in rows, NEW t \in rows \union {Top}, t # n,
         NEW W \in SUBSET past, n \notin W, t \in W \/ t \notin rows,
         \A w \in W : parent[w] \in W \/ parent[w] \notin rows,
         rows' = rows, parent' = [parent EXCEPT ![n] = t]
  PROVE  Acyclic'
<1> USE DEF TypeOK, TreeTypes
<1>0. ASSUME NEW x \in Nodes
      PROVE  parent'[x] = IF x = n THEN t ELSE parent[x]
  OBVIOUS
<1>1. ASSUME NEW S \in SUBSET rows, S # {}, \A x \in S : parent'[x] \in S
      PROVE  FALSE
  <2>1. n \in S
    BY <1>0, <1>1 DEF Acyclic
  <2>2. t \in S /\ t \in W
    BY <1>0, <1>1, <2>1
  <2>3. PICK x \in S \intersect W : parent[x] \notin S \intersect W
    <3>1. S \intersect W \in SUBSET rows /\ S \intersect W # {}
      BY <2>2
    <3> QED
      BY <3>1 DEF Acyclic
  <2>4. x # n /\ parent[x] \in S
    BY <1>0, <1>1, <2>3
  <2> QED
    BY <2>3, <2>4
<1> QED
  BY <1>1 DEF Acyclic

\* A step that writes no parent_id but those of deleted and of new rows.
Harmless ==
  /\ past \subseteq past'
  /\ rows' \intersect past \subseteq rows
  /\ \A x \in past : parent'[x] = parent[x] \/ parent'[x] = Top

\* What a move has established outlasts every such step.
LEMMA MoveFactLasts ==
  ASSUME TypeOK, TypeOK', NEW m \in Movers, MoveFact(m),
         \/ mpc'[m] = mpc[m]
         \/ mpc[m] = "overwrite" /\ mpc'[m] = "update",
         node'[m] = node[m], target'[m] = target[m],
         at'[m] = at[m], Harmless
  PROVE  MoveFact(m)'
<1> USE DEF TypeOK, TreeTypes, Harmless
<1>1. Top \notin rows' /\ Top \notin past
  BY TreeAssumption
<1>2. ASSUME mpc[m] # "idle", NEW W \in SUBSET past, Climbed(m, W)
      PROVE  Climbed(m, W)'
  <2>1. ASSUME NEW w \in W
        PROVE  \/ parent'[w] \in W
               \/ parent'[w] \notin rows'
               \/ mpc'[m] = "walk" /\ parent'[w] = at'[m]
    <3>1. CASE parent'[w] = Top
      BY <1>1, <3>1
    <3>2. CASE parent'[w] = parent[w]
      <4>1. parent[w] \in past \union {Top}
        OBVIOUS
      <4>2. \/ parent[w] \in W
            \/ parent[w] \notin rows
            \/ mpc[m] = "walk" /\ parent[w] = at[m]
        BY <1>2 DEF Climbed
      <4> QED
        BY <1>1, <3>2, <4>1, <4>2
    <3> QED
      BY <2>1, <3>1, <3>2
  <2>2. \/ target'[m] \in W
        \/ target'[m] \notin rows'
        \/ mpc'[m] = "walk" /\ target'[m] = at'[m]
    <3>1. target[m] \in past \union {Top}
      BY <1>2 DEF MoveFact
    <3>2. \/ target[m] \in W
          \/ target[m] \notin rows
          \/ mpc[m] = "walk" /\ target[m] = at[m]
      BY <1>2 DEF Climbed
    <3> QED
      BY <1>1, <3>1, <3>2
  <2>3. node'[m] \notin W
    BY <1>2 DEF Climbed
  <2> QED
    BY <2>1, <2>2, <2>3 DEF Climbed
<1>3. ASSUME mpc'[m] \in {"walk", "resolve", "overwrite", "update"}
      PROVE  \E W \in SUBSET past' : Climbed(m, W)'
  <2>1. mpc[m] # "idle" /\ \E W \in SUBSET past : Climbed(m, W)
    BY <1>3 DEF MoveFact
  <2> QED
    BY <1>2, <2>1
<1> QED
  BY <1>3 DEF MoveFact

LEMMA MoveFactStep ==
  ASSUME ~LateTargets, TypeOK, TypeOK', NEW m \in Movers, MoveFact(m),
         BeginMove(m) \/ Move(m) \/ RefuseMove(m)
  PROVE  MoveFact(m)'
<1> USE DEF TypeOK, TreeTypes, MoveTypes
<1>1. CASE EndMove(m)
  BY <1>1 DEF EndMove, MoveFact
<1>2. CASE BeginMove(m)
  BY <1>2 DEF BeginMove, Live, MoveFact, treeVars
<1>3. CASE LoadTarget(m) /\ Continue(m, "walk") /\ at' = [at EXCEPT ![m] = target[m]]
  <2>1. Climbed(m, {})'
    BY <1>3 DEF Continue, Climbed
  <2>2. UNCHANGED <<rows, past, parent>>
    BY <1>3 DEF LoadTarget, treeVars
  <2>3. /\ mpc'[m] = "walk" /\ mpc[m] = "target"
        /\ node'[m] = node[m] /\ target'[m] = target[m] /\ at'[m] = target[m]
    BY <1>3 DEF Continue, LoadTarget
  <2>4. \E W \in SUBSET past' : Climbed(m, W)'
    BY <2>1
  <2> QED
    BY <2>2, <2>3, <2>4 DEF MoveFact
<1>4. CASE Walk(m) /\ ~EndMove(m)
  <2>1. /\ UNCHANGED <<rows, past, parent>>
        /\ node'[m] = node[m] /\ target'[m] = target[m]
    BY <1>4 DEF Walk, Continue, treeVars
  <2>2. PICK W \in SUBSET past : Climbed(m, W)
    BY <1>4 DEF Walk, MoveFact
  <2>3. CASE at[m] \notin rows
    <3>1. mpc[m] = "walk" /\ mpc'[m] \in {"resolve", "update"} /\ at'[m] = at[m]
      BY <1>4, <2>3 DEF Walk, Continue, AfterWalk
    <3>2. Climbed(m, W)'
      BY <2>1, <2>2, <2>3, <3>1 DEF Climbed
    <3>3. \E V \in SUBSET past' : Climbed(m, V)'
      BY <2>1, <3>2
    <3> QED
      BY <2>1, <3>1, <3>3 DEF MoveFact
  <2>4. CASE at[m] \in rows
    <3>1. /\ mpc[m] = "walk" /\ mpc'[m] = "walk"
          /\ at'[m] = parent[at[m]] /\ at'[m] # node[m]
      BY <1>4, <2>4 DEF Walk, Continue
    <3>2. at'[m] \in past \union {Top} /\ at[m] # node[m]
      BY <2>4, <3>1 DEF MoveFact
    <3>3. PICK V \in SUBSET past : V = W \union {at[m]}
      BY <2>4
    <3>4. Climbed(m, V)'
      <4>1. node'[m] \notin V
        BY <2>1, <2>2, <3>2, <3>3 DEF Climbed
      <4>2. target'[m] \in V \/ target'[m] \notin rows'
        BY <2>1, <2>2, <3>3 DEF Climbed
      <4>3. \A w \in V : \/ parent'[w] \in V
                         \/ parent'[w] \notin rows'
                         \/ parent'[w] = at'[m]
        BY <2>1, <2>2, <3>1, <3>3 DEF Climbed
      <4> QED
        BY <3>1, <4>1, <4>2, <4>3 DEF Climbed
    <3>5. \E U \in SUBSET past' : Climbed(m, U)'
      BY <2>1, <3>4
    <3> QED
      BY <2>1, <3>1, <3>2, <3>5 DEF MoveFact
  <2> QED
    BY <2>3, <2>4
<1>5. CASE Resolve(m) /\ ~EndMove(m)
  <2>1. /\ UNCHANGED <<rows, past, parent>>
        /\ node'[m] = node[m] /\ target'[m] = target[m]
        /\ mpc[m] = "resolve" /\ mpc'[m] \in {"overwrite", "update"}
    BY <1>5 DEF Resolve, Continue, treeVars
  <2>2. PICK W \in SUBSET past : Climbed(m, W)
    BY <2>1 DEF MoveFact
  <2>3. Climbed(m, W)'
    BY <2>1, <2>2 DEF Climbed
  <2>4. \E V \in SUBSET past' : Climbed(m, V)'
    BY <2>1, <2>3
  <2> QED
    BY <2>1, <2>4 DEF MoveFact
<1>6. CASE Overwrite(m)
  <2>1. /\ mpc[m] = "overwrite" /\ mpc'[m] = "update"
        /\ node'[m] = node[m] /\ target'[m] = target[m] /\ at'[m] = at[m]
        /\ past' = past
    BY <1>6 DEF Overwrite, Continue
  <2>2. rows' \subseteq rows /\ \A x \in Nodes : parent'[x] = parent[x] \/ parent'[x] = Top
    BY <1>6, <2>1, DeleteKeepsTree DEF Overwrite
  <2> QED
    BY <2>1, <2>2, MoveFactLasts DEF Harmless
<1>7. CASE Update(m) \/ RefuseMove(m)
  BY <1>1, <1>7 DEF Update, RefuseMove
<1> QED
  BY <1>1, <1>2, <1>3, <1>4, <1>5, <1>6, <1>7 DEF Move, LoadTarget

LEMMA AcyclicMoveStep ==
  ASSUME TypeOK, Acyclic, NEW m \in Movers, MoveFact(m),
         BeginMove(m) \/ Move(m) \/ RefuseMove(m)
  PROVE  Acyclic'
<1>1. CASE UNCHANGED <<rows, parent>>
  BY <1>1 DEF Acyclic
<1>2. CASE BeginMove(m) \/ LoadTarget(m) \/ Walk(m) \/ Resolve(m) \/ RefuseMove(m)
  BY <1>1, <1>2 DEF BeginMove, LoadTarget, Walk, Resolve, RefuseMove, treeVars
<1>3. CASE Overwrite(m)
  <2>1. rows' \subseteq rows /\ \A x \in rows' : parent'[x] = parent[x]
    BY <1>3, DeleteKeepsTree DEF TypeOK, TreeTypes, Overwrite
  <2> QED
    BY <2>1, AcyclicSubset
<1>4. CASE Update(m)
  <2>1. CASE UNCHANGED parent
    BY <1>1, <1>4, <2>1 DEF Update
  <2>2. CASE /\ node[m] \in rows
             /\ target[m] \in rows \union {Top}
             /\ parent' = [parent EXCEPT ![node[m]] = target[m]]
    <3>1. mpc[m] = "update" /\ rows' = rows
      BY <1>4 DEF Update
    <3>2. PICK W \in SUBSET past : Climbed(m, W)
      BY <3>1 DEF MoveFact
    <3>3. /\ node[m] \notin W
          /\ target[m] \in W \/ target[m] \notin rows
          /\ \A w \in W : parent[w] \in W \/ parent[w] \notin rows
      BY <3>1, <3>2 DEF Climbed
    <3>4. target[m] # node[m]
      BY <3>1 DEF MoveFact
    <3> QED
      BY <2>2, <3>1, <3>3, <3>4, AcyclicMove
  <2> QED
    BY <1>4, <2>1, <2>2 DEF Update
<1> QED
  BY <1>2, <1>3, <1>4 DEF Move

LEMMA CycleStep ==
  ASSUME OneMoveWalked, TypeOK, TypeOK', CycleInv, [Next]_vars
  PROVE  CycleInv'
<1>1. ASSUME NEW m \in Movers, BeginMove(m) \/ Move(m) \/ RefuseMove(m)
      PROVE  CycleInv'
  <2>1. MoveFact(m)' /\ Acyclic'
    BY <1>1, MoveFactStep, AcyclicMoveStep DEF CycleInv, OneMoveWalked
  <2> QED
    BY <2>1 DEF OneMoveWalked, AtMostOneMove, CycleInv
\* The steps of others, which no move is disturbed by.
<1>2. ASSUME Acyclic', UNCHANGED moveVars, Harmless
      PROVE  CycleInv'
  <2>1. ASSUME NEW m \in Movers
        PROVE  MoveFact(m)'
    <3>1. /\ mpc'[m] = mpc[m] /\ node'[m] = node[m] /\ target'[m] = target[m]
          /\ at'[m] = at[m]
      BY <1>2 DEF moveVars
    <3>2. MoveFact(m)
      BY DEF CycleInv
    <3> QED
      BY <1>2, <3>1, <3>2, MoveFactLasts
  <2> QED
    BY <1>2, <2>1 DEF CycleInv
<1>3. CASE UNCHANGED <<treeVars, moveVars>>
  <2>1. Acyclic'
    BY <1>3 DEF treeVars, CycleInv, Acyclic
  <2> QED
    BY <1>2, <1>3, <2>1 DEF treeVars, Harmless
<1>4. ASSUME NEW k \in Keepers, Keep(k)
      PROVE  CycleInv'
  <2>0. UNCHANGED moveVars /\ Acyclic
    BY <1>4, KeepStepTypes DEF CycleInv
  <2>1. CASE UNCHANGED <<rows, past, parent>>
    BY <1>2, <2>0, <2>1 DEF Acyclic, Harmless
  <2>2. ASSUME NEW n \in Nodes \ past, root[k] \in rows \union {Top},
               rows' = rows \union {n}, past' = past \union {n},
               parent' = [parent EXCEPT ![n] = root[k]]
        PROVE  CycleInv'
    <3>1. Acyclic'
      BY <2>0, <2>2, AcyclicLeaf
    <3> QED
      BY <1>2, <2>0, <2>2, <3>1 DEF TypeOK, TreeTypes, Harmless
  <2>3. CASE Purge(k)
    <3>1. /\ rows' \subseteq rows
          /\ \A x \in Nodes : parent'[x] = IF x \in rows' THEN parent[x] ELSE Top
      BY <2>3, DeleteKeepsTree DEF Purge, TypeOK
    <3>2. Acyclic'
      BY <2>0, <3>1, AcyclicSubset DEF TypeOK, TreeTypes
    <3> QED
      BY <1>2, <2>0, <2>3, <3>1, <3>2 DEF Purge, TypeOK, TreeTypes, Harmless
  <2> QED
    BY <1>4, <2>1, <2>2, <2>3 DEF Keep, Insert, Collect, Mark, treeVars
<1>5. CASE UNCHANGED vars
  BY <1>3, <1>5 DEF vars
<1> QED
  BY <1>1, <1>3, <1>4, <1>5, BeginsTypes DEF Next, Begins

\* Acyclic: as long as moves do not overlap, the walk of isDescendant is enough
\* to keep parent_id free of cycles, although rows are created, deleted and
\* brought back between its queries and before the UPDATE.  tree_cycle shows
\* that two moves at a time are too many, tree_late that the walk is needed.
THEOREM TreeAcyclic ==
  ASSUME OneMoveWalked
  PROVE  Spec => []Acyclic
<1>1. Init => CycleInv
  BY DEF Init, CycleInv, Acyclic, MoveFact
<1>2. TypeOK /\ TypeOK' /\ CycleInv /\ [Next]_vars => CycleInv'
  BY CycleStep
<1>3. CycleInv => Acyclic
  BY DEF CycleInv
<1> QED
  BY <1>1, <1>2, <1>3, TreeTypeCorrect, PTL DEF Spec
=============================================================================
