------------------------- MODULE ShareAccess_proofs -------------------------
(***************************************************************************)
(* Proofs about ShareAccess, for any number of links, requests and caps    *)
(* and under every fault: the caps that hold, and which requests for a     *)
(* link that has ended are refused.                                        *)
(***************************************************************************)
EXTENDS ShareAccess, TLAPS

\* What the helpers of the handlers leave of a request is well formed.
LEMMA GotoTypes ==
  ASSUME VisitTypes, NEW v \in Visits, NEW p \in Awaits, pc[v] # "idle",
         Goto(v, p), created \subseteq created'
  PROVE  VisitTypes'
BY DEF VisitTypes, Goto, Resting, Awaits

LEMMA RefuseTypes ==
  ASSUME VisitTypes, NEW v \in Visits, Refuse(v), created \subseteq created'
  PROVE  VisitTypes'
BY DEF VisitTypes, Refuse, Resting, Awaits

LEMMA GrantTypes ==
  ASSUME VisitTypes, NEW v \in Visits, pc[v] # "idle", Grant(v),
         created \subseteq created'
  PROVE  VisitTypes'
BY DEF VisitTypes, Grant, Resting, Awaits

LEMMA EndOwnerTypes ==
  ASSUME OwnerTypes, NEW o \in Owners, EndOwner(o), created \subseteq created'
  PROVE  OwnerTypes'
BY DEF OwnerTypes, EndOwner

\* Every step keeps the state well formed: an open link has a row, and so has
\* the link of every request under way.
LEMMA TypeStep == TypeOK /\ [Next]_vars => TypeOK'
<1> SUFFICES ASSUME TypeOK, [Next]_vars
             PROVE  TypeOK'
  OBVIOUS
<1> USE DEF TypeOK
<1>1. ASSUME TrashFile
      PROVE  TypeOK'
  BY <1>1 DEF TrashFile, RowTypes, VisitTypes, OwnerTypes, rowVars, worldVars, visitVars, ownerVars
<1>2. ASSUME NEW s \in Shares, CloseExpired(s)
      PROVE  TypeOK'
  BY <1>2 DEF CloseExpired, RowTypes, VisitTypes, OwnerTypes, rowVars, worldVars, visitVars, ownerVars
<1>3. ASSUME NEW s \in Shares, ForgetEntry(s)
      PROVE  TypeOK'
  BY <1>3 DEF ForgetEntry, RowTypes, VisitTypes, OwnerTypes, rowVars, worldVars, visitVars, ownerVars
<1>4. ASSUME NEW s \in Shares, ExpiryPasses(s)
      PROVE  TypeOK'
  BY <1>4 DEF ExpiryPasses, RowTypes, VisitTypes, OwnerTypes, rowVars, worldVars, visitVars, ownerVars
<1>5. ASSUME NEW v \in Visits, Arrive(v)
      PROVE  TypeOK'
  <2>1. RowTypes'
    BY <1>5 DEF Arrive, EndingsOf, RowTypes, VisitTypes, rowVars, worldVars
  <2>2. created' = created /\ UNCHANGED ownerVars
    BY <1>5 DEF Arrive, EndingsOf, rowVars
  <2>3. VisitTypes'
    BY <1>5, <2>2 DEF Arrive, EndingsOf, VisitTypes, RowTypes, Resting, Awaits, Endings
  <2>4. QED
    BY <2>1, <2>2, <2>3 DEF OwnerTypes, ownerVars
<1>6. ASSUME NEW v \in Visits, GetEntry(v)
      PROVE  TypeOK'
  <2>1. RowTypes'
    BY <1>6 DEF GetEntry, RowTypes, VisitTypes, rowVars, worldVars
  <2>2. created' = created /\ UNCHANGED ownerVars
    BY <1>6 DEF GetEntry, rowVars
  <2>3. VisitTypes'
    BY <1>6, <2>2, GotoTypes DEF GetEntry, VisitTypes, RowTypes, Resting, Awaits
  <2>4. QED
    BY <2>1, <2>2, <2>3 DEF OwnerTypes, ownerVars
<1>7. ASSUME NEW v \in Visits, FindShare(v)
      PROVE  TypeOK'
  <2>1. RowTypes'
    BY <1>7 DEF FindShare, RowTypes, VisitTypes, rowVars, worldVars
  <2>2. created' = created /\ UNCHANGED ownerVars
    BY <1>7 DEF FindShare, rowVars
  <2>3. VisitTypes'
    BY <1>7, <2>2, RefuseTypes, ZenonT(40) DEF FindShare, VisitTypes, RowTypes, Resting, Awaits
  <2>4. QED
    BY <2>1, <2>2, <2>3 DEF OwnerTypes, ownerVars
<1>8. ASSUME NEW v \in Visits, FillEntry(v)
      PROVE  TypeOK'
  <2>1. RowTypes'
    BY <1>8 DEF FillEntry, RowTypes, VisitTypes, rowVars, worldVars
  <2>2. created' = created /\ UNCHANGED ownerVars
    BY <1>8 DEF FillEntry, rowVars
  <2>3. VisitTypes'
    BY <1>8, <2>2, GotoTypes DEF FillEntry, Awaits
  <2>4. QED
    BY <2>1, <2>2, <2>3 DEF OwnerTypes, ownerVars
<1>9. ASSUME NEW v \in Visits, CheckTerms(v)
      PROVE  TypeOK'
  <2>1. RowTypes'
    BY <1>9 DEF CheckTerms, AdvisoryCap, AtCap, RowTypes, VisitTypes, rowVars, worldVars
  <2>2. created' = created /\ UNCHANGED ownerVars
    BY <1>9 DEF CheckTerms, AdvisoryCap, AtCap, rowVars
  <2>3. VisitTypes'
    <3>1. CASE Goto(v, "drop")
      BY <1>9, <2>2, <3>1, GotoTypes DEF CheckTerms, Awaits
    <3>2. CASE Refuse(v)
      BY <2>2, <3>2, RefuseTypes
    <3>3. CASE AdvisoryCap(v) /\ ~Refuse(v)
      <4>1. pc[v] = "terms"
        BY <1>9 DEF CheckTerms
      <4>2. pc' \in [Visits -> Resting \union Awaits]
        BY <3>3 DEF AdvisoryCap, VisitTypes, Resting, Awaits
      <4>3. \A w \in Visits : pc'[w] # "idle" => pc[w] # "idle"
        BY <3>3, <4>1 DEF AdvisoryCap, VisitTypes
      <4>4. /\ hasRow' \in [Visits -> BOOLEAN]
            /\ summary' \in [Visits -> Nat]
            /\ UNCHANGED <<token, counts, gone>>
        <5>1. /\ summary' = [summary EXCEPT ![v] = 0]
              /\ hasRow' = [hasRow EXCEPT ![v] =
                              IF token[v] \in locked THEN @ ELSE FALSE]
              /\ UNCHANGED <<token, counts, gone>>
          BY <3>3 DEF AdvisoryCap
        <5> QED
          BY <5>1 DEF VisitTypes
      <4> QED
        BY <2>2, <4>2, <4>3, <4>4 DEF VisitTypes
    <3> QED
      BY <1>9, <3>1, <3>2, <3>3 DEF CheckTerms
  <2>4. QED
    BY <2>1, <2>2, <2>3 DEF OwnerTypes, ownerVars
<1>10. ASSUME NEW v \in Visits, CheckPassword(v)
      PROVE  TypeOK'
  <2>1. RowTypes'
    BY <1>10 DEF CheckPassword, PasswordRight, RowTypes, VisitTypes, rowVars, worldVars
  <2>2. created' = created /\ UNCHANGED ownerVars
    BY <1>10 DEF CheckPassword, PasswordRight, rowVars
  <2>3. VisitTypes'
    BY <1>10, <2>2, RefuseTypes, GotoTypes DEF CheckPassword, PasswordRight, VisitTypes, Resting, Awaits
  <2>4. QED
    BY <2>1, <2>2, <2>3 DEF OwnerTypes, ownerVars
<1>11. ASSUME NEW v \in Visits, DropThenRefuse(v)
      PROVE  TypeOK'
  <2>1. RowTypes'
    BY <1>11 DEF DropThenRefuse, Drop, RowTypes, VisitTypes, rowVars, worldVars
  <2>2. created' = created /\ UNCHANGED ownerVars
    BY <1>11 DEF DropThenRefuse, Drop, rowVars
  <2>3. VisitTypes'
    BY <1>11, <2>2, RefuseTypes DEF DropThenRefuse, Drop, Awaits
  <2>4. QED
    BY <2>1, <2>2, <2>3 DEF OwnerTypes, ownerVars
<1>12. ASSUME NEW v \in Visits, FindNode(v)
      PROVE  TypeOK'
  <2>1. RowTypes'
    BY <1>12 DEF FindNode, RowTypes, VisitTypes, rowVars, worldVars
  <2>2. created' = created /\ UNCHANGED ownerVars
    BY <1>12 DEF FindNode, rowVars
  <2>3. VisitTypes'
    BY <1>12, <2>2, RefuseTypes, GotoTypes, GrantTypes DEF FindNode, Awaits
  <2>4. QED
    BY <2>1, <2>2, <2>3 DEF OwnerTypes, ownerVars
<1>13. ASSUME NEW v \in Visits, IncrementDownload(v)
      PROVE  TypeOK'
  <2>1. RowTypes'
    BY <1>13 DEF IncrementDownload, RowTypes, VisitTypes, rowVars, worldVars
  <2>2. created' = created /\ UNCHANGED ownerVars
    BY <1>13 DEF IncrementDownload, rowVars
  <2>3. VisitTypes'
    BY <1>13, <2>2, RefuseTypes, GotoTypes DEF IncrementDownload, Awaits
  <2>4. QED
    BY <2>1, <2>2, <2>3 DEF OwnerTypes, ownerVars
<1>14. ASSUME NEW v \in Visits, DropThenGrant(v)
      PROVE  TypeOK'
  <2>1. RowTypes'
    BY <1>14 DEF DropThenGrant, Drop, RowTypes, VisitTypes, rowVars, worldVars
  <2>2. created' = created /\ UNCHANGED ownerVars
    BY <1>14 DEF DropThenGrant, Drop, rowVars
  <2>3. VisitTypes'
    BY <1>14, <2>2, GrantTypes DEF DropThenGrant, Drop, Awaits
  <2>4. QED
    BY <2>1, <2>2, <2>3 DEF OwnerTypes, ownerVars
<1>15. ASSUME NEW v \in Visits, AbortVisit(v)
      PROVE  TypeOK'
  <2>1. RowTypes'
    BY <1>15 DEF AbortVisit, RowTypes, VisitTypes, rowVars, worldVars
  <2>2. created' = created /\ UNCHANGED ownerVars
    BY <1>15 DEF AbortVisit, rowVars
  <2>3. VisitTypes'
    BY <1>15, <2>2, RefuseTypes DEF AbortVisit, Awaits
  <2>4. QED
    BY <2>1, <2>2, <2>3 DEF OwnerTypes, ownerVars
<1>16. ASSUME NEW o \in Owners, BeginCreate(o)
      PROVE  TypeOK'
  <2>1. RowTypes'
    BY <1>16, ShareAssumption DEF BeginCreate, RowTypes, OwnerTypes, rowVars, worldVars
  <2>2. created \subseteq created' /\ UNCHANGED visitVars
    BY <1>16 DEF BeginCreate, rowVars
  <2>3. OwnerTypes'
    BY <1>16, <2>2 DEF BeginCreate, OwnerTypes, RowTypes
  <2>4. QED
    BY <2>1, <2>2, <2>3 DEF VisitTypes, visitVars
<1>17. ASSUME NEW o \in Owners, LoadShare(o)
      PROVE  TypeOK'
  <2>1. RowTypes'
    BY <1>17, ShareAssumption DEF LoadShare, RowTypes, OwnerTypes, rowVars, worldVars
  <2>2. created \subseteq created' /\ UNCHANGED visitVars
    BY <1>17 DEF LoadShare, rowVars
  <2>3. OwnerTypes'
    BY <1>17, <2>2 DEF LoadShare, OwnerTypes, RowTypes
  <2>4. QED
    BY <2>1, <2>2, <2>3 DEF VisitTypes, visitVars
<1>18. ASSUME NEW o \in Owners, DeactivateOlderLinks(o)
      PROVE  TypeOK'
  <2>1. RowTypes'
    BY <1>18, ShareAssumption DEF DeactivateOlderLinks, RowTypes, OwnerTypes, rowVars, worldVars
  <2>2. created \subseteq created' /\ UNCHANGED visitVars
    BY <1>18 DEF DeactivateOlderLinks, rowVars
  <2>3. OwnerTypes'
    BY <1>18, <2>2 DEF DeactivateOlderLinks, OwnerTypes, RowTypes
  <2>4. QED
    BY <2>1, <2>2, <2>3 DEF VisitTypes, visitVars
<1>19. ASSUME NEW o \in Owners, InsertShare(o)
      PROVE  TypeOK'
  <2>1. RowTypes'
    BY <1>19, ShareAssumption DEF InsertShare, RowTypes, OwnerTypes, rowVars, worldVars
  <2>2. created \subseteq created' /\ UNCHANGED visitVars
    BY <1>19 DEF InsertShare, rowVars
  <2>3. OwnerTypes'
    BY <1>19, <2>2, EndOwnerTypes DEF InsertShare
  <2>4. QED
    BY <2>1, <2>2, <2>3 DEF VisitTypes, visitVars
<1>20. ASSUME NEW o \in Owners, SaveClosed(o)
      PROVE  TypeOK'
  <2>1. RowTypes'
    BY <1>20, ShareAssumption DEF SaveClosed, RowTypes, OwnerTypes, rowVars, worldVars
  <2>2. created \subseteq created' /\ UNCHANGED visitVars
    BY <1>20 DEF SaveClosed, rowVars
  <2>3. OwnerTypes'
    BY <1>20, <2>2 DEF SaveClosed, OwnerTypes, RowTypes
  <2>4. QED
    BY <2>1, <2>2, <2>3 DEF VisitTypes, visitVars
<1>21. ASSUME NEW o \in Owners, DropClosed(o)
      PROVE  TypeOK'
  <2>1. RowTypes'
    BY <1>21, ShareAssumption DEF DropClosed, Drop, RowTypes, OwnerTypes, rowVars, worldVars
  <2>2. created \subseteq created' /\ UNCHANGED visitVars
    BY <1>21 DEF DropClosed, Drop, rowVars
  <2>3. OwnerTypes'
    BY <1>21, <2>2, EndOwnerTypes DEF DropClosed, Drop
  <2>4. QED
    BY <2>1, <2>2, <2>3 DEF VisitTypes, visitVars
<1>22. ASSUME NEW o \in Owners, AbortOwner(o)
      PROVE  TypeOK'
  <2>1. RowTypes'
    BY <1>22, ShareAssumption DEF AbortOwner, RowTypes, OwnerTypes, rowVars, worldVars
  <2>2. created \subseteq created' /\ UNCHANGED visitVars
    BY <1>22 DEF AbortOwner, rowVars
  <2>3. OwnerTypes'
    BY <1>22, <2>2, EndOwnerTypes DEF AbortOwner
  <2>4. QED
    BY <2>1, <2>2, <2>3 DEF VisitTypes, visitVars
<1>23. CASE UNCHANGED vars
  BY <1>23 DEF vars, RowTypes, VisitTypes, OwnerTypes, rowVars, worldVars, visitVars, ownerVars
<1> QED
  BY <1>1, <1>2, <1>3, <1>4, <1>5, <1>6, <1>7, <1>8, <1>9, <1>10, <1>11, <1>12, <1>13, <1>14, <1>15, <1>16, <1>17, <1>18, <1>19, <1>20, <1>21, <1>22, <1>23 DEF Next, Visit, Owner

\* TypeOK of every reachable state: no handler of the share links leaves a
\* share without a row open or works on one.
THEOREM ShareTypeCorrect == Spec => []TypeOK
<1>1. Init => TypeOK
  BY ShareAssumption
  DEF Init, TypeOK, RowTypes, VisitTypes, OwnerTypes, Resting, Awaits, Endings
<1> QED
  BY <1>1, TypeStep, PTL DEF Spec

-----------------------------------------------------------------------------
\* The caps

\* The strengthening of CountWithinLimit and OpenWithinLimit: the row of an
\* open link counts exactly the downloads granted, because the only step that
\* writes an older count back is the one that closes the link, and the count
\* it writes was within the cap when it was loaded.
CapInv ==
  /\ \A s \in Shares \ created : served[s] = 0
  /\ \A s \in active : served[s] = count[s]
  /\ CountWithinLimit
  /\ \A o \in Owners : step[o] = "save" /\ Capped(target[o])
                       => loaded[o] <= limit[target[o]]

LEMMA CapStep == TypeOK /\ CapInv /\ [Next]_vars => CapInv'
<1> SUFFICES ASSUME TypeOK, CapInv, [Next]_vars
             PROVE  CapInv'
  OBVIOUS
<1> USE DEF TypeOK, CapInv, CountWithinLimit, Capped
\* Most steps touch neither the counts nor the owner's requests.
<1>1. ASSUME UNCHANGED <<created, active, count, limit, served, ownerVars>>
      PROVE  CapInv'
  BY <1>1 DEF ownerVars
<1>2. ASSUME NEW v \in Visits, Arrive(v) \/ Visit(v) \/ AbortVisit(v),
             ~IncrementDownload(v)
      PROVE  CapInv'
  BY <1>1, <1>2
  DEF Visit, Arrive, GetEntry, FindShare, FillEntry, CheckTerms, CheckPassword,
      DropThenRefuse, FindNode, DropThenGrant, AbortVisit, rowVars
<1>3. ASSUME NEW v \in Visits, IncrementDownload(v)
      PROVE  CapInv'
  <2>1. CASE UNCHANGED <<count, served>>
    BY <1>1, <1>3, <2>1 DEF IncrementDownload
  <2>2. CASE ~UNCHANGED <<count, served>>
    <3> DEFINE t == token[v]
    <3>1. /\ t \in created
          /\ Capped(t) => count[t] < limit[t]
      BY <1>3, <2>2 DEF IncrementDownload, Refuse, VisitTypes
    <3>2. /\ count' = [count EXCEPT ![t] = @ + 1]
          /\ served' = [served EXCEPT ![t] = @ + 1]
          /\ UNCHANGED <<created, active, limit, step, target, loaded>>
      BY <1>3, <2>2 DEF IncrementDownload, ownerVars
    <3>3. t \in Shares /\ count[t] \in Nat /\ limit[t] \in Nat
      <4>1. t \in Shares
        BY <3>1 DEF RowTypes
      <4>2. Limits \union {0} \subseteq Nat
        BY ShareAssumption
      <4> HIDE DEF t
      <4> QED
        BY <4>1, <4>2 DEF RowTypes
    <3> HIDE DEF t
    <3>4. /\ count'[t] = count[t] + 1
          /\ served'[t] = served[t] + 1
          /\ \A s \in Shares \ {t} : count'[s] = count[s] /\ served'[s] = served[s]
      BY <3>2, <3>3 DEF RowTypes
    <3>5. CountWithinLimit'
      BY <3>1, <3>2, <3>3, <3>4 DEF RowTypes
    <3> QED
      BY <3>1, <3>2, <3>4, <3>5 DEF RowTypes
  <2> QED
    BY <2>1, <2>2
<1>4. ASSUME TrashFile \/ \E s \in Shares : ForgetEntry(s) \/ ExpiryPasses(s)
      PROVE  CapInv'
  BY <1>1, <1>4 DEF TrashFile, ForgetEntry, ExpiryPasses, rowVars
<1>5. ASSUME NEW s \in Shares, CloseExpired(s)
      PROVE  CapInv'
  BY <1>5 DEF CloseExpired, ownerVars
<1>6. ASSUME NEW o \in Owners, BeginCreate(o)
      PROVE  CapInv'
  BY <1>6 DEF BeginCreate, RowTypes, OwnerTypes, rowVars
<1>7. ASSUME NEW o \in Owners, LoadShare(o)
      PROVE  CapInv'
  BY <1>7 DEF LoadShare, RowTypes, OwnerTypes, rowVars
<1>8. ASSUME NEW o \in Owners, DeactivateOlderLinks(o)
      PROVE  CapInv'
  BY <1>8 DEF DeactivateOlderLinks, RowTypes, OwnerTypes, rowVars
<1>9. ASSUME NEW o \in Owners, InsertShare(o)
      PROVE  CapInv'
  <2>1. PICK s \in Shares \ created, l \in Limits :
          /\ created' = created \union {s}
          /\ active' = active \union {s}
          /\ count' = [count EXCEPT ![s] = 0]
          /\ limit' = [limit EXCEPT ![s] = l]
    BY <1>9 DEF InsertShare
  <2>2. served' = served /\ EndOwner(o)
    BY <1>9 DEF InsertShare
  <2>3. CountWithinLimit'
    BY <2>1, ShareAssumption DEF RowTypes
  <2>4. ASSUME NEW u \in Owners, step'[u] = "save", Capped(target[u])'
        PROVE  loaded'[u] <= limit'[target'[u]]
    <3>1. step[u] = "save" /\ target'[u] = target[u] /\ loaded'[u] = loaded[u]
      BY <2>2, <2>4 DEF EndOwner, OwnerTypes
    <3>2. target[u] \in created /\ limit'[target[u]] = limit[target[u]]
      BY <2>1, <3>1 DEF OwnerTypes, RowTypes
    <3> QED
      BY <2>4, <3>1, <3>2
  <2> QED
    BY <2>1, <2>2, <2>3, <2>4 DEF RowTypes
<1>10. ASSUME NEW o \in Owners, SaveClosed(o)
      PROVE  CapInv'
  BY <1>10 DEF SaveClosed, RowTypes, OwnerTypes, rowVars
<1>11. ASSUME NEW o \in Owners, DropClosed(o)
      PROVE  CapInv'
  BY <1>11 DEF DropClosed, EndOwner, RowTypes, OwnerTypes, rowVars
<1>12. ASSUME NEW o \in Owners, AbortOwner(o)
      PROVE  CapInv'
  BY <1>12 DEF AbortOwner, EndOwner, RowTypes, OwnerTypes, rowVars
<1>13. CASE UNCHANGED vars
  BY <1>1, <1>13 DEF vars, rowVars
<1> QED
  BY <1>2, <1>3, <1>4, <1>5, <1>6, <1>7, <1>8, <1>9, <1>10, <1>11, <1>12, <1>13 DEF Next, Owner, Visit

LEMMA CapInvariant == Spec => []CapInv
<1>1. Init => CapInv
  BY DEF Init, CapInv, CountWithinLimit
<1> QED
  BY <1>1, CapStep, ShareTypeCorrect, PTL DEF Spec

\* CountWithinLimit for every cap and any overlap of requests: the condition in
\* the UPDATE of incrementDownload is enough, stale summaries or not.
THEOREM ShareCountWithinLimit == Spec => []CountWithinLimit
<1>1. CapInv => CountWithinLimit
  BY DEF CapInv
<1> QED
  BY <1>1, CapInvariant, PTL

\* OpenWithinLimit: an open link never granted more downloads than its cap.
THEOREM ShareOpenWithinLimit == Spec => []OpenWithinLimit
<1>1. TypeOK /\ CapInv => OpenWithinLimit
  BY DEF TypeOK, RowTypes, CapInv, CountWithinLimit, OpenWithinLimit
<1> QED
  BY <1>1, CapInvariant, ShareTypeCorrect, PTL

-----------------------------------------------------------------------------
\* Links that have ended

\* The strengthening of ClosedLockedIsRefused and EndedIsRefused, for one
\* request: an end it met on arrival lasts, and each check it has passed since
\* would have seen that end.
EndingFact(v) ==
  /\ "closed" \in gone[v] => token[v] \notin active
  /\ "expired" \in gone[v] => token[v] \in overdue
  /\ "trashed" \in gone[v] => ~live
  /\ pc[v] = "idle" => gone[v] = {}
  /\ hasRow[v] => /\ pc[v] \in {"fill", "terms", "password", "drop"}
                  /\ "closed" \notin gone[v]
  /\ pc[v] \in {"password", "node", "increment", "invalidate", "granted"}
       => "expired" \notin gone[v]
  /\ pc[v] \in {"increment", "invalidate", "granted"} => "trashed" \notin gone[v]
  /\ pc[v] \in {"node", "increment", "invalidate", "granted"}
       => token[v] \notin locked \/ "closed" \notin gone[v]

EndingInv == \A v \in Visits : EndingFact(v)

LEMMA EndingStep == TypeOK /\ EndingInv /\ [Next]_vars => EndingInv'
<1> SUFFICES ASSUME TypeOK, EndingInv, [Next]_vars, NEW w \in Visits
             PROVE  EndingFact(w)'
  BY DEF EndingInv
<1>0. EndingFact(w)
  BY DEF EndingInv
<1> USE DEF TypeOK
\* A step of another request touches neither this one nor what it met.
<1>1. ASSUME NEW v \in Visits, v # w, Arrive(v) \/ Visit(v) \/ AbortVisit(v)
      PROVE  EndingFact(w)'
  <2>1. UNCHANGED <<active, locked, overdue, live>>
    BY <1>1
    DEF Visit, Arrive, GetEntry, FindShare, FillEntry, CheckTerms, CheckPassword,
        DropThenRefuse, FindNode, IncrementDownload, DropThenGrant, AbortVisit,
        rowVars, worldVars
  <2>2. /\ pc'[w] = pc[w] /\ token'[w] = token[w]
        /\ hasRow'[w] = hasRow[w] /\ gone'[w] = gone[w]
    BY <1>1
    DEF Visit, Arrive, GetEntry, FindShare, FillEntry, CheckTerms, CheckPassword,
        DropThenRefuse, FindNode, IncrementDownload, DropThenGrant, AbortVisit,
        AdvisoryCap, PasswordRight, Goto, Refuse, Grant, VisitTypes
  <2> QED
    BY <1>0, <2>1, <2>2 DEF EndingFact
<1>2. ASSUME Arrive(w)
      PROVE  EndingFact(w)'
  BY <1>0, <1>2
  DEF EndingFact, Arrive, EndingsOf, Endings, VisitTypes, RowTypes, Resting,
      rowVars, worldVars
<1>3. ASSUME GetEntry(w)
      PROVE  EndingFact(w)'
  BY <1>0, <1>3
  DEF EndingFact, GetEntry, Goto, VisitTypes, RowTypes, Resting,
      rowVars, worldVars
<1>4. ASSUME FindShare(w)
      PROVE  EndingFact(w)'
  BY <1>0, <1>4
  DEF EndingFact, FindShare, Refuse, VisitTypes, RowTypes, Resting,
      rowVars, worldVars
<1>5. ASSUME FillEntry(w)
      PROVE  EndingFact(w)'
  BY <1>0, <1>5
  DEF EndingFact, FillEntry, Goto, VisitTypes, RowTypes, Resting,
      rowVars, worldVars
<1>6. ASSUME CheckTerms(w)
      PROVE  EndingFact(w)'
  BY ZenonT(40), <1>0, <1>6
  DEF EndingFact, CheckTerms, AdvisoryCap, Refuse, Goto, VisitTypes, RowTypes, Resting,
      rowVars, worldVars
<1>7. ASSUME CheckPassword(w)
      PROVE  EndingFact(w)'
  BY <1>0, <1>7
  DEF EndingFact, CheckPassword, PasswordRight, Refuse, Goto, VisitTypes, RowTypes, Resting,
      rowVars, worldVars
<1>8. ASSUME DropThenRefuse(w)
      PROVE  EndingFact(w)'
  BY <1>0, <1>8
  DEF EndingFact, DropThenRefuse, Refuse, VisitTypes, RowTypes, Resting,
      rowVars, worldVars
<1>9. ASSUME FindNode(w)
      PROVE  EndingFact(w)'
  BY <1>0, <1>9
  DEF EndingFact, FindNode, Refuse, Goto, Grant, VisitTypes, RowTypes, Resting,
      rowVars, worldVars
<1>10. ASSUME IncrementDownload(w)
      PROVE  EndingFact(w)'
  BY <1>0, <1>10
  DEF EndingFact, IncrementDownload, Goto, Refuse, VisitTypes, RowTypes, Resting,
      rowVars, worldVars
<1>11. ASSUME DropThenGrant(w)
      PROVE  EndingFact(w)'
  BY <1>0, <1>11
  DEF EndingFact, DropThenGrant, Grant, VisitTypes, RowTypes, Resting,
      rowVars, worldVars
<1>12. ASSUME AbortVisit(w)
      PROVE  EndingFact(w)'
  BY <1>0, <1>12
  DEF EndingFact, AbortVisit, Refuse, VisitTypes, RowTypes, Resting,
      rowVars, worldVars
\* What ended a link lasts whatever the owner and the rest of the world do.
<1>13. ASSUME UNCHANGED visitVars,
             pc[w] # "idle" => /\ token[w] \in active' => token[w] \in active
                               /\ token[w] \in overdue => token[w] \in overdue'
                               /\ token[w] \in locked' => token[w] \in locked
             , ~live => ~live'
      PROVE  EndingFact(w)'
  BY <1>0, <1>13 DEF EndingFact, visitVars
<1>14. ASSUME TrashFile \/ \E s \in Shares :
                             CloseExpired(s) \/ ForgetEntry(s) \/ ExpiryPasses(s)
      PROVE  EndingFact(w)'
  BY <1>13, <1>14 DEF TrashFile, CloseExpired, ForgetEntry, ExpiryPasses,
     rowVars, worldVars, RowTypes
<1>15. ASSUME NEW o \in Owners,
             BeginCreate(o) \/ LoadShare(o) \/ Owner(o) \/ AbortOwner(o)
      PROVE  EndingFact(w)'
  BY <1>13, <1>15
  DEF BeginCreate, LoadShare, Owner, DeactivateOlderLinks, InsertShare, SaveClosed,
      DropClosed, AbortOwner, rowVars, worldVars, VisitTypes
<1>16. CASE UNCHANGED vars
  BY <1>13, <1>16 DEF vars, rowVars, worldVars
<1> QED
  BY <1>1, <1>2, <1>3, <1>4, <1>5, <1>6, <1>7, <1>8, <1>9, <1>10, <1>11, <1>12, <1>14, <1>15, <1>16 DEF Next, Visit

LEMMA EndingInvariant == Spec => []EndingInv
<1>1. Init => EndingInv
  BY DEF Init, EndingInv, EndingFact
<1> QED
  BY <1>1, EndingStep, ShareTypeCorrect, PTL DEF Spec

\* ClosedLockedIsRefused: a link with a password is closed at once, whatever
\* Redis still holds.
THEOREM ShareClosedLockedIsRefused == Spec => []ClosedLockedIsRefused
<1>1. EndingInv => ClosedLockedIsRefused
  BY DEF EndingInv, EndingFact, ClosedLockedIsRefused
<1> QED
  BY <1>1, EndingInvariant, PTL

\* EndedIsRefused: expiry and the trash take effect at once, whatever Redis
\* still holds.
THEOREM ShareEndedIsRefused == Spec => []EndedIsRefused
<1>1. TypeOK /\ EndingInv => EndedIsRefused
  BY DEF TypeOK, VisitTypes, Endings, EndingInv, EndingFact, EndedIsRefused
<1> QED
  BY <1>1, EndingInvariant, ShareTypeCorrect, PTL
=============================================================================
