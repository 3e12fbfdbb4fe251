------------------------ MODULE Verification_proofs ------------------------
(***************************************************************************)
(* Proofs about Verification, for any number of codes and requests and     *)
(* under every fault: a code is accepted once; and, if Redis takes every   *)
(* write, the wrong guesses that are evaluated before a lock are bounded.  *)
(***************************************************************************)
EXTENDS Verification, FiniteSetTheorems, TLAPS

ReqTypes == req \in [Requests -> [at : Awaits, code : Codes \union {None}] \union {None}]

\* A request that has found a code has found one that was sent, so that what is
\* marked is a record.
MarksSent == \A r \in Requests : At(r, "mark") => req[r].code \in sent

\* Where a request goes next is an await.
LEMMA GoToTypes ==
  ASSUME ReqTypes, NEW r \in Requests, req[r] # None, NEW w \in Awaits, GoTo(r, w)
  PROVE  /\ ReqTypes'
         /\ \A x \in Requests : x # r => req'[x] = req[x]
         /\ req'[r].at = w /\ req'[r].code = req[r].code
BY DEF ReqTypes, GoTo

\* A request that ends leaves the others alone.
LEMMA EndTypes ==
  ASSUME ReqTypes, NEW r \in Requests, End(r)
  PROVE  /\ ReqTypes'
         /\ \A x \in Requests : x # r => req'[x] = req[x]
         /\ req'[r] = None
BY DEF ReqTypes, End

\* One step keeps the state well formed, and what is marked a record.
LEMMA TypeStep == TypeOK /\ MarksSent /\ [Next]_vars => TypeOK' /\ MarksSent'
<1> SUFFICES ASSUME TypeOK, MarksSent, [Next]_vars
             PROVE  TypeOK' /\ MarksSent'
  OBVIOUS
<1> USE DEF Awaits, Guards
<1>0. ReqTypes
  BY DEF TypeOK, ReqTypes
<1>1. ASSUME NEW r \in Requests, BeginSend(r)
      PROVE  TypeOK' /\ MarksSent'
  BY <1>1 DEF BeginSend, TypeOK, MarksSent, At, world, records, keys, ghosts
<1>2. ASSUME NEW r \in Requests, Reserve(r)
      PROVE  TypeOK' /\ MarksSent'
  BY <1>0, <1>2, GoToTypes
     DEF Reserve, TypeOK, ReqTypes, MarksSent, At, world, records, keys, ghosts
<1>3. ASSUME NEW r \in Requests, InsertCode(r)
      PROVE  TypeOK' /\ MarksSent'
  BY <1>0, <1>3, EndTypes
     DEF InsertCode, TypeOK, ReqTypes, MarksSent, At, world, keys, ghosts
<1>4. ASSUME NEW r \in Requests, NEW c \in Codes \union {None}, Begin(r, c)
      PROVE  TypeOK' /\ MarksSent'
  BY <1>4 DEF Begin, TypeOK, MarksSent, At, world, records, keys, ghosts
<1>5. ASSUME NEW r \in Requests, Missed(r), At(r, "find")
      PROVE  TypeOK' /\ MarksSent'
  BY <1>0, <1>5, GoToTypes
     DEF Missed, TypeOK, ReqTypes, MarksSent, At, world, records, keys
<1>6. ASSUME NEW r \in Requests, FindCode(r)
      PROVE  TypeOK' /\ MarksSent'
  <2>1. CASE req[r].code \in sent \ dead
    BY <1>0, <1>6, <2>1, GoToTypes
       DEF FindCode, TypeOK, ReqTypes, MarksSent, At, world, records, keys, ghosts
  <2>2. CASE req[r].code \notin sent \ dead
    BY <1>5, <1>6, <2>2 DEF FindCode
  <2>3. QED
    BY <2>1, <2>2
<1>7. ASSUME NEW r \in Requests, ComparePrivate(r) \/ CompareFile(r) \/ CompareConfirm(r)
      PROVE  TypeOK' /\ MarksSent'
  <2>1. CASE Missed(r)
    BY <1>5, <1>7, <2>1 DEF ComparePrivate, CompareFile, CompareConfirm
  <2>2. CASE ~Missed(r)
    <3>1. /\ At(r, "find")
          /\ GoTo(r, "clear")
          /\ UNCHANGED <<world, rate, records, keys, ghosts>>
      BY <1>7, <2>2 DEF ComparePrivate, CompareFile, CompareConfirm
    <3>2. QED
      BY <1>0, <3>1, GoToTypes
         DEF TypeOK, ReqTypes, MarksSent, At, world, records, keys, ghosts
  <2>3. QED
    BY <2>1, <2>2
<1>8. ASSUME NEW r \in Requests, MarkUsed(r)
      PROVE  TypeOK' /\ MarksSent'
  <2>1. req[r].code \in sent
    BY <1>8 DEF MarkUsed, MarksSent
  <2>2. CASE req[r].code \in used
    BY <1>0, <1>8, <2>2, EndTypes
       DEF MarkUsed, TypeOK, ReqTypes, MarksSent, At, world, keys
  <2>3. CASE req[r].code \notin used
    BY <1>0, <1>8, <2>1, <2>3, GoToTypes
       DEF MarkUsed, TypeOK, ReqTypes, MarksSent, At, world, keys
  <2>4. QED
    BY <2>2, <2>3
<1>9. ASSUME NEW r \in Requests, ClearFails(r) \/ SetExpiry(r) \/ ResetFails(r) \/ Abort(r)
      PROVE  TypeOK' /\ MarksSent'
  <2>1. End(r) /\ UNCHANGED <<world, rate, records, won, locked>>
    BY <1>9 DEF ClearFails, SetExpiry, ResetFails, Abort, keys, ghosts
  <2>2. /\ fails' \in {0, fails}
        /\ wrong' \in {0, wrong}
    BY <1>9 DEF ClearFails, SetExpiry, ResetFails, Abort, keys, ghosts
  <2>3. ttl' \in BOOLEAN
    <3>1. CASE SetExpiry(r)
      BY <3>1 DEF SetExpiry
    <3>2. CASE ~SetExpiry(r)
      <4>1. ttl' = FALSE \/ ttl' = ttl
        BY <1>9, <3>2, Zenon DEF ClearFails, ResetFails, Abort, keys
      <4>2. ttl \in BOOLEAN
        BY DEF TypeOK
      <4>3. QED
        BY <4>1, <4>2, Zenon
    <3>3. QED
      BY <3>1, <3>2
  <2>4. fails' \in Nat /\ wrong' \in Nat
    BY <2>2 DEF TypeOK
  <2>5. QED
    BY <1>0, <2>1, <2>3, <2>4, EndTypes DEF TypeOK, ReqTypes, MarksSent, At, world, records
<1>10. ASSUME NEW r \in Requests, Count(r)
       PROVE  TypeOK' /\ MarksSent'
  <2>1. End(r) \/ GoTo(r, "expire") \/ GoTo(r, "lockout")
    BY <1>10 DEF Count
  <2>2. ReqTypes' /\ \A x \in Requests : At(x, "mark")' => req'[x] = req[x]
    BY <1>0, <1>10, <2>1, GoToTypes, EndTypes DEF Count, At
  <2>3. QED
    BY <1>10, <2>2
       DEF Count, TypeOK, ReqTypes, MarksSent, At, world, records, ghosts
<1>11. ASSUME NEW r \in Requests, LockOut(r)
       PROVE  TypeOK' /\ MarksSent'
  BY <1>0, <1>11, GoToTypes
     DEF LockOut, TypeOK, ReqTypes, MarksSent, At, world, records, ghosts
<1>12. ASSUME ExpireRate \/ ExpireFails \/ ExpireLock
       PROVE  TypeOK' /\ MarksSent'
  <2>1. UNCHANGED <<world, records, req, won>>
    BY <1>12 DEF ExpireRate, ExpireFails, ExpireLock, keys, ghosts
  <2>2. CASE ExpireRate
    BY <2>1, <2>2 DEF ExpireRate, TypeOK, MarksSent, At, world, records, keys, ghosts
  <2>3. CASE ExpireFails
    BY <2>1, <2>3 DEF ExpireFails, TypeOK, MarksSent, At, world, records
  <2>4. CASE ExpireLock
    BY <2>1, <2>4 DEF ExpireLock, TypeOK, MarksSent, At, world, records
  <2>5. QED
    BY <1>12, <2>2, <2>3, <2>4
<1>13. ASSUME NEW c \in Codes, ExpireCode(c)
       PROVE  TypeOK' /\ MarksSent'
  BY <1>13 DEF ExpireCode, TypeOK, MarksSent, At, world, keys, ghosts
<1>14. CASE UNCHANGED vars
  BY <1>14 DEF vars, TypeOK, MarksSent, At, world, records, keys, ghosts
<1>15. QED
  BY <1>1, <1>2, <1>3, <1>4, <1>6, <1>7, <1>8, <1>9, <1>10, <1>11, <1>12, <1>13, <1>14
     DEF Next

\* The state stays well formed, with what is marked a record.
LEMMA TypesHold == Spec => [](TypeOK /\ MarksSent)
<1>1. Init => TypeOK
  <2> SUFFICES ASSUME Init
               PROVE  TypeOK
    OBVIOUS
  <2>1. /\ req \in [Requests -> [at : Awaits, code : Codes \union {None}] \union {None}]
        /\ won \in [Codes -> Nat]
    BY DEF Init
  <2>2. QED
    BY <2>1 DEF Init, TypeOK
<1>2. Init => MarksSent
  BY DEF Init, MarksSent, At
<1>3. QED
  BY <1>1, <1>2, TypeStep, PTL DEF Spec

\* The state of the guarded secrets stays well formed: a code is marked, and
\* expires, only when it was sent.
THEOREM TypeCorrect == Spec => []TypeOK
BY TypesHold, PTL

-----------------------------------------------------------------------------
\* A code that is not marked has been accepted by no one.
OnceInv == \A c \in Codes : won[c] <= 1 /\ (c \notin used => won[c] = 0)

\* A code is accepted once: the mark decides between requests that found it.
THEOREM OnlyOnce == Spec => []CodeUsedOnce
<1>1. Init => OnceInv
  BY DEF Init, OnceInv
<1>2. TypeOK /\ OnceInv /\ [Next]_vars => OnceInv'
  <2> SUFFICES ASSUME TypeOK, OnceInv, [Next]_vars
               PROVE  OnceInv'
    OBVIOUS
  <2>1. ASSUME NEW r \in Requests, MarkUsed(r)
        PROVE  OnceInv'
    BY <2>1 DEF MarkUsed, TypeOK, OnceInv
  <2>2. ASSUME UNCHANGED <<used, won>>
        PROVE  OnceInv'
    BY <2>2 DEF OnceInv
  <2>3. ASSUME NEW r \in Requests,
               \/ BeginSend(r) \/ Reserve(r) \/ InsertCode(r)
               \/ \E c \in Codes \union {None} : Begin(r, c)
               \/ FindCode(r) \/ ComparePrivate(r) \/ CompareFile(r) \/ CompareConfirm(r)
               \/ ClearFails(r)
               \/ Count(r) \/ SetExpiry(r) \/ LockOut(r) \/ ResetFails(r)
               \/ Abort(r)
        PROVE  OnceInv'
    <3>1. UNCHANGED <<used, won>>
      BY <2>3 DEF BeginSend, Reserve, InsertCode, Begin, FindCode, ComparePrivate,
                  CompareFile, CompareConfirm, Missed, ClearFails, Count, SetExpiry,
                  LockOut, ResetFails, Abort, records, ghosts
    <3>2. QED
      BY <2>2, <3>1
  <2>4. CASE \/ ExpireRate \/ ExpireFails \/ ExpireLock
             \/ \E c \in Codes : ExpireCode(c)
             \/ UNCHANGED vars
    BY <2>2, <2>4 DEF ExpireRate, ExpireFails, ExpireLock, ExpireCode, vars, records, ghosts
  <2>5. QED
    BY <2>1, <2>3, <2>4 DEF Next
<1>3. OnceInv => CodeUsedOnce
  BY DEF OnceInv, CodeUsedOnce
<1>4. QED
  BY <1>1, <1>2, <1>3, TypeCorrect, PTL DEF Spec

-----------------------------------------------------------------------------
\* The requests at an await, and how many they are
Those(w) == {r \in Requests : At(r, w)}
Num(w) == Cardinality(Those(w))

\* The counter stays below MaxAttempts but for the requests that are about to
\* lock and reset it.
FailsBounded == fails <= MaxAttempts - 1 + Num("lockout") + Num("reset")

\* While there is no lock, every wrong guess has been counted or is about to be.
\* While there is one, each guess that is still looking may turn out wrong, and
\* no other begins.
WrongBounded ==
  /\ ~locked => Num("reset") = 0 /\ wrong <= fails + Num("count")
  /\ locked => wrong + Num("find") <= MaxAttempts - 1 + Cardinality(Requests)

BoundInv == ~faulty => FailsBounded /\ WrongBounded

\* What the bound assumes of the constants: finitely many requests at a time, and
\* that the first wrong guess does not lock.  A request is not None.
BoundAssumption ==
  /\ IsFiniteSet(Requests)
  /\ MaxAttempts \in Nat \ {0, 1}
  /\ None \notin [at : Awaits, code : Codes \union {None}]

\* They are finitely many, before a step and after it.
LEMMA NumTypes ==
  ASSUME BoundAssumption, NEW w
  PROVE  /\ IsFiniteSet(Those(w)) /\ Num(w) \in Nat
         /\ IsFiniteSet(Those(w)') /\ Num(w)' \in Nat
<1>1. Those(w) \in SUBSET Requests /\ Those(w)' \in SUBSET Requests
  BY DEF Those
<1>2. QED
  BY <1>1, FS_Subset, FS_CardinalityType DEF BoundAssumption, Num

\* They are the same ones when no request moves.
LEMMA NumStays ==
  ASSUME UNCHANGED req, NEW w
  PROVE  Num(w)' = Num(w)
BY DEF Num, Those, At

\* A request that goes from await a to await b is counted there.
LEMMA NumMoves ==
  ASSUME BoundAssumption, ReqTypes, NEW r \in Requests, NEW a \in Awaits,
         NEW b \in Awaits, a # b, At(r, a), GoTo(r, b)
  PROVE  /\ Num(a)' = Num(a) - 1
         /\ Num(b)' = Num(b) + 1
         /\ \A c \in Awaits \ {a, b} : Num(c)' = Num(c)
<1>1. /\ \A x \in Requests : x # r => req'[x] = req[x]
      /\ req'[r] # None
      /\ req'[r].at = b
  BY GoToTypes DEF At, BoundAssumption, ReqTypes, GoTo
<1>2. Those(a)' = Those(a) \ {r} /\ r \in Those(a)
  BY <1>1 DEF Those, At
<1>3. Those(b)' = Those(b) \union {r} /\ r \notin Those(b)
  BY <1>1 DEF Those, At
<1>4. \A c \in Awaits \ {a, b} : Those(c)' = Those(c)
  BY <1>1 DEF Those, At
<1>5. Num(a)' = Num(a) - 1
  BY <1>2, NumTypes, FS_RemoveElement DEF Num
<1>6. Num(b)' = Num(b) + 1
  BY <1>3, NumTypes, FS_AddElement DEF Num
<1>7. \A c \in Awaits \ {a, b} : Num(c)' = Num(c)
  BY <1>4 DEF Num
<1>8. QED
  BY <1>5, <1>6, <1>7

\* A request that ends is counted nowhere.
LEMMA NumEnds ==
  ASSUME BoundAssumption, ReqTypes, NEW r \in Requests, NEW a \in Awaits,
         At(r, a), End(r)
  PROVE  /\ Num(a)' = Num(a) - 1
         /\ \A c \in Awaits \ {a} : Num(c)' = Num(c)
<1>1. Those(a)' = Those(a) \ {r} /\ r \in Those(a)
  BY EndTypes DEF Those, At
<1>2. \A c \in Awaits \ {a} : Those(c)' = Those(c)
  BY EndTypes DEF Those, At
<1>3. QED
  BY <1>1, <1>2, NumTypes, FS_RemoveElement DEF Num

\* A request that begins at await b is counted there.
LEMMA NumBegins ==
  ASSUME BoundAssumption, ReqTypes, NEW r \in Requests, req[r] = None,
         NEW b \in Awaits, NEW c \in Codes \union {None},
         req' = [req EXCEPT ![r] = [at |-> b, code |-> c]]
  PROVE  /\ Num(b)' = Num(b) + 1
         /\ \A w \in Awaits \ {b} : Num(w)' = Num(w)
<1>1. /\ \A x \in Requests : x # r => req'[x] = req[x]
      /\ req'[r] # None
      /\ req'[r].at = b
  BY DEF BoundAssumption, ReqTypes
<1>2. Those(b)' = Those(b) \union {r} /\ r \notin Those(b)
  BY <1>1 DEF Those, At
<1>3. \A w \in Awaits \ {b} : Those(w)' = Those(w)
  BY <1>1 DEF Those, At
<1>4. QED
  BY <1>2, <1>3, NumTypes, FS_AddElement DEF Num

\* The elements of two sets that share none
LEMMA DisjointUnion ==
  ASSUME NEW S, NEW T, IsFiniteSet(S), IsFiniteSet(T), S \intersect T = {}
  PROVE  /\ IsFiniteSet(S \union T)
         /\ Cardinality(S \union T) = Cardinality(S) + Cardinality(T)
<1>1. Cardinality(S) \in Nat /\ Cardinality(T) \in Nat
  BY FS_CardinalityType
<1>2. Cardinality(S \intersect T) = 0
  BY FS_EmptySet
<1>3. /\ IsFiniteSet(S \union T)
      /\ Cardinality(S \union T)
           = Cardinality(S) + Cardinality(T) - Cardinality(S \intersect T)
  BY FS_Union
<1>4. QED
  BY <1>1, <1>2, <1>3

\* A request is at one await.
LEMMA NumTogether ==
  ASSUME BoundAssumption
  PROVE  Num("find") + Num("count") + Num("lockout") + Num("reset") <= Cardinality(Requests)
<1> DEFINE A == Those("find") \union Those("count")
           B == Those("lockout") \union Those("reset")
<1>1. /\ Those("find") \intersect Those("count") = {}
      /\ Those("lockout") \intersect Those("reset") = {}
      /\ A \intersect B = {}
      /\ A \union B \in SUBSET Requests
  BY DEF Those, At
<1>2. \A w : IsFiniteSet(Those(w)) /\ Num(w) \in Nat
  BY NumTypes
<1>3. IsFiniteSet(A) /\ Cardinality(A) = Num("find") + Num("count")
  BY <1>1, <1>2, DisjointUnion DEF Num
<1>4. IsFiniteSet(B) /\ Cardinality(B) = Num("lockout") + Num("reset")
  BY <1>1, <1>2, DisjointUnion DEF Num
<1>5. Cardinality(A \union B) = Cardinality(A) + Cardinality(B)
  <2> HIDE DEF A, B
  <2>1. QED
    BY <1>1, <1>3, <1>4, DisjointUnion
<1>6. Cardinality(A \union B) <= Cardinality(Requests)
  <2> HIDE DEF A, B
  <2>1. QED
    BY <1>1, FS_Subset DEF BoundAssumption
<1>7. Cardinality(A) + Cardinality(B) <= Cardinality(Requests)
  <2> HIDE DEF A, B
  <2>1. QED
    BY <1>5, <1>6
<1>8. /\ Num("find") \in Nat /\ Num("count") \in Nat
      /\ Num("lockout") \in Nat /\ Num("reset") \in Nat
      /\ Cardinality(Requests) \in Nat
  BY <1>2, FS_CardinalityType DEF BoundAssumption
<1>9. QED
  <2> HIDE DEF A, B
  <2>1. QED
    BY <1>3, <1>4, <1>7, <1>8

\* One step keeps the counter and the wrong guesses bounded.
LEMMA BoundStep ==
  ASSUME BoundAssumption, TypeOK, BoundInv, [Next]_vars
  PROVE  BoundInv'
<1> SUFFICES ASSUME ~faulty'
             PROVE  FailsBounded' /\ WrongBounded'
  BY DEF BoundInv
<1>1. ReqTypes
  BY DEF TypeOK, ReqTypes
<1>2. /\ fails \in Nat /\ wrong \in Nat
      /\ MaxAttempts \in Nat \ {0, 1}
      /\ Cardinality(Requests) \in Nat
  BY FS_CardinalityType DEF TypeOK, BoundAssumption
<1>3. \A w : Num(w) \in Nat /\ Num(w)' \in Nat
  BY NumTypes
<1>4. {"rate", "insert", "find", "mark", "clear", "count", "expire", "lockout", "reset"}
        \subseteq Awaits
  BY DEF Awaits
<1>5. ASSUME ~faulty, UNCHANGED <<fails, wrong, locked>>,
             Num("count")' >= Num("count"), Num("find")' <= Num("find"),
             Num("lockout")' = Num("lockout"), Num("reset")' = Num("reset")
      PROVE  FailsBounded' /\ WrongBounded'
  BY <1>2, <1>3, <1>5 DEF BoundInv, FailsBounded, WrongBounded
<1>6. ASSUME NEW r \in Requests, BeginSend(r)
      PROVE  FailsBounded' /\ WrongBounded'
  <2>1. /\ Num("find")' = Num("find")
        /\ Num("count")' = Num("count")
        /\ Num("lockout")' = Num("lockout")
        /\ Num("reset")' = Num("reset")
    BY <1>1, <1>4, <1>6, NumBegins DEF BeginSend
  <2>2. ~faulty /\ UNCHANGED <<fails, wrong, locked>>
    BY <1>6 DEF BeginSend, world, keys, ghosts
  <2>3. QED
    BY <1>3, <1>5, <2>1, <2>2
<1>7. ASSUME NEW r \in Requests, Reserve(r)
      PROVE  FailsBounded' /\ WrongBounded'
  BY <1>1, <1>3, <1>4, <1>5, <1>7, NumMoves DEF Reserve, world, keys, ghosts
<1>8. ASSUME NEW r \in Requests, InsertCode(r) \/ SetExpiry(r)
      PROVE  FailsBounded' /\ WrongBounded'
  BY <1>1, <1>3, <1>4, <1>5, <1>8, NumEnds DEF InsertCode, SetExpiry, world, keys, ghosts
<1>9. ASSUME NEW r \in Requests, NEW c \in Codes \union {None}, Begin(r, c)
      PROVE  FailsBounded' /\ WrongBounded'
  <2>1. /\ Num("find")' = Num("find") + 1
        /\ Num("count")' = Num("count")
        /\ Num("lockout")' = Num("lockout")
        /\ Num("reset")' = Num("reset")
    BY <1>1, <1>4, <1>9, NumBegins DEF Begin
  <2>2. ~locked /\ UNCHANGED <<faulty, fails, wrong, locked>>
    BY <1>9 DEF Begin, world, keys, ghosts
  <2>3. QED
    BY <1>2, <1>3, <2>1, <2>2 DEF BoundInv, FailsBounded, WrongBounded
<1>10. ASSUME NEW r \in Requests, At(r, "find"), Missed(r)
       PROVE  FailsBounded' /\ WrongBounded'
  <2>1. /\ Num("find")' = Num("find") - 1
        /\ Num("count")' = Num("count") + 1
        /\ Num("lockout")' = Num("lockout")
        /\ Num("reset")' = Num("reset")
    BY <1>1, <1>4, <1>10, NumMoves DEF Missed
  <2>2. ~faulty /\ wrong' = wrong + 1 /\ UNCHANGED <<fails, locked>>
    BY <1>10 DEF Missed, world, keys
  <2>3. QED
    BY <1>2, <1>3, <2>1, <2>2 DEF BoundInv, FailsBounded, WrongBounded
<1>11. ASSUME NEW r \in Requests, At(r, "find"), GoTo(r, "mark") \/ GoTo(r, "clear"),
              UNCHANGED <<world, rate, records, keys, ghosts>>
       PROVE  FailsBounded' /\ WrongBounded'
  BY <1>1, <1>3, <1>4, <1>5, <1>11, NumMoves DEF world, keys, ghosts
<1>12. ASSUME NEW r \in Requests,
              FindCode(r) \/ ComparePrivate(r) \/ CompareFile(r) \/ CompareConfirm(r)
       PROVE  FailsBounded' /\ WrongBounded'
  BY <1>10, <1>11, <1>12 DEF FindCode, ComparePrivate, CompareFile, CompareConfirm
<1>13. ASSUME NEW r \in Requests, MarkUsed(r)
       PROVE  FailsBounded' /\ WrongBounded'
  <2>1. At(r, "mark") /\ (End(r) \/ GoTo(r, "clear"))
    BY <1>13 DEF MarkUsed
  <2>2. ~faulty /\ UNCHANGED <<fails, wrong, locked>>
    BY <1>13 DEF MarkUsed, world, keys
  <2>3. CASE End(r)
    BY <1>1, <1>3, <1>4, <1>5, <2>1, <2>2, <2>3, NumEnds
  <2>4. CASE GoTo(r, "clear")
    BY <1>1, <1>3, <1>4, <1>5, <2>1, <2>2, <2>4, NumMoves
  <2>5. QED
    BY <2>1, <2>3, <2>4
<1>14. ASSUME NEW r \in Requests, ClearFails(r)
       PROVE  FailsBounded' /\ WrongBounded'
  <2>1. /\ Num("find")' = Num("find")
        /\ Num("count")' = Num("count")
        /\ Num("lockout")' = Num("lockout")
        /\ Num("reset")' = Num("reset")
    BY <1>1, <1>4, <1>14, NumEnds DEF ClearFails
  <2>2. ~faulty /\ fails' = 0 /\ wrong' = 0 /\ locked' = locked
    BY <1>14 DEF ClearFails, world
  <2>3. QED
    BY <1>2, <1>3, <2>1, <2>2 DEF BoundInv, FailsBounded, WrongBounded
<1>15. ASSUME NEW r \in Requests, Count(r)
       PROVE  FailsBounded' /\ WrongBounded'
  <2>1. ~faulty /\ fails' = fails + 1 /\ UNCHANGED <<wrong, locked>>
    BY <1>15 DEF Count, world, ghosts
  <2>2. CASE fails' = 1 \/ fails' < MaxAttempts
    <3>1. GoTo(r, "expire") \/ End(r)
      BY <1>2, <1>15, <2>1, <2>2 DEF Count
    <3>2. /\ Num("find")' = Num("find")
          /\ Num("count")' = Num("count") - 1
          /\ Num("lockout")' = Num("lockout")
          /\ Num("reset")' = Num("reset")
      BY <1>1, <1>4, <1>15, <3>1, NumMoves, NumEnds DEF Count
    <3>3. QED
      BY <1>2, <1>3, <2>1, <2>2, <3>2 DEF BoundInv, FailsBounded, WrongBounded
  <2>3. CASE ~(fails' = 1 \/ fails' < MaxAttempts)
    <3>1. GoTo(r, "lockout")
      BY <1>2, <1>15, <2>1, <2>3 DEF Count
    <3>2. /\ Num("find")' = Num("find")
          /\ Num("count")' = Num("count") - 1
          /\ Num("lockout")' = Num("lockout") + 1
          /\ Num("reset")' = Num("reset")
      BY <1>1, <1>4, <1>15, <3>1, NumMoves DEF Count
    <3>3. QED
      BY <1>2, <1>3, <2>1, <3>2 DEF BoundInv, FailsBounded, WrongBounded
  <2>4. QED
    BY <2>2, <2>3
<1>16. ASSUME NEW r \in Requests, LockOut(r)
       PROVE  FailsBounded' /\ WrongBounded'
  <2>1. /\ Num("find")' = Num("find")
        /\ Num("lockout")' = Num("lockout") - 1
        /\ Num("reset")' = Num("reset") + 1
    BY <1>1, <1>4, <1>16, NumMoves DEF LockOut
  <2>2. ~faulty /\ locked' /\ UNCHANGED <<fails, wrong>>
    BY <1>16 DEF LockOut, world, ghosts
  <2>3. Num("find") + Num("count") + Num("lockout") + Num("reset") <= Cardinality(Requests)
    BY NumTogether
  <2>4. QED
    BY <1>2, <1>3, <2>1, <2>2, <2>3 DEF BoundInv, FailsBounded, WrongBounded
<1>17. ASSUME NEW r \in Requests, ResetFails(r)
       PROVE  FailsBounded' /\ WrongBounded'
  <2>1. /\ Num("find")' = Num("find")
        /\ Num("lockout")' = Num("lockout")
        /\ Num("reset")' = Num("reset") - 1
    BY <1>1, <1>4, <1>17, NumEnds DEF ResetFails
  <2>2. ~faulty /\ fails' = 0 /\ UNCHANGED <<wrong, locked>>
    BY <1>17 DEF ResetFails, world, ghosts
  <2>3. Num("reset") # 0
    BY <1>3, <2>1
  <2>4. locked
    BY <2>2, <2>3 DEF BoundInv, WrongBounded
  <2>5. QED
    BY <1>2, <1>3, <2>1, <2>2, <2>4 DEF BoundInv, FailsBounded, WrongBounded
<1>18. ASSUME NEW r \in Requests, Abort(r)
       PROVE  FALSE
  BY <1>18 DEF Abort, world
<1>19. ASSUME UNCHANGED req
       PROVE  \A w : Num(w)' = Num(w)
  BY <1>19, NumStays
<1>20. CASE ExpireFails
  <2>1. ~faulty /\ fails' = 0 /\ wrong' = 0 /\ UNCHANGED <<locked, req>>
    BY <1>20 DEF ExpireFails, world
  <2>2. Num("find") + Num("count") + Num("lockout") + Num("reset") <= Cardinality(Requests)
    BY NumTogether
  <2>3. QED
    BY <1>2, <1>3, <1>19, <2>1, <2>2 DEF BoundInv, FailsBounded, WrongBounded
<1>21. CASE ExpireLock
  <2>1. ~faulty /\ ~locked' /\ wrong' = fails /\ UNCHANGED <<fails, req>>
    BY <1>21 DEF ExpireLock, world
  <2>2. Num("reset") = 0
    <3>1. Those("reset") = {}
      BY <1>21 DEF ExpireLock, Those, At
    <3>2. QED
      BY <3>1, FS_EmptySet DEF Num
  <2>3. QED
    BY <1>2, <1>3, <1>19, <2>1, <2>2 DEF BoundInv, FailsBounded, WrongBounded
<1>22. CASE ExpireRate \/ (\E c \in Codes : ExpireCode(c)) \/ UNCHANGED vars
  <2>1. ~faulty /\ UNCHANGED <<fails, wrong, locked, req>>
    BY <1>22 DEF ExpireRate, ExpireCode, vars, world, keys, ghosts
  <2>2. QED
    BY <1>3, <1>5, <1>19, <2>1
<1>23. QED
  BY <1>6, <1>7, <1>8, <1>9, <1>12, <1>13, <1>14, <1>15, <1>16, <1>17, <1>18, <1>20,
     <1>21, <1>22 DEF Next

\* Without a correct guess, the wrong guesses that are evaluated before the counter
\* expires or the lock ends are MaxAttempts and those that ran beside them, for any
\* number of requests and any limit, provided Redis takes every write.
THEOREM FewWrongGuesses ==
  ASSUME BoundAssumption
  PROVE  Spec => []GuessesBounded
<1>1. Init => BoundInv
  <2> SUFFICES ASSUME Init
               PROVE  FailsBounded /\ WrongBounded
    BY DEF BoundInv
  <2>1. fails = 0 /\ wrong = 0 /\ ~locked /\ \A r \in Requests : req[r] = None
    BY DEF Init
  <2>2. Num("reset") = 0
    <3>1. Those("reset") = {}
      BY <2>1 DEF Those, At
    <3>2. QED
      BY <3>1, FS_EmptySet DEF Num
  <2>3. Num("count") \in Nat /\ Num("lockout") \in Nat
    BY NumTypes
  <2>4. QED
    BY <2>1, <2>2, <2>3 DEF FailsBounded, WrongBounded, BoundAssumption
<1>2. TypeOK /\ BoundInv /\ [Next]_vars => BoundInv'
  BY BoundStep
<1>3. TypeOK /\ BoundInv => GuessesBounded
  <2> SUFFICES ASSUME TypeOK, BoundInv, ~faulty
               PROVE  wrong <= MaxAttempts + Cardinality(Requests) - 1
    BY DEF GuessesBounded
  <2>1. /\ Num("find") \in Nat /\ Num("count") \in Nat
        /\ Num("lockout") \in Nat /\ Num("reset") \in Nat
        /\ Cardinality(Requests) \in Nat
    BY NumTypes, FS_CardinalityType DEF BoundAssumption
  <2>2. Num("find") + Num("count") + Num("lockout") + Num("reset") <= Cardinality(Requests)
    BY NumTogether
  <2>3. fails \in Nat /\ wrong \in Nat /\ MaxAttempts \in Nat
    BY DEF TypeOK, BoundAssumption
  <2>4. QED
    BY <2>1, <2>2, <2>3 DEF BoundInv, FailsBounded, WrongBounded
<1>4. QED
  BY <1>1, <1>2, <1>3, TypeCorrect, PTL DEF Spec
=============================================================================
