-------------------------- MODULE Accounts_proofs --------------------------
(***************************************************************************)
(* Proofs about Accounts, for any number of users, devices and requests:   *)
(* a session that has been ended stays ended, serves no one, and none is   *)
(* left open by an operation that ends the sessions of a user.             *)
(***************************************************************************)
EXTENDS Accounts, TLAPS

ReqTypes == req \in [Requests -> Request \union {None}]

\* A request that goes on keeps everything but its await.
LEMMA GoToFacts ==
  ASSUME ReqTypes, NEW r \in Requests, req[r] # None, NEW w \in Awaits, GoTo(r, w)
  PROVE  /\ ReqTypes'
         /\ \A x \in Requests : x # r => req'[x] = req[x]
         /\ req'[r].at = w
         /\ req'[r].op = req[r].op /\ req'[r].user = req[r].user
         /\ req'[r].dev = req[r].dev /\ req'[r].seen = req[r].seen
         /\ req'[r].snap = req[r].snap
BY DEF ReqTypes, GoTo, Request

\* A request that forgets the row it loaded goes on with the devices it has to end.
LEMMA GoOnFacts ==
  ASSUME ReqTypes, NEW r \in Requests, req[r] # None, NEW w \in Awaits,
         NEW S \in SUBSET Devices, GoOn(r, w, S)
  PROVE  /\ ReqTypes'
         /\ \A x \in Requests : x # r => req'[x] = req[x]
         /\ req'[r].at = w /\ req'[r].seen = S
         /\ req'[r].op = req[r].op /\ req'[r].user = req[r].user
BY ZenonT(40) DEF ReqTypes, GoOn, Request

\* A request that is through leaves the others alone.
LEMMA FinishFacts ==
  ASSUME ReqTypes, NEW r \in Requests, Finish(r)
  PROVE  /\ ReqTypes'
         /\ \A x \in Requests : x # r => req'[x] = req[x]
         /\ req'[r] = None
BY DEF ReqTypes, Finish

\* So does one that begins.
LEMMA BeginFacts ==
  ASSUME ReqTypes, NEW r \in Requests, NEW q \in Request, Begin(r, q)
  PROVE  /\ ReqTypes'
         /\ \A x \in Requests : x # r => req'[x] = req[x]
         /\ req'[r] = q
BY DEF ReqTypes, Begin

\* What requests begin with: a row,
LEMMA LoadedFacts ==
  ASSUME TypeOK, NEW op \in Ops, NEW w \in Awaits, NEW u \in Users, Exists(u),
         NEW p \in Passwords \union {NoPassword}
  PROVE  /\ Loaded(op, w, u, p) \in Request
         /\ Loaded(op, w, u, p).snap \in Row
         /\ Loaded(op, w, u, p).op = op /\ Loaded(op, w, u, p).at = w
         /\ Loaded(op, w, u, p).seen = {}
BY DEF TypeOK, Loaded, Request, Exists

\* or a token
LEMMA PresentedFacts ==
  ASSUME TypeOK, NEW op \in Ops, NEW w \in Awaits, NEW d \in Devices, owner[d] \in Users,
         NEW t \in Nat
  PROVE  /\ Presented(op, w, d, t) \in Request
         /\ Presented(op, w, d, t).op = op /\ Presented(op, w, d, t).at = w
         /\ Presented(op, w, d, t).dev = d
         /\ Presented(op, w, d, t).seen = Revoked \intersect {d}
BY DEF TypeOK, Presented, Request, Revoked

-----------------------------------------------------------------------------
\* The inductive invariant

\* A device that has tokens has a row, or had one; what has a row has an owner.
DeviceInv ==
  \A d \in Devices :
    /\ d \in hashed \/ iats[d] # {} => state[d] # "free"
    /\ state[d] # "free" => owner[d] \in Users

\* A request has what its next step needs: the row it loaded, or a device.
Ready(q) ==
  /\ q.at \in {"compare", "save"} => q.snap \in Row
  /\ q.at \in {"hash", "device", "user"} => q.dev \in Devices /\ state[q.dev] # "free"

\* The devices that an operation has to end are those of its user, and ended once
\* it is past ending them.
Ends(q) ==
  q.op \in EndingOps /\ q.at \in {"sessions", "marker", "row"} =>
    \A d \in q.seen : /\ state[d] # "free"
                      /\ owner[d] = q.user
                      /\ q.at # "sessions" => state[d] = "revoked"

\* A request past the look at its device did not come after its end.
Serves(q) ==
  /\ q.at = "device" => q.seen \subseteq Revoked
  /\ q.at = "user" => q.dev \notin q.seen

ReqInv(q) == Ready(q) /\ Ends(q) /\ Serves(q)

AllReq == \A r \in Requests : req[r] # None => ReqInv(req[r])

\* Devices advance from no row to a row and from there to their end; the owner
\* stays.
Advance ==
  \A d \in Devices :
    /\ state[d] # "free" => state'[d] # "free" /\ owner'[d] = owner[d]
    /\ state[d] = "revoked" => state'[d] = "revoked"

\* What holds of a request holds when devices have advanced.
LEMMA ReqAdvance ==
  ASSUME Advance, NEW q \in Request, ReqInv(q)
  PROVE  ReqInv(q)'
<1>1. q.seen \subseteq Devices /\ q.user \in Users
  BY DEF Request
<1>2. Ready(q)'
  BY DEF ReqInv, Ready, Advance
<1>3. Ends(q)'
  BY <1>1 DEF ReqInv, Ends, Advance
<1>4. Serves(q)'
  BY <1>1 DEF ReqInv, Serves, Revoked, Advance
<1>5. QED
  BY <1>2, <1>3, <1>4 DEF ReqInv

\* One request moves to q, or ends.
LEMMA OneMoves ==
  ASSUME ReqTypes, AllReq, Advance, NEW r \in Requests,
         \A x \in Requests : x # r => req'[x] = req[x],
         NEW q, req'[r] = q, q # None => ReqInv(q)'
  PROVE  AllReq'
<1> SUFFICES ASSUME NEW x \in Requests, req'[x] # None
             PROVE  ReqInv(req[x])'
  BY DEF AllReq
<1>1. CASE x = r
  BY <1>1 DEF ReqInv, Ready, Ends, Serves
<1>2. CASE x # r
  <2>1. PICK p \in Request : p = req[x] /\ p = req'[x]
    BY <1>2 DEF ReqTypes
  <2>2. ReqInv(p)
    BY <2>1 DEF AllReq
  <2>3. ReqInv(p)'
    BY <2>2, ReqAdvance
  <2>4. QED
    BY <2>1, <2>3 DEF ReqInv, Ready, Ends, Serves
<1>3. QED
  BY <1>1, <1>2

\* No request moves.
LEMMA NoneMoves ==
  ASSUME ReqTypes, AllReq, Advance, UNCHANGED req
  PROVE  AllReq'
<1> SUFFICES ASSUME NEW x \in Requests, req[x] # None
             PROVE  ReqInv(req[x])'
  BY DEF AllReq
<1>1. PICK p \in Request : p = req[x] /\ p = req'[x]
  BY DEF ReqTypes
<1>2. ReqInv(p)
  BY <1>1 DEF AllReq
<1>3. ReqInv(p)'
  BY <1>2, ReqAdvance
<1>4. QED
  BY <1>1, <1>3 DEF ReqInv, Ready, Ends, Serves

\* Ending the sessions of devices that have a row
LEMMA RevokeFacts ==
  ASSUME TypeOK, NEW S \in SUBSET Devices, \A d \in S : state[d] # "free",
         Revoke(S), UNCHANGED owner
  PROVE  /\ Advance
         /\ state' \in [Devices -> {"free", "live", "revoked"}]
         /\ \A d \in Devices : state'[d] = IF d \in S THEN "revoked" ELSE state[d]
BY DEF TypeOK, Revoke, Advance

\* Devices advance in every step: a login makes a row for one that never had one.
LEMMA Advancing ==
  ASSUME TypeOK, [Next]_vars
  PROVE  Advance
<1>1. ASSUME UNCHANGED <<state, owner>>
      PROVE  Advance
  BY <1>1 DEF Advance
<1>2. ASSUME NEW d \in Devices, Logout(d)
      PROVE  Advance
  BY <1>2, RevokeFacts DEF Logout
<1>3. ASSUME NEW u \in Users, LogoutAll(u)
      PROVE  Advance
  BY <1>3, RevokeFacts DEF LogoutAll, LiveOf
<1>4. ASSUME NEW r \in Requests, CreateDevice(r)
      PROVE  Advance
  BY <1>4 DEF CreateDevice, Advance, TypeOK
<1>5. ASSUME NEW r \in Requests, EndSessions(r) \/ DeleteUser(r)
      PROVE  Advance
  BY <1>5, RevokeFacts DEF EndSessions, DeleteUser, LiveOf
<1>6. ASSUME NEW u \in Users, Register(u) \/ AdminCreate(u)
      PROVE  Advance
  BY <1>1, <1>6 DEF Register, AdminCreate, Create, deviceVars
<1>7. ASSUME NEW r \in Requests, Start(r)
      PROVE  Advance
  <2>1. UNCHANGED <<state, owner>>
    BY <1>7 DEF Start, OauthCreate, OauthFind, LoginLoad, LoadProfile, FindUserOrFail,
                AdminLoad, ChangeLoad, ResetLoad, EndingLoad, RefreshFind, ValidateMarker,
                Create, deviceVars
  <2>2. QED
    BY <1>1, <2>1
<1>8. ASSUME NEW r \in Requests,
             \/ LoginRefused(r) \/ LoginMatches(r) \/ HashToken(r) \/ RefreshSign(r)
             \/ ValidateDevice(r) \/ ValidateUser(r) \/ SaveProfile(r) \/ AdminSave(r)
             \/ SavePassword(r) \/ SetMarker(r) \/ Abort(r)
      PROVE  Advance
  <2>1. UNCHANGED <<state, owner>>
    BY <1>8 DEF LoginRefused, LoginMatches, HashToken, RefreshSign, ValidateDevice,
                ValidateUser, SaveProfile, AdminSave, SavePassword, SetMarker, Abort,
                deviceVars
  <2>2. QED
    BY <1>1, <2>1
<1>9. CASE Tick \/ UNCHANGED vars
  BY <1>1, <1>9 DEF Tick, vars, deviceVars
<1>10. QED
  BY <1>2, <1>3, <1>4, <1>5, <1>6, <1>7, <1>8, <1>9 DEF Next, Continue

-----------------------------------------------------------------------------
\* Every step keeps the invariant

IInv == TypeOK /\ DeviceInv /\ AllReq

RowTypes == row \in [Users -> Row \union {None}]

\* A new account is a well-formed row.
LEMMA CreateFacts ==
  ASSUME TypeOK, NEW u \in Users, NEW p \in Passwords \union {NoPassword}, Create(u, p)
  PROVE  RowTypes' /\ known' \subseteq Users /\ UNCHANGED <<now, deviceVars, marker>>
BY DEF TypeOK, Create, RowTypes, NewRow, Row

\* So is a row of which the login lock is updated,
LEMMA UpdateFacts ==
  ASSUME TypeOK, NEW u \in Users, NEW a \in Nat, NEW t \in Nat, UpdateRow(u, a, t)
  PROVE  RowTypes'
<1>1. CASE Exists(u)
  <2>1. row[u] \in Row
    BY <1>1 DEF TypeOK, Exists
  <2>2. row' = [row EXCEPT ![u] = [row[u] EXCEPT !.attempts = a, !.lockedUntil = t]]
    BY <1>1 DEF UpdateRow, TypeOK
  <2>3. [row[u] EXCEPT !.attempts = a, !.lockedUntil = t] \in Row
    BY <2>1 DEF Row
  <2>4. QED
    BY <2>2, <2>3 DEF RowTypes, TypeOK
<1>2. CASE ~Exists(u)
  BY <1>2 DEF UpdateRow, TypeOK, RowTypes
<1>3. QED
  BY <1>1, <1>2

\* and a row that is saved as a request means it to be.
LEMMA SaveFacts ==
  ASSUME TypeOK, NEW u \in Users, NEW e \in Row, NEW m, Exists(u) => m \in Row,
         SaveRow(u, e, m)
  PROVE  RowTypes'
BY DEF TypeOK, SaveRow, RowTypes

\* A step that leaves the devices alone and at which one request at most moves
LEMMA Quiet ==
  ASSUME IInv, RowTypes', known' \subseteq Users, marker' \in [Users -> Nat], now' \in Nat,
         UNCHANGED deviceVars, ReqTypes', AllReq'
  PROVE  IInv'
BY DEF IInv, TypeOK, DeviceInv, RowTypes, ReqTypes, deviceVars

\* A request begins with q, which is ready; nothing else changes but rows.
LEMMA Begins ==
  ASSUME IInv, NEW r \in Requests, NEW q \in Request, Begin(r, q), ReqInv(q),
         RowTypes', known' \subseteq Users, UNCHANGED <<now, deviceVars, marker>>
  PROVE  IInv'
<1>1. ReqTypes
  BY DEF IInv, TypeOK, ReqTypes
<1>2. /\ ReqTypes'
      /\ \A x \in Requests : x # r => req'[x] = req[x]
      /\ req'[r] = q
  BY <1>1, BeginFacts
<1>3. Advance
  BY DEF Advance, deviceVars
<1>4. AllReq'
  BY <1>1, <1>2, <1>3, ReqAdvance, OneMoves DEF IInv
<1>5. QED
  BY <1>2, <1>4, Quiet DEF IInv, TypeOK

\* A request ends; the devices are left alone.
LEMMA Finishes ==
  ASSUME IInv, NEW r \in Requests, Finish(r), RowTypes', UNCHANGED <<known, now, deviceVars>>,
         marker' \in [Users -> Nat]
  PROVE  IInv'
<1>1. ReqTypes
  BY DEF IInv, TypeOK, ReqTypes
<1>2. /\ ReqTypes'
      /\ \A x \in Requests : x # r => req'[x] = req[x]
      /\ req'[r] = None
  BY <1>1, FinishFacts
<1>3. Advance
  BY DEF Advance, deviceVars
<1>4. AllReq'
  BY <1>1, <1>2, <1>3, OneMoves DEF IInv
<1>5. QED
  BY <1>2, <1>4, Quiet DEF IInv, TypeOK

\* A request that is under way, as a value
LEMMA Current ==
  ASSUME IInv, NEW r \in Requests, NEW ops, NEW w, At(r, ops, w)
  PROVE  /\ ReqTypes
         /\ req[r] \in Request /\ req[r] # None
         /\ req[r].op \in ops /\ req[r].at = w
         /\ ReqInv(req[r])
BY DEF IInv, TypeOK, ReqTypes, AllReq, At

\* New accounts
LEMMA AccountStep ==
  ASSUME IInv, NEW u \in Users, Register(u) \/ AdminCreate(u)
  PROVE  IInv'
<1>1. PICK p \in Passwords : Create(u, p) /\ UNCHANGED req
  BY DEF Register, AdminCreate
<1>2. RowTypes' /\ known' \subseteq Users /\ UNCHANGED <<now, deviceVars, marker>>
  BY <1>1, CreateFacts DEF IInv
<1>3. AllReq' /\ ReqTypes'
  BY <1>1, <1>2, NoneMoves DEF IInv, TypeOK, ReqTypes, Advance, deviceVars
<1>4. QED
  BY <1>2, <1>3, Quiet DEF IInv, TypeOK

\* Requests that begin
LEMMA StartStep ==
  ASSUME IInv, NEW r \in Requests, Start(r)
  PROVE  IInv'
<1> USE DEF Logins, PasswordOps, EndingOps, SavingOps, Ops, Awaits
<1>0. TypeOK /\ RowTypes
  BY DEF IInv, TypeOK, RowTypes
<1>1. ASSUME NEW u \in Users, NEW op \in Ops, op \in {"login", "change", "reset", "profile", "admin"},
             NEW w \in {"compare", "save"}, NEW p \in Passwords \union {NoPassword},
             Exists(u), Begin(r, Loaded(op, w, u, p)),
             UNCHANGED <<now, known, row, deviceVars, marker>>
      PROVE  IInv'
  <2>1. /\ Loaded(op, w, u, p) \in Request
        /\ Loaded(op, w, u, p).snap \in Row
        /\ Loaded(op, w, u, p).op = op /\ Loaded(op, w, u, p).at = w
        /\ Loaded(op, w, u, p).seen = {}
    BY <1>0, <1>1, LoadedFacts
  <2>2. ReqInv(Loaded(op, w, u, p))
    BY <1>1, <2>1 DEF ReqInv, Ready, Ends, Serves
  <2>3. RowTypes' /\ known' \subseteq Users
    BY <1>0, <1>1 DEF RowTypes, TypeOK
  <2>4. PICK q \in Request : q = Loaded(op, w, u, p)
    BY <2>1
  <2>5. ReqInv(q) /\ Begin(r, q)
    BY <1>1, <2>2, <2>4
  <2>6. QED
    BY <1>1, <2>3, <2>5, Begins
<1>2. ASSUME NEW u \in Users, OauthCreate(r, u) \/ OauthFind(r, u)
      PROVE  IInv'
  <2>1. RowTypes' /\ known' \subseteq Users /\ UNCHANGED <<now, deviceVars, marker>>
    BY <1>0, <1>2, CreateFacts DEF OauthCreate, OauthFind, RowTypes, TypeOK
  <2>2. PICK q : q = OauthLogin(u)
    OBVIOUS
  <2>3. q \in Request /\ q.at = "create" /\ q.op = "oauth"
    BY <2>2 DEF OauthLogin, Request
  <2>4. ReqInv(q)
    BY <2>3 DEF ReqInv, Ready, Ends, Serves
  <2>5. Begin(r, q)
    BY <1>2, <2>2 DEF OauthCreate, OauthFind
  <2>6. QED
    BY <2>1, <2>3, <2>4, <2>5, Begins
<1>3. ASSUME NEW u \in Users, LoginLoad(r, u)
      PROVE  IInv'
  BY <1>1, <1>3 DEF LoginLoad, Active
<1>4. ASSUME NEW u \in Users, LoadProfile(r, u)
      PROVE  IInv'
  BY <1>1, <1>4 DEF LoadProfile, FindUserOrFail, Active
<1>5. ASSUME NEW u \in Users, AdminLoad(r, u)
      PROVE  IInv'
  BY <1>1, <1>5 DEF AdminLoad
<1>6. ASSUME NEW u \in Users, ChangeLoad(r, u)
      PROVE  IInv'
  BY <1>1, <1>6 DEF ChangeLoad, Active
<1>7. ASSUME NEW u \in Users, ResetLoad(r, u)
      PROVE  IInv'
  BY <1>1, <1>7 DEF ResetLoad, FindUserOrFail, Active
<1>8. ASSUME NEW u \in Users, EndingLoad(r, u)
      PROVE  IInv'
  <2>1. PICK op \in {"force", "delete"} :
          Begin(r, [op |-> op, at |-> "sessions", user |-> u, snap |-> None,
                    pw |-> NoPassword, dev |-> None, iat |-> 0, seen |-> LiveOf(u)])
    BY <1>8 DEF EndingLoad
  <2>2. PICK q : q = [op |-> op, at |-> "sessions", user |-> u, snap |-> None,
                      pw |-> NoPassword, dev |-> None, iat |-> 0, seen |-> LiveOf(u)]
    OBVIOUS
  <2>3. q \in Request
    BY <2>2 DEF Request, LiveOf
  <2>4. ReqInv(q)
    BY <2>2 DEF ReqInv, Ready, Ends, Serves, LiveOf
  <2>5. Begin(r, q)
    BY <2>1, <2>2
  <2>6. RowTypes' /\ known' \subseteq Users /\ UNCHANGED <<now, deviceVars, marker>>
    BY <1>0, <1>8 DEF EndingLoad, RowTypes, TypeOK
  <2>7. QED
    BY <2>3, <2>4, <2>5, <2>6, Begins
<1>9. ASSUME NEW d \in Devices, NEW op \in Ops, NEW w \in {"device", "user"}, NEW t \in Nat,
             op \in {"refresh", "validate"}, d \in hashed \/ iats[d] # {},
             w = "user" => state[d] = "live",
             Begin(r, Presented(op, w, d, t)),
             UNCHANGED <<now, known, row, deviceVars, marker>>
      PROVE  IInv'
  <2>1. state[d] # "free" /\ owner[d] \in Users
    BY <1>9 DEF IInv, DeviceInv
  <2>2. PICK q : q = Presented(op, w, d, t)
    OBVIOUS
  <2>3. /\ q \in Request /\ q.op = op /\ q.at = w /\ q.dev = d
        /\ q.seen = Revoked \intersect {d}
    BY <1>0, <2>1, <2>2, PresentedFacts
  <2>4. ReqInv(q)
    BY <1>9, <2>1, <2>3 DEF ReqInv, Ready, Ends, Serves, Revoked
  <2>5. RowTypes' /\ known' \subseteq Users
    BY <1>0, <1>9 DEF RowTypes, TypeOK
  <2>6. QED
    BY <1>9, <2>2, <2>3, <2>4, <2>5, Begins
<1>10. ASSUME NEW d \in Devices, RefreshFind(r, d)
       PROVE  IInv'
  BY <1>9, <1>10 DEF RefreshFind
<1>11. ASSUME NEW d \in Devices, NEW t \in Clock, ValidateMarker(r, d, t)
       PROVE  IInv'
  BY <1>9, <1>11 DEF ValidateMarker, Clock
<1>12. QED
  BY <1>2, <1>3, <1>4, <1>5, <1>6, <1>7, <1>8, <1>10, <1>11 DEF Start

\* A request goes on as q; nothing else changes but rows.
LEMMA Goes ==
  ASSUME IInv, NEW r \in Requests, ReqTypes', \A x \in Requests : x # r => req'[x] = req[x],
         NEW q \in Request, req'[r] = q, ReqInv(q),
         RowTypes', UNCHANGED <<now, known, deviceVars, marker>>
  PROVE  IInv'
<1>1. ReqTypes /\ Advance
  BY DEF IInv, TypeOK, ReqTypes, Advance, deviceVars
<1>2. AllReq'
  BY <1>1, ReqAdvance, OneMoves DEF IInv
<1>3. QED
  BY <1>2, Quiet DEF IInv, TypeOK

\* Devices are ended, and at most one request moves.
LEMMA Revokes ==
  ASSUME IInv, NEW S \in SUBSET Devices, \A d \in S : state[d] # "free", Revoke(S),
         RowTypes', UNCHANGED <<known, now, owner, hashed, iats, marker>>,
         ReqTypes', AllReq'
  PROVE  IInv'
<1>1. /\ state' \in [Devices -> {"free", "live", "revoked"}]
      /\ \A d \in Devices : state'[d] = IF d \in S THEN "revoked" ELSE state[d]
  BY RevokeFacts DEF IInv
<1>2. TypeOK'
  BY <1>1 DEF IInv, TypeOK, RowTypes, ReqTypes
<1>3. DeviceInv'
  BY <1>1 DEF IInv, DeviceInv
<1>4. QED
  BY <1>2, <1>3 DEF IInv

\* A token is signed for device d, which has a row or had one.
LEMMA Signs ==
  ASSUME IInv, NEW r \in Requests, NEW d \in Devices, state[d] # "free", Finish(r),
         iats' = [iats EXCEPT ![d] = @ \union {now}],
         hashed' \in {hashed, hashed \union {d}},
         UNCHANGED <<now, known, row, state, owner, marker>>
  PROVE  IInv'
<1>1. ReqTypes
  BY DEF IInv, TypeOK, ReqTypes
<1>2. /\ ReqTypes'
      /\ \A x \in Requests : x # r => req'[x] = req[x]
      /\ req'[r] = None
  BY <1>1, FinishFacts
<1>3. AllReq'
  BY <1>1, <1>2, OneMoves DEF IInv, Advance
<1>4. TypeOK'
  BY <1>2 DEF IInv, TypeOK, ReqTypes
<1>5. DeviceInv'
  BY DEF IInv, DeviceInv, TypeOK
<1>6. QED
  BY <1>3, <1>4, <1>5 DEF IInv

\* Requests that go on
LEMMA ContinueStep ==
  ASSUME IInv, NEW r \in Requests, Continue(r) \/ Abort(r)
  PROVE  IInv'
<1> USE DEF Logins, PasswordOps, EndingOps, SavingOps, Ops, Awaits
<1>0. TypeOK /\ RowTypes /\ ReqTypes
  BY DEF IInv, TypeOK, RowTypes, ReqTypes
<1>1. CASE LoginRefused(r)
  <2>1. req[r].user \in Users /\ req[r].snap \in Row
    BY <1>1, Current DEF LoginRefused, Request, ReqInv, Ready
  <2>2. req[r].snap.attempts \in Nat /\ req[r].snap.lockedUntil \in Nat
    BY <2>1 DEF Row
  <2>3. now + LockFor \in Nat /\ req[r].snap.attempts + 1 \in Nat
    BY <1>0, <2>2, AccountsAssumption DEF TypeOK
  <2>4. RowTypes'
    BY <1>0, <1>1, <2>1, <2>2, <2>3, UpdateFacts DEF LoginRefused, HandleFailedLogin
  <2>5. QED
    BY <1>0, <1>1, <2>4, Finishes DEF LoginRefused, TypeOK
<1>2. CASE LoginMatches(r)
  <2>1. req[r] \in Request /\ req[r] # None /\ req[r].op = "login"
    BY <1>2, Current DEF LoginMatches
  <2>2. RowTypes'
    BY <1>0, <1>2, <2>1, UpdateFacts DEF LoginMatches, Request
  <2>3. PICK q : q = req'[r]
    OBVIOUS
  <2>4. /\ ReqTypes'
        /\ \A x \in Requests : x # r => req'[x] = req[x]
        /\ q.at = "create" /\ q.op = "login"
    BY <1>0, <1>2, <2>1, <2>3, GoOnFacts DEF LoginMatches
  <2>5. q \in Request
    BY <1>2, <2>1, <2>3 DEF LoginMatches, GoOn, Request, ReqTypes, IInv, TypeOK
  <2>6. ReqInv(q)
    BY <2>4 DEF ReqInv, Ready, Ends, Serves
  <2>7. QED
    BY <1>2, <2>2, <2>3, <2>4, <2>5, <2>6, Goes DEF LoginMatches
<1>3. CASE CreateDevice(r)
  <2>1. req[r] \in Request /\ req[r].op \in Logins
    BY <1>3, Current DEF CreateDevice
  <2>2. PICK d \in Devices :
          /\ state[d] = "free"
          /\ state' = [state EXCEPT ![d] = "live"]
          /\ owner' = [owner EXCEPT ![d] = req[r].user]
          /\ req' = [req EXCEPT ![r].at = "hash", ![r].dev = d]
    BY <1>3 DEF CreateDevice
  <2>3. PICK q : q = req'[r]
    OBVIOUS
  <2>4. /\ q \in Request /\ q.at = "hash" /\ q.dev = d /\ q.op \in Logins
        /\ ReqTypes'
        /\ \A x \in Requests : x # r => req'[x] = req[x]
    BY <1>0, <2>1, <2>2, <2>3 DEF ReqTypes, Request
  <2>5. /\ state' \in [Devices -> {"free", "live", "revoked"}]
        /\ owner' \in [Devices -> Users \union {None}]
        /\ \A x \in Devices : state'[x] = IF x = d THEN "live" ELSE state[x]
        /\ \A x \in Devices : owner'[x] = IF x = d THEN req[r].user ELSE owner[x]
        /\ req[r].user \in Users
    BY <1>0, <2>1, <2>2 DEF TypeOK, Request
  <2>6. ReqInv(q)'
    BY <2>4, <2>5 DEF ReqInv, Ready, Ends, Serves
  <2>7. Advance
    BY <2>2, <2>5 DEF Advance
  <2>8. AllReq'
    BY <1>0, <2>3, <2>4, <2>6, <2>7, OneMoves DEF IInv
  <2>9. TypeOK'
    BY <1>0, <1>3, <2>4, <2>5 DEF CreateDevice, TypeOK, ReqTypes
  <2>10. DeviceInv'
    BY <1>3, <2>5 DEF CreateDevice, IInv, DeviceInv
  <2>11. QED
    BY <2>8, <2>9, <2>10 DEF IInv
<1>4. CASE HashToken(r)
  <2>1. req[r].dev \in Devices /\ state[req[r].dev] # "free"
    BY <1>4, Current DEF HashToken, ReqInv, Ready
  <2>2. PICK d \in Devices : d = req[r].dev
    BY <2>1
  <2>3. QED
    BY <1>4, <2>1, <2>2, Signs DEF HashToken
<1>5. CASE RefreshSign(r)
  <2>1. req[r].dev \in Devices /\ state[req[r].dev] # "free"
    BY <1>5, Current DEF RefreshSign, ReqInv, Ready
  <2>2. PICK d \in Devices : d = req[r].dev
    BY <2>1
  <2>3. QED
    BY <1>5, <2>1, <2>2, Signs DEF RefreshSign
<1>6. CASE ValidateDevice(r)
  <2>1. /\ req[r] \in Request /\ req[r] # None /\ req[r].op = "validate"
        /\ req[r].at = "device" /\ ReqInv(req[r])
    BY <1>6, Current DEF ValidateDevice
  <2>2. PICK q : q = req'[r]
    OBVIOUS
  <2>3. /\ ReqTypes'
        /\ \A x \in Requests : x # r => req'[x] = req[x]
        /\ q.at = "user" /\ q.op = "validate" /\ q.dev = req[r].dev
        /\ q.seen = req[r].seen
    BY <1>0, <1>6, <2>1, <2>2, GoToFacts DEF ValidateDevice
  <2>4. q \in Request
    BY <1>0, <1>6, <2>1, <2>2 DEF ValidateDevice, GoTo, Request, ReqTypes
  <2>5. ReqInv(q)
    BY <1>6, <2>1, <2>3 DEF ValidateDevice, ReqInv, Ready, Ends, Serves, Revoked
  <2>6. RowTypes'
    BY <1>0, <1>6 DEF ValidateDevice, RowTypes
  <2>7. QED
    BY <1>6, <2>2, <2>3, <2>4, <2>5, <2>6, Goes DEF ValidateDevice
<1>7. CASE ValidateUser(r) \/ Abort(r)
  BY <1>0, <1>7, Finishes DEF ValidateUser, Abort, RowTypes, TypeOK
<1>8. CASE SaveProfile(r)
  <2>1. req[r].user \in Users /\ req[r].snap \in Row
    BY <1>8, Current DEF SaveProfile, Request, ReqInv, Ready
  <2>2. Exists(req[r].user) => row[req[r].user] \in Row
    BY <1>0, <2>1 DEF TypeOK, Exists
  <2>3. RowTypes'
    BY <1>0, <1>8, <2>1, <2>2, SaveFacts DEF SaveProfile
  <2>4. QED
    BY <1>0, <1>8, <2>3, Finishes DEF SaveProfile, TypeOK
<1>9. CASE AdminSave(r)
  <2>1. req[r].user \in Users /\ req[r].snap \in Row
    BY <1>9, Current DEF AdminSave, Request, ReqInv, Ready
  <2>2. PICK s \in {"active", "disabled"} :
          SaveRow(req[r].user, [req[r].snap EXCEPT !.status = s],
                  [row[req[r].user] EXCEPT !.status = s])
    BY <1>9 DEF AdminSave
  <2>3. [req[r].snap EXCEPT !.status = s] \in Row
    BY <2>1 DEF Row
  <2>4. Exists(req[r].user) => [row[req[r].user] EXCEPT !.status = s] \in Row
    BY <1>0, <2>1 DEF TypeOK, Exists, Row
  <2>5. RowTypes'
    BY <1>0, <2>1, <2>2, <2>3, <2>4, SaveFacts
  <2>6. QED
    BY <1>0, <1>9, <2>5, Finishes DEF AdminSave, TypeOK
<1>10. CASE SavePassword(r)
  <2>1. /\ req[r] \in Request /\ req[r] # None /\ req[r].op \in PasswordOps
        /\ req[r].user \in Users /\ req[r].snap \in Row
        /\ req[r].pw \in Passwords \union {NoPassword}
    BY <1>10, Current DEF SavePassword, Request, ReqInv, Ready
  <2>2. PICK p \in Passwords \union {NoPassword} : p = req[r].pw
    BY <2>1
  <2>3. [req[r].snap EXCEPT !.pw = p] \in Row
    BY <2>1 DEF Row
  <2>4. Exists(req[r].user) => [row[req[r].user] EXCEPT !.pw = p] \in Row
    BY <1>0, <2>1 DEF TypeOK, Exists, Row
  <2>5. SaveRow(req[r].user, [req[r].snap EXCEPT !.pw = p],
                [row[req[r].user] EXCEPT !.pw = p])
    BY <1>10, <2>2 DEF SavePassword
  <2>6. RowTypes'
    BY <1>0, <2>1, <2>3, <2>4, <2>5, SaveFacts
  <2>7. GoOn(r, "sessions", LiveOf(req[r].user)) /\ LiveOf(req[r].user) \in SUBSET Devices
    BY <1>10 DEF SavePassword, LiveOf
  <2>8. PICK q : q = req'[r]
    OBVIOUS
  <2>9. /\ ReqTypes'
        /\ \A x \in Requests : x # r => req'[x] = req[x]
        /\ q.at = "sessions" /\ q.seen = LiveOf(req[r].user) /\ q.user = req[r].user
    BY <1>0, <2>1, <2>7, <2>8, GoOnFacts
  <2>10. q \in Request
    BY <1>0, <2>1, <2>7, <2>8 DEF GoOn, Request, ReqTypes
  <2>11. ReqInv(q)
    BY <2>9 DEF ReqInv, Ready, Ends, Serves, LiveOf
  <2>12. QED
    BY <1>10, <2>6, <2>8, <2>9, <2>10, <2>11, Goes DEF SavePassword
<1>11. CASE EndSessions(r)
  <2>1. /\ req[r] \in Request /\ req[r] # None /\ req[r].op \in EndingOps
        /\ req[r].at = "sessions" /\ ReqInv(req[r])
    BY <1>11, Current DEF EndSessions
  <2>2. PICK S \in SUBSET Devices : S = LiveOf(req[r].user)
    BY DEF LiveOf
  <2>3. \A d \in S : state[d] # "free"
    BY <2>2 DEF LiveOf
  <2>4. /\ Advance
        /\ \A d \in Devices : state'[d] = IF d \in S THEN "revoked" ELSE state[d]
    BY <1>0, <1>11, <2>2, <2>3, RevokeFacts DEF EndSessions
  <2>5. PICK w \in {"row", "marker"} : GoTo(r, w)
    BY <1>11 DEF EndSessions
  <2>6. PICK q : q = req'[r]
    OBVIOUS
  <2>7. /\ ReqTypes'
        /\ \A x \in Requests : x # r => req'[x] = req[x]
        /\ q.at = w /\ q.op = req[r].op /\ q.user = req[r].user
        /\ q.seen = req[r].seen /\ req[r].seen \subseteq Devices
    BY <1>0, <2>1, <2>5, <2>6, GoToFacts DEF Request
  <2>8. ASSUME NEW d \in q.seen
        PROVE  state'[d] = "revoked" /\ owner'[d] = q.user
    <3>1. d \in Devices /\ state[d] # "free" /\ owner[d] = q.user
      BY <2>1, <2>7 DEF ReqInv, Ends
    <3>2. state[d] \in {"live", "revoked"}
      BY <1>0, <3>1 DEF TypeOK
    <3>3. state[d] = "live" => d \in S
      BY <2>2, <2>7, <3>1 DEF LiveOf
    <3>4. QED
      BY <1>11, <2>4, <3>1, <3>2, <3>3 DEF EndSessions
  <2>9. ReqInv(q)'
    BY <2>7, <2>8 DEF ReqInv, Ready, Ends, Serves
  <2>10. AllReq'
    BY <1>0, <2>4, <2>6, <2>7, <2>9, OneMoves DEF IInv
  <2>11. QED
    BY <1>0, <1>11, <2>2, <2>3, <2>7, <2>10, Revokes DEF EndSessions, RowTypes
<1>12. CASE SetMarker(r)
  <2>1. marker' \in [Users -> Nat]
    BY <1>0, <1>12 DEF SetMarker, TypeOK
  <2>2. QED
    BY <1>0, <1>12, <2>1, Finishes DEF SetMarker, RowTypes
<1>13. CASE DeleteUser(r)
  <2>1. PICK S \in SUBSET Devices : S = LiveOf(req[r].user)
    BY DEF LiveOf
  <2>2. \A d \in S : state[d] # "free"
    BY <2>1 DEF LiveOf
  <2>3. Advance
    BY <1>0, <1>13, <2>1, <2>2, RevokeFacts DEF DeleteUser
  <2>4. /\ ReqTypes'
        /\ \A x \in Requests : x # r => req'[x] = req[x]
        /\ req'[r] = None
    BY <1>0, <1>13, FinishFacts DEF DeleteUser
  <2>5. AllReq'
    BY <1>0, <2>3, <2>4, OneMoves DEF IInv
  <2>6. RowTypes'
    BY <1>0, <1>13 DEF DeleteUser, RowTypes
  <2>7. QED
    BY <1>13, <2>1, <2>2, <2>4, <2>5, <2>6, Revokes DEF DeleteUser
<1>14. QED
  BY <1>1, <1>2, <1>3, <1>4, <1>5, <1>6, <1>7, <1>8, <1>9, <1>10, <1>11, <1>12, <1>13
     DEF Continue

\* The rest: logouts, the clock and nothing at all
LEMMA InvStep == IInv /\ [Next]_vars => IInv'
<1> SUFFICES ASSUME IInv, [Next]_vars
             PROVE  IInv'
  OBVIOUS
<1>0. TypeOK /\ RowTypes /\ ReqTypes
  BY DEF IInv, TypeOK, RowTypes, ReqTypes
<1>1. ASSUME NEW S \in SUBSET Devices, \A d \in S : state[d] # "free", Revoke(S),
             UNCHANGED <<now, known, row, owner, hashed, iats, marker, req>>
      PROVE  IInv'
  <2>1. Advance
    BY <1>0, <1>1, RevokeFacts
  <2>2. AllReq'
    BY <1>0, <1>1, <2>1, NoneMoves DEF IInv
  <2>3. QED
    BY <1>0, <1>1, <2>2, Revokes DEF RowTypes, ReqTypes
<1>2. ASSUME NEW d \in Devices, Logout(d)
      PROVE  IInv'
  BY <1>1, <1>2 DEF Logout
<1>3. ASSUME NEW u \in Users, LogoutAll(u)
      PROVE  IInv'
  <2>1. PICK S \in SUBSET Devices : S = LiveOf(u)
    BY DEF LiveOf
  <2>2. QED
    BY <1>1, <1>3, <2>1 DEF LogoutAll, LiveOf
<1>4. CASE Tick \/ UNCHANGED vars
  <2>1. now' \in Nat /\ UNCHANGED <<known, row, deviceVars, marker, req>>
    BY <1>0, <1>4 DEF Tick, vars, TypeOK
  <2>2. AllReq'
    BY <1>0, <2>1, NoneMoves DEF IInv, Advance, deviceVars
  <2>3. QED
    BY <1>0, <2>1, <2>2, Quiet DEF RowTypes, ReqTypes, TypeOK
<1>5. QED
  BY <1>2, <1>3, <1>4, AccountStep, StartStep, ContinueStep DEF Next

\* The invariant holds from the start.
LEMMA InvHolds == Spec => []IInv
<1>1. Init => IInv
  <2> SUFFICES ASSUME Init
               PROVE  IInv
    OBVIOUS
  <2>1. /\ row \in [Users -> Row \union {None}]
        /\ state \in [Devices -> {"free", "live", "revoked"}]
        /\ owner \in [Devices -> Users \union {None}]
        /\ iats \in [Devices -> SUBSET Nat]
        /\ marker \in [Users -> Nat]
        /\ req \in [Requests -> Request \union {None}]
    BY DEF Init
  <2>2. TypeOK
    BY <2>1 DEF Init, TypeOK
  <2>3. DeviceInv /\ AllReq
    BY DEF Init, DeviceInv, AllReq
  <2>4. QED
    BY <2>2, <2>3 DEF IInv
<1>2. QED
  BY <1>1, InvStep, PTL DEF Spec

-----------------------------------------------------------------------------
\* The state of accounts and sessions stays well formed.
THEOREM TypeCorrect == Spec => []TypeOK
<1>1. IInv => TypeOK
  BY DEF IInv
<1>2. QED
  BY <1>1, InvHolds, PTL

\* A device row that was deleted never comes back: only a login makes one, of an id
\* that never had one.
THEOREM RevokedStays == Spec => RevokedIsFinal
<1>1. TypeOK /\ [Next]_vars => (\A d \in Devices : state[d] = "revoked" => state'[d] = "revoked")
  BY Advancing DEF Advance
<1>2. QED
  BY <1>1, TypeCorrect, PTL DEF Spec, RevokedIsFinal

\* When an operation that ends the sessions of a user is past doing so, no session
\* is open that was when the new hash was saved or the operation began: each has
\* had a row of its own since, of the same user, which the deletion found.
THEOREM SessionsEnd == Spec => []OldSessionsEnd
<1>1. IInv => OldSessionsEnd
  <2> SUFFICES ASSUME IInv, NEW r \in Requests,
                      At(r, EndingOps, "marker") \/ At(r, EndingOps, "row"),
                      NEW d \in req[r].seen
               PROVE  state[d] # "live"
    BY DEF OldSessionsEnd
  <2>1. /\ req[r].op \in EndingOps /\ req[r].at \in {"marker", "row"}
        /\ ReqInv(req[r])
    BY DEF IInv, AllReq, At
  <2>2. state[d] = "revoked"
    BY <2>1 DEF ReqInv, Ends
  <2>3. QED
    BY <2>2
<1>2. QED
  BY <1>1, InvHolds, PTL

\* A session that had been ended when a request arrived serves it neither an answer
\* nor a token, whatever was loaded, deleted or inserted in between: the token's
\* device is looked up after the token, and an id never names a second device.
THEOREM EndedServeNoOne == Spec => EndedSessionsServeNoOne
<1>1. IInv /\ [Next]_vars =>
        (\A r \in Requests :
           (ValidateUser(r) \/ RefreshSign(r)) => req[r].dev \notin req[r].seen)
  <2> SUFFICES ASSUME IInv, NEW r \in Requests, ValidateUser(r) \/ RefreshSign(r)
               PROVE  req[r].dev \notin req[r].seen
    OBVIOUS
  <2>1. req[r].at = "user" /\ ReqInv(req[r])
    BY DEF ValidateUser, RefreshSign, At, IInv, AllReq
  <2>2. QED
    BY <2>1 DEF ReqInv, Serves
<1>2. QED
  BY <1>1, InvHolds, PTL DEF Spec, EndedSessionsServeNoOne
=============================================================================
