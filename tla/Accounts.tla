------------------------------ MODULE Accounts ------------------------------
(***************************************************************************)
(* Accounts and login sessions: AuthService, JwtStrategy, UsersService,    *)
(* OauthService and the user operations of AdminService, over the tables   *)
(* users and devices and the Redis key force_logout:{user}.  Requests      *)
(* interleave at every await.                                              *)
(*                                                                         *)
(* Most operations load a row of users, await something and save the whole *)
(* entity: TypeORM then writes back every column that differs from the     *)
(* row, and inserts the row again if it is gone.  Of the columns the model *)
(* keeps the password hash, the status and the two of the login lock; an   *)
(* operation on other columns saves these as it loaded them.  Names, mail  *)
(* addresses and phone numbers, with their unique indexes, are left out.   *)
(* A verification code or an administrator's confirmation that is refused  *)
(* ends a request like any other failed await (Abort; the codes and the    *)
(* counters are in module Verification).                                   *)
(*                                                                         *)
(* The clock counts seconds, the unit in which the marker and iat are      *)
(* compared, and spans less than the life of an access token (2 h), so     *)
(* that no token, marker (1 or 30 days) or session (30 days) expires.      *)
(***************************************************************************)
EXTENDS Integers

CONSTANTS
  Users,        \* user ids; bounds the accounts created
  Devices,      \* device ids; bounds the logins
  Requests,     \* requests the server handles at a time
  Passwords,
  NoPassword,   \* password_hash '' of an account made by an OAuth login
  None,         \* no row, no device, no request
  MaxAttempts,  \* LOGIN_LOCK_ATTEMPTS
  LockFor,      \* LOGIN_LOCK_MINUTES
  MaxNow        \* bound on the clock

ASSUME AccountsAssumption ==
  /\ None \notin Users \union Devices \union Nat
  /\ NoPassword \notin Passwords
  /\ MaxAttempts \in Nat \ {0}
  /\ LockFor \in Nat
  /\ MaxNow \in Nat

VARIABLES
  now,
  known,    \* the ids ever given to a user
  row,      \* users: row[u], None when there is none
  state,    \* devices: state[d] is "free" (no row yet), "live" or "revoked"
  owner,    \* user_id of device d
  hashed,   \* the devices whose refresh_token_hash has been filled in
  iats,     \* iats[d]: the seconds at which access tokens of d were signed
  marker,   \* force_logout:{user}, in seconds; 0, which rejects no token, if unset
  req       \* the request each slot handles

deviceVars == <<state, owner, hashed, iats>>
vars == <<now, known, row, deviceVars, marker, req>>

Clock == 0 .. MaxNow

Row == [pw : Passwords \union {NoPassword},
        status : {"active", "disabled"},
        attempts : Nat,
        lockedUntil : Nat]

Logins == {"login", "oauth"}
PasswordOps == {"change", "reset"}
EndingOps == PasswordOps \union {"force", "delete"}
SavingOps == PasswordOps \union {"profile", "admin"}
Ops == Logins \union EndingOps \union SavingOps \union {"refresh", "validate"}

Awaits == {"compare", "create", "hash", "save", "sessions", "marker", "row",
           "device", "user"}

\* A request: its operation, the await it is at, its user, the row it loaded,
\* the device and the iat of the token it presents, and the devices it saw:
\* those whose sessions it has to end, or that of the token it presents if the
\* device was revoked already.
Request == [op : Ops, at : Awaits, user : Users, snap : Row \union {None},
            pw : Passwords \union {NoPassword}, dev : Devices \union {None},
            iat : Nat, seen : SUBSET Devices]

TypeOK ==
  /\ now \in Nat
  /\ known \subseteq Users
  /\ row \in [Users -> Row \union {None}]
  /\ state \in [Devices -> {"free", "live", "revoked"}]
  /\ owner \in [Devices -> Users \union {None}]
  /\ hashed \subseteq Devices
  /\ iats \in [Devices -> SUBSET Nat]
  /\ marker \in [Users -> Nat]
  /\ req \in [Requests -> Request \union {None}]

Init ==
  /\ now = 0
  /\ known = {}
  /\ row = [u \in Users |-> None]
  /\ state = [d \in Devices |-> "free"]
  /\ owner = [d \in Devices |-> None]
  /\ hashed = {}
  /\ iats = [d \in Devices |-> {}]
  /\ marker = [u \in Users |-> 0]
  /\ req = [r \in Requests |-> None]

-----------------------------------------------------------------------------
\* Helpers

Exists(u) == row[u] # None
Active(u) == Exists(u) /\ row[u].status = "active"
LiveOf(u) == {d \in Devices : state[d] = "live" /\ owner[d] = u}
Revoked == {d \in Devices : state[d] = "revoked"}

At(r, ops, await) == req[r] # None /\ req[r].op \in ops /\ req[r].at = await

Begin(r, q) == req[r] = None /\ req' = [req EXCEPT ![r] = q]
GoTo(r, await) == req' = [req EXCEPT ![r].at = await]
Finish(r) == req' = [req EXCEPT ![r] = None]

\* The rest of the request has no use for the row it loaded.
GoOn(r, await, seen) ==
  req' = [req EXCEPT ![r] = [@ EXCEPT !.at = await, !.snap = None,
                                      !.pw = NoPassword, !.seen = seen]]

\* A request that has loaded the row of u and awaits what `await` names.
Loaded(op, await, u, p) ==
  [op |-> op, at |-> await, user |-> u, snap |-> row[u], pw |-> p,
   dev |-> None, iat |-> 0, seen |-> {}]

\* A request that presents a token of device d signed in second t.
Presented(op, await, d, t) ==
  [op |-> op, at |-> await, user |-> owner[d], snap |-> None,
   pw |-> NoPassword, dev |-> d, iat |-> t, seen |-> Revoked \intersect {d}]

NewRow(p) == [pw |-> p, status |-> "active", attempts |-> 0, lockedUntil |-> 0]

\* userRepo.update: nothing happens when the row is gone.
UpdateRow(u, attempts, until) ==
  row' = IF Exists(u)
         THEN [row EXCEPT ![u].attempts = attempts, ![u].lockedUntil = until]
         ELSE row

\* userRepo.save of an entity loaded earlier reads the row again and writes the
\* columns in which the entity differs, or inserts a row that is gone; a change
\* between that read and the write is not overwritten.  `merged` is the row with
\* nothing but the columns the operation means to change.
SaveRow(u, entity, merged) ==
  row' \in {[row EXCEPT ![u] = entity],
           [row EXCEPT ![u] = IF Exists(u) THEN merged ELSE None]}

Revoke(ds) ==
  state' = [d \in Devices |-> IF d \in ds THEN "revoked" ELSE state[d]]

-----------------------------------------------------------------------------
\* New accounts.  The dup checks and the unique indexes are on columns that
\* are left out; the row of subscriptions is in module Billing.

Create(u, p) ==
  /\ u \notin known
  /\ known' = known \union {u}
  /\ row' = [row EXCEPT ![u] = NewRow(p)]
  /\ UNCHANGED <<now, deviceVars, marker>>

\* AuthService.register
Register(u) == \E p \in Passwords : Create(u, p) /\ UNCHANGED req

\* AdminService.createUser
AdminCreate(u) == \E p \in Passwords : Create(u, p) /\ UNCHANGED req

OauthLogin(u) ==
  [op |-> "oauth", at |-> "create", user |-> u, snap |-> None,
   pw |-> NoPassword, dev |-> None, iat |-> 0, seen |-> {}]

\* OauthService.findOrCreateUser: a new account without a password, or the
\* one that is linked; generateTokens follows.
OauthCreate(r, u) ==
  /\ Create(u, NoPassword)
  /\ Begin(r, OauthLogin(u))

OauthFind(r, u) ==
  /\ Active(u)
  /\ Begin(r, OauthLogin(u))
  /\ UNCHANGED <<now, known, row, deviceVars, marker>>

-----------------------------------------------------------------------------
\* Login

\* The checks before the comparison are made on the row that was loaded.
LoginLoad(r, u) ==
  /\ Active(u)
  /\ row[u].lockedUntil <= now
  /\ \E p \in Passwords : Begin(r, Loaded("login", "compare", u, p))
  /\ UNCHANGED <<now, known, row, deviceVars, marker>>

\* handleFailedLogin counts from the row that was loaded.
HandleFailedLogin(r) ==
  LET u == req[r].user
      attempts == req[r].snap.attempts + 1
  IN  IF attempts >= MaxAttempts
      THEN UpdateRow(u, 0, now + LockFor)
      ELSE UpdateRow(u, attempts, req[r].snap.lockedUntil)

LoginRefused(r) ==
  /\ At(r, {"login"}, "compare")
  /\ req[r].pw # req[r].snap.pw
  /\ HandleFailedLogin(r)
  /\ Finish(r)
  /\ UNCHANGED <<now, known, deviceVars, marker>>

LoginMatches(r) ==
  /\ At(r, {"login"}, "compare")
  /\ req[r].pw = req[r].snap.pw
  /\ UpdateRow(req[r].user, 0, 0)
  /\ GoOn(r, "create", {})
  /\ UNCHANGED <<now, known, deviceVars, marker>>

\* issueTokens and generateTokens: the foreign key refuses a device whose user
\* is gone.
CreateDevice(r) ==
  /\ At(r, Logins, "create")
  /\ Exists(req[r].user)
  /\ \E d \in Devices :
       /\ state[d] = "free"
       /\ state' = [state EXCEPT ![d] = "live"]
       /\ owner' = [owner EXCEPT ![d] = req[r].user]
       /\ req' = [req EXCEPT ![r].at = "hash", ![r].dev = d]
  /\ UNCHANGED <<now, known, row, hashed, iats, marker>>

\* deviceRepo.update fills in the hash (of a row that is still there), and the
\* access token is signed in any case.
HashToken(r) ==
  /\ At(r, Logins, "hash")
  /\ hashed' = hashed \union {req[r].dev}
  /\ iats' = [iats EXCEPT ![req[r].dev] = @ \union {now}]
  /\ Finish(r)
  /\ UNCHANGED <<now, known, row, state, owner, marker>>

-----------------------------------------------------------------------------
\* Tokens

\* AuthService.refresh: the device is looked up by the token's id; a token
\* that was never handed out cannot be presented.
RefreshFind(r, d) ==
  /\ d \in hashed
  /\ state[d] = "live"
  /\ Begin(r, Presented("refresh", "user", d, 0))
  /\ UNCHANGED <<now, known, row, deviceVars, marker>>

\* Variant: the device is saved as it was loaded, and so inserted again.
RefreshSaves(r) ==
  /\ At(r, {"refresh"}, "user")
  /\ Active(req[r].user)
  /\ iats' = [iats EXCEPT ![req[r].dev] = @ \union {now}]
  /\ state' = [state EXCEPT ![req[r].dev] = "live"]
  /\ Finish(r)
  /\ UNCHANGED <<now, known, row, owner, hashed, marker>>

\* The user is looked up, the token signed and last_active_at updated, of a
\* device that may have been revoked meanwhile.
RefreshSign(r) ==
  /\ At(r, {"refresh"}, "user")
  /\ Active(req[r].user)
  /\ iats' = [iats EXCEPT ![req[r].dev] = @ \union {now}]
  /\ Finish(r)
  /\ UNCHANGED <<now, known, row, state, owner, hashed, marker>>

\* JwtStrategy.validate, first await: the token was signed in the second of the
\* last forced logout or later.
ValidateMarker(r, d, t) ==
  /\ t \in iats[d]
  /\ t >= marker[owner[d]]
  /\ Begin(r, Presented("validate", "device", d, t))
  /\ UNCHANGED <<now, known, row, deviceVars, marker>>

\* Variant: an access token is good for as long as the marker lets it pass.
ValidateNoDevice(r) ==
  /\ At(r, {"validate"}, "device")
  /\ GoTo(r, "user")
  /\ UNCHANGED <<now, known, row, deviceVars, marker>>

ValidateDevice(r) ==
  /\ At(r, {"validate"}, "device")
  /\ state[req[r].dev] = "live"
  /\ GoTo(r, "user")
  /\ UNCHANGED <<now, known, row, deviceVars, marker>>

ValidateUser(r) ==
  /\ At(r, {"validate"}, "user")
  /\ Active(req[r].user)
  /\ Finish(r)
  /\ UNCHANGED <<now, known, row, deviceVars, marker>>

\* AuthService.logout and UsersService.revokeDevice
Logout(d) ==
  /\ state[d] = "live"
  /\ Revoke({d})
  /\ UNCHANGED <<now, known, row, owner, hashed, iats, marker, req>>

\* AuthService.logoutAll: no marker is set.
LogoutAll(u) ==
  /\ LiveOf(u) # {}
  /\ Revoke(LiveOf(u))
  /\ UNCHANGED <<now, known, row, owner, hashed, iats, marker, req>>

-----------------------------------------------------------------------------
\* Operations that load a row and save it

\* findUserOrFail
FindUserOrFail(r, op, await, u, p) ==
  /\ Active(u)
  /\ Begin(r, Loaded(op, await, u, p))
  /\ UNCHANGED <<now, known, row, deviceVars, marker>>

\* updateProfile, bindEmail, bindPhone, setPrivateSpacePassword: the checks,
\* codes and comparisons between the load and the save change no column here.
LoadProfile(r, u) == FindUserOrFail(r, "profile", "save", u, NoPassword)

SaveProfile(r) ==
  /\ At(r, {"profile"}, "save")
  /\ LET u == req[r].user IN SaveRow(u, req[r].snap, row[u])
  /\ Finish(r)
  /\ UNCHANGED <<now, known, deviceVars, marker>>

\* AdminService.updateUser: role, quota and nickname are other columns.
AdminLoad(r, u) ==
  /\ Exists(u)
  /\ Begin(r, Loaded("admin", "save", u, NoPassword))
  /\ UNCHANGED <<now, known, row, deviceVars, marker>>

AdminSave(r) ==
  /\ At(r, {"admin"}, "save")
  /\ \E s \in {"active", "disabled"} :
       LET u == req[r].user
       IN  SaveRow(u, [req[r].snap EXCEPT !.status = s], [row[u] EXCEPT !.status = s])
  /\ Finish(r)
  /\ UNCHANGED <<now, known, deviceVars, marker>>

-----------------------------------------------------------------------------
\* Operations that end the sessions of a user

\* changePassword: the old password is compared with the loaded hash, and a
\* code is verified if an address is bound.
ChangeLoad(r, u) ==
  /\ Active(u)
  /\ row[u].pw \in Passwords
  /\ \E p \in Passwords \ {row[u].pw} : Begin(r, Loaded("change", "save", u, p))
  /\ UNCHANGED <<now, known, row, deviceVars, marker>>

\* resetPassword: the code is verified before the row is loaded.
ResetLoad(r, u) ==
  \E p \in Passwords : FindUserOrFail(r, "reset", "save", u, p)

SavePassword(r) ==
  /\ At(r, PasswordOps, "save")
  /\ LET u == req[r].user
         p == req[r].pw
     IN  /\ SaveRow(u, [req[r].snap EXCEPT !.pw = p], [row[u] EXCEPT !.pw = p])
         /\ GoOn(r, "sessions", LiveOf(u))
  /\ UNCHANGED <<now, known, deviceVars, marker>>

\* AdminService.forceLogout and deleteUser, after the confirmation.
EndingLoad(r, u) ==
  /\ Exists(u)
  /\ \E op \in {"force", "delete"} :
       Begin(r, [op |-> op, at |-> "sessions", user |-> u, snap |-> None,
                 pw |-> NoPassword, dev |-> None, iat |-> 0, seen |-> LiveOf(u)])
  /\ UNCHANGED <<now, known, row, deviceVars, marker>>

\* Variant: only sessions that have their refresh token are ended.
EndHashedSessions(r) ==
  /\ At(r, EndingOps, "sessions")
  /\ Revoke(LiveOf(req[r].user) \intersect hashed)
  /\ GoTo(r, IF req[r].op = "delete" THEN "row" ELSE "marker")
  /\ UNCHANGED <<now, known, row, owner, hashed, iats, marker>>

\* deviceRepo.delete({ userId })
EndSessions(r) ==
  /\ At(r, EndingOps, "sessions")
  /\ Revoke(LiveOf(req[r].user))
  /\ GoTo(r, IF req[r].op = "delete" THEN "row" ELSE "marker")
  /\ UNCHANGED <<now, known, row, owner, hashed, iats, marker>>

\* redis.set(force_logout:..., Date.now()); if it fails, the request ends.
SetMarker(r) ==
  /\ At(r, EndingOps, "marker")
  /\ marker' = [marker EXCEPT ![req[r].user] = now]
  /\ Finish(r)
  /\ UNCHANGED <<now, known, row, deviceVars>>

\* userRepo.delete: the devices of the row go with it (ON DELETE CASCADE).
DeleteUser(r) ==
  /\ At(r, {"delete"}, "row")
  /\ row' = [row EXCEPT ![req[r].user] = None]
  /\ Revoke(LiveOf(req[r].user))
  /\ Finish(r)
  /\ UNCHANGED <<now, known, owner, hashed, iats, marker>>

-----------------------------------------------------------------------------

\* Any await of a request may throw, and any check refuse it.
Abort(r) ==
  /\ req[r] # None
  /\ Finish(r)
  /\ UNCHANGED <<now, known, row, deviceVars, marker>>

Tick ==
  /\ now < MaxNow
  /\ now' = now + 1
  /\ UNCHANGED <<known, row, deviceVars, marker, req>>

Start(r) ==
  \/ \E u \in Users :
       \/ OauthCreate(r, u)
       \/ OauthFind(r, u)
       \/ LoginLoad(r, u)
       \/ LoadProfile(r, u)
       \/ AdminLoad(r, u)
       \/ ChangeLoad(r, u)
       \/ ResetLoad(r, u)
       \/ EndingLoad(r, u)
  \/ \E d \in Devices :
       \/ RefreshFind(r, d)
       \/ \E t \in Clock : ValidateMarker(r, d, t)

Continue(r) ==
  \/ LoginRefused(r)
  \/ LoginMatches(r)
  \/ CreateDevice(r)
  \/ HashToken(r)
  \/ RefreshSign(r)
  \/ ValidateDevice(r)
  \/ ValidateUser(r)
  \/ SaveProfile(r)
  \/ AdminSave(r)
  \/ SavePassword(r)
  \/ EndSessions(r)
  \/ SetMarker(r)
  \/ DeleteUser(r)

Next ==
  \/ Tick
  \/ \E u \in Users : Register(u) \/ AdminCreate(u) \/ LogoutAll(u)
  \/ \E d \in Devices : Logout(d)
  \/ \E r \in Requests : Start(r) \/ Continue(r) \/ Abort(r)

Spec == Init /\ [][Next]_vars

-----------------------------------------------------------------------------
\* Properties

\* A device row that was deleted, by a logout, a revocation, a change of the
\* password, a forced logout or with its user, never comes back: no request
\* that loaded it before writes it again.
RevokedIsFinal ==
  [][\A d \in Devices : state[d] = "revoked" => state'[d] = "revoked"]_vars

\* A session that had been ended when a request arrived serves that request
\* neither an answer nor a new access token, whatever was loaded, deleted or
\* inserted in between.
EndedSessionsServeNoOne ==
  [][\A r \in Requests :
       (ValidateUser(r) \/ RefreshSign(r)) => req[r].dev \notin req[r].seen]_vars

\* Once a change or reset of the password, a forced logout or the deletion of
\* the user has ended the sessions, none of those is left that were open when
\* the new hash was saved, or when the forced logout or the deletion began.
OldSessionsEnd ==
  \A r \in Requests :
    At(r, EndingOps, "marker") \/ At(r, EndingOps, "row")
      => \A d \in req[r].seen : state[d] # "live"
=============================================================================
