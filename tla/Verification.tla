---------------------------- MODULE Verification ----------------------------
(***************************************************************************)
(* The server's guarded secrets: the verification codes of                 *)
(* VerificationService, each good for one use, and the passwords of the    *)
(* private space, of a locked file and of an administrator's confirmation. *)
(* All count wrong guesses in Redis and lock when there are too many.  One *)
(* target is modelled, with the requests that try it side by side.         *)
(*                                                                         *)
(* Every await is a step, and a request may end at any of them: an answer  *)
(* that is an error, or a crash.  Redis keys and codes expire when they    *)
(* may, in any order.                                                      *)
(***************************************************************************)
EXTENDS Integers, FiniteSets

CONSTANTS
  Codes,       \* the records of codes sent; bounds them
  Requests,    \* requests handled at a time
  MaxAttempts, \* maxAttempts, more than 1
  MaxFails,    \* bound on the counter when it cannot be cleared, above MaxAttempts
  None         \* no record, no request

VARIABLES
  guard,  \* what is guarded: "code", "private", "file" or "confirm"
  faulty, \* requests stop half-way, and Redis refuses writes
  rate,   \* vc:rate is set
  sent,   \* the records inserted
  dead,   \* those past their expiresAt
  used,   \* those with a usedAt
  fails,  \* the failure counter, 0 when there is no key
  ttl,    \* whether the counter will expire
  locked, \* the lock is set
  req,    \* the requests
  won,    \* won[c]: how many requests were told that code c is right
  wrong   \* wrong guesses since the counter or the lock last went away, if not faulty

world == <<guard, faulty>>
keys == <<fails, ttl, locked>>
records == <<sent, dead, used>>
ghosts == <<won, wrong>>
vars == <<world, rate, records, keys, req, ghosts>>

Guards == {"code", "private", "file", "confirm"}
Awaits == {"rate", "insert", "lock", "find", "mark", "clear", "count", "expire", "lockout",
           "reset"}

TypeOK ==
  /\ guard \in Guards
  /\ faulty \in BOOLEAN
  /\ rate \in BOOLEAN
  /\ sent \subseteq Codes
  /\ dead \subseteq sent
  /\ used \subseteq sent
  /\ fails \in Nat
  /\ ttl \in BOOLEAN
  /\ locked \in BOOLEAN
  /\ req \in [Requests -> [at : Awaits, code : Codes \union {None}] \union {None}]
  /\ won \in [Codes -> Nat]
  /\ wrong \in Nat

Init ==
  /\ guard \in Guards
  /\ faulty \in BOOLEAN
  /\ rate = FALSE
  /\ sent = {}
  /\ dead = {}
  /\ used = {}
  /\ fails = 0
  /\ ttl = FALSE
  /\ locked = FALSE
  /\ req = [r \in Requests |-> None]
  /\ won = [c \in Codes |-> 0]
  /\ wrong = 0

At(r, await) == req[r] # None /\ req[r].at = await
GoTo(r, await) == req' = [req EXCEPT ![r].at = await]
End(r) == req' = [req EXCEPT ![r] = None]

-----------------------------------------------------------------------------
\* sendCode

BeginSend(r) ==
  /\ guard = "code"
  /\ req[r] = None
  /\ ~rate
  /\ req' = [req EXCEPT ![r] = [at |-> "rate", code |-> None]]
  /\ UNCHANGED <<world, rate, records, keys, ghosts>>

\* The limit is set whatever it is by now.
Reserve(r) ==
  /\ At(r, "rate")
  /\ rate' = TRUE
  /\ GoTo(r, "insert")
  /\ UNCHANGED <<world, records, keys, ghosts>>

\* The code is saved, and then mailed, which may fail.
InsertCode(r) ==
  /\ At(r, "insert")
  /\ \E c \in Codes \ sent : sent' = sent \union {c}
  /\ End(r)
  /\ UNCHANGED <<world, rate, dead, used, keys, ghosts>>

-----------------------------------------------------------------------------
\* A guess

\* It names a code, or None: a wrong code, or a password.  A lock that is set ends
\* it here.
Begin(r, c) ==
  /\ req[r] = None
  /\ ~locked
  /\ c # None => guard = "code"
  /\ req' = [req EXCEPT ![r] = [at |-> "find", code |-> c]]
  /\ UNCHANGED <<world, rate, records, keys, ghosts>>

Missed(r) ==
  /\ GoTo(r, "count")
  /\ wrong' = IF faulty THEN wrong ELSE wrong + 1
  /\ UNCHANGED <<world, rate, records, keys, won>>

\* Looking for the record: usedAt: null in a TypeORM condition is no condition, so
\* that a code used before is found as well.
FindCode(r) ==
  /\ guard = "code"
  /\ At(r, "find")
  /\ IF req[r].code \in sent \ dead
     THEN GoTo(r, "mark") /\ UNCHANGED <<world, rate, records, keys, ghosts>>
     ELSE Missed(r)

\* Comparing a password, here that of the private space: right or wrong
ComparePrivate(r) ==
  /\ guard = "private"
  /\ At(r, "find")
  /\ \/ GoTo(r, "clear") /\ UNCHANGED <<world, rate, records, keys, ghosts>>
     \/ Missed(r)

\* here that of a locked file, to read it or to unlock it
CompareFile(r) ==
  /\ guard = "file"
  /\ At(r, "find")
  /\ \/ GoTo(r, "clear") /\ UNCHANGED <<world, rate, records, keys, ghosts>>
     \/ Missed(r)

\* and here that of the administrator
CompareConfirm(r) ==
  /\ guard = "confirm"
  /\ At(r, "find")
  /\ \/ GoTo(r, "clear") /\ UNCHANGED <<world, rate, records, keys, ghosts>>
     \/ Missed(r)

\* Variant: the record found is marked, whatever happened to it since.
MarkFound(r) ==
  /\ At(r, "mark")
  /\ used' = used \union {req[r].code}
  /\ won' = [won EXCEPT ![req[r].code] = @ + 1]
  /\ GoTo(r, "clear")
  /\ UNCHANGED <<world, rate, sent, dead, keys, wrong>>

\* usedAt is set where it is still NULL; otherwise the code has been used.
MarkUsed(r) ==
  /\ At(r, "mark")
  /\ IF req[r].code \in used
     THEN End(r) /\ UNCHANGED <<used, won>>
     ELSE /\ used' = used \union {req[r].code}
          /\ won' = [won EXCEPT ![req[r].code] = @ + 1]
          /\ GoTo(r, "clear")
  /\ UNCHANGED <<world, rate, sent, dead, keys, wrong>>

\* The guess was right: the counter is deleted, or stays if Redis refuses.
ClearFails(r) ==
  /\ At(r, "clear")
  /\ \/ fails' = 0 /\ ttl' = FALSE /\ wrong' = 0
     \/ faulty /\ UNCHANGED <<fails, ttl, wrong>>
  /\ End(r)
  /\ UNCHANGED <<world, rate, records, locked, won>>

-----------------------------------------------------------------------------
\* A wrong guess

\* incr: the first one goes on to set the counter's expiry.
Count(r) ==
  /\ At(r, "count")
  /\ fails < MaxFails
  /\ fails' = fails + 1
  /\ IF fails' = 1 THEN GoTo(r, "expire")
     ELSE IF fails' >= MaxAttempts THEN GoTo(r, "lockout")
     ELSE End(r)
  /\ UNCHANGED <<world, rate, records, ttl, locked, ghosts>>

\* expire: does nothing if the counter is gone again.
SetExpiry(r) ==
  /\ At(r, "expire")
  /\ ttl' = (fails > 0)
  /\ End(r)
  /\ UNCHANGED <<world, rate, records, fails, locked, ghosts>>

\* Variant: no lock, only a fresh counter.
NoLock(r) ==
  /\ At(r, "lockout")
  /\ GoTo(r, "reset")
  /\ UNCHANGED <<world, rate, records, keys, ghosts>>

\* Too many: the lock is set, or Redis refuses, which is logged.
LockOut(r) ==
  /\ At(r, "lockout")
  /\ \/ locked' = TRUE
     \/ faulty /\ UNCHANGED locked
  /\ GoTo(r, "reset")
  /\ UNCHANGED <<world, rate, records, fails, ttl, ghosts>>

\* The counter is cleared, or Redis refuses.
ResetFails(r) ==
  /\ At(r, "reset")
  /\ \/ fails' = 0 /\ ttl' = FALSE
     \/ faulty /\ UNCHANGED <<fails, ttl>>
  /\ End(r)
  /\ UNCHANGED <<world, rate, records, locked, ghosts>>

-----------------------------------------------------------------------------
\* The rest of the world

\* A request ends before it is through: an error, or the server crashes.
Abort(r) ==
  /\ faulty
  /\ req[r] # None
  /\ End(r)
  /\ UNCHANGED <<world, rate, records, keys, ghosts>>

ExpireRate ==
  /\ rate
  /\ rate' = FALSE
  /\ UNCHANGED <<world, records, keys, req, ghosts>>

ExpireCode(c) ==
  /\ c \in sent \ dead
  /\ dead' = dead \union {c}
  /\ UNCHANGED <<world, rate, sent, used, keys, req, ghosts>>

\* The window of the counter ends.
ExpireFails ==
  /\ ttl
  /\ fails' = 0
  /\ ttl' = FALSE
  /\ wrong' = 0
  /\ UNCHANGED <<world, rate, records, locked, req, won>>

\* The lock ends, long after the requests that were under way when it was set.
ExpireLock ==
  /\ locked
  /\ \A r \in Requests : req[r] = None
  /\ locked' = FALSE
  /\ wrong' = fails
  /\ UNCHANGED <<world, rate, records, fails, ttl, req, won>>

Next ==
  \/ \E r \in Requests :
       \/ BeginSend(r) \/ Reserve(r) \/ InsertCode(r)
       \/ \E c \in Codes \union {None} : Begin(r, c)
       \/ FindCode(r) \/ ComparePrivate(r) \/ CompareFile(r) \/ CompareConfirm(r)
       \/ MarkUsed(r) \/ ClearFails(r)
       \/ Count(r) \/ SetExpiry(r) \/ LockOut(r) \/ ResetFails(r)
       \/ Abort(r)
  \/ ExpireRate \/ ExpireFails \/ ExpireLock
  \/ \E c \in Codes : ExpireCode(c)

Spec == Init /\ [][Next]_vars

-----------------------------------------------------------------------------
\* Correctness

\* A code is accepted once, however many requests have found it before one of
\* them marks it, and also if some of them stop half-way.
CodeUsedOnce == \A c \in Codes : won[c] <= 1

\* Without a correct guess, the guesses that are evaluated before the counter
\* expires or the lock ends are MaxAttempts and those that ran beside them,
\* provided that Redis takes every write: the lock is set only after the guess
\* that calls for it, while others are past the check already.
GuessesBounded ==
  ~faulty => wrong <= MaxAttempts + Cardinality(Requests) - 1
=============================================================================
