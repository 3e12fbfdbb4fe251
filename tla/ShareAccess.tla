----------------------------- MODULE ShareAccess ----------------------------
(***************************************************************************)
(* Share links of one file: SharesService (create, close, public access,   *)
(* counted download) and the Redis entries share:token:{token}.  Requests  *)
(* interleave at every await.                                              *)
(*                                                                         *)
(* The terms of a share (cap, password, expiry) never change once its row  *)
(* is there, so of the summary kept in Redis only the download count can   *)
(* be stale, and an entry is that count.  Reading the list of shares or a  *)
(* token, the audit log and the failure counter of a share password        *)
(* (share:fail:{token}) are left out; a refused password stands for any of *)
(* its causes.                                                             *)
(***************************************************************************)
EXTENDS Integers, FiniteSets

CONSTANTS
  Shares,     \* share links, each with its token; bounds the links created
  NoShare,
  Visits,     \* public requests the server handles at a time
  Owners,     \* requests of the owner it handles at a time
  Limits,     \* the values of max_downloads tried, 0 standing for NULL
  Terms,      \* terms an owner may set, of {"password", "expiry"}
  MaxServed,  \* bound: no download request once that many were served
  NoEntry,    \* a Redis miss
  Faults      \* subset of {"redis", "abort"}: a Redis call, any call throws

ASSUME ShareAssumption ==
  /\ NoShare \notin Shares
  /\ Limits \subseteq Nat
  /\ Terms \subseteq {"password", "expiry"}
  /\ MaxServed \in Nat \ {0}
  /\ NoEntry \notin Nat
  /\ Faults \subseteq {"redis", "abort"}

VARIABLES
  \* rows of the table shares
  created,  \* the shares that have a row
  active,   \* those with is_active
  count,    \* download_count
  limit,    \* max_downloads, 0 if NULL
  locked,   \* the shares with a password
  dated,    \* the shares with an expire_at
  overdue,  \* the shares whose expire_at has passed
  live,     \* the file is not in the trash
  cache,    \* cache[s]: the count in the Redis summary, or NoEntry
  closing,  \* deactivations sent off without await
  \* public requests
  pc,       \* the await a request is at, or its outcome
  token,    \* its share
  counts,   \* it is POST .../download and not GET .../access
  summary,  \* the count in the summary it works on
  hasRow,   \* it has loaded the row itself
  gone,     \* what had already ended the share when the request arrived
  served,   \* served[s]: downloads the server has granted
  \* requests of the owner
  step,     \* the await such a request is at
  target,   \* the share it closes
  loaded    \* the count in the row it loaded

rowVars == <<created, active, count, limit, locked, dated>>
worldVars == <<overdue, live>>
visitVars == <<pc, token, counts, summary, hasRow, gone>>
ownerVars == <<step, target, loaded>>
vars == <<rowVars, worldVars, cache, closing, visitVars, served, ownerVars>>

Endings == {"closed", "expired", "trashed"}
Resting == {"idle", "granted"}  \* a refused request leaves nothing behind
Awaits == {"get", "find", "fill", "terms", "password", "drop", "node",
           "increment", "invalidate"}

RowTypes ==
  /\ created \subseteq Shares
  /\ active \subseteq created
  /\ count \in [Shares -> Nat]
  /\ limit \in [Shares -> Limits \union {0}]
  /\ locked \subseteq Shares
  /\ dated \subseteq Shares
  /\ overdue \subseteq dated
  /\ live \in BOOLEAN
  /\ cache \in [Shares -> Nat \union {NoEntry}]
  /\ closing \subseteq created
  /\ served \in [Shares -> Nat]

VisitTypes ==
  /\ pc \in [Visits -> Resting \union Awaits]
  /\ token \in [Visits -> Shares \union {NoShare}]
  /\ counts \in [Visits -> BOOLEAN]
  /\ summary \in [Visits -> Nat]
  /\ hasRow \in [Visits -> BOOLEAN]
  /\ gone \in [Visits -> SUBSET Endings]
  /\ \A v \in Visits : pc[v] # "idle" => token[v] \in created

OwnerTypes ==
  /\ step \in [Owners -> {"idle", "deactivate", "insert", "save", "drop"}]
  /\ target \in [Owners -> Shares \union {NoShare}]
  /\ loaded \in [Owners -> Nat]
  /\ \A o \in Owners : step[o] \in {"save", "drop"} => target[o] \in created

\* A request past its arrival has a share, and so has one that closes it.
TypeOK == RowTypes /\ VisitTypes /\ OwnerTypes

Init ==
  /\ created = {}
  /\ active = {}
  /\ count = [s \in Shares |-> 0]
  /\ limit = [s \in Shares |-> 0]
  /\ locked = {}
  /\ dated = {}
  /\ overdue = {}
  /\ live = TRUE
  /\ cache = [s \in Shares |-> NoEntry]
  /\ closing = {}
  /\ pc = [v \in Visits |-> "idle"]
  /\ token = [v \in Visits |-> NoShare]
  /\ counts = [v \in Visits |-> FALSE]
  /\ summary = [v \in Visits |-> 0]
  /\ hasRow = [v \in Visits |-> FALSE]
  /\ gone = [v \in Visits |-> {}]
  /\ served = [s \in Shares |-> 0]
  /\ step = [o \in Owners |-> "idle"]
  /\ target = [o \in Owners |-> NoShare]
  /\ loaded = [o \in Owners |-> 0]

-----------------------------------------------------------------------------
\* Owner: createShare and deleteShare

EndOwner(o) ==
  /\ step' = [step EXCEPT ![o] = "idle"]
  /\ target' = [target EXCEPT ![o] = NoShare]
  /\ loaded' = [loaded EXCEPT ![o] = 0]

\* The node exists, is the owner's and is not in the trash.
BeginCreate(o) ==
  /\ step[o] = "idle"
  /\ live
  /\ created # Shares
  /\ step' = [step EXCEPT ![o] = "deactivate"]
  /\ UNCHANGED <<target, loaded, rowVars, worldVars, cache, closing, visitVars, served>>

\* Variant: older links of the file stay open.
KeepOlderLinks(o) ==
  /\ step[o] = "deactivate"
  /\ step' = [step EXCEPT ![o] = "insert"]
  /\ UNCHANGED <<target, loaded, rowVars, worldVars, cache, closing, visitVars, served>>

\* The rows only: the Redis entries of the links it closes stay.
DeactivateOlderLinks(o) ==
  /\ step[o] = "deactivate"
  /\ active' = {}
  /\ step' = [step EXCEPT ![o] = "insert"]
  /\ UNCHANGED <<target, loaded, created, count, limit, locked, dated,
                 worldVars, cache, closing, visitVars, served>>

InsertShare(o) ==
  /\ step[o] = "insert"
  /\ \E s \in Shares \ created, l \in Limits :
       /\ created' = created \union {s}
       /\ active' = active \union {s}
       /\ count' = [count EXCEPT ![s] = 0]
       /\ limit' = [limit EXCEPT ![s] = l]
       /\ \E t \in SUBSET Terms :
            /\ locked' = locked \union (IF "password" \in t THEN {s} ELSE {})
            /\ dated' = dated \union (IF "expiry" \in t THEN {s} ELSE {})
  /\ EndOwner(o)
  /\ UNCHANGED <<worldVars, cache, closing, visitVars, served>>

\* Variant: a share that was not found is closed like any other.
LoadShareUnchecked(o) ==
  /\ step[o] = "idle"
  /\ \E s \in Shares :
       /\ target' = [target EXCEPT ![o] = s]
       /\ loaded' = [loaded EXCEPT ![o] = count[s]]
  /\ step' = [step EXCEPT ![o] = "save"]
  /\ UNCHANGED <<rowVars, worldVars, cache, closing, visitVars, served>>

LoadShare(o) ==
  /\ step[o] = "idle"
  /\ \E s \in created :
       /\ target' = [target EXCEPT ![o] = s]
       /\ loaded' = [loaded EXCEPT ![o] = count[s]]
  /\ step' = [step EXCEPT ![o] = "save"]
  /\ UNCHANGED <<rowVars, worldVars, cache, closing, visitVars, served>>

\* shareRepo.save(share) reads the row again and writes every column in which
\* the loaded entity differs from it: an older download count, too, unless the
\* row was counted up between that read and the write only.
SaveClosed(o) ==
  /\ step[o] = "save"
  /\ active' = active \ {target[o]}
  /\ count' \in {count, [count EXCEPT ![target[o]] = loaded[o]]}
  /\ step' = [step EXCEPT ![o] = "drop"]
  /\ UNCHANGED <<target, loaded, created, limit, locked, dated, worldVars,
                 cache, closing, visitVars, served>>

\* invalidateCache: redis.del(...), its failure is logged and ignored.
Drop(s) ==
  \/ cache' = [cache EXCEPT ![s] = NoEntry]
  \/ "redis" \in Faults /\ UNCHANGED cache

DropClosed(o) ==
  /\ step[o] = "drop"
  /\ Drop(target[o])
  /\ EndOwner(o)
  /\ UNCHANGED <<rowVars, worldVars, closing, visitVars, served>>

AbortOwner(o) ==
  /\ "abort" \in Faults
  /\ step[o] # "idle"
  /\ EndOwner(o)
  /\ UNCHANGED <<rowVars, worldVars, cache, closing, visitVars, served>>

Owner(o) ==
  \/ DeactivateOlderLinks(o)
  \/ InsertShare(o)
  \/ SaveClosed(o)
  \/ DropClosed(o)

-----------------------------------------------------------------------------
\* Public requests: accessShare and recordDownload

Goto(v, p) ==
  /\ pc' = [pc EXCEPT ![v] = p]
  /\ UNCHANGED <<token, counts, summary, hasRow, gone>>

Refuse(v) ==
  /\ pc' = [pc EXCEPT ![v] = "idle"]
  /\ token' = [token EXCEPT ![v] = NoShare]
  /\ counts' = [counts EXCEPT ![v] = FALSE]
  /\ summary' = [summary EXCEPT ![v] = 0]
  /\ hasRow' = [hasRow EXCEPT ![v] = FALSE]
  /\ gone' = [gone EXCEPT ![v] = {}]

\* The reply keeps the share and what the request met on arrival.
Grant(v) ==
  /\ pc' = [pc EXCEPT ![v] = "granted"]
  /\ counts' = [counts EXCEPT ![v] = FALSE]
  /\ UNCHANGED <<token, summary, hasRow, gone>>

EndingsOf(s) ==
  {e \in Endings : \/ e = "closed" /\ s \notin active
                   \/ e = "expired" /\ s \in overdue
                   \/ e = "trashed" /\ ~live}

Arrive(v) ==
  /\ pc[v] \in Resting
  /\ \E s \in created, c \in BOOLEAN :
       /\ c => served[s] < MaxServed
       /\ token' = [token EXCEPT ![v] = s]
       /\ counts' = [counts EXCEPT ![v] = c]
       /\ gone' = [gone EXCEPT ![v] = EndingsOf(s)]
  /\ pc' = [pc EXCEPT ![v] = "get"]
  /\ UNCHANGED <<summary, hasRow, rowVars, worldVars, cache, closing, served, ownerVars>>

\* Redis first; a failed read is a miss.
GetEntry(v) ==
  /\ pc[v] = "get"
  /\ \/ /\ cache[token[v]] # NoEntry
        /\ summary' = [summary EXCEPT ![v] = cache[token[v]]]
        /\ pc' = [pc EXCEPT ![v] = "terms"]
        /\ UNCHANGED <<token, counts, hasRow, gone>>
     \/ /\ cache[token[v]] = NoEntry \/ "redis" \in Faults
        /\ Goto(v, "find")
  /\ UNCHANGED <<rowVars, worldVars, cache,
                 closing, served, ownerVars>>

FindShare(v) ==
  /\ pc[v] = "find"
  /\ \/ /\ token[v] \in active
        /\ summary' = [summary EXCEPT ![v] = count[token[v]]]
        /\ hasRow' = [hasRow EXCEPT ![v] = TRUE]
        /\ pc' = [pc EXCEPT ![v] = "fill"]
        /\ UNCHANGED <<token, counts, gone>>
     \/ /\ token[v] \notin active
        /\ Refuse(v)
  /\ UNCHANGED <<rowVars, worldVars, cache, closing,
                 served, ownerVars>>

\* redis.setex(..., 60, summary): of the row as it was when it was read.
FillEntry(v) ==
  /\ pc[v] = "fill"
  /\ \/ cache' = [cache EXCEPT ![token[v]] = summary[v]]
     \/ "redis" \in Faults /\ UNCHANGED cache
  /\ Goto(v, "terms")
  /\ UNCHANGED <<rowVars, worldVars,
                 closing, served, ownerVars>>

AtCap(v) ==
  /\ limit[token[v]] # 0
  /\ summary[v] >= limit[token[v]]

\* The summary's count has no use after this, a loaded row only for its hash.
AdvisoryCap(v) ==
  \/ /\ AtCap(v)
     /\ Refuse(v)
  \/ /\ ~AtCap(v)
     /\ pc' = [pc EXCEPT ![v] =
                 IF token[v] \in locked THEN "password" ELSE "node"]
     /\ summary' = [summary EXCEPT ![v] = 0]
     /\ hasRow' = [hasRow EXCEPT ![v] = IF token[v] \in locked THEN @ ELSE FALSE]
     /\ UNCHANGED <<token, counts, gone>>

\* Variant: an expired link is noticed only by the request that loads its row.
TermsOfLoadedRow(v) ==
  /\ pc[v] = "terms"
  /\ \/ /\ token[v] \in overdue
        /\ hasRow[v]
        /\ closing' = closing \union {token[v]}
        /\ Goto(v, "drop")
     \/ /\ ~(token[v] \in overdue /\ hasRow[v])
        /\ AdvisoryCap(v)
        /\ UNCHANGED closing
  /\ UNCHANGED <<rowVars, worldVars,
                 cache, served, ownerVars>>

\* Expiry, then the advisory cap; no await in between.
CheckTerms(v) ==
  /\ pc[v] = "terms"
  /\ \/ /\ token[v] \in overdue
        /\ closing' = closing \union {token[v]}
        /\ Goto(v, "drop")
     \/ /\ token[v] \notin overdue
        /\ AdvisoryCap(v)
        /\ UNCHANGED closing
  /\ UNCHANGED <<rowVars, worldVars,
                 cache, served, ownerVars>>

PasswordRight(v) ==
  /\ pc' = [pc EXCEPT ![v] = "node"]
  /\ hasRow' = [hasRow EXCEPT ![v] = FALSE]
  /\ UNCHANGED <<token, counts, summary, gone>>

\* Variant: the hash comes with the summary, as before P1-B18.
PasswordFromSummary(v) ==
  /\ pc[v] = "password"
  /\ PasswordRight(v) \/ Refuse(v)
  /\ UNCHANGED <<rowVars, worldVars,
                 cache, closing, served, ownerVars>>

\* No password, or too many wrong ones, or a wrong one, is refused.  The hash
\* comes from the row: the one just loaded, or the active one.
CheckPassword(v) ==
  /\ pc[v] = "password"
  /\ \/ Refuse(v)
     \/ /\ hasRow[v] \/ token[v] \in active
        /\ PasswordRight(v)
     \/ /\ ~hasRow[v] /\ token[v] \notin active
        /\ Goto(v, "drop")
  /\ UNCHANGED <<rowVars, worldVars,
                 cache, closing, served, ownerVars>>

DropThenRefuse(v) ==
  /\ pc[v] = "drop"
  /\ Drop(token[v])
  /\ Refuse(v)
  /\ UNCHANGED <<rowVars, worldVars,
                 closing, served, ownerVars>>

FindNode(v) ==
  /\ pc[v] = "node"
  /\ \/ ~live /\ Refuse(v)
     \/ live /\ counts[v] /\ Goto(v, "increment")
     \/ live /\ ~counts[v] /\ Grant(v)
  /\ UNCHANGED <<rowVars, worldVars,
                 cache, closing, served, ownerVars>>

\* Variant: increments what the summary allowed, as before P1-B19.
IncrementUnchecked(v) ==
  /\ pc[v] = "increment"
  /\ count' = [count EXCEPT ![token[v]] = @ + 1]
  /\ served' = [served EXCEPT ![token[v]] = @ + 1]
  /\ Goto(v, "invalidate")
  /\ UNCHANGED <<created, active, limit,
                 locked, dated, worldVars, cache, closing, ownerVars>>

\* UPDATE ... SET download_count = download_count + 1
\* WHERE id = ... AND (max_downloads IS NULL OR download_count < max_downloads)
IncrementDownload(v) ==
  /\ pc[v] = "increment"
  /\ \/ /\ limit[token[v]] = 0 \/ count[token[v]] < limit[token[v]]
        /\ count' = [count EXCEPT ![token[v]] = @ + 1]
        /\ served' = [served EXCEPT ![token[v]] = @ + 1]
        /\ Goto(v, "invalidate")
     \/ /\ limit[token[v]] # 0 /\ count[token[v]] >= limit[token[v]]
        /\ Refuse(v)
        /\ UNCHANGED <<count, served>>
  /\ UNCHANGED <<created, active, limit,
                 locked, dated, worldVars, cache, closing, ownerVars>>

DropThenGrant(v) ==
  /\ pc[v] = "invalidate"
  /\ Drop(token[v])
  /\ Grant(v)
  /\ UNCHANGED <<rowVars, worldVars,
                 closing, served, ownerVars>>

AbortVisit(v) ==
  /\ "abort" \in Faults
  /\ pc[v] \in Awaits
  /\ Refuse(v)
  /\ UNCHANGED <<rowVars, worldVars,
                 cache, closing, served, ownerVars>>

Visit(v) ==
  \/ GetEntry(v)
  \/ FindShare(v)
  \/ FillEntry(v)
  \/ CheckTerms(v)
  \/ CheckPassword(v)
  \/ DropThenRefuse(v)
  \/ FindNode(v)
  \/ IncrementDownload(v)
  \/ DropThenGrant(v)

-----------------------------------------------------------------------------
\* The rest of the world

\* The update of an expired row, not awaited; its failure is swallowed.
CloseExpired(s) ==
  /\ s \in closing
  /\ closing' = closing \ {s}
  /\ \/ active' = active \ {s}
     \/ "abort" \in Faults /\ UNCHANGED active
  /\ UNCHANGED <<created, count, limit, locked, dated, worldVars, cache,
                 visitVars, served, ownerVars>>

\* Variant: the entry is set without a time to live.
NeverForget(s) == FALSE /\ UNCHANGED vars

\* The entry reaches its time to live, SHARE_CACHE_TTL.
ForgetEntry(s) ==
  /\ cache[s] # NoEntry
  /\ cache' = [cache EXCEPT ![s] = NoEntry]
  /\ UNCHANGED <<rowVars, worldVars, closing, visitVars, served, ownerVars>>

ExpiryPasses(s) ==
  /\ s \in dated \ overdue
  /\ overdue' = overdue \union {s}
  /\ UNCHANGED <<live, rowVars, cache, closing, visitVars, served, ownerVars>>

\* FilesService.softDelete of the shared file.
TrashFile ==
  /\ live
  /\ live' = FALSE
  /\ UNCHANGED <<overdue, rowVars, cache, closing, visitVars, served, ownerVars>>

Next ==
  \/ TrashFile
  \/ \E s \in Shares : CloseExpired(s) \/ ForgetEntry(s) \/ ExpiryPasses(s)
  \/ \E v \in Visits : Arrive(v) \/ Visit(v) \/ AbortVisit(v)
  \/ \E o \in Owners :
       BeginCreate(o) \/ LoadShare(o) \/ Owner(o) \/ AbortOwner(o)

Spec == Init /\ [][Next]_vars

(***************************************************************************)
(* A request that was accepted is run to its end, and Redis forgets an     *)
(* entry at the end of its time to live.                                   *)
(***************************************************************************)
Fairness ==
  /\ \A v \in Visits : WF_vars(Visit(v))
  /\ \A o \in Owners : WF_vars(Owner(o))
  /\ \A s \in Shares : WF_vars(ForgetEntry(s))

FairSpec == Spec /\ Fairness

-----------------------------------------------------------------------------
\* Properties

Capped(s) == limit[s] # 0

\* The cap of incrementDownload: whatever summary a request came with, the
\* count in the row stays within max_downloads.
CountWithinLimit == \A s \in Shares : Capped(s) => count[s] <= limit[s]

\* As long as a link is open, no more downloads were granted than its owner
\* allowed, although every request checks a possibly stale summary first.
OpenWithinLimit ==
  \A s \in active : Capped(s) => served[s] <= limit[s]

\* The same of every link, closed ones included.  deleteShare breaks it: it
\* saves the count it loaded over the one the downloads left meanwhile.
ServedWithinLimit == \A s \in Shares : Capped(s) => served[s] <= limit[s]

\* A request for a link that was closed before it arrived is not granted if
\* the link has a password, even from a Redis entry that outlived the link:
\* the hash is looked up in the active row.
ClosedLockedIsRefused ==
  \A v \in Visits :
    pc[v] = "granted" /\ token[v] \in locked => "closed" \notin gone[v]

\* A request that arrives after the link expired or the file went to the trash
\* is not granted, from a Redis entry no more than from the row.
EndedIsRefused ==
  \A v \in Visits : pc[v] = "granted" => gone[v] \subseteq {"closed"}

\* The owner has one open link per file at most, if one request of the owner
\* is handled at a time.
OneOpenLink == Cardinality(active) <= 1

\* No request works on the link and no Redis entry can let one in.
Unreachable(s) ==
  /\ cache[s] = NoEntry
  /\ \A v \in Visits : token[v] = s => pc[v] \in Resting \union {"get", "find"}

\* Closing a link takes effect in the end, and for good: once the requests
\* under way have ended and the entry has expired, none brings it back.
ClosingTakesEffect ==
  \A s \in Shares : s \in created \ active ~> []Unreachable(s)
=============================================================================
