---------------------------- MODULE TokenRefresh ----------------------------
(***************************************************************************)
(* The browser's API client: requests that are answered with 401 because   *)
(* the access token has run out, the one refresh they wait for, and their  *)
(* repetition.  Answers come in any order, and any request may be answered *)
(* with 401 any number of times.  The calls that may not be refreshed      *)
(* (login, register, reset) fail at once and are left out.                 *)
(***************************************************************************)
CONSTANT Calls  \* the calls the pages make

VARIABLES
  call,        \* call[r]: "new", "sent", "queued", "leads", "done", "failed"
  retried,     \* the calls marked _retry
  isRefreshing,
  page         \* "here"; "leaving" once the login page is asked for; "left"

vars == <<call, retried, isRefreshing, page>>

TypeOK ==
  /\ call \in [Calls -> {"new", "sent", "queued", "leads", "done", "failed"}]
  /\ retried \subseteq Calls
  /\ isRefreshing \in BOOLEAN
  /\ page \in {"here", "leaving", "left"}

Init ==
  /\ call = [r \in Calls |-> "new"]
  /\ retried = {}
  /\ isRefreshing = FALSE
  /\ page = "here"

\* refreshQueue
Queue == {r \in Calls : call[r] = "queued"}

\* No callback runs any more.
Gone == page = "left"

Is(r, state) == ~Gone /\ call[r] = state
Set(r, state) == call' = [call EXCEPT ![r] = state]

Send(r) ==
  /\ Is(r, "new")
  /\ Set(r, "sent")
  /\ UNCHANGED <<retried, isRefreshing, page>>

\* An answer other than 401, or none in time
Answered(r) ==
  /\ Is(r, "sent")
  /\ \/ Set(r, "done")
     \/ Set(r, "failed")
  /\ UNCHANGED <<retried, isRefreshing, page>>

\* 401 once more
Refused(r) ==
  /\ Is(r, "sent")
  /\ r \in retried
  /\ Set(r, "failed")
  /\ UNCHANGED <<retried, isRefreshing, page>>

\* 401 while a refresh is on its way: the call is not marked.
Enqueue(r) ==
  /\ Is(r, "sent")
  /\ r \notin retried
  /\ isRefreshing
  /\ Set(r, "queued")
  /\ UNCHANGED <<retried, isRefreshing, page>>

\* Variant: the call that asks for a new token may do so again.
LeadAgain(r) ==
  /\ Is(r, "sent")
  /\ r \notin retried
  /\ ~isRefreshing
  /\ isRefreshing' = TRUE
  /\ Set(r, "leads")
  /\ UNCHANGED <<retried, page>>

\* 401 otherwise: this call asks for a new token.
Lead(r) ==
  /\ Is(r, "sent")
  /\ r \notin retried
  /\ ~isRefreshing
  /\ retried' = retried \union {r}
  /\ isRefreshing' = TRUE
  /\ Set(r, "leads")
  /\ UNCHANGED page

\* Variant: the calls that wait are not told.
RefreshedAlone(r) ==
  /\ Is(r, "leads")
  /\ Set(r, "sent")
  /\ isRefreshing' = FALSE
  /\ UNCHANGED <<retried, page>>

\* The new token is there: the waiting calls are repeated, and the call itself.
Refreshed(r) ==
  /\ Is(r, "leads")
  /\ call' = [x \in Calls |-> IF x \in Queue \union {r} THEN "sent" ELSE call[x]]
  /\ isRefreshing' = FALSE
  /\ UNCHANGED <<retried, page>>

\* No new token: the login page is asked for, and the waiting calls stay queued.
RefreshFails(r) ==
  /\ Is(r, "leads")
  /\ Set(r, "failed")
  /\ isRefreshing' = FALSE
  /\ page' = "leaving"
  /\ UNCHANGED retried

\* The browser has loaded the login page.
Leave ==
  /\ page = "leaving"
  /\ page' = "left"
  /\ UNCHANGED <<call, retried, isRefreshing>>

\* What the server does with a call, or with the refresh it waits for
Answer(r) ==
  \/ Answered(r)
  \/ Refused(r)
  \/ Enqueue(r)
  \/ Lead(r)
  \/ Refreshed(r)
  \/ RefreshFails(r)

Next ==
  \/ \E r \in Calls : Send(r) \/ Answer(r)
  \/ Leave

Spec == Init /\ [][Next]_vars

\* axios gives every request up after its timeout, so that each is answered;
\* the browser follows a change of location.
Fairness == WF_vars(Leave) /\ \A r \in Calls : WF_vars(Answer(r))

FairSpec == Spec /\ Fairness

-----------------------------------------------------------------------------
\* Correctness

\* A call that waits, waits for a refresh that is on its way, or the page is
\* about to go: callbacks are neither forgotten by a refresh that succeeds nor
\* added when none would run them.
QueueIsServed == Queue # {} => isRefreshing \/ page # "here"

\* Every call that is made is settled for good, or the page is left, even if the
\* server answers 401 whatever the token: a call in the queue may be repeated and
\* refused again and again, but each refresh uses up the call that leads it.
CallsSettle ==
  <>[](Gone \/ \A r \in Calls : call[r] \in {"new", "done", "failed"})
=============================================================================
