------------------------------- MODULE Billing ------------------------------
(***************************************************************************)
(* The subscription of one user: PaymentService, the rows of subscriptions *)
(* and users it writes, and Stripe, which sends an event for every change  *)
(* and repeats and reorders events at will.  A webhook is answered as      *)
(* received even when it fails, so a failed one does not come back.        *)
(*                                                                         *)
(* A quota is named by the plan that has it.  Customer and subscription    *)
(* ids, the dates of a period and cancel_at_period_end are left out, and   *)
(* so is a price that belongs to no plan.                                  *)
(***************************************************************************)
EXTENDS Naturals, Sequences

CONSTANTS
  Paid,       \* plans with a price: pro and business
  Webhooks,   \* webhook calls the server handles at a time
  None,       \* no row, no call
  MaxEvents   \* bound on the events Stripe sends

VARIABLES
  stripe,  \* the subscription at Stripe: its plan, or "free" when there is none
  bought,  \* the plan in its metadata, fixed by the checkout
  events,  \* the events sent, in Stripe's order
  latest,  \* the newest event handled so far
  inOrder, \* no event was handled after a newer one, nor left out
  failed,  \* an error of a handler was swallowed
  sub,     \* the row of subscriptions
  quota,   \* the plan whose quota users.quota_bytes holds
  call     \* what each webhook call is doing

vars == <<stripe, bought, events, latest, inOrder, failed, sub, quota, call>>

Plans == Paid \union {"free"}
Statuses == {"active", "past_due", "canceled"}
SubRow == [plan : Plans, status : Statuses]
Event == [kind : {"checkout", "synced", "failed", "deleted"},
          plan : Paid, bought : Paid, status : Statuses]
Call == [event : Event, at : {"find", "retrieve", "save", "update", "quota"},
         snap : SubRow \union {None}, plan : Plans]

TypeOK ==
  /\ stripe \in Plans
  /\ bought \in Plans
  /\ events \in Seq(Event)
  /\ latest \in 0 .. Len(events)
  /\ inOrder \in BOOLEAN
  /\ failed \in BOOLEAN
  /\ sub \in SubRow \union {None}
  /\ quota \in Plans
  /\ call \in [Webhooks -> Call \union {None}]

\* A registered user has a free subscription, one an administrator made none.
Init ==
  /\ stripe = "free"
  /\ bought = "free"
  /\ events = <<>>
  /\ latest = 0
  /\ inOrder = TRUE
  /\ failed = FALSE
  /\ sub \in {None, [plan |-> "free", status |-> "active"]}
  /\ quota = "free"
  /\ call = [w \in Webhooks |-> None]

-----------------------------------------------------------------------------
\* Stripe.  createCheckoutSession is for "upgrading from free".

Send(es) ==
  /\ Len(events) + Len(es) <= MaxEvents
  /\ events' = events \o es
  /\ UNCHANGED <<latest, inOrder, failed, sub, quota, call>>

Of(kind, plan, meta, status) ==
  [kind |-> kind, plan |-> plan, bought |-> meta, status |-> status]

\* A checkout sends two events, of the session and of its subscription.
Checkout(p) ==
  /\ stripe = "free"
  /\ stripe' = p
  /\ bought' = p
  /\ Send(<<Of("checkout", p, p, "active"), Of("synced", p, p, "active")>>)

\* In the portal the customer changes the plan; the metadata stays.
ChangePlan(p) ==
  /\ stripe \notin {"free", p}
  /\ stripe' = p
  /\ Send(<<Of("synced", p, bought, "active")>>)
  /\ UNCHANGED bought

PaymentFails ==
  /\ stripe # "free"
  /\ Send(<<Of("failed", stripe, bought, "past_due")>>)
  /\ UNCHANGED <<stripe, bought>>

EndSubscription ==
  /\ stripe # "free"
  /\ stripe' = "free"
  /\ Send(<<Of("deleted", stripe, bought, "canceled")>>)
  /\ UNCHANGED bought

-----------------------------------------------------------------------------
\* The handler

At(w, await) == call[w] # None /\ call[w].at = await

EndCall(w) == call' = [call EXCEPT ![w] = None]

\* handleWebhook and processEvent: a good signature, and the event's handler.
Receive(w, i) ==
  /\ call[w] = None
  /\ call' = [call EXCEPT ![w] =
       [event |-> events[i],
        at |-> CASE events[i].kind = "deleted" -> "update"
                 [] events[i].kind = "failed" -> "retrieve"
                 [] OTHER -> "find",
        snap |-> None, plan |-> "free"]]
  /\ inOrder' = (inOrder /\ i \in {latest, latest + 1})
  /\ latest' = IF i > latest THEN i ELSE latest
  /\ UNCHANGED <<stripe, bought, events, failed, sub, quota>>

\* invoice.payment_failed: the subscription as it is at Stripe now.
Retrieve(w) ==
  /\ At(w, "retrieve")
  /\ \E s \in {"active", "past_due", "canceled"} :
       /\ (s = "canceled") <=> (stripe = "free")
       /\ call' = [call EXCEPT
            ![w].at = "find",
            ![w].event.plan = IF stripe = "free" THEN @ ELSE stripe,
            ![w].event.status = s]
  /\ UNCHANGED <<stripe, bought, events, latest, inOrder, failed, sub, quota>>

FindSub(w) ==
  /\ At(w, "find")
  /\ call' = [call EXCEPT ![w].at = "save", ![w].snap = sub]
  /\ UNCHANGED <<stripe, bought, events, latest, inOrder, failed, sub, quota>>

\* handleCheckoutCompleted writes the plan of the session's metadata.
CheckoutRow(e) == [plan |-> e.bought, status |-> "active"]

\* Variant: the plan of a row that exists is that of the metadata, too.
MetadataRow(e, snap) == [plan |-> e.bought, status |-> e.status]

\* syncSubscription: a new row takes the plan from the metadata, one that
\* exists takes it from the price.
SyncedRow(e, snap) ==
  [plan |-> IF snap = None THEN e.bought ELSE e.plan, status |-> e.status]

\* A second row of one user is refused by the unique index.
SaveSub(w) ==
  /\ At(w, "save")
  /\ LET e == call[w].event
         new == IF e.kind = "checkout" THEN CheckoutRow(e)
                                       ELSE SyncedRow(e, call[w].snap)
     IN  IF call[w].snap = None /\ sub # None
         THEN /\ EndCall(w)
              /\ UNCHANGED sub
         ELSE /\ sub' = new
              /\ call' = [call EXCEPT ![w].at = "quota", ![w].plan = new.plan]
  /\ UNCHANGED <<stripe, bought, events, latest, inOrder, failed, quota>>

\* handleSubscriptionCanceled updates the row, if there is one, and the quota.
CancelSub(w) ==
  /\ At(w, "update")
  /\ sub' = IF sub = None THEN None ELSE [plan |-> "free", status |-> "canceled"]
  /\ call' = [call EXCEPT ![w].at = "quota", ![w].plan = "free"]
  /\ UNCHANGED <<stripe, bought, events, latest, inOrder, failed, quota>>

\* Variant: the quota of a subscription that is not active is not touched.
SetQuotaIfActive(w) ==
  /\ At(w, "quota")
  /\ quota' = IF call[w].event.status = "active" THEN call[w].plan ELSE quota
  /\ EndCall(w)
  /\ UNCHANGED <<stripe, bought, events, latest, inOrder, failed, sub>>

SetQuota(w) ==
  /\ At(w, "quota")
  /\ quota' = call[w].plan
  /\ EndCall(w)
  /\ UNCHANGED <<stripe, bought, events, latest, inOrder, failed, sub>>

\* The error is logged and the event answered as received.
Swallow(w) ==
  /\ call[w] # None
  /\ EndCall(w)
  /\ failed' = TRUE
  /\ UNCHANGED <<stripe, bought, events, latest, inOrder, sub, quota>>

Handle(w) ==
  \/ Retrieve(w)
  \/ FindSub(w)
  \/ SaveSub(w)
  \/ CancelSub(w)
  \/ SetQuota(w)

Next ==
  \/ \E p \in Paid : Checkout(p) \/ ChangePlan(p)
  \/ PaymentFails
  \/ EndSubscription
  \/ \E w \in Webhooks :
       \/ \E i \in 1 .. Len(events) : Receive(w, i)
       \/ Handle(w)
       \/ Swallow(w)

Spec == Init /\ [][Next]_vars

-----------------------------------------------------------------------------
\* Properties

Quiet == \A w \in Webhooks : call[w] = None

\* Whatever events came, repeated and in whatever order, once they have been
\* handled, none with an error, the user's quota is that of the plan in the
\* subscription.
QuotaFollowsPlan == Quiet /\ ~failed /\ sub # None => quota = sub.plan

\* Events handled in Stripe's order, each at least once and without error, leave the user with
\* the plan and the quota of the subscription at Stripe.
InOrderSettles ==
  Quiet /\ ~failed /\ inOrder /\ latest = Len(events) /\ latest > 0
    => /\ quota = stripe
       /\ sub # None => sub.plan = stripe
=============================================================================
