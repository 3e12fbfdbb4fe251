------------------------------ MODULE MC_Drive ------------------------------
(***************************************************************************)
(* Three parts of the server for TLC: Drive, Billing and Verification.     *)
(* They meet in the row of a user, each in columns of its own, and so one  *)
(* of them is explored at a time.                                          *)
(***************************************************************************)
EXTENDS Drive, TLC

CONSTANTS
  Paid, Webhooks, MaxEvents,      \* of Billing
  Codes, MaxAttempts, MaxFails    \* of Verification

VARIABLES
  part,                                                           \* who moves
  stripe, bought, events, latest, inOrder, failed, sub, quota, call,
  guard, faulty, rate, sent, dead, spent, fails, ttl, locked, guess, won, wrong

billing == <<stripe, bought, events, latest, inOrder, failed, sub, quota, call>>
verification == <<guard, faulty, rate, sent, dead, spent, fails, ttl, locked, guess, won,
                  wrong>>
allVars == <<vars, part, billing, verification>>

B == INSTANCE Billing
V == INSTANCE Verification WITH req <- guess, used <- spent

\* None is no subscription, no call and no request.
ASSUME BillingAssumption == None \notin B!SubRow \union B!Call

ASSUME VerificationAssumption ==
  /\ IsFiniteSet(Requests)
  /\ MaxAttempts \in Nat \ {0, 1}
  /\ None \notin [at : V!Awaits, code : Codes \union {None}]

\* Who does not move starts in one state only.
ServerInit ==
  /\ part \in {"drive", "billing", "verification"}
  /\ Init
  /\ B!Init
  /\ part # "billing" => sub = None
  /\ V!Init
  /\ part # "verification" => guard = "code" /\ ~faulty

ServerNext ==
  /\ UNCHANGED part
  /\ \/ part = "drive" /\ Next /\ UNCHANGED <<billing, verification>>
     \/ part = "billing" /\ B!Next /\ UNCHANGED <<vars, verification>>
     \/ part = "verification" /\ V!Next /\ UNCHANGED <<vars, billing>>

ServerSpec == ServerInit /\ [][ServerNext]_allVars

Symmetry == Permutations(Nodes) \union Permutations(Requests)

-----------------------------------------------------------------------------
\* The properties of the two instances, which their modules state

\* Billing: the quota is that of the plan of the subscription.
QuotaFollowsPlan == B!QuotaFollowsPlan

\* Billing: the user ends up with what Stripe has, if events came in order.
InOrderSettles == B!InOrderSettles

\* Verification: a code is accepted once.
CodeUsedOnce == V!CodeUsedOnce

\* Verification: few wrong guesses are evaluated.
GuessesBounded == V!GuessesBounded
=============================================================================
