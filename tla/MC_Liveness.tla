---------------------------- MODULE MC_Liveness -----------------------------
(***************************************************************************)
(* Two parts of the server for TLC under their fairness: ChunkUpload, with *)
(* one request at a time, and ShareAccess, where links are closed.  They   *)
(* share no state, and so one of them is explored at a time.               *)
(***************************************************************************)
EXTENDS ChunkUpload

NetworkFaults == {"refuse", "lostReply"}

CONSTANTS
  Shares, NoShare, Visits, Owners, Limits, Terms, MaxServed, NoEntry, LinkFaults

VARIABLES
  part,                                                           \* who moves
  links, active, count, limit, locked, dated, overdue, live, entry, closing,
  visit, token, counts, summary, hasRow, gone, served, step, target, loaded

sharing == <<links, active, count, limit, locked, dated, overdue, live, entry, closing,
             visit, token, counts, summary, hasRow, gone, served, step, target, loaded>>
allVars == <<vars, part, sharing>>

S == INSTANCE ShareAccess
       WITH created <- links, cache <- entry, pc <- visit, Faults <- LinkFaults

LivenessInit == part \in {"upload", "sharing"} /\ Init /\ S!Init

LivenessNext ==
  /\ UNCHANGED part
  /\ \/ part = "upload" /\ Next /\ UNCHANGED sharing
     \/ part = "sharing" /\ S!Next /\ UNCHANGED vars

\* Nothing is asked of a part that rests, where no request is under way.
LivenessSpec ==
  /\ LivenessInit
  /\ [][LivenessNext]_allVars
  /\ Fairness
  /\ S!Fairness

-----------------------------------------------------------------------------
\* The properties of ShareAccess, which its module states

\* A file has one link that is open.
OneOpenLink == S!OneOpenLink

\* Closing a link takes effect.
ClosingTakesEffect == S!ClosingTakesEffect
=============================================================================
