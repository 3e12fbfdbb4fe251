----------------------------- MODULE MC_Browser -----------------------------
(***************************************************************************)
(* Three parts of the browser for TLC: the upload list, the API client's   *)
(* refresh of its token, and the preview window.  They share no state, and *)
(* so one of them is explored at a time.                                   *)
(***************************************************************************)
EXTENDS UploadStore, TLC

CONSTANTS
  Calls,                                                  \* of TokenRefresh
  Documents, Media, Texts, Empty, Loads, Saves, Patient   \* of Preview

VARIABLES
  part,                                                           \* who moves
  call, retried, isRefreshing, page,
  content, listed, stale, node, mek, view, editing, text, of, saving, needPassword,
  keysOff, blobUrl, lost, load, save, derive, typed

client == <<call, retried, isRefreshing, page>>
preview == <<content, listed, stale, node, mek, view, editing, text, of, saving,
             needPassword, keysOff, blobUrl, lost, load, save, derive, typed>>
allVars == <<vars, part, client, preview>>

T == INSTANCE TokenRefresh
P == INSTANCE Preview

\* No file is shown is not a file that is shown.
ASSUME PreviewAssumption == None \notin P!Node

\* Who does not move starts in one state only.
BrowserInit ==
  /\ part \in {"uploads", "client", "preview"}
  /\ Init
  /\ T!Init
  /\ P!Init
  /\ part # "preview" => mek = "none" /\ \A f \in DOMAIN content : content[f] = Empty

BrowserNext ==
  /\ UNCHANGED part
  /\ \/ part = "uploads" /\ Next /\ UNCHANGED <<client, preview>>
     \/ part = "client" /\ T!Next /\ UNCHANGED <<vars, preview>>
     \/ part = "preview" /\ P!Next /\ UNCHANGED <<vars, client>>

\* The fairness of the upload list and of the client; it asks nothing of a part
\* that rests, where no loop runs and no call has been made.
BrowserSpec ==
  /\ BrowserInit
  /\ [][BrowserNext]_allVars
  /\ \A l \in Loops : WF_vars(Loop(l))
  /\ T!Fairness

-----------------------------------------------------------------------------
\* The properties of the two instances, which their modules state

\* TokenRefresh: calls that wait are repeated or the page is left.
QueueIsServed == T!QueueIsServed

\* TokenRefresh: every call is settled.
CallsSettle == T!CallsSettle

\* Preview: a text is saved where it came from.
SavedWhereTyped == P!SavedWhereTyped

\* Preview: no object URL is left behind.
UrlsAreRevoked == P!UrlsAreRevoked
=============================================================================
