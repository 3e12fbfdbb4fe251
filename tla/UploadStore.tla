----------------------------- MODULE UploadStore ----------------------------
(***************************************************************************)
(* The upload list of the browser client (stores/upload.store.ts): tasks,  *)
(* the loops (calls of processTask) that work on them, the semaphore that  *)
(* bounds the loops at work, and pause / resume / cancel.  JavaScript runs *)
(* one thread, so an action is what runs between two awaits.               *)
(*                                                                         *)
(* Progress and speed figures, swapTasks and toggleOpen are display only.  *)
(* A DEK bundle is named by the loop that generated it.                    *)
(***************************************************************************)
EXTENDS Integers, Sequences, FiniteSets

CONSTANTS
  Tasks,          \* the files the user may add
  Loops,          \* calls of processTask; bounds the number of resumes
  None,
  TotalChunks,
  MaxConcurrent,  \* MAX_CONCURRENT, 3 in the code
  MaxRetries      \* 5 in the code

ASSUME StoreAssumption ==
  /\ IsFiniteSet(Loops)
  /\ None \notin Loops \union Tasks
  /\ TotalChunks \in Nat \ {0}
  /\ MaxConcurrent \in Nat \ {0}
  /\ MaxRetries \in Nat \ {0}

VARIABLES
  \* tasks
  status,      \* status of each task; "new" before it is added, "gone" after
  last,        \* lastUploadedChunkIndex, -1 for undefined
  dekCache,    \* __dekCache__: task -> bundle
  controller,  \* __abortControllers__: task -> the loop whose try it aborts
  \* semaphore
  active,      \* __activeUploads__
  queue,       \* __uploadQueue__
  \* loops
  owner,       \* the task of a loop
  loop,        \* its await and local variables
  \* server
  acked        \* acked[t][i]: the bundle of the first accepted upload of i

vars == <<status, last, dekCache, controller, active, queue, owner, loop, acked>>

Chunks == 0 .. TotalChunks - 1

\* Awaits of a loop that holds a slot.
Working == {"start", "deriving", "head", "encrypting", "sending", "backoff"}

\* Where a loop is, its bundle, the chunk it is at, the failed tries of that
\* chunk, and whether the signal of the current try has fired.
LoopState ==
  [pc      : Working \union {"unused", "queued", "ended"},
   bundle  : Loops \union {None},
   at      : 0 .. TotalChunks,
   retries : 0 .. MaxRetries - 1,
   aborted : BOOLEAN]

NoLocals(p) ==
  [pc |-> p, bundle |-> None, at |-> 0, retries |-> 0, aborted |-> FALSE]

TypeOK ==
  /\ status \in [Tasks -> {"new", "pending", "encrypting", "uploading",
                           "paused", "done", "error", "gone"}]
  /\ last \in [Tasks -> -1 .. TotalChunks - 1]
  /\ dekCache \in [Tasks -> Loops \union {None}]
  /\ controller \in [Tasks -> Loops \union {None}]
  /\ active \in Nat
  /\ queue \in Seq(Loops)
  /\ owner \in [Loops -> Tasks \union {None}]
  /\ loop \in [Loops -> LoopState]
  /\ acked \in [Tasks -> [Chunks -> Loops \union {None}]]

Init ==
  /\ status = [t \in Tasks |-> "new"]
  /\ last = [t \in Tasks |-> -1]
  /\ dekCache = [t \in Tasks |-> None]
  /\ controller = [t \in Tasks |-> None]
  /\ active = 0
  /\ queue = <<>>
  /\ owner = [l \in Loops |-> None]
  /\ loop = [l \in Loops |-> NoLocals("unused")]
  /\ acked = [t \in Tasks |-> [i \in Chunks |-> None]]

Pc(l) == loop[l].pc

-----------------------------------------------------------------------------
\* The semaphore

\* A new call of processTask for task t, up to its acquireSlot.
Acquire(l, t) ==
  /\ Pc(l) = "unused"
  /\ owner' = [owner EXCEPT ![l] = t]
  /\ \/ /\ active < MaxConcurrent
        /\ active' = active + 1
        /\ loop' = [loop EXCEPT ![l].pc = "start"]
        /\ UNCHANGED queue
     \/ /\ active >= MaxConcurrent
        /\ queue' = Append(queue, l)
        /\ loop' = [loop EXCEPT ![l].pc = "queued"]
        /\ UNCHANGED active

\* Variant: the slot handed to the next ticket is not counted again.
ReleaseUncounted(l) ==
  /\ active' = active - 1
  /\ \/ /\ queue = <<>>
        /\ loop' = [loop EXCEPT ![l] = NoLocals("ended")]
        /\ UNCHANGED queue
     \/ /\ queue # <<>>
        /\ loop' = [loop EXCEPT ![l] = NoLocals("ended"), ![Head(queue)].pc = "start"]
        /\ queue' = Tail(queue)

\* Variant: a loop that ends does not wake the next ticket.
ReleaseWithoutWake(l) ==
  /\ active' = active - 1
  /\ loop' = [loop EXCEPT ![l] = NoLocals("ended")]
  /\ UNCHANGED queue

\* releaseSlot: the slot is given up, and the oldest ticket takes it at once.
Release(l) ==
  \/ /\ queue = <<>>
     /\ active' = active - 1
     /\ loop' = [loop EXCEPT ![l] = NoLocals("ended")]
     /\ UNCHANGED queue
  \/ /\ queue # <<>>
     /\ active' = (active - 1) + 1
     /\ loop' = [loop EXCEPT ![l] = NoLocals("ended"), ![Head(queue)].pc = "start"]
     /\ queue' = Tail(queue)

-----------------------------------------------------------------------------
\* What the user does

Added(t) == status[t] \notin {"new", "gone"}

AddFile(t, l) ==
  /\ status[t] = "new"
  /\ status' = [status EXCEPT ![t] = "pending"]
  /\ Acquire(l, t)
  /\ UNCHANGED <<last, dekCache, controller, acked>>

\* controller.abort(): the try it belongs to fails with CanceledError.
AbortTry(t) ==
  /\ controller' = [controller EXCEPT ![t] = None]
  /\ loop' = IF controller[t] = None THEN loop
               ELSE [loop EXCEPT ![controller[t]].aborted = TRUE]

Pause(t) ==
  /\ Added(t)
  /\ AbortTry(t)
  /\ status' = IF status[t] \in {"uploading", "encrypting"}
                 THEN [status EXCEPT ![t] = "paused"] ELSE status
  /\ UNCHANGED <<last, dekCache, active, queue, owner, acked>>

\* Variant: no new call of processTask.
ResumeOnlyStatus(t, l) ==
  /\ status[t] = "paused"
  /\ status' = [status EXCEPT ![t] = "pending"]
  /\ UNCHANGED <<last, dekCache, controller, active, queue, owner, loop, acked>>

Resume(t, l) ==
  /\ status[t] = "paused"
  /\ status' = [status EXCEPT ![t] = "pending"]
  /\ Acquire(l, t)
  /\ UNCHANGED <<last, dekCache, controller, acked>>

Cancel(t) ==
  /\ Added(t)
  /\ AbortTry(t)
  /\ status' = [status EXCEPT ![t] = "gone"]
  /\ dekCache' = [dekCache EXCEPT ![t] = None]
  /\ UNCHANGED <<last, active, queue, owner, acked>>

ClearDone ==
  /\ \E t \in Tasks : status[t] = "done"
  /\ status' = [t \in Tasks |-> IF status[t] = "done" THEN "gone" ELSE status[t]]
  /\ UNCHANGED <<last, dekCache, controller, active, queue, owner, loop, acked>>

-----------------------------------------------------------------------------
\* processTask

\* updateTask({ status: s }): a task that left the list stays out.
SetStatus(t, s) == status' = IF Added(t) THEN [status EXCEPT ![t] = s] ELSE status

\* The outer catch: any error but a halt.
FailTask(l) ==
  /\ SetStatus(owner[l], "error")
  /\ dekCache' = [dekCache EXCEPT ![owner[l]] = None]
  /\ Release(l)

\* With the slot: task gone or paused, session key missing, bundle cached or
\* not.  The resume offset is read here, before the bundle is awaited.
Start(l) ==
  LET t == owner[l] IN
  /\ Pc(l) = "start"
  /\ \/ /\ ~Added(t) \/ status[t] = "paused"
        /\ Release(l)
        /\ UNCHANGED <<status, dekCache>>
     \/ /\ Added(t) /\ status[t] # "paused"
        /\ FailTask(l)
     \/ /\ Added(t) /\ status[t] # "paused"
        /\ dekCache[t] = None
        /\ SetStatus(t, "encrypting")
        /\ loop' = [loop EXCEPT ![l].pc = "deriving", ![l].at = last[t] + 1]
        /\ UNCHANGED <<dekCache, active, queue>>
     \/ /\ Added(t) /\ status[t] # "paused"
        /\ dekCache[t] # None
        /\ SetStatus(t, "uploading")
        /\ loop' = [loop EXCEPT ![l].pc = "head", ![l].at = last[t] + 1,
                                ![l].bundle = dekCache[t]]
        /\ UNCHANGED <<dekCache, active, queue>>
  /\ UNCHANGED <<last, controller, owner, acked>>

\* generateDEK, encryptDEK and computeFileHash have returned; a pause or a
\* cancel in the meantime is not looked at.
DekReady(l) ==
  /\ Pc(l) = "deriving"
  /\ loop' = [loop EXCEPT ![l].pc = "head", ![l].bundle = l]
  /\ dekCache' = [dekCache EXCEPT ![owner[l]] = l]
  /\ SetStatus(owner[l], "uploading")
  /\ UNCHANGED <<last, controller, active, queue, owner, acked>>

\* The file cannot be read any more, or Web Crypto fails.
PrepareFails(l) ==
  /\ Pc(l) \in {"deriving", "encrypting"}
  /\ FailTask(l)
  /\ UNCHANGED <<last, controller, owner, acked>>

\* Head of the loop over the chunks.
LoopHead(l) ==
  LET t == owner[l]
      halted == ~Added(t) \/ status[t] = "paused" IN
  /\ Pc(l) = "head"
  /\ \/ /\ loop[l].at = TotalChunks
        /\ SetStatus(t, "done")
        /\ dekCache' = [dekCache EXCEPT ![t] = None]
        /\ Release(l)
     \/ /\ loop[l].at < TotalChunks /\ halted
        /\ Release(l)
        /\ UNCHANGED <<status, dekCache>>
     \/ /\ loop[l].at < TotalChunks /\ ~halted
        /\ loop' = [loop EXCEPT ![l].pc = "encrypting"]
        /\ UNCHANGED <<status, dekCache, active, queue>>
  /\ UNCHANGED <<last, controller, owner, acked>>

\* A try is sent under a fresh AbortController.
SendTry(l, tries) ==
  /\ loop' = [loop EXCEPT ![l].pc = "sending", ![l].retries = tries,
                          ![l].aborted = FALSE]
  /\ controller' = [controller EXCEPT ![owner[l]] = l]
  /\ UNCHANGED <<status, last, dekCache, active, queue, owner, acked>>

\* slice.arrayBuffer and encryptChunk have returned.
ChunkReady(l) ==
  /\ Pc(l) = "encrypting"
  /\ SendTry(l, 0)

Accepted(l) ==
  acked' = [acked EXCEPT ![owner[l]][loop[l].at] =
              IF @ = None THEN loop[l].bundle ELSE @]

\* The chunk is done with: recorded for a resume, and on to the next.
Advance(l) ==
  /\ Pc(l) = "sending"
  /\ ~loop[l].aborted
  /\ controller' = [controller EXCEPT ![owner[l]] = None]
  /\ last' = IF Added(owner[l]) THEN [last EXCEPT ![owner[l]] = loop[l].at] ELSE last
  /\ loop' = [loop EXCEPT ![l].pc = "head", ![l].at = @ + 1]
  /\ UNCHANGED <<status, dekCache, active, queue, owner>>

\* Variant: a try that failed advances the offset, too.
AckUnchecked(l) == Advance(l) /\ (Accepted(l) \/ UNCHANGED acked)

Ack(l) == Advance(l) /\ Accepted(l)

\* Variant: failed tries are not counted.
TryFailsUncounted(l) ==
  /\ Pc(l) = "sending"
  /\ ~loop[l].aborted
  /\ loop' = [loop EXCEPT ![l].pc = "backoff"]
  /\ UNCHANGED <<status, dekCache, active, queue, controller, last, owner, acked>>

\* Variant: retries may exceed their limit by one.
TryFailsOnceMore(l) ==
  /\ Pc(l) = "sending"
  /\ ~loop[l].aborted
  /\ \/ /\ loop[l].retries + 1 > MaxRetries
        /\ controller' = [controller EXCEPT ![owner[l]] = None]
        /\ FailTask(l)
     \/ /\ loop[l].retries + 1 <= MaxRetries
        /\ loop' = [loop EXCEPT ![l].pc = "backoff", ![l].retries = @ + 1]
        /\ UNCHANGED <<status, dekCache, active, queue, controller>>
  /\ UNCHANGED <<last, owner, acked>>

\* The try fails: after the last one the task fails, before it the loop
\* sleeps.  The finally clause that drops the controller runs after the sleep.
TryFails(l) ==
  /\ Pc(l) = "sending"
  /\ ~loop[l].aborted
  /\ \/ /\ loop[l].retries + 1 >= MaxRetries
        /\ controller' = [controller EXCEPT ![owner[l]] = None]
        /\ FailTask(l)
     \/ /\ loop[l].retries + 1 < MaxRetries
        /\ loop' = [loop EXCEPT ![l].pc = "backoff", ![l].retries = @ + 1]
        /\ UNCHANGED <<status, dekCache, active, queue, controller>>
  /\ UNCHANGED <<last, owner, acked>>

\* After the sleep the next try is sent, without a look at the status.
Wake(l) ==
  /\ Pc(l) = "backoff"
  /\ SendTry(l, loop[l].retries)

\* CanceledError: the loop halts, whatever the status is by now.
Aborted(l) ==
  /\ Pc(l) = "sending"
  /\ loop[l].aborted
  /\ controller' = [controller EXCEPT ![owner[l]] = None]
  /\ Release(l)
  /\ UNCHANGED <<status, last, dekCache, owner, acked>>

Loop(l) ==
  \/ Start(l)
  \/ DekReady(l)
  \/ PrepareFails(l)
  \/ LoopHead(l)
  \/ ChunkReady(l)
  \/ Ack(l)
  \/ TryFails(l)
  \/ Wake(l)
  \/ Aborted(l)

-----------------------------------------------------------------------------
Next ==
  \/ \E t \in Tasks : Pause(t) \/ Cancel(t)
  \/ \E t \in Tasks, l \in Loops : AddFile(t, l) \/ Resume(t, l)
  \/ ClearDone
  \/ \E l \in Loops : Loop(l)

Spec == Init /\ [][Next]_vars

\* Timers, Web Crypto and the 120 s limit of a request all end; the user is
\* under no obligation.
FairSpec == Spec /\ \A l \in Loops : WF_vars(Loop(l))

-----------------------------------------------------------------------------
\* Properties

Holding == {l \in Loops : Pc(l) \in Working}

\* The counter of the semaphore is the number of loops at work, never above
\* the cap, and no slot is free while a ticket waits (P1-F10).
SlotsAccounted ==
  /\ active = Cardinality(Holding)
  /\ active <= MaxConcurrent
  /\ queue # <<>> => active = MaxConcurrent

\* The list shows a task as done only when the server has accepted every
\* chunk of it, across pauses and resumes (lastUploadedChunkIndex).
DoneMeansAllAcked ==
  \A t \in Tasks : status[t] = "done" => \A i \in Chunks : acked[t][i] # None

\* A task shown as pending or in progress has a loop that will move it on.
LiveTaskHasLoop ==
  \A t \in Tasks : status[t] \in {"pending", "encrypting", "uploading"} =>
    \E l \in Loops : owner[l] = t /\ Pc(l) \in Working \union {"queued"}

\* A pending task gets a slot in the end.
PendingStarts ==
  \A t \in Tasks : status[t] = "pending" ~> status[t] # "pending"

\* Cancelling a task, or leaving it paused, gives its slots back.
HaltedFreesSlots ==
  \A t \in Tasks :
    status[t] \in {"gone", "paused"} ~>
      \/ status[t] \notin {"gone", "paused"}
      \/ \A l \in Loops : owner[l] = t => Pc(l) \notin Working

\* All accepted chunks of a file are encrypted under one DEK bundle.
OneKeyPerFile ==
  \A t \in Tasks : \A i, j \in Chunks :
    acked[t][i] # None /\ acked[t][j] # None => acked[t][i] = acked[t][j]
=============================================================================
