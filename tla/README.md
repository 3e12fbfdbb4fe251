# TG Cloud Drive: TLA+ models

An end-to-end encrypted cloud drive: a NestJS server (PostgreSQL, Redis, and
Telegram, R2 or the disk as storage), a React client that encrypts in the browser,
WebDAV, share links, a desktop client and a browser extension. This directory holds
TLA+ models of the parts where requests, retries and caches interact, the TLC
runs that check them, and proofs for TLAPS.

    tlc -workers 2 -config upload_faults.cfg MC_ChunkUpload     # a run
    tlapm ChunkUpload_proofs.tla                                # a proof

`PROJECT.json` maps every definition to its lines of the source, and lists the
runs, the hazards, the findings and, for every checked property, a plausible bug
under which the property fails.

## 1. The system

| Component | State | Operations | Talks to | Hard behaviour | What makes it correct |
|---|---|---|---|---|---|
| Chunked upload, `files.service.ts` `uploadChunk` | `nodes`, `node_keys`, `file_chunks`, storage objects, Redis `upload:{user}:{key}`, `users.used_bytes` | one handler per chunk, 12 awaits | browser, database, Redis, storage | overlapping handlers, retries, lost replies, a crash between two writes, the entry's time to live | an assembled file is complete, an acknowledged chunk is recorded, a file shown as done can be decrypted |
| Upload list, `upload.store.ts` | tasks, semaphore and its queue, abort controllers, DEK cache | add, pause, resume, cancel, clear; `processTask` | the handler above | several loops of one task, aborts that come during an await, back-off sleeps | slots are accounted for and freed, no chunk is skipped, one key per file |
| Share links, `shares.service.ts` | `shares`, Redis `share:token:{token}` | create, close, access, record a download | visitors, owner, files | stale summaries, a fill that races an invalidation, a stale entity saved | terms hold against any summary, a closed link stays closed |
| Folder tree, `files.service.ts`, `webdav.service.ts` | `parent_id`, `deleted_at` of `nodes` | create, move, trash, restore, purge; WebDAV MOVE, DELETE, MKCOL | API and WebDAV clients | walks up and down a tree that changes under them | no cycles, parents are folders |
| Content, versions, copy, quota, `files.service.ts`, `webdav.service.ts` | `file_chunks`, `node_versions`, `file_requests`, `users.used_bytes`, storage objects | create, edit, version, copy, purge, file requests, offline download, WebDAV PUT | storage | objects shared by rows, sizes read before and charged after, writes one after the other | a version keeps its content, what is recorded is there, nothing is charged for good |
| Accounts, `auth`, `users`, `oauth`, `admin` | `users`, `devices`, Redis `force_logout:{user}` | register, login, refresh, access check, logout, profile, change, reset, force out, delete | browsers | whole entities saved late, a login or refresh that overlaps a reset | sessions that were to end have ended, for good |
| Guarded secrets, `verification.service.ts` and its likes in `users`, `files`, `admin` | `verification_codes`, Redis counters and locks | send, verify; compare a password | mail, Redis | counter, expiry and lock are three commands | a code is used once, guesses are bounded |
| Subscriptions, `payment.service.ts` | `subscriptions`, `users.quota_bytes` | Stripe webhooks | Stripe | events late, twice, out of order, half-processed | the quota is that of the plan |
| Collaboration, `collaboration.gateway.ts` | sessions, rooms, Redis channels | auth, sync, awareness, disconnect | browsers, other instances | authentications that overlap with each other and with a close | one room each, messages once |
| API client, `api/client.ts` | token, refresh flag and queue | every call | server | 401s that meet a running refresh | no call waits for ever |
| Preview and editor, `PreviewModal.tsx` | file shown, its text, the editor, object URLs, the master key's state | open, turn, edit, save, derive, close | server, key store | loads and saves outlive what is shown, handlers close over old values | a text is saved where it was typed |
| Storage providers, Telegram client | almost none | upload, link, delete | disk, R2, Telegram | which key an object gets, who deletes | see content |
| Desktop client, `sync.rs` | a flag, the watched folder | start and stop synchronisation | server | error returns after the flag is set | the flag tells the truth |
| Worker, other pages, `packages/crypto`, mail, OCR, export, clipper, `archive/` | none of their own | | | | not state machines; left out |

The components meet in the table `nodes`: the upload creates rows that the tree moves
and trashes, copies and edits share their objects, and the shares look at `deleted_at`;
in the row of a user, where quota, usage, password and lock are columns of their own;
in the browser through the replies of the server; and in Redis through entries that
are written and dropped separately from the rows they summarise.

## 2. The models

Node runs one thread, and so does the browser: what runs between two awaits is one
action, named after what the code does there, and a program counter per request
says which await it is at. Requests interleave freely. Everything the code checks is a
guard, every failure path an action or a disjunct; a call whose failure the code
swallows has a disjunct that changes nothing.

| Module | Models | State and its source |
|---|---|---|
| `AtomicUpload` | what an upload promises: open, store each chunk once, assemble, charge once | abstract |
| `ChunkUpload` | `uploadChunk`, and the client's loop with its retries | `pc`, `args`, `nodeOf`: handlers; `cache`: Redis; `rows`, `objects`, `key`, `size`, `charged`: database and storage; `status`, `task`, `next`, `attempts`: client |
| `UploadStore` | `stores/upload.store.ts` | `active`, `queue`: semaphore; `status`, `last`: tasks; `dekCache`, `controller`: the two maps; `loop`, `owner`: calls of `processTask` |
| `ShareAccess` | `SharesService` and its two public routes | `active`, `count`, `limit`, `locked`, `dated`: columns of `shares`; `cache`: Redis; `pc`, `summary`, `hasRow`: visitors; `step`, `loaded`: owner; `served`, `gone`: history, for the properties |
| `FileTree` | the requests that write `parent_id` and `deleted_at`, through the API and WebDAV | `rows`, `parent`, `trashed`, `folders`: `nodes`; `mpc`, `node`, `target`, `from`, `at`: moves; `kpc`, `root`, `found`, `level`: the others |
| `Drive` | the requests that write contents, versions, objects and usage, through the API, WebDAV, the administration and upload links | `row`, `chunks`, `versions`: tables; `store`: the storage; `used`: `users.used_bytes`; `link`: `file_requests`; `req`: a request as the list of awaits it has left, with what it has loaded; `received`, `regular`, `past`: history |
| `Accounts` | `AuthService`, `JwtStrategy`, `UsersService`, `OauthService`, the users of `AdminService` | `row`: `users`; `state`, `owner`, `hashed`: `devices`; `iats`: access tokens handed out; `marker`: Redis `force_logout`; `req`: requests with the row they loaded |
| `Verification` | verification codes, and the three other places that count wrong guesses | `sent`, `dead`, `used`: codes; `rate`, `fails`, `ttl`, `locked`: Redis; `req`: requests; `guard`: which of the four is tried; `won`, `wrong`: history |
| `Billing` | `PaymentService` and Stripe | `stripe`, `bought`, `events`: at Stripe; `sub`, `quota`: the two rows; `call`: webhooks; `latest`, `inOrder`, `failed`: history |
| `CollabRooms` | `CollaborationGateway` on several instances | `sess`, `rooms`, `subscribed`: the maps of an instance; `peers`: Redis; `conn`, `deadline`: sockets; `auth`: awaited answers; `inflight`: on its way through Redis; `got`, `drift`: history |
| `TokenRefresh` | the interceptors of `api/client.ts` | `call`: requests; `retried`: `_retry`; `isRefreshing`; `page` |
| `Preview` | `PreviewModal.tsx` with the master key of the auth store | `node`, `view`, `editing`, `text`, `saving`, `needPassword`, `blobUrl`: state of the component; `keysOff`: what the installed key handler knows; `load`, `save`, `derive`: promises; `content`, `listed`: server and list; `of`, `typed`, `lost`: history |
| `MC_*` | symmetry, sets of faults, and the compositions below | |
| `*_proofs` | theorems | |

Three of the `MC_` modules put components side by side in one specification that has
the variables of all: `MC_Liveness` (`ChunkUpload`, and `ShareAccess` by INSTANCE),
`MC_Browser` (`UploadStore`, `TokenRefresh`, `Preview`) and `MC_Drive` (`Drive`,
`Billing`, `Verification`). These components share no variable the properties read,
so interleaving them would only multiply states: a variable `part`, chosen at the start,
says which of them moves.

What was abstracted, and why no property sees it:

* `ChunkUpload`. A chunk has size 1. The bundle of keys that encrypts a chunk is the
  number of the task that made it. Faults are a constant, so that each run says what
  the environment may do: refuse (storage, missing parent), lose a reply, time out,
  abort at any await, fail a lookup or a Redis call, expire the entry. The OCR
  trigger and the audit log come after the last write.
* `UploadStore`. The bundle is named by the loop that derived it. A task is a file that
  is not empty. Progress figures do not feed back.
* `ShareAccess`. The terms of a link never change, so a summary is stale in its count
  alone. Password and expiry are subsets of links. `save` of an entity, in the ORM the
  code uses, reads the row again and writes the columns that differ: the count is
  either overwritten or not, and both are allowed. The counter of wrong
  passwords makes refusals, and a refusal is always possible.
* `FileTree`. Nodes live below a folder `Top` that is neither moved nor purged; moves
  out of and into the drive's root, where `parent_id` is null, are left out (how the
  ORM treats a null in a condition is not this code). Names become refusals that may
  happen, and a WebDAV path the node it resolves to. WebDAV's walk keeps a set of
  visited rows, which matters on a cycle only. The model lets a file that is moved
  by WebDAV be walked for, too: nothing is below a file, so the walk finds nothing.
  `LateTargets` allows a path that the first query does not resolve to be
  resolved by the second.
* `Drive`. A content is one object, its size and the number of its upload. Deleting or
  marking a subtree is one step here; its walk is in `FileTree`. A crash is not
  modelled, a storage that refuses is. The ghost `regular` remembers whether two requests
  have overlapped, a WebDAV MOVE has replaced a folder (its bytes are never given back)
  or something was copied below a file (nothing forbids it, and a purge of that file
  then gives back too little).
* `Accounts`. Names, addresses and their unique indexes; refusals of a code or of a
  confirmation are aborts. The clock spans less than the life of a token.
* `Verification`. One target. Which of several passwords was wrong does not matter.
* `Billing`. A quota is named by its plan. Customer ids and dates.
* `CollabRooms`. Payloads, and the hour after which a peer counter expires. Redis is modelled
  as the gateway means it: `subscribe(channel, fn)` registers a listener. (In ioredis
  the function is the callback of the command; whether messages arrive at all with the
  installed client is a question of that library.)
* `TokenRefresh`. Calls that are not refreshed (login, register, reset).
* `Preview`. Rendering, exports, files that are too large or locked. The list of
  files is the order of nothing: a turn goes to any other file.

## 3. The runs

Passing runs; the times are for two workers.

| Run | Bounds | Shows |
|---|---|---|
| `liveness`, 1 min | 1 task, 3 chunks, 2 handlers, 3 tries, storage refuses, replies get lost; 2 links, 1 visitor, 1 owner | `DoneIsReadable`, `TaskEnds`, and `ImplementsAtomicUpload`: with requests one after the other the handlers implement the abstract upload; `OneOpenLink`, `ClosingTakesEffect` |
| `upload_faults`, 0.5 min | 2 chunks, 2 nodes, 2 overlapping handlers, 3 tries, every fault | `AssembledIsComplete`, `AckedIsStored`, `RowsHaveObjects` |
| `browser`, 2 min | 1 task, 3 loops, 2 slots, 2 chunks, 2 tries; 4 calls; 2 documents, 1 picture, 1 text to type, 2 loads and 1 save under way | `SlotsAccounted`, `DoneMeansAllAcked`, `LiveTaskHasLoop`, `PendingStarts`, `HaltedFreesSlots`; `QueueIsServed`, `CallsSettle`; `SavedWhereTyped`, `UrlsAreRevoked` |
| `shares`, 3 min | 1 link with a cap of 1, any terms; 2 visitors, 1 owner; Redis and any call may fail | `OpenWithinLimit`, `ClosedLockedIsRefused`, `EndedIsRefused` |
| `tree`, 3 min | 3 nodes, 1 move and 1 other request at a time | `Acyclic`, `ParentsAreFolders`, `MoveEnds` |
| `accounts`, 3 min | 1 user, 2 devices, 2 requests, 2 passwords, lock after 1 failure, 2 seconds | `OldSessionsEnd`, `RevokedIsFinal`, `EndedSessionsServeNoOne` |
| `drive`, 2 min | 3 nodes, 2 requests at a time of 4, 3 uploads, 1 version kept; 2 paid plans, 5 events; 1 code, lock after 2 guesses | `VersionKeepsContent`, `FilesAreWhole`, `NeverOvercharged`, `LinkWithinLimit`; `QuotaFollowsPlan`, `InOrderSettles`; `CodeUsedOnce`, `GuessesBounded` |
| `collab`, 1.5 min | 3 sockets, 2 documents, 2 instances, 2 authentications at a time, 1 message, counters up to 3 | `OneRoomEach`, `PeersAreLive`, `DeliveredOnce` |

Why the bounds are enough: the errors these properties speak of need two requests on
one row, or one request and one change behind its back. Two handlers, two visitors, a
mover and a keeper, two requests of an account give every such pair; a second node is
what a Redis miss in mid-file takes; three tree nodes are what it takes to have a
folder moved below the grandchild of another, and to have a folder, a file in it and a
copy of that; three loops on two slots make one wait while two share a task. Two tries
already distinguish a first failure from the last one, one version kept makes the second
edit drop one. Five events are a checkout (two), a change of plan, and two more of
which one may end the subscription. Four calls make one lead, two wait and one come
late. Three sockets give a room with two members on one instance and one on the other.
One second more than the marker's is all `iat` has to be compared with. The
theorems below lift the bounds for the properties they name.

What a property leaves out is in its hypothesis, or in a constant of the run:

* `FilesAreWhole`, `NeverOvercharged`, `LinkWithinLimit` hold of requests that did not
  overlap (`regular`). Two purges of one folder subtract its bytes twice, two edits of
  one file charge by a size read before, two uploads save one count of a link.
* `drive` has the local storage, which gives every upload a name of its own and
  deletes nothing. With R2 versions lose their content (`drive_versions`), and a purge
  takes the objects a copy shares.
* `GuessesBounded` holds when Redis takes every write; a crash between INCR and EXPIRE
  leaves a counter that only a right guess or a lock clears.
* `browser` has a user who changes files when nothing is on its way (`Patient`). One who
  does not sees what was loaded for one file in the window of another, can save one
  file's text into another (the arrow buttons and the password box keep the editor's
  text), and leaks object URLs. Independently of that, `handleDeriveAndSave` calls the
  `handleSave` it was rendered with, which asks for the password a second time.
* `PeersAreLive` holds until a socket is let in where it is already, which counts it
  twice, or, once closed, for another document, which counts off a socket that has left.
* `QuotaFollowsPlan` excludes errors that were swallowed; `InOrderSettles` holds of events
  that arrive in order, since nothing in the handler compares their times.

Deadlock is checked in `tree`, where a new request can always come. The other runs
switch it off: an upload ends, and slots for tasks, links, sockets, devices, events run
out by the bounds.

Violation runs. Each checks one statement that a comment or a document makes, and TLC
shows how the code departs from it:

| Run | Statement | What happens |
|---|---|---|
| `upload_store_keys` | all chunks of a task are under one key | pause and resume during the derivation give two loops, and two bundles |
| `preview_keys` | no keys are captured while a text is edited | the key handler was installed before the editor was opened and does not know of it |
| `tree_cycle` | `parent_id` has no cycles | A into B and B into A at the same time |
| `drive_versions` | the last ten versions are kept | with R2 an edit overwrites the object that the version points to |

Four more counterexamples are a change of a constant away, and are not runs of their own:
`OneRowPerChunk` fails in `upload_faults` (a handler that timed out in the browser
and its retry both pass the idempotency check; the count of rows then exceeds the number of
chunks and the file is never assembled); `DoneIsReadable` fails in `liveness` with
`MaxTasks = 2` (a file added again after its first task failed goes on with that task's
node under a new key); `ServedWithinLimit` fails in `shares` (closing a link writes an
old count back while a visitor is past the check); `Acyclic` fails in `tree` with
`LateTargets = TRUE` (a WebDAV target that appears between its two lookups is not
walked for). `ApiMovesWhatItLoaded` holds in `tree`.

Fairness. `ChunkUpload`, `ShareAccess`, `FileTree`: a handler that has started is run
on by the event loop (weak fairness of its steps); a user need not do anything. In
`UploadStore` the loops are run on: timers fire, Web Crypto returns, and a request has
a time limit. In `TokenRefresh` every request is answered, if only by axios's time
limit, and the browser follows a change of location. In `ShareAccess` an entry reaches the
end of its time to live. No fairness is asked of a fault, nor of any particular outcome:
a handler's steps are one disjunction, and it may be refused each time. `MoveEnds` needs
no fairness between moves and the others: every step of a walk goes up, and what other
requests can move out of its way is finite. `CallsSettle` holds even if the server
answers 401 for ever: a waiting call is not marked and may go round again, but each
round uses up the call that leads it.

## 4. What is proved

TLAPS proves the following for every value of the constants that satisfies the
module's named assumption: any number of nodes, handlers, visitors, owners, chunks.

`ChunkUpload_proofs`: `UploadTypeCorrect`, `UploadAssembledIsComplete`,
`UploadAckedIsStored`, `UploadRowsHaveObjects`. The three properties are not
inductive. A handler past the index check has to know that the check still holds
(rows are only ever appended); a handler about to record a row that its object is
stored; a handler that answered 200 that the chunk it was asked for has a row.
Each invariant has a conjunct for the handlers at those awaits.

The second half of that module is about requests that follow one another (`OneAtATime`:
the faults are a refusal and a lost reply, so that the client awaits whatever is under
way). `TurnInv` says of the one handler what it knows at each await (`Frame`), of a file
that nothing is charged before it is assembled and that it has its rows and its key
from then on (`FileInv`), and of the whole that, until some file is assembled, every
chunk has gone to the node that Redis names and the request that brought the last one is
about to assemble it (`GatherInv`). The last needs that a file in which no chunk is
recorded twice and none is missing has as many rows as chunks (`RowsCount`, a
bijection). From it follow `UploadDoneIsReadable`, for a file that is added once, and
`UploadImplementsAtomic`: the initial states are initial states of `AtomicUpload`, where
`stored` counts the rows of a chunk (`RecordedOnce`: none or one); `CreateNode` is `Open`,
`SaveRow` is `Store`, `SetSize` is `Assemble`, `ChargeOwner` is `Charge`, and every other
step leaves all four variables alone. `DoneBesideLinks` and `LinksFollowEachOther` are about the
specification of the run `liveness`; the second assumes that one request of an owner
is handled at a time (`OneOwner`), which is what `OneOpenLink` is about: two overlapping
calls of createShare leave two links.

`ShareAccess_proofs`: `ShareTypeCorrect`, `ShareCountWithinLimit`,
`ShareOpenWithinLimit`, `ShareClosedLockedIsRefused`, `ShareEndedIsRefused`. The
cap (`CapInv`): the count in the row is at least what an open link has
served, and a count an owner has loaded is at most the count in the row; once the
link is closed it stays closed, so that the stale save no longer matters to the
property. The endings (`EndingInv`): what had ended the share when a request arrived
has still ended it, and no request past the check that looks for an ending
arrived after it.

`FileTree_proofs`: `TreeTypeCorrect`, `TreeParentsAreFolders`, `TreeAcyclic`. The
last assumes `OneMoveWalked`: at most one move at a time, and no late target. `tree_cycle`,
and `tree` with `LateTargets = TRUE`, show that neither half can be dropped. The invariant (`CycleInv`) keeps for
the move under way what its walk has established (`MoveFact`, `Climbed`): the rows the
walk has left behind lead nowhere but to each other, to the row it is at, or out of
the table, and the node to move is none of them. Other requests delete
rows, add leaves or write `deleted_at`, and preserve that; at the top nothing
leads from the target to the node, so the update closes no cycle. Only then is
`Acyclic` preserved by it.

`Drive_proofs`: `VersionsLast`, for the local storage (the hypothesis `Backend = "local"`;
`drive_versions` shows that it cannot be dropped). The invariant (`KeyInv`) says that
whatever refers to objects, a row, a version or a request that has loaded chunks,
refers to some that have been written, and that each version still has its content.
Every step either leaves the objects alone or writes one with a number not yet in use
(`Grows`), so that nothing referred to changes; the rest is that requests hand on
the objects they loaded (`Keyed`), through a plan of awaits that loads at most once.

`LinkHasItsLimit` and `FilesStayWhole` speak of requests that did not overlap, and the
proof has to say what a single request has left. Each request is on the way its operation
lays out (`Serial`: what is left of its awaits is one of the tails of that plan, and
while `regular` holds it is alone). For the link (`LinkInv`), a request past its look at the
row has the count of the row, and one past the count is a file that the count has and the
table has not. For the files (`WholeInv`), each await has its own fact (`Stage`): between
the removal of a chunk and its successor the file has none and the request has its
object; between the chunk and the size the file is as long as it was (`Unsized`) and the
request knows how long it will be; a copy works on rows that are as they were loaded
(`Current`). `FilesAreWhole` says of a file with a chunk that it has exactly one, whose
object is there and has the size of the file. `FilesStayWhole` assumes the local storage,
like `VersionsLast`, and that `None` is not a record with the fields of a request.

`OwnerNeverOvercharged` speaks of the same requests, with either storage, and its
hypothesis about `None` is the same one. `NeverOvercharged` compares the account with
the files between requests, and the difference is made up on the way. `PaidInv` says what
the difference is (`Owed`): the bytes of a file whose row has its size and which is yet
to be charged (`Ahead`), those a copy has added up, and those of a node that have been
given back while its rows are there (`Refunded`). `Steady` has what makes these figures
right: the row an edit is at still has the size that was loaded, the node to purge is as it
was loaded or has gone, and nothing is below a file or will be put there (`Upright`), so that
what goes with a file is that file. New folders, trash and restore go on beside
the request; what a purge is about to take away weighs no more after them (`WeighsLess`).
What a sum is after a row has come, changed or gone (`SumGrows`, `SumChanges`,
`SumShrinks`), and what is below a node when a folder has been created (`BelowGains`), take
induction, which is done here in first order: a set of naturals that has 0, and with
each number the next, has all (`HasAll`), because a set of naturals that is not empty has a
least element; the sets are those of the numbers, or of the subsets (`HasSubsets`), for which
the statement holds. That is why the nodes are finitely many (`NodesAssumption`).

`QuotaIsOfThePlan` and `OrderedEventsSettle` assume one webhook at a time (`OneWebhook`):
two that overlap may save the plan of one and then the quota of the other. `BillingInv`
says what Stripe has sent (`Sent`), what a call still has to do (`Handled`), that the
quota is that of the plan unless a call is about to set it (`PlanPaid`), and which plan
the newest event leads to (`Settling`).

These theorems are about `ServerSpec`, in which `Drive`, `Billing` and `Verification` stand
side by side; `ServerRunsDrive` carries what is proved of `Drive` over to it, and
`ServerUsesCodesOnce` and `ServerBoundsGuesses` what is proved in `Verification_proofs`,
which `Drive_proofs` takes by INSTANCE. The assumptions `RowAssumption`,
`BillingAssumption` and `VerificationAssumption` say of `None` that it is no row, link,
subscription, call or request, and of the last two that the requests are
finitely many and the limit is two or more; TLC evaluates them in `drive`.

`Accounts_proofs`: `TypeCorrect`, `RevokedStays`, `SessionsEnd`, `EndedServeNoOne`. A
device only advances, from no row to a row to its end, and its owner stays
(`Advance`). With that, three facts about requests are stable (`ReqInv`): a request has
the row or the device its next step needs; the sessions it has to end are its
user's, and have ended once it is past ending them; and one past the look at its
device did not come after that device's end.

`Verification_proofs`: `TypeCorrect`, `OnlyOnce`, `FewWrongGuesses`. A code that is not
marked has been accepted by no one, and marking it is one conditional update. The
bound on guesses (`BoundInv`) counts requests by their await. While there is no lock,
every wrong guess has been counted or is about to be, and the counter is below the
limit but for the requests about to lock; while there is one, no guess begins, and
each that still looks may turn out wrong. The step that locks carries the first
over into the second. The theorem assumes `BoundAssumption` (finitely many requests, a limit
of two or more, `None` no request) and, in the property, a Redis that takes every write.

`CollabRooms_proofs`: `TypeCorrect`, `OneRoom`, `PeersCounted`, `Delivered`. What
joining and leaving do to sessions, rooms and counters is a function of these maps
(`Worlds`), and two lemmas say what it does to each room. `RoomInv` adds to the two properties that an open socket
with a session is in its room, and that rooms are finite. `DeliveryInv` follows a
message: what is still on its way to an instance has been delivered to none of that
instance's sockets.

`Browser_proofs`, about `BrowserSpec`, in which the three stores of the browser stand side by
side. `QueueServed` is inductive with the types.

`StoreSafe` is the invariant of the upload list, from which `SlotsAreAccounted`,
`DoneIsAcked` and `LiveTasksAreLed` follow. `StoreInv` ties three things to each other that
the code keeps in different places: the loops that run, the tickets of the queue
(`Ticketed`: those of the loops that wait, once each, so that a released slot is handed to
one), and the maps of the tasks (`Owned`: the controller of a task aborts a loop of that
task). What a loop counts as sent, and what a resume skips, has been accepted
(`AckedSoFar`), also when two loops of one task take turns in writing `last`. A live
task has a loop that will move it on (`Led`); it is stronger than the property in that
a loop whose try has been aborted does not count, for this loop will stop. Counting slots
uses the cardinality of the loops at work, which each step changes by at most one.

`PreviewSafe` is the invariant of the preview, with `TextsStayInTheirFiles` and `NoUrlIsLost`.
Under `Patient`, everything that is under way (loads, saves, the derivation of the key),
the editor and the password box belong to the file that is shown (`SameFile`), and a load
that will make an object URL is the only one, at a time when there is no URL (`OneUrl`).
`PreviewAssumption` says that `None` is not a file.

Only model-checked: liveness (`TaskEnds`, `PendingStarts`, `HaltedFreesSlots`,
`ClosingTakesEffect`, `MoveEnds`, `CallsSettle`), which speaks of ENABLED and is out of the
prover's reach. Every invariant and every action property that a passing run checks is
proved. No module uses a recursive operator, whose definition the provers do not
see: `Below` in `FileTree` is a least fixed point, written with a quantifier over sets of
rows, `Subtree` in `Drive` a recursive function, and `Total` a fold.

## 5. What is not modelled

`PROJECT.json` lists every component with its reason, and under `hazards` what each is
exposed to, the ones without a model included. Left out: the ciphers (stateless), pages
that mirror the server's replies, I/O (mail, OCR, export, search, the worker's
relay), the desktop client's one flag, the archived Python server. These are most of the
repository's lines: translations, layout, controllers that pass a request on, entities,
statistics. What keeps state across an await is in a module, with these exceptions inside
the modelled components: the counters of wrong share passwords and of WebDAV
logins, names and tags, thumbnails and texts for the search, the audit log, the
configuration table.

## 6. Plan

1. `ShareAccess` over `FileTree`: a share of a folder and of a node that is trashed with
   its folder; reachability of live nodes.
2. `UploadStore` over `ChunkUpload`: the list with the real handlers in place of
   the set of accepted chunks.
3. The synchronisation flag of the desktop client, should it get an engine that runs on.
