---------------------------- MODULE CollabRooms -----------------------------
(***************************************************************************)
(* Collaborative editing: the rooms of CollaborationGateway on several     *)
(* server instances, and the Redis channels that join them.  A socket asks *)
(* for a document with a token; whether it may have it is awaited, and     *)
(* what follows is done at once.  A message goes to the room on the same   *)
(* instance and, over the channel of the document, to those on the others. *)
(*                                                                         *)
(* Redis is taken as the gateway uses it: what subscribe is given is the   *)
(* listener of the channel, and unsubscribe removes it.  Payloads, their   *)
(* size limit and failures of Redis are left out, and so is the hour after *)
(* which a counter of peers expires.  What makes verifyToken and           *)
(* canAccessDoc say yes or no is, too: the answer may be either.           *)
(***************************************************************************)
EXTENDS Integers, FiniteSets

CONSTANTS
  Sockets,   \* connections, never used twice
  Docs,
  Instances, \* server processes
  Auths,     \* auth messages handled at a time
  Messages,  \* bounds the sync and awareness messages sent
  MaxPeers,  \* bound on the counters of peers
  None       \* no session, no message, no auth

VARIABLES
  home,       \* the instance a socket is connected to
  conn,       \* conn[c]: "new", "open" or "closed"
  deadline,   \* sockets whose authentication deadline is running
  sess,       \* sess[c]: the document of the session, None without one
  rooms,      \* rooms[i][d]: the members of the room; no room when empty
  subscribed, \* subscribed[i]: the documents whose channel i is subscribed to
  peers,      \* collab:peers:{doc}
  auth,       \* the auth messages whose answer is awaited
  msg,        \* the messages sent
  drift,      \* a socket has joined the room it was in, or, closed, another one
  inflight,   \* <<message, instance>> on its way from Redis
  got         \* got[c]: the messages socket c was sent, with how often

roomVars == <<rooms, subscribed, peers, drift>>
socketVars == <<home, conn, deadline, sess>>
msgVars == <<msg, inflight, got>>
vars == <<roomVars, socketVars, auth, msgVars>>

Auth == [socket : Sockets, doc : Docs]
Message == [sender : Sockets, doc : Docs, from : Instances]

ASSUME CollabAssumption == None \notin Docs \union Message /\ MaxPeers \in Nat

TypeOK ==
  /\ home \in [Sockets -> Instances]
  /\ conn \in [Sockets -> {"new", "open", "closed"}]
  /\ deadline \subseteq Sockets
  /\ sess \in [Sockets -> Docs \union {None}]
  /\ rooms \in [Instances -> [Docs -> SUBSET Sockets]]
  /\ subscribed \in [Instances -> SUBSET Docs]
  /\ peers \in [Docs -> Int]
  /\ drift \in BOOLEAN
  /\ auth \in [Auths -> Auth \union {None}]
  /\ msg \in [Messages -> Message \union {None}]
  /\ inflight \subseteq Messages \X Instances
  /\ got \in [Sockets -> [Messages -> Nat]]

Init ==
  /\ home \in [Sockets -> Instances]
  /\ conn = [c \in Sockets |-> "new"]
  /\ deadline = {}
  /\ sess = [c \in Sockets |-> None]
  /\ rooms = [i \in Instances |-> [d \in Docs |-> {}]]
  /\ subscribed = [i \in Instances |-> {}]
  /\ peers = [d \in Docs |-> 0]
  /\ drift = FALSE
  /\ auth = [a \in Auths |-> None]
  /\ msg = [m \in Messages |-> None]
  /\ inflight = {}
  /\ got = [c \in Sockets |-> [m \in Messages |-> 0]]

-----------------------------------------------------------------------------
\* Rooms.  A socket that changes rooms leaves one and joins one in one step, so
\* that leaveRoom and joinRoom are functions from rooms, channels and counters to
\* those after it.

World == [rooms |-> rooms, subscribed |-> subscribed, peers |-> peers]

\* Variant: the last member of a room is not counted off.
LeaveUncounted(w, c, d) ==
  LET i == home[c]
      room == w.rooms[i][d]
  IN  [w EXCEPT !.rooms[i][d] = room \ {c},
                !.subscribed[i] = IF room \subseteq {c} THEN @ \ {d} ELSE @,
                !.peers[d] = IF room \subseteq {c} THEN @ ELSE @ - 1]

\* The last member gives the channel up.  One peer less is counted if there is a
\* room, whether or not c is in it.
LeaveRoom(w, c, d) ==
  LET i == home[c]
      room == w.rooms[i][d]
  IN  [w EXCEPT !.rooms[i][d] = room \ {c},
                !.subscribed[i] = IF room \subseteq {c} THEN @ \ {d} ELSE @,
                !.peers[d] = IF room = {} THEN @ ELSE @ - 1]

\* The first member subscribes to the channel.  One peer more is counted, of a
\* member as well.
JoinRoom(w, c, d) ==
  [w EXCEPT !.rooms[home[c]][d] = @ \union {c},
            !.subscribed[home[c]] = @ \union {d},
            !.peers[d] = @ + 1]

Become(w) == rooms' = w.rooms /\ subscribed' = w.subscribed /\ peers' = w.peers

-----------------------------------------------------------------------------
\* Connections

\* handleConnection
Connect(c) ==
  /\ conn[c] = "new"
  /\ conn' = [conn EXCEPT ![c] = "open"]
  /\ deadline' = deadline \union {c}
  /\ UNCHANGED <<roomVars, home, sess, auth, msgVars>>

\* The socket is closed, and handleDisconnect runs if it was not.
CloseSocket(c) ==
  /\ conn' = [conn EXCEPT ![c] = "closed"]
  /\ IF conn[c] = "open" /\ sess[c] # None
     THEN Become(LeaveRoom(World, c, sess[c])) /\ UNCHANGED drift
     ELSE UNCHANGED roomVars

\* The other end closes, or the connection breaks.
Close(c) ==
  /\ conn[c] = "open"
  /\ CloseSocket(c)
  /\ UNCHANGED <<home, deadline, sess, auth, msgVars>>

\* The deadline closes a socket without a session.
Deadline(c) ==
  /\ c \in deadline
  /\ deadline' = deadline \ {c}
  /\ IF sess[c] = None THEN CloseSocket(c) ELSE UNCHANGED <<conn, roomVars>>
  /\ UNCHANGED <<home, sess, auth, msgVars>>

-----------------------------------------------------------------------------
\* handleAuth

\* The checks of the token and of the access to the document are awaited.
BeginAuth(a, c) ==
  /\ auth[a] = None
  /\ conn[c] = "open"
  /\ \E d \in Docs : auth' = [auth EXCEPT ![a] = [socket |-> c, doc |-> d]]
  /\ UNCHANGED <<roomVars, socketVars, msgVars>>

\* The answer is no: the socket is closed, whatever session it has.
Forbid(a) ==
  /\ auth[a] # None
  /\ CloseSocket(auth[a].socket)
  /\ auth' = [auth EXCEPT ![a] = None]
  /\ UNCHANGED <<home, deadline, sess, msgVars>>

\* The new session of socket c, for document d, in the rooms of w
Welcome(a, c, d, w) ==
  /\ w.peers[d] < MaxPeers
  /\ drift' = \/ drift
              \/ c \in rooms[home[c]][d]
              \/ conn[c] = "closed" /\ sess[c] \notin {None, d}
  /\ Become(JoinRoom(w, c, d))
  /\ sess' = [sess EXCEPT ![c] = d]
  /\ deadline' = deadline \ {c}
  /\ auth' = [auth EXCEPT ![a] = None]
  /\ UNCHANGED <<home, conn, msgVars>>

\* Variant: the room of the document edited before is not left.
JoinToo(a) ==
  /\ auth[a] # None
  /\ Welcome(a, auth[a].socket, auth[a].doc, World)

\* The answer is yes: the rest of handleAuth, for an open socket or a closed one.
Join(a) ==
  /\ auth[a] # None
  /\ LET c == auth[a].socket
         d == auth[a].doc
     IN  Welcome(a, c, d, IF sess[c] \in Docs \ {d} THEN LeaveRoom(World, c, sess[c])
                          ELSE World)

-----------------------------------------------------------------------------
\* Messages

Open(S) == {c \in S : conn[c] = "open"}

\* S is sent message m.
Send(m, S) ==
  got' = [c \in Sockets |-> IF c \in S THEN [got[c] EXCEPT ![m] = @ + 1] ELSE got[c]]

\* handleSync and handleAwareness: broadcastLocal, then publishRedis, which
\* reaches the instances that are subscribed.
Publish(m, c) ==
  LET i == home[c]
      d == sess[c]
  IN  /\ msg[m] = None
      /\ conn[c] = "open"
      /\ d # None
      /\ msg' = [msg EXCEPT ![m] = [sender |-> c, doc |-> d, from |-> i]]
      /\ Send(m, Open(rooms[i][d]) \ {c})
      /\ inflight' = inflight \union {<<m, j>> : j \in {j \in Instances : d \in subscribed[j]}}
      /\ UNCHANGED <<roomVars, socketVars, auth>>

\* Variant: the instance that published the message does not skip it.
ReceiveAll(m, j) ==
  /\ <<m, j>> \in inflight
  /\ inflight' = inflight \ {<<m, j>>}
  /\ IF msg[m].doc \in subscribed[j]
     THEN Send(m, Open(rooms[j][msg[m].doc])) ELSE UNCHANGED got
  /\ UNCHANGED <<roomVars, socketVars, auth, msg>>

\* The listener of subscribeRedis, gone if the channel was left meanwhile
Receive(m, j) ==
  /\ <<m, j>> \in inflight
  /\ inflight' = inflight \ {<<m, j>>}
  /\ IF msg[m].doc \in subscribed[j] /\ msg[m].from # j
     THEN Send(m, Open(rooms[j][msg[m].doc])) ELSE UNCHANGED got
  /\ UNCHANGED <<roomVars, socketVars, auth, msg>>

Next ==
  \/ \E c \in Sockets :
       \/ Connect(c)
       \/ Close(c)
       \/ Deadline(c)
       \/ \E a \in Auths : BeginAuth(a, c)
       \/ \E m \in Messages : Publish(m, c)
  \/ \E a \in Auths : Forbid(a) \/ Join(a)
  \/ \E m \in Messages, i \in Instances : Receive(m, i)

Spec == Init /\ [][Next]_vars

-----------------------------------------------------------------------------
\* Correctness

\* A socket is a member of one room at most, that of the document of its
\* session, on its own instance: authentications of one socket for several
\* documents overlap with each other and with its closing.
OneRoomEach ==
  \A i \in Instances, d \in Docs : \A c \in rooms[i][d] : home[c] = i /\ sess[c] = d

\* The counter of a document's peers, which the instances share and no one ever
\* sets, is the number of sockets in its rooms: sockets come to it, leave it for
\* another one and close while they are let in.  It drifts when a socket is let in
\* where it is already, or for another document once it is closed.
PeersAreLive ==
  ~drift => \A d \in Docs : peers[d] = Cardinality(UNION {rooms[i][d] : i \in Instances})

\* A message reaches a socket at most once, and never the one that sent it:
\* members of the sender's room are served directly, and the same message comes
\* back over Redis.
DeliveredOnce ==
  \A c \in Sockets, m \in Messages :
    got[c][m] <= IF msg[m] # None /\ msg[m].sender = c THEN 0 ELSE 1
=============================================================================
