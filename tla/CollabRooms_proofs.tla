------------------------- MODULE CollabRooms_proofs -------------------------
(***************************************************************************)
(* Proofs about CollabRooms, for any number of sockets, documents, server  *)
(* instances and messages: a socket is in one room, peers are counted, and *)
(* a message reaches a socket once.                                        *)
(***************************************************************************)
EXTENDS CollabRooms, FiniteSetTheorems, TLAPS

Worlds == [rooms : [Instances -> [Docs -> SUBSET Sockets]],
           subscribed : [Instances -> SUBSET Docs],
           peers : [Docs -> Int]]

\* What leaveRoom does: one member less, and one peer less if there is a room.
LEMMA LeaveFacts ==
  ASSUME NEW w \in Worlds, NEW c \in Sockets, NEW d \in Docs, home[c] \in Instances,
         NEW v, v = LeaveRoom(w, c, d)
  PROVE  /\ v \in Worlds
         /\ \A i \in Instances, e \in Docs, x \in Sockets :
              x \in v.rooms[i][e] <=> x \in w.rooms[i][e] /\ ~(x = c /\ i = home[c] /\ e = d)
         /\ \A e \in Docs : v.peers[e] = IF e = d /\ w.rooms[home[c]][d] # {} THEN w.peers[e] - 1
                                        ELSE w.peers[e]
<1> DEFINE room == w.rooms[home[c]][d]
           R == [w.rooms EXCEPT ![home[c]][d] = room \ {c}]
           S == [w.subscribed EXCEPT ![home[c]] = IF room \subseteq {c} THEN @ \ {d} ELSE @]
           P == [w.peers EXCEPT ![d] = IF room = {} THEN @ ELSE @ - 1]
<1>1. /\ w.rooms \in [Instances -> [Docs -> SUBSET Sockets]]
      /\ w.subscribed \in [Instances -> SUBSET Docs]
      /\ w.peers \in [Docs -> Int]
  BY DEF Worlds
<1>2. v = [w EXCEPT !.rooms = R, !.subscribed = S, !.peers = P]
  BY DEF LeaveRoom
<1>3. R \in [Instances -> [Docs -> SUBSET Sockets]]
  BY <1>1
<1>4. S \in [Instances -> SUBSET Docs]
  BY <1>1
<1>5. P \in [Docs -> Int]
  BY <1>1
<1>6. ASSUME NEW i \in Instances, NEW e \in Docs, NEW x \in Sockets
      PROVE  x \in R[i][e] <=> x \in w.rooms[i][e] /\ ~(x = c /\ i = home[c] /\ e = d)
  BY <1>1
<1>7. \A e \in Docs : P[e] = IF e = d /\ w.rooms[home[c]][d] # {} THEN w.peers[e] - 1
                                        ELSE w.peers[e]
  BY <1>1
<1> HIDE DEF R, S, P
<1>8. v \in Worlds /\ v.rooms = R /\ v.peers = P
  BY <1>2, <1>3, <1>4, <1>5 DEF Worlds
<1>9. QED
  BY <1>6, <1>7, <1>8

\* With a room to leave, one peer less is counted.
LEMMA LeaveCounts ==
  ASSUME NEW w \in Worlds, NEW c \in Sockets, NEW d \in Docs, home[c] \in Instances,
         w.rooms[home[c]][d] # {}
  PROVE  /\ LeaveRoom(w, c, d).peers[d] = w.peers[d] - 1
         /\ \A e \in Docs \ {d} : LeaveRoom(w, c, d).peers[e] = w.peers[e]
BY LeaveFacts

\* What joinRoom does: one member and one peer more.
LEMMA JoinFacts ==
  ASSUME NEW w \in Worlds, NEW c \in Sockets, NEW d \in Docs, home[c] \in Instances,
         NEW v, v = JoinRoom(w, c, d)
  PROVE  /\ v \in Worlds
         /\ \A i \in Instances, e \in Docs, x \in Sockets :
              x \in v.rooms[i][e] <=> x \in w.rooms[i][e] \/ (x = c /\ i = home[c] /\ e = d)
         /\ \A e \in Docs : v.peers[e] = IF e = d THEN w.peers[e] + 1 ELSE w.peers[e]
<1> DEFINE room == w.rooms[home[c]][d]
           R == [w.rooms EXCEPT ![home[c]][d] = room \union {c}]
           S == [w.subscribed EXCEPT ![home[c]] = @ \union {d}]
           P == [w.peers EXCEPT ![d] = @ + 1]
<1>1. /\ w.rooms \in [Instances -> [Docs -> SUBSET Sockets]]
      /\ w.subscribed \in [Instances -> SUBSET Docs]
      /\ w.peers \in [Docs -> Int]
  BY DEF Worlds
<1>2. v = [w EXCEPT !.rooms = R, !.subscribed = S, !.peers = P]
  BY DEF JoinRoom
<1>3. R \in [Instances -> [Docs -> SUBSET Sockets]]
  BY <1>1
<1>4. S \in [Instances -> SUBSET Docs]
  BY <1>1
<1>5. P \in [Docs -> Int]
  BY <1>1
<1>6. ASSUME NEW i \in Instances, NEW e \in Docs, NEW x \in Sockets
      PROVE  x \in R[i][e] <=> x \in w.rooms[i][e] \/ (x = c /\ i = home[c] /\ e = d)
  BY <1>1
<1>7. \A e \in Docs : P[e] = IF e = d THEN w.peers[e] + 1 ELSE w.peers[e]
  BY <1>1
<1> HIDE DEF R, S, P
<1>8. v \in Worlds /\ v.rooms = R /\ v.peers = P
  BY <1>2, <1>3, <1>4, <1>5 DEF Worlds
<1>9. QED
  BY <1>6, <1>7, <1>8

-----------------------------------------------------------------------------
\* Typing.  A socket that has not connected has no session and asks for none.

Fresh ==
  \A c \in Sockets : conn[c] = "new" =>
    sess[c] = None /\ \A a \in Auths : auth[a] # None => auth[a].socket # c

\* The rooms of the state are a world.
LEMMA WorldTypes ==
  ASSUME TypeOK
  PROVE  /\ World \in Worlds
         /\ World.rooms = rooms /\ World.peers = peers
BY DEF TypeOK, World, Worlds

\* The state becomes a world.
LEMMA BecomeTypes ==
  ASSUME NEW w \in Worlds, Become(w)
  PROVE  /\ rooms' \in [Instances -> [Docs -> SUBSET Sockets]]
         /\ subscribed' \in [Instances -> SUBSET Docs]
         /\ peers' \in [Docs -> Int]
BY DEF Become, Worlds

\* Closing a socket types the room variables and opens nothing.
LEMMA CloseTypes ==
  ASSUME TypeOK, NEW c \in Sockets, CloseSocket(c)
  PROVE  /\ rooms' \in [Instances -> [Docs -> SUBSET Sockets]]
         /\ subscribed' \in [Instances -> SUBSET Docs]
         /\ peers' \in [Docs -> Int]
         /\ drift' \in BOOLEAN
         /\ conn' \in [Sockets -> {"new", "open", "closed"}]
         /\ \A x \in Sockets : conn'[x] = IF x = c THEN "closed" ELSE conn[x]
<1>1. /\ conn' \in [Sockets -> {"new", "open", "closed"}]
      /\ \A x \in Sockets : conn'[x] = IF x = c THEN "closed" ELSE conn[x]
  BY DEF CloseSocket, TypeOK
<1>2. CASE conn[c] = "open" /\ sess[c] # None
  <2>1. sess[c] \in Docs /\ home[c] \in Instances
    BY <1>2 DEF TypeOK
  <2>2. LeaveRoom(World, c, sess[c]) \in Worlds
    BY <2>1, WorldTypes, LeaveFacts
  <2>3. Become(LeaveRoom(World, c, sess[c])) /\ UNCHANGED drift
    BY <1>2 DEF CloseSocket
  <2>4. QED
    BY <1>1, <2>2, <2>3, BecomeTypes DEF TypeOK
<1>3. CASE ~(conn[c] = "open" /\ sess[c] # None)
  BY <1>1, <1>3 DEF CloseSocket, TypeOK, roomVars
<1>4. QED
  BY <1>2, <1>3

\* The room that the socket of an answer leaves when it is let in to document d
Left(c, d) ==
  IF sess[c] \in Docs \ {d} THEN LeaveRoom(World, c, sess[c]) ELSE World

\* Answers are about sockets and documents.
LEMMA JoinTypes ==
  ASSUME TypeOK, NEW a \in Auths, Join(a)
  PROVE  /\ auth[a] \in Auth
         /\ auth[a].socket \in Sockets /\ auth[a].doc \in Docs
         /\ home[auth[a].socket] \in Instances
         /\ Left(auth[a].socket, auth[a].doc) \in Worlds
         /\ Welcome(a, auth[a].socket, auth[a].doc, Left(auth[a].socket, auth[a].doc))
<1>1. /\ auth[a] \in Auth
      /\ auth[a].socket \in Sockets /\ auth[a].doc \in Docs
      /\ home[auth[a].socket] \in Instances
  BY DEF Join, TypeOK, Auth
<1>2. Left(auth[a].socket, auth[a].doc) \in Worlds
  BY <1>1, WorldTypes, LeaveFacts DEF Left
<1>3. QED
  BY <1>1, <1>2 DEF Join, Left

\* One step keeps the state well formed.
LEMMA TypeStep == TypeOK /\ Fresh /\ [Next]_vars => TypeOK' /\ Fresh'
<1> SUFFICES ASSUME TypeOK, Fresh, [Next]_vars
             PROVE  TypeOK' /\ Fresh'
  OBVIOUS
<1>1. ASSUME NEW c \in Sockets, Connect(c)
      PROVE  TypeOK' /\ Fresh'
  BY <1>1 DEF Connect, TypeOK, Fresh, roomVars, msgVars
<1>2. ASSUME NEW c \in Sockets, Close(c)
      PROVE  TypeOK' /\ Fresh'
  BY <1>2, CloseTypes DEF Close, TypeOK, Fresh, msgVars
<1>3. ASSUME NEW c \in Sockets, Deadline(c)
      PROVE  TypeOK' /\ Fresh'
  <2>1. CASE sess[c] = None
    BY <1>3, <2>1, CloseTypes DEF Deadline, TypeOK, Fresh, msgVars
  <2>2. CASE sess[c] # None
    BY <1>3, <2>2 DEF Deadline, TypeOK, Fresh, roomVars, msgVars
  <2>3. QED
    BY <2>1, <2>2
<1>4. ASSUME NEW a \in Auths, NEW c \in Sockets, BeginAuth(a, c)
      PROVE  TypeOK' /\ Fresh'
  <2>1. PICK d \in Docs : auth' = [auth EXCEPT ![a] = [socket |-> c, doc |-> d]]
    BY <1>4 DEF BeginAuth
  <2>2. auth' \in [Auths -> Auth \union {None}]
    BY <2>1 DEF TypeOK, Auth
  <2>3. \A b \in Auths : auth'[b] = auth[b] \/ auth'[b].socket = c
    BY <2>1 DEF TypeOK
  <2>4. conn[c] = "open" /\ UNCHANGED <<roomVars, socketVars, msgVars>>
    BY <1>4 DEF BeginAuth
  <2>5. TypeOK'
    BY <2>2, <2>4 DEF TypeOK, roomVars, socketVars, msgVars
  <2>6. Fresh'
    BY <2>3, <2>4 DEF Fresh, socketVars
  <2>7. QED
    BY <2>5, <2>6
<1>5. ASSUME NEW a \in Auths, Forbid(a)
      PROVE  TypeOK' /\ Fresh'
  <2>1. auth[a].socket \in Sockets
    BY <1>5 DEF Forbid, TypeOK, Auth
  <2>2. QED
    BY <1>5, <2>1, CloseTypes DEF Forbid, TypeOK, Fresh, msgVars
<1>6. ASSUME NEW a \in Auths, Join(a)
      PROVE  TypeOK' /\ Fresh'
  <2> DEFINE c == auth[a].socket
             d == auth[a].doc
  <2>1. /\ c \in Sockets /\ d \in Docs /\ home[c] \in Instances
        /\ Left(c, d) \in Worlds
        /\ Welcome(a, c, d, Left(c, d))
    BY <1>6, JoinTypes
  <2>2. JoinRoom(Left(c, d), c, d) \in Worlds
    BY <2>1, JoinFacts
  <2>3. Become(JoinRoom(Left(c, d), c, d))
    BY <2>1 DEF Welcome
  <2>4. conn[c] # "new"
    BY <1>6, <2>1 DEF Join, Fresh
  <2>5. drift' \in BOOLEAN
    BY <2>1 DEF Welcome
  <2>6. /\ sess' = [sess EXCEPT ![c] = d]
        /\ deadline' = deadline \ {c}
        /\ auth' = [auth EXCEPT ![a] = None]
        /\ UNCHANGED <<home, conn, msgVars>>
    BY <2>1 DEF Welcome
  <2> HIDE DEF c, d
  <2>7. TypeOK'
    BY <2>1, <2>2, <2>3, <2>5, <2>6, BecomeTypes DEF TypeOK, msgVars
  <2>8. Fresh'
    BY <2>1, <2>4, <2>6 DEF Fresh, TypeOK
  <2>9. QED
    BY <2>7, <2>8
<1>7. ASSUME NEW c \in Sockets, NEW m \in Messages, Publish(m, c)
      PROVE  TypeOK' /\ Fresh'
  BY <1>7 DEF Publish, Send, TypeOK, Fresh, Message, roomVars, socketVars
<1>8. ASSUME NEW m \in Messages, NEW j \in Instances, Receive(m, j)
      PROVE  TypeOK' /\ Fresh'
  BY <1>8 DEF Receive, Send, TypeOK, Fresh, roomVars, socketVars
<1>9. CASE UNCHANGED vars
  BY <1>9 DEF vars, roomVars, socketVars, msgVars, TypeOK, Fresh
<1>10. QED
  BY <1>1, <1>2, <1>3, <1>4, <1>5, <1>6, <1>7, <1>8, <1>9 DEF Next

\* The state stays well formed, and no socket has a session before it connects.
LEMMA TypesHold == Spec => [](TypeOK /\ Fresh)
<1>1. Init => TypeOK
  <2> SUFFICES ASSUME Init
               PROVE  TypeOK
    OBVIOUS
  <2>1. rooms \in [Instances -> [Docs -> SUBSET Sockets]]
    BY DEF Init
  <2>2. got \in [Sockets -> [Messages -> Nat]]
    BY DEF Init
  <2>3. /\ conn \in [Sockets -> {"new", "open", "closed"}]
        /\ sess \in [Sockets -> Docs \union {None}]
        /\ subscribed \in [Instances -> SUBSET Docs]
        /\ peers \in [Docs -> Int]
    BY DEF Init
  <2>4. /\ auth \in [Auths -> Auth \union {None}]
        /\ msg \in [Messages -> Message \union {None}]
    BY DEF Init
  <2>5. QED
    BY <2>1, <2>2, <2>3, <2>4 DEF Init, TypeOK
<1>2. Init => Fresh
  BY DEF Init, Fresh
<1>3. QED
  BY <1>1, <1>2, TypeStep, PTL DEF Spec

\* The state of the gateway stays well formed, on any number of instances.
THEOREM TypeCorrect == Spec => []TypeOK
BY TypesHold, PTL

-----------------------------------------------------------------------------
\* Rooms and peers

\* The members of document d in world w, on all instances
MembersIn(w, d) == UNION {w.rooms[i][d] : i \in Instances}
Members(d) == UNION {rooms[i][d] : i \in Instances}

\* An open socket with a session is in its room, so that it is counted off when it
\* leaves.
Present ==
  \A c \in Sockets :
    conn[c] = "open" /\ sess[c] # None => c \in rooms[home[c]][sess[c]]

FiniteMembers == \A d \in Docs : IsFiniteSet(Members(d))

RoomInv == OneRoomEach /\ Present /\ FiniteMembers /\ PeersAreLive

\* leaveRoom takes a socket that is in no room of another instance off its document.
LEMMA LeaveMembers ==
  ASSUME NEW w \in Worlds, NEW c \in Sockets, NEW d \in Docs, home[c] \in Instances,
         NEW v, v = LeaveRoom(w, c, d),
         \A i \in Instances : c \in w.rooms[i][d] => home[c] = i
  PROVE  /\ MembersIn(v, d) = MembersIn(w, d) \ {c}
         /\ \A e \in Docs \ {d} : MembersIn(v, e) = MembersIn(w, e)
<1>1. /\ w.rooms \in [Instances -> [Docs -> SUBSET Sockets]]
      /\ v.rooms \in [Instances -> [Docs -> SUBSET Sockets]]
  BY LeaveFacts DEF Worlds
<1>2. \A i \in Instances, e \in Docs, x \in Sockets :
        x \in v.rooms[i][e] <=> x \in w.rooms[i][e] /\ ~(x = c /\ i = home[c] /\ e = d)
  BY LeaveFacts
<1>3. ASSUME NEW e \in Docs, NEW x \in Sockets
      PROVE  x \in MembersIn(v, e) <=> x \in MembersIn(w, e) /\ ~(x = c /\ e = d)
  BY <1>2 DEF MembersIn
<1>4. \A e \in Docs : MembersIn(v, e) \subseteq Sockets /\ MembersIn(w, e) \subseteq Sockets
  BY <1>1 DEF MembersIn
<1>5. QED
  BY <1>3, <1>4

\* joinRoom adds a socket to its document.
LEMMA JoinMembers ==
  ASSUME NEW w \in Worlds, NEW c \in Sockets, NEW d \in Docs, home[c] \in Instances,
         NEW v, v = JoinRoom(w, c, d)
  PROVE  /\ MembersIn(v, d) = MembersIn(w, d) \union {c}
         /\ \A e \in Docs \ {d} : MembersIn(v, e) = MembersIn(w, e)
<1>1. /\ w.rooms \in [Instances -> [Docs -> SUBSET Sockets]]
      /\ v.rooms \in [Instances -> [Docs -> SUBSET Sockets]]
  BY JoinFacts DEF Worlds
<1>2. \A i \in Instances, e \in Docs, x \in Sockets :
        x \in v.rooms[i][e] <=> x \in w.rooms[i][e] \/ (x = c /\ i = home[c] /\ e = d)
  BY JoinFacts
<1>3. ASSUME NEW e \in Docs, NEW x \in Sockets
      PROVE  x \in MembersIn(v, e) <=> x \in MembersIn(w, e) \/ (x = c /\ e = d)
  BY <1>2 DEF MembersIn
<1>4. \A e \in Docs : MembersIn(v, e) \subseteq Sockets /\ MembersIn(w, e) \subseteq Sockets
  BY <1>1 DEF MembersIn
<1>5. QED
  BY <1>3, <1>4

\* Nothing changes in the rooms, and no socket that has a session opens.
LEMMA RoomsStay ==
  ASSUME RoomInv, UNCHANGED <<home, sess, rooms, peers, drift>>,
         \A c \in Sockets : conn'[c] = "open" => conn[c] = "open" \/ sess[c] = None
  PROVE  RoomInv'
BY DEF RoomInv, OneRoomEach, Present, FiniteMembers, Members, PeersAreLive

\* Closing a socket counts it off where it was counted.
LEMMA CloseKeeps ==
  ASSUME TypeOK, RoomInv, NEW c \in Sockets, CloseSocket(c), UNCHANGED <<home, sess>>
  PROVE  RoomInv'
<1>0. rooms' \in [Instances -> [Docs -> SUBSET Sockets]]
  BY CloseTypes
<1>1. \A x \in Sockets : conn'[x] = IF x = c THEN "closed" ELSE conn[x]
  BY CloseTypes
<1>2. CASE ~(conn[c] = "open" /\ sess[c] # None)
  BY <1>1, <1>2, RoomsStay DEF CloseSocket, roomVars
<1>3. CASE conn[c] = "open" /\ sess[c] # None
  <2>0. PICK d \in Docs : d = sess[c]
    BY <1>3 DEF TypeOK
  <2> DEFINE v == LeaveRoom(World, c, d)
  <2>1. /\ home[c] \in Instances
        /\ World \in Worlds /\ World.rooms = rooms /\ World.peers = peers
    BY WorldTypes DEF TypeOK
  <2>2. rooms' = v.rooms /\ peers' = v.peers /\ drift' = drift
    BY <1>3, <2>0 DEF CloseSocket, Become
  <2>3. \A i \in Instances, e \in Docs, x \in Sockets :
          x \in rooms'[i][e] <=> x \in rooms[i][e] /\ ~(x = c /\ i = home[c] /\ e = d)
    BY <2>1, <2>2, LeaveFacts
  <2>4. c \in rooms[home[c]][d]
    BY <1>3, <2>0 DEF RoomInv, Present
  <2>5. \A e \in Docs : peers'[e] = IF e = d THEN peers[e] - 1 ELSE peers[e]
    <3>1. World.rooms[home[c]][d] # {}
      BY <2>1, <2>4
    <3>2. \A e \in Docs : v.peers[e] = IF e = d THEN peers[e] - 1 ELSE peers[e]
      BY <2>1, <3>1, LeaveFacts
    <3>3. QED
      BY <2>2, <3>2
  <2>6. /\ Members(d)' = Members(d) \ {c}
        /\ \A e \in Docs \ {d} : Members(e)' = Members(e)
    <3>1. \A i \in Instances : c \in World.rooms[i][d] => home[c] = i
      BY <2>1 DEF RoomInv, OneRoomEach
    <3>2. /\ MembersIn(v, d) = MembersIn(World, d) \ {c}
          /\ \A e \in Docs \ {d} : MembersIn(v, e) = MembersIn(World, e)
      BY <2>1, <3>1, LeaveMembers
    <3>3. \A e : MembersIn(World, e) = Members(e) /\ MembersIn(v, e) = Members(e)'
      BY <2>1, <2>2 DEF MembersIn, Members
    <3>4. QED
      BY <3>2, <3>3
  <2>7. c \in Members(d)
    BY <2>1, <2>4 DEF Members
  <2> HIDE DEF v
  <2>8. OneRoomEach'
    BY <1>0, <2>3 DEF RoomInv, OneRoomEach
  <2>9. Present'
    <3> SUFFICES ASSUME NEW x \in Sockets, conn'[x] = "open", sess[x] # None
                 PROVE  x \in rooms'[home[x]][sess[x]]
      BY DEF Present
    <3>1. x # c /\ conn[x] = "open"
      BY <1>1
    <3>2. x \in rooms[home[x]][sess[x]] /\ home[x] \in Instances /\ sess[x] \in Docs
      BY <3>1 DEF RoomInv, Present, TypeOK
    <3>3. QED
      BY <2>3, <3>1, <3>2
  <2>10. ASSUME NEW e \in Docs
         PROVE  /\ IsFiniteSet(Members(e)')
                /\ ~drift => peers'[e] = Cardinality(Members(e)')
    <3>1. IsFiniteSet(Members(e)) /\ (~drift => peers[e] = Cardinality(Members(e)))
      BY DEF RoomInv, PeersAreLive, Members, FiniteMembers
    <3>2. CASE e = d
      BY <2>5, <2>6, <2>7, <3>1, <3>2, FS_RemoveElement
    <3>3. CASE e # d
      BY <2>5, <2>6, <3>1, <3>3
    <3>4. QED
      BY <3>2, <3>3
  <2>11. FiniteMembers' /\ PeersAreLive'
    BY <2>2, <2>10 DEF FiniteMembers, PeersAreLive, Members
  <2>12. QED
    BY <2>8, <2>9, <2>11 DEF RoomInv
<1>4. QED
  BY <1>2, <1>3

\* A socket that is let in leaves the room it was in, and is counted in the new one.
LEMMA JoinKeeps ==
  ASSUME TypeOK, Fresh, RoomInv, NEW a \in Auths, Join(a),
         NEW c, c = auth[a].socket, NEW d, d = auth[a].doc, NEW old, old = sess[c]
  PROVE  RoomInv'
<1> DEFINE w == Left(c, d)
           v == JoinRoom(w, c, d)
<1>1. /\ c \in Sockets /\ d \in Docs /\ home[c] \in Instances
      /\ World \in Worlds /\ World.rooms = rooms /\ World.peers = peers
      /\ w \in Worlds
      /\ Welcome(a, c, d, w)
  BY JoinTypes, WorldTypes
<1>2. /\ rooms' = v.rooms /\ peers' = v.peers
      /\ ~drift' => /\ ~drift /\ c \notin rooms[home[c]][d]
                    /\ ~(conn[c] = "closed" /\ old \notin {None, d})
      /\ sess' = [sess EXCEPT ![c] = d]
      /\ UNCHANGED <<home, conn>>
  BY <1>1 DEF Welcome, Become
<1>3. conn[c] \in {"open", "closed"}
  <2>1. conn[c] \in {"new", "open", "closed"}
    BY <1>1 DEF TypeOK
  <2>2. conn[c] # "new"
    BY <1>1 DEF Join, Fresh
  <2>3. QED
    BY <2>1, <2>2
<1>4. \A i \in Instances, e \in Docs, x \in Sockets :
        x \in w.rooms[i][e] <=>
          x \in rooms[i][e] /\ ~(x = c /\ i = home[c] /\ e = old /\ old \in Docs \ {d})
  BY <1>1, LeaveFacts DEF Left
<1>5. \A i \in Instances, e \in Docs, x \in Sockets :
        x \in rooms'[i][e] <=> x \in w.rooms[i][e] \/ (x = c /\ i = home[c] /\ e = d)
  BY <1>1, <1>2, JoinFacts
<1>6. rooms' \in [Instances -> [Docs -> SUBSET Sockets]]
  <2>1. v \in Worlds
    BY <1>1, JoinFacts
  <2> HIDE DEF v
  <2>2. QED
    BY <1>2, <2>1 DEF Worlds
<1>7. /\ old \in Docs \ {d} => MembersIn(w, old) = Members(old) \ {c}
      /\ \A e \in Docs : ~(e = old /\ old # d) => MembersIn(w, e) = Members(e)
  <2>1. \A e : MembersIn(World, e) = Members(e)
    BY <1>1 DEF MembersIn, Members
  <2>2. CASE old \in Docs \ {d}
    <3>1. \A i \in Instances : c \in World.rooms[i][old] => home[c] = i
      BY <1>1, <2>2 DEF RoomInv, OneRoomEach
    <3>2. w = LeaveRoom(World, c, old)
      BY <2>2 DEF Left
    <3>3. /\ MembersIn(w, old) = MembersIn(World, old) \ {c}
          /\ \A e \in Docs \ {old} : MembersIn(w, e) = MembersIn(World, e)
      BY <1>1, <2>2, <3>1, <3>2, LeaveMembers
    <3>4. QED
      BY <2>1, <2>2, <3>3
  <2>3. CASE old \notin Docs \ {d}
    BY <2>1, <2>3 DEF Left
  <2>4. QED
    BY <2>2, <2>3
<1>8. /\ Members(d)' = MembersIn(w, d) \union {c}
      /\ \A e \in Docs \ {d} : Members(e)' = MembersIn(w, e)
  <2>1. \A e : MembersIn(v, e) = Members(e)'
    BY <1>2 DEF MembersIn, Members
  <2>2. /\ MembersIn(v, d) = MembersIn(w, d) \union {c}
        /\ \A e \in Docs \ {d} : MembersIn(v, e) = MembersIn(w, e)
    BY <1>1, JoinMembers
  <2>3. QED
    BY <2>1, <2>2
<1>9. \A e \in Docs : peers'[e] = IF e = d THEN w.peers[e] + 1 ELSE w.peers[e]
  BY <1>1, <1>2, JoinFacts
<1>10. ASSUME NEW e \in Docs
       PROVE  IsFiniteSet(MembersIn(w, e)) /\ IsFiniteSet(Members(e)')
  <2>1. IsFiniteSet(Members(e))
    BY DEF RoomInv, FiniteMembers
  <2>2. MembersIn(w, e) = Members(e) \/ MembersIn(w, e) = Members(e) \ {c}
    BY <1>1, <1>7
  <2>3. IsFiniteSet(MembersIn(w, e))
    BY <2>1, <2>2, FS_RemoveElement
  <2>4. Members(e)' = MembersIn(w, e) \/ Members(e)' = MembersIn(w, e) \union {c}
    BY <1>8
  <2>5. QED
    BY <2>3, <2>4, FS_AddElement
<1>11. ASSUME ~drift', NEW e \in Docs
       PROVE  peers'[e] = Cardinality(Members(e)')
  <2>1. /\ ~drift /\ c \notin rooms[home[c]][d]
        /\ ~(conn[c] = "closed" /\ old \notin {None, d})
    BY <1>2, <1>11
  <2>2. peers[e] = Cardinality(Members(e)) /\ IsFiniteSet(Members(e)) /\ peers[e] \in Int
    BY <2>1 DEF RoomInv, PeersAreLive, Members, FiniteMembers, TypeOK
  <2>3. c \notin MembersIn(w, d)
    <3>1. c \notin Members(d)
      BY <1>1, <2>1 DEF Members, RoomInv, OneRoomEach
    <3>2. QED
      BY <1>1, <1>7, <3>1
  <2>4. w.peers[e] = Cardinality(MembersIn(w, e)) /\ w.peers[e] \in Int
    <3>1. CASE old \in Docs \ {d}
      <4>1. old # None
        BY <3>1, CollabAssumption
      <4>2. conn[c] = "open"
        BY <1>3, <2>1, <3>1, <4>1
      <4>3. c \in rooms[home[c]][old]
        BY <1>1, <4>1, <4>2 DEF RoomInv, Present
      <4>4. c \in Members(old)
        BY <1>1, <4>3 DEF Members
      <4>5. w = LeaveRoom(World, c, old) /\ World.rooms[home[c]][old] # {}
        BY <1>1, <3>1, <4>3 DEF Left
      <4>6. w.peers[e] = IF e = old THEN peers[e] - 1 ELSE peers[e]
        <5>1. /\ World \in Worlds /\ c \in Sockets /\ old \in Docs /\ home[c] \in Instances
              /\ w = LeaveRoom(World, c, old) /\ World.rooms[home[c]][old] # {}
          BY <1>1, <3>1, <4>5
        <5>2. /\ LeaveRoom(World, c, old).peers[old] = World.peers[old] - 1
              /\ \A x \in Docs \ {old} : LeaveRoom(World, c, old).peers[x] = World.peers[x]
          BY <5>1, LeaveCounts
        <5>3. QED
          BY <1>1, <5>1, <5>2
      <4>7. CASE e = old
        BY <1>7, <2>2, <3>1, <4>4, <4>6, <4>7, FS_RemoveElement
      <4>8. CASE e # old
        BY <1>7, <2>2, <4>6, <4>8
      <4>9. QED
        BY <4>7, <4>8
    <3>2. CASE old \notin Docs \ {d}
      <4>1. w.peers = peers
        BY <1>1, <3>2 DEF Left
      <4>2. MembersIn(w, e) = Members(e)
        BY <1>7, <3>2
      <4>3. QED
        BY <2>2, <4>1, <4>2
    <3>3. QED
      BY <3>1, <3>2
  <2>5. CASE e = d
    BY <1>8, <1>9, <1>10, <2>3, <2>4, <2>5, FS_AddElement
  <2>6. CASE e # d
    BY <1>8, <1>9, <2>4, <2>6
  <2>7. QED
    BY <2>5, <2>6
<1>12. \A x \in Sockets : sess'[x] = IF x = c THEN d ELSE sess[x]
  BY <1>1, <1>2 DEF TypeOK
<1> HIDE DEF w, v
<1>13. OneRoomEach'
  <2> SUFFICES ASSUME NEW i \in Instances, NEW e \in Docs, NEW x \in Sockets,
                      x \in rooms'[i][e]
               PROVE  home[x] = i /\ sess'[x] = e
    BY <1>2, <1>6 DEF OneRoomEach
  <2>1. CASE x = c /\ i = home[c] /\ e = d
    BY <1>12, <2>1
  <2>2. CASE ~(x = c /\ i = home[c] /\ e = d)
    <3>1. x \in rooms[i][e] /\ ~(x = c /\ i = home[c] /\ e = old /\ old \in Docs \ {d})
      BY <1>4, <1>5, <2>2
    <3>2. home[x] = i /\ sess[x] = e
      BY <3>1 DEF RoomInv, OneRoomEach
    <3>3. x # c
      BY <2>2, <3>1, <3>2
    <3>4. QED
      BY <1>12, <3>2, <3>3
  <2>3. QED
    BY <2>1, <2>2
<1>14. Present'
  <2> SUFFICES ASSUME NEW x \in Sockets, conn[x] = "open", sess'[x] # None
               PROVE  x \in rooms'[home[x]][sess'[x]]
    BY <1>2 DEF Present
  <2>1. CASE x = c
    BY <1>1, <1>5, <1>12, <2>1
  <2>2. CASE x # c
    <3>1. /\ sess'[x] = sess[x] /\ sess[x] \in Docs /\ home[x] \in Instances
          /\ x \in rooms[home[x]][sess[x]]
      BY <1>12, <2>2 DEF RoomInv, Present, TypeOK
    <3>2. QED
      BY <1>4, <1>5, <2>2, <3>1
  <2>3. QED
    BY <2>1, <2>2
<1>15. FiniteMembers' /\ PeersAreLive'
  BY <1>10, <1>11 DEF FiniteMembers, PeersAreLive, Members
<1>16. QED
  BY <1>13, <1>14, <1>15 DEF RoomInv

\* Sessions, rooms and the counters of peers fit together.
LEMMA RoomsHold == Spec => []RoomInv
<1>1. Init => RoomInv
  <2> SUFFICES ASSUME Init
               PROVE  RoomInv
    OBVIOUS
  <2>1. OneRoomEach /\ Present
    BY DEF Init, OneRoomEach, Present
  <2>2. \A d \in Docs : Members(d) = {} /\ peers[d] = 0
    BY DEF Init, Members
  <2>3. FiniteMembers /\ PeersAreLive
    BY <2>2, FS_EmptySet DEF FiniteMembers, PeersAreLive, Members
  <2>4. QED
    BY <2>1, <2>3 DEF RoomInv
<1>2. TypeOK /\ Fresh /\ RoomInv /\ [Next]_vars => RoomInv'
  <2> SUFFICES ASSUME TypeOK, Fresh, RoomInv, [Next]_vars
               PROVE  RoomInv'
    OBVIOUS
  <2>1. ASSUME NEW c \in Sockets, Connect(c)
        PROVE  RoomInv'
    <3>1. \A x \in Sockets : conn'[x] = "open" => conn[x] = "open" \/ sess[x] = None
      BY <2>1 DEF Connect, TypeOK, Fresh
    <3>2. QED
      BY <2>1, <3>1, RoomsStay DEF Connect, roomVars
  <2>2. ASSUME NEW c \in Sockets, Close(c)
        PROVE  RoomInv'
    BY <2>2, CloseKeeps DEF Close
  <2>3. ASSUME NEW c \in Sockets, Deadline(c)
        PROVE  RoomInv'
    BY <2>3, CloseKeeps, RoomsStay DEF Deadline, roomVars
  <2>4. ASSUME NEW a \in Auths, NEW c \in Sockets, BeginAuth(a, c)
        PROVE  RoomInv'
    BY <2>4, RoomsStay DEF BeginAuth, roomVars, socketVars
  <2>5. ASSUME NEW a \in Auths, Forbid(a)
        PROVE  RoomInv'
    <3>1. auth[a].socket \in Sockets
      BY <2>5 DEF Forbid, TypeOK, Auth
    <3>2. QED
      BY <2>5, <3>1, CloseKeeps DEF Forbid
  <2>6. ASSUME NEW a \in Auths, Join(a)
        PROVE  RoomInv'
    <3>1. \E c, d, old : c = auth[a].socket /\ d = auth[a].doc /\ old = sess[c]
      OBVIOUS
    <3>2. QED
      BY <2>6, <3>1, JoinKeeps
  <2>7. ASSUME \/ \E c \in Sockets, m \in Messages : Publish(m, c)
               \/ \E m \in Messages, j \in Instances : Receive(m, j)
               \/ UNCHANGED vars
        PROVE  RoomInv'
    <3>1. UNCHANGED <<roomVars, socketVars>>
      BY <2>7 DEF Publish, Receive, vars
    <3>2. QED
      BY <3>1, RoomsStay DEF roomVars, socketVars
  <2>8. QED
    BY <2>1, <2>2, <2>3, <2>4, <2>5, <2>6, <2>7 DEF Next
<1>3. QED
  BY <1>1, <1>2, TypesHold, PTL DEF Spec

\* A socket is a member of one room at most, that of the document of its session
\* and on its own instance, however its authentications overlap with each other
\* and with its closing.
THEOREM OneRoom == Spec => []OneRoomEach
<1>1. RoomInv => OneRoomEach
  BY DEF RoomInv
<1>2. QED
  BY <1>1, RoomsHold, PTL

\* Unless a socket was let in where it was already, or elsewhere once it was
\* closed, the shared counter of a document is the number of its members.
THEOREM PeersCounted == Spec => []PeersAreLive
<1>1. RoomInv => PeersAreLive
  BY DEF RoomInv
<1>2. QED
  BY <1>1, RoomsHold, PTL

-----------------------------------------------------------------------------
\* Messages

\* What no one has sent has reached no one.  What was sent has reached its sender
\* never and the others at most once, and none on an instance, other than that of
\* its sender, to which it is still on its way.
Delivery(m) ==
  /\ msg[m] = None => /\ \A c \in Sockets : got[c][m] = 0
                      /\ \A j \in Instances : <<m, j>> \notin inflight
  /\ msg[m] # None =>
       /\ home[msg[m].sender] = msg[m].from
       /\ \A c \in Sockets : got[c][m] \in {0, 1}
       /\ got[msg[m].sender][m] = 0
       /\ \A c \in Sockets :
            <<m, home[c]>> \in inflight /\ home[c] # msg[m].from => got[c][m] = 0

DeliveryInv == \A m \in Messages : Delivery(m)

\* Who is sent a message gets it once more.
LEMMA SendFacts ==
  ASSUME TypeOK, NEW m \in Messages, NEW S, Send(m, S)
  PROVE  \A c \in Sockets, k \in Messages :
           got'[c][k] = IF c \in S /\ k = m THEN got[c][k] + 1 ELSE got[c][k]
BY DEF Send, TypeOK

\* A message that is published reaches its room on the same instance.
LEMMA PublishKeeps ==
  ASSUME TypeOK, OneRoomEach, DeliveryInv, NEW c \in Sockets, NEW m \in Messages,
         Publish(m, c)
  PROVE  DeliveryInv'
<1> DEFINE S == Open(rooms[home[c]][sess[c]]) \ {c}
           J == {<<m, j>> : j \in {j \in Instances : sess[c] \in subscribed[j]}}
<1>1. /\ msg[m] = None /\ sess[c] # None
      /\ msg' = [msg EXCEPT ![m] = [sender |-> c, doc |-> sess[c], from |-> home[c]]]
      /\ Send(m, S)
      /\ inflight' = inflight \union J
      /\ UNCHANGED home
  BY DEF Publish, socketVars
<1>2. home[c] \in Instances /\ sess[c] \in Docs
  BY <1>1 DEF TypeOK
<1>3. \A x \in S : x \in Sockets /\ x # c /\ home[x] = home[c]
  BY <1>2 DEF Open, OneRoomEach, TypeOK
<1>4. \A x \in Sockets, k \in Messages :
        got'[x][k] = IF x \in S /\ k = m THEN got[x][k] + 1 ELSE got[x][k]
  BY <1>1, SendFacts
<1> HIDE DEF S
<1>5. Delivery(m)'
  <2>1. /\ msg'[m] # None
        /\ msg'[m].sender = c /\ msg'[m].from = home[c]
    <3>1. [sender |-> c, doc |-> sess[c], from |-> home[c]] \in Message
      BY <1>2 DEF Message
    <3>2. msg'[m] = [sender |-> c, doc |-> sess[c], from |-> home[c]]
      BY <1>1 DEF TypeOK
    <3>3. QED
      BY <3>1, <3>2, CollabAssumption
  <2>2. \A x \in Sockets : got[x][m] = 0
    BY <1>1 DEF DeliveryInv, Delivery
  <2>3. \A x \in Sockets : got'[x][m] = IF x \in S THEN 1 ELSE 0
    BY <1>4, <2>2
  <2>4. c \notin S
    BY <1>3
  <2>5. QED
    BY <1>1, <1>3, <2>1, <2>3, <2>4 DEF Delivery
<1>6. ASSUME NEW k \in Messages, k # m
      PROVE  Delivery(k)'
  <2>1. msg'[k] = msg[k] /\ \A j \in Instances : <<k, j>> \in inflight' <=> <<k, j>> \in inflight
    BY <1>1, <1>6 DEF TypeOK
  <2>2. \A x \in Sockets : got'[x][k] = got[x][k]
    BY <1>4, <1>6
  <2>3. \A x \in Sockets : home[x] \in Instances
    BY DEF TypeOK
  <2>4. msg[k] # None => msg[k].sender \in Sockets
    BY DEF TypeOK, Message
  <2>5. Delivery(k)
    BY DEF DeliveryInv
  <2>6. QED
    BY <1>1, <2>1, <2>2, <2>3, <2>4, <2>5 DEF Delivery
<1>7. QED
  BY <1>5, <1>6 DEF DeliveryInv

\* A message that comes back over Redis reaches the rooms of another instance.
LEMMA ReceiveKeeps ==
  ASSUME TypeOK, OneRoomEach, DeliveryInv, NEW m \in Messages, NEW i \in Instances,
         Receive(m, i)
  PROVE  DeliveryInv'
<1>1. /\ <<m, i>> \in inflight
      /\ inflight' = inflight \ {<<m, i>>}
      /\ UNCHANGED <<home, msg>>
  BY DEF Receive, socketVars
<1>2. /\ msg[m] # None /\ msg[m] \in Message
  BY <1>1 DEF DeliveryInv, Delivery, TypeOK
<1>3. ASSUME NEW k \in Messages, UNCHANGED got
      PROVE  Delivery(k)'
  BY <1>1, <1>3 DEF DeliveryInv, Delivery
<1>4. CASE ~(msg[m].doc \in subscribed[i] /\ msg[m].from # i)
  BY <1>3, <1>4 DEF Receive, DeliveryInv
<1>5. CASE msg[m].doc \in subscribed[i] /\ msg[m].from # i
  <2> DEFINE S == Open(rooms[i][msg[m].doc])
  <2>1. \A x \in S : x \in Sockets /\ home[x] = i
    BY <1>2 DEF Open, OneRoomEach, TypeOK, Message
  <2>2. \A x \in Sockets, k \in Messages :
          got'[x][k] = IF x \in S /\ k = m THEN got[x][k] + 1 ELSE got[x][k]
    BY <1>5, SendFacts DEF Receive
  <2> HIDE DEF S
  <2>3. ASSUME NEW k \in Messages, k # m
        PROVE  Delivery(k)'
    <3>1. \A x \in Sockets : got'[x][k] = got[x][k]
      BY <2>2, <2>3
    <3>2. msg[k] # None => msg[k].sender \in Sockets
      BY DEF TypeOK, Message
    <3>3. Delivery(k)
      BY DEF DeliveryInv
    <3>4. QED
      BY <1>1, <3>1, <3>2, <3>3 DEF Delivery
  <2>4. Delivery(m)'
    <3>1. /\ home[msg[m].sender] = msg[m].from
          /\ \A x \in Sockets : got[x][m] \in {0, 1}
          /\ got[msg[m].sender][m] = 0
          /\ \A x \in Sockets :
               <<m, home[x]>> \in inflight /\ home[x] # msg[m].from => got[x][m] = 0
      BY <1>2 DEF DeliveryInv, Delivery
    <3>2. \A x \in S : got[x][m] = 0 /\ x # msg[m].sender
      BY <1>1, <1>5, <2>1, <3>1
    <3>3. \A x \in Sockets : got'[x][m] = IF x \in S THEN 1 ELSE got[x][m]
      BY <2>2, <3>2
    <3>4. msg[m].sender \in Sockets
      BY <1>2 DEF Message
    <3>5. \A x \in Sockets :
            <<m, home[x]>> \in inflight' /\ home[x] # msg[m].from => got'[x][m] = 0
      BY <1>1, <2>1, <3>1, <3>3
    <3>6. \A x \in Sockets : got'[x][m] \in {0, 1}
      BY <3>1, <3>3
    <3>7. got'[msg[m].sender][m] = 0
      BY <3>1, <3>2, <3>3, <3>4
    <3>8. QED
      BY <1>1, <1>2, <3>1, <3>5, <3>6, <3>7 DEF Delivery
  <2>5. QED
    BY <2>3, <2>4 DEF DeliveryInv
<1>6. QED
  BY <1>4, <1>5

\* A message reaches a socket at most once and never the one that sent it, on any
\* number of instances: the room of the sender is served directly, and the instance
\* skips what comes back to it.
THEOREM Delivered == Spec => []DeliveredOnce
<1>1. Init => DeliveryInv
  BY DEF Init, DeliveryInv, Delivery
<1>2. TypeOK /\ OneRoomEach /\ DeliveryInv /\ [Next]_vars => DeliveryInv'
  <2> SUFFICES ASSUME TypeOK, OneRoomEach, DeliveryInv, [Next]_vars
               PROVE  DeliveryInv'
    OBVIOUS
  <2>1. ASSUME UNCHANGED <<home, msgVars>>
        PROVE  DeliveryInv'
    BY <2>1 DEF DeliveryInv, Delivery, msgVars
  <2>2. ASSUME \/ \E c \in Sockets :
                    Connect(c) \/ Close(c) \/ Deadline(c) \/ \E a \in Auths : BeginAuth(a, c)
               \/ \E a \in Auths : Forbid(a) \/ Join(a)
               \/ UNCHANGED vars
        PROVE  DeliveryInv'
    <3>1. UNCHANGED <<home, msgVars>>
      BY <2>2 DEF Connect, Close, Deadline, BeginAuth, Forbid, Join, Welcome, vars,
                  roomVars, socketVars
    <3>2. QED
      BY <2>1, <3>1
  <2>3. QED
    BY <2>2, PublishKeeps, ReceiveKeeps DEF Next
<1>3. TypeOK /\ DeliveryInv => DeliveredOnce
  <2> SUFFICES ASSUME DeliveryInv, NEW c \in Sockets, NEW m \in Messages
               PROVE  got[c][m] <= IF msg[m] # None /\ msg[m].sender = c THEN 0 ELSE 1
    BY DEF DeliveredOnce
  <2>1. CASE msg[m] = None
    BY <2>1 DEF DeliveryInv, Delivery
  <2>2. CASE msg[m] # None
    <3>1. got[c][m] \in {0, 1} /\ (msg[m].sender = c => got[c][m] = 0)
      BY <2>2 DEF DeliveryInv, Delivery
    <3>2. QED
      BY <3>1
  <2>3. QED
    BY <2>1, <2>2
<1>4. QED
  BY <1>1, <1>2, <1>3, TypeCorrect, OneRoom, PTL DEF Spec
=============================================================================
