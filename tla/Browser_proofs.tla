---------------------------- MODULE Browser_proofs ----------------------------
(***************************************************************************)
(* Proofs about the three parts of the browser, for any number of files,   *)
(* loops, calls and loads, and any limits: the API client (TokenRefresh),  *)
(* the upload list (UploadStore) and the preview window (Preview).  The    *)
(* theorems speak of their composition, in which the parts that rest do    *)
(* not change.                                                             *)
(***************************************************************************)
EXTENDS MC_Browser, TLAPS, FiniteSetTheorems, SequenceTheorems

-----------------------------------------------------------------------------
\* The API client

\* A call that is answered may stop waiting, or start to while a refresh runs.
LEMMA SetTypes ==
  ASSUME T!TypeOK, NEW r \in Calls,
         NEW s \in {"new", "sent", "queued", "leads", "done", "failed"}, T!Set(r, s)
  PROVE  /\ call' \in [Calls -> {"new", "sent", "queued", "leads", "done", "failed"}]
         /\ s # "queued" => T!Queue' \subseteq T!Queue
BY DEF T!TypeOK, T!Set, T!Queue

\* One step keeps the state of the client well formed.
LEMMA ClientTypeStep == T!TypeOK /\ [T!Next]_(T!vars) => T!TypeOK'
<1> SUFFICES ASSUME T!TypeOK, [T!Next]_(T!vars)
             PROVE  T!TypeOK'
  OBVIOUS
<1>1. ASSUME NEW r \in Calls, T!Send(r) \/ T!Answered(r) \/ T!Refused(r) \/ T!Enqueue(r)
      PROVE  T!TypeOK'
  BY <1>1, SetTypes DEF T!Send, T!Answered, T!Refused, T!Enqueue, T!TypeOK
<1>2. ASSUME NEW r \in Calls, T!Lead(r) \/ T!RefreshFails(r)
      PROVE  T!TypeOK'
  BY <1>2, SetTypes DEF T!Lead, T!RefreshFails, T!TypeOK
<1>3. ASSUME NEW r \in Calls, T!Refreshed(r)
      PROVE  T!TypeOK'
  BY <1>3 DEF T!Refreshed, T!TypeOK
<1>4. CASE T!Leave
  BY <1>4 DEF T!Leave, T!TypeOK
<1>5. CASE UNCHANGED T!vars
  BY <1>5 DEF T!vars, T!TypeOK
<1>6. QED
  BY <1>1, <1>2, <1>3, <1>4, <1>5 DEF T!Next, T!Answer

\* One step serves the queue, or leaves it to the refresh under way.
LEMMA QueueStep == T!TypeOK /\ T!QueueIsServed /\ [T!Next]_(T!vars) => T!QueueIsServed'
<1> SUFFICES ASSUME T!TypeOK, T!QueueIsServed, [T!Next]_(T!vars)
             PROVE  T!QueueIsServed'
  OBVIOUS
<1>1. ASSUME NEW r \in Calls, T!Send(r) \/ T!Answered(r) \/ T!Refused(r)
      PROVE  T!QueueIsServed'
  <2>1. T!Queue' \subseteq T!Queue
    BY <1>1, SetTypes DEF T!Send, T!Answered, T!Refused
  <2>2. UNCHANGED <<isRefreshing, page>>
    BY <1>1 DEF T!Send, T!Answered, T!Refused
  <2>3. QED
    BY <2>1, <2>2 DEF T!QueueIsServed
<1>2. ASSUME NEW r \in Calls, T!Enqueue(r) \/ T!Lead(r)
      PROVE  T!QueueIsServed'
  BY <1>2 DEF T!Enqueue, T!Lead, T!QueueIsServed
<1>3. ASSUME NEW r \in Calls, T!Refreshed(r)
      PROVE  T!QueueIsServed'
  <2>1. T!Queue' = {}
    BY <1>3 DEF T!Refreshed, T!Queue
  <2>2. QED
    BY <2>1 DEF T!QueueIsServed
<1>4. ASSUME NEW r \in Calls, T!RefreshFails(r)
      PROVE  T!QueueIsServed'
  BY <1>4 DEF T!RefreshFails, T!QueueIsServed
<1>5. CASE T!Leave
  BY <1>5 DEF T!Leave, T!QueueIsServed
<1>6. CASE UNCHANGED T!vars
  BY <1>6 DEF T!vars, T!QueueIsServed, T!Queue
<1>7. QED
  BY <1>1, <1>2, <1>3, <1>4, <1>5, <1>6 DEF T!Next, T!Answer

\* A call in the queue waits for a refresh that is on its way, or the page is
\* about to go: a refresh that succeeds empties the queue, one that fails asks
\* for the login page, and no call joins the queue when none is under way.
THEOREM QueueServed == BrowserSpec => []QueueIsServed
<1>1. [BrowserNext]_allVars => [T!Next]_(T!vars)
  BY DEF BrowserNext, allVars, client, T!vars
<1>2. BrowserInit => T!TypeOK /\ QueueIsServed
  BY DEF BrowserInit, T!Init, T!TypeOK, QueueIsServed, T!QueueIsServed, T!Queue
<1>3. T!TypeOK /\ QueueIsServed /\ [T!Next]_(T!vars) => T!TypeOK' /\ QueueIsServed'
  BY ClientTypeStep, QueueStep DEF QueueIsServed
<1>4. QED
  BY <1>1, <1>2, <1>3, PTL DEF BrowserSpec

-----------------------------------------------------------------------------
\* The upload list: the parts of its invariant

\* A loop in use has a task, and the controller of a task aborts a loop of it.
Owned ==
  \A l \in Loops :
    /\ Pc(l) # "unused" => owner[l] \in Tasks
    /\ \A t \in Tasks : controller[t] = l => Pc(l) # "unused" /\ owner[l] = t

\* A loop that encrypts or sends is at a chunk of the file, and has a key.
Fit(x) ==
  /\ x.pc \in {"encrypting", "sending", "backoff"} => x.at < TotalChunks
  /\ x.pc \in {"head", "encrypting", "sending", "backoff"} => x.bundle # None

Equipped == \A l \in Loops : Fit(loop[l])

\* The tickets in the queue are the loops that wait, once each.
Ticketed ==
  /\ \A i \in 1 .. Len(queue) : Pc(queue[i]) = "queued"
  /\ \A i, j \in 1 .. Len(queue) : queue[i] = queue[j] => i = j
  /\ \A l \in Loops : Pc(l) = "queued" => \E i \in 1 .. Len(queue) : queue[i] = l

\* What a loop counts as sent has been accepted, and so has what a resume skips.
AckedSoFar ==
  /\ \A t \in Tasks, i \in Chunks : i <= last[t] => acked[t][i] # None
  /\ \A l \in Loops, i \in Chunks :
       Pc(l) \in Working \ {"start"} /\ i < loop[l].at => acked[owner[l]][i] # None
  /\ DoneMeansAllAcked

\* A loop that will move a pending task on, or one at work on it
Leads(l, t) == owner[l] = t /\ Pc(l) \in {"queued", "start"}

Moves(l, t) ==
  /\ owner[l] = t
  /\ Pc(l) \in Working \union {"queued"}
  /\ Pc(l) = "sending" => ~loop[l].aborted

\* A task shown as live has a loop that will move it on; a loop whose try was
\* aborted will not.
Led ==
  \A t \in Tasks :
    /\ status[t] = "pending" => \E l \in Loops : Leads(l, t)
    /\ status[t] \in {"encrypting", "uploading"} => \E l \in Loops : Moves(l, t)

StoreInv == TypeOK /\ Owned /\ Equipped /\ Ticketed /\ SlotsAccounted /\ AckedSoFar /\ Led

\* The other loops do not move, but one that waits may get the slot.
OthersWait(l) ==
  \A k \in Loops \ {l} :
    \/ loop'[k] = loop[k]
    \/ Pc(k) = "queued" /\ loop'[k] = [loop[k] EXCEPT !.pc = "start"]


-----------------------------------------------------------------------------
\* The semaphore

\* The slot of a loop that ends goes to the oldest ticket, if there is one.
LEMMA ReleaseEffect ==
  ASSUME StoreAssumption, TypeOK, Ticketed, NEW l \in Loops, Pc(l) \in Working, Release(l)
  PROVE  /\ loop' \in [Loops -> LoopState]
         /\ loop'[l] = NoLocals("ended")
         /\ queue' \in Seq(Loops)
         /\ \A k \in Loops \ {l} :
              loop'[k] = IF queue # <<>> /\ k = Head(queue)
                           THEN [loop[k] EXCEPT !.pc = "start"] ELSE loop[k]
         /\ OthersWait(l)
<1>1. NoLocals("ended") \in LoopState
  BY DEF NoLocals, LoopState, StoreAssumption, Working
<1>0. loop \in [Loops -> LoopState] /\ queue \in Seq(Loops)
  BY DEF TypeOK
<1>2. CASE queue = <<>>
  <2>1. loop' = [loop EXCEPT ![l] = NoLocals("ended")] /\ queue' = queue
    BY <1>2 DEF Release
  <2>2. QED
    BY <1>0, <1>1, <1>2, <2>1 DEF OthersWait
<1>3. CASE queue # <<>>
  <2>1. /\ loop' = [loop EXCEPT ![l] = NoLocals("ended"), ![Head(queue)].pc = "start"]
        /\ queue' = Tail(queue)
    BY <1>3 DEF Release
  <2>2. /\ 1 \in 1 .. Len(queue)
        /\ Head(queue) = queue[1]
        /\ Head(queue) \in Loops
        /\ Tail(queue) \in Seq(Loops)
    BY <1>3, <1>0, HeadTailProperties, EmptySeq
  <2>3. Pc(Head(queue)) = "queued"
    BY <2>2 DEF Ticketed
  <2>4. Head(queue) # l
    BY <2>3 DEF Working
  <2> DEFINE h == Head(queue)
             woken == [loop[h] EXCEPT !.pc = "start"]
  <2>6. woken \in LoopState
    BY <2>2, <1>0 DEF LoopState, Working
  <2> HIDE DEF woken
  <2>5. loop' = [loop EXCEPT ![l] = NoLocals("ended"), ![h] = woken]
    BY <2>1, <2>2, <2>4, <1>0 DEF woken
  <2> HIDE DEF h
  <2>7. /\ loop'[l] = NoLocals("ended")
        /\ loop'[h] = woken
        /\ \A k \in Loops \ {l, h} : loop'[k] = loop[k]
        /\ loop' \in [Loops -> LoopState]
    BY <2>2, <2>4, <2>5, <2>6, <1>0, <1>1 DEF h
  <2>8. \A k \in Loops \ {l} :
          loop'[k] = IF k = h THEN [loop[k] EXCEPT !.pc = "start"] ELSE loop[k]
    BY <2>7 DEF woken
  <2>9. Pc(h) = "queued"
    BY <2>3 DEF h
  <2>10. QED
    BY <2>1, <2>2, <2>7, <2>8, <2>9, <1>3 DEF OthersWait, h
<1>4. QED
  BY <1>2, <1>3

\* The loops that hold a slot can be counted.
LEMMA Slots ==
  ASSUME StoreAssumption
  PROVE  /\ Holding \subseteq Loops
         /\ IsFiniteSet(Holding)
         /\ Cardinality(Holding) \in Nat
<1>1. Holding \in SUBSET Loops /\ IsFiniteSet(Loops)
  BY DEF Holding, StoreAssumption
<1>2. IsFiniteSet(Holding)
  BY <1>1, FS_Subset
<1>3. QED
  BY <1>1, <1>2, FS_CardinalityType

\* What a step keeps of the semaphore
SlotInv == active \in Nat /\ Ticketed /\ SlotsAccounted

\* A slot given up is free or the oldest ticket's: the count of the semaphore,
\* and each ticket once in the queue, survive.
LEMMA ReleaseSlots ==
  ASSUME StoreAssumption, TypeOK, Ticketed, SlotsAccounted,
         NEW l \in Loops, Pc(l) \in Working, Release(l)
  PROVE  SlotInv'
<1>0. loop \in [Loops -> LoopState] /\ queue \in Seq(Loops) /\ active \in Nat
  BY DEF TypeOK
<1>1. /\ loop' \in [Loops -> LoopState]
      /\ loop'[l].pc = "ended"
      /\ queue' \in Seq(Loops)
      /\ \A k \in Loops \ {l} :
           loop'[k] = IF queue # <<>> /\ k = Head(queue)
                        THEN [loop[k] EXCEPT !.pc = "start"] ELSE loop[k]
  BY ReleaseEffect DEF Pc, NoLocals
<1>2. /\ IsFiniteSet(Holding)
      /\ Cardinality(Holding) \in Nat
      /\ IsFiniteSet(Holding \ {l})
      /\ Cardinality(Holding \ {l}) = Cardinality(Holding) - 1
  BY Slots, FS_RemoveElement DEF Holding, Pc
<1>3. Cardinality(Holding \ {l}) \in Nat
  BY <1>2, FS_CardinalityType
<1>4. CASE queue = <<>>
  <2>1. active' = active - 1 /\ queue' = queue /\ loop' = [loop EXCEPT ![l] = NoLocals("ended")]
    BY <1>4 DEF Release
  <2>2. \A k \in Loops \ {l} : loop'[k].pc = Pc(k)
    BY <2>1, <1>0 DEF Pc
  <2>3. Holding' = Holding \ {l}
    BY <2>2, <1>1 DEF Holding, Pc, Working
  <2>4. SlotsAccounted'
    BY <2>1, <2>3, <1>2, <1>3, <1>4, <1>0 DEF SlotsAccounted, StoreAssumption
  <2>5. Len(queue) = 0
    BY <1>4
  <2>6. \A k \in Loops : loop'[k].pc # "queued"
    BY <2>2, <2>5, <1>1, <1>0 DEF Ticketed, Pc
  <2>7. Ticketed'
    BY <2>1, <2>5, <2>6 DEF Ticketed, Pc
  <2>8. QED
    BY <2>1, <2>4, <2>7, <1>2, <1>3 DEF SlotInv, SlotsAccounted
<1>5. CASE queue # <<>>
  <2> DEFINE h == Head(queue)
  <2>1. /\ active' = (active - 1) + 1
        /\ loop' = [loop EXCEPT ![l] = NoLocals("ended"), ![h].pc = "start"]
        /\ queue' = Tail(queue)
    BY <1>5 DEF Release
  <2>2. /\ 1 \in 1 .. Len(queue)
        /\ h = queue[1]
        /\ h \in Loops
        /\ Len(queue') = Len(queue) - 1
        /\ \A i \in 1 .. Len(queue') : queue'[i] = queue[i + 1]
        /\ Len(queue) \in Nat \ {0}
    BY <1>5, <1>0, <2>1, HeadTailProperties, EmptySeq
  <2> HIDE DEF h
  <2>3. Pc(h) = "queued" /\ h # l
    BY <2>2 DEF Ticketed, Pc, Working
  <2>4. /\ \A k \in Loops \ {l, h} : loop'[k].pc = Pc(k)
        /\ loop'[h].pc = "start"
    <3>1. \A k \in Loops \ {l, h} : loop'[k] = loop[k]
      BY <1>1 DEF h
    <3>2. loop'[h] = [loop[h] EXCEPT !.pc = "start"] /\ loop[h] \in LoopState
      BY <1>0, <1>1, <1>5, <2>2, <2>3 DEF h
    <3>3. loop'[h].pc = "start"
      BY <3>2 DEF LoopState
    <3>4. QED
      BY <3>1, <3>3 DEF Pc
  <2>5. Holding' = (Holding \ {l}) \union {h}
    <3>1. \A k \in Loops : k \in Holding' <=> loop'[k].pc \in Working
      BY DEF Holding, Pc
    <3>2. \A k \in Loops : k \in Holding <=> Pc(k) \in Working
      BY DEF Holding, Pc
    <3>3. "start" \in Working /\ "ended" \notin Working
      BY DEF Working
    <3>4. \A k \in Loops : k \in Holding' <=> k \in (Holding \ {l}) \union {h}
      BY <3>1, <3>2, <3>3, <2>2, <2>3, <2>4, <1>1
    <3>5. QED
      BY <3>4, <2>2, Slots DEF Holding, Pc
  <2>6. h \notin Holding
    BY <2>3 DEF Holding, Pc, Working
  <2>7. Cardinality(Holding') = Cardinality(Holding \ {l}) + 1
    BY <2>5, <2>6, <1>2, FS_AddElement
  <2>8. SlotsAccounted' /\ active' \in Nat
    BY <2>1, <2>7, <1>0, <1>2, <1>5 DEF SlotsAccounted, StoreAssumption
  <2>9. \A i \in 1 .. Len(queue') : i + 1 \in 1 .. Len(queue) /\ queue'[i] = queue[i + 1]
    BY <2>2
  <2>10. \A i \in 1 .. Len(queue') :
           queue'[i] \in Loops \ {l, h} /\ loop'[queue'[i]].pc = "queued"
    <3> SUFFICES ASSUME NEW i \in 1 .. Len(queue')
                 PROVE  queue'[i] \in Loops \ {l, h} /\ loop'[queue'[i]].pc = "queued"
      OBVIOUS
    <3>1. queue'[i] = queue[i + 1] /\ i + 1 \in 1 .. Len(queue) /\ i + 1 # 1
      BY <2>9, <2>2
    <3>2. queue[i + 1] \in Loops /\ Pc(queue[i + 1]) = "queued" /\ queue[i + 1] # h
      BY <3>1, <2>2, <1>0, ElementOfSeq DEF Ticketed, Pc
    <3>3. queue[i + 1] # l
      BY <3>2 DEF Working
    <3>4. QED
      BY <3>1, <3>2, <3>3, <2>4
  <2>11. \A i, j \in 1 .. Len(queue') : queue'[i] = queue'[j] => i = j
    <3> SUFFICES ASSUME NEW i \in 1 .. Len(queue'), NEW j \in 1 .. Len(queue'),
                        queue'[i] = queue'[j]
                 PROVE  i = j
      OBVIOUS
    <3>1. queue[i + 1] = queue[j + 1] /\ i + 1 \in 1 .. Len(queue) /\ j + 1 \in 1 .. Len(queue)
      BY <2>9
    <3>2. i + 1 = j + 1
      BY <3>1 DEF Ticketed, Pc
    <3>3. QED
      BY <3>2, <2>2
  <2>12. \A k \in Loops : loop'[k].pc = "queued" => \E i \in 1 .. Len(queue') : queue'[i] = k
    <3> SUFFICES ASSUME NEW k \in Loops, loop'[k].pc = "queued"
                 PROVE  \E i \in 1 .. Len(queue') : queue'[i] = k
      OBVIOUS
    <3>1. k \in Loops \ {l, h}
      BY <2>4, <1>1 DEF Pc
    <3>2. PICK j \in 1 .. Len(queue) : queue[j] = k
      BY <3>1, <2>4 DEF Ticketed, Pc
    <3>3. j # 1
      BY <3>1, <3>2, <2>2
    <3>4. j - 1 \in 1 .. Len(queue') /\ (j - 1) + 1 = j
      BY <3>3, <2>2
    <3>5. QED
      BY <3>2, <3>4, <2>9
  <2>13. QED
    <3>1. Ticketed'
      BY <2>10, <2>11, <2>12 DEF Ticketed, Pc
    <3>2. QED
      BY <3>1, <2>8 DEF SlotInv
<1>6. QED
  BY <1>4, <1>5

\* A new loop takes a free slot, or the last place in the queue.
LEMMA AcquireSlots ==
  ASSUME StoreAssumption, TypeOK, Ticketed, SlotsAccounted,
         NEW l \in Loops, NEW t \in Tasks, Acquire(l, t)
  PROVE  /\ loop' \in [Loops -> LoopState]
         /\ queue' \in Seq(Loops)
         /\ loop'[l].pc \in {"queued", "start"}
         /\ \A k \in Loops \ {l} : loop'[k] = loop[k]
         /\ SlotInv'
<1>0. loop \in [Loops -> LoopState] /\ queue \in Seq(Loops) /\ active \in Nat
  BY DEF TypeOK
<1>1. Pc(l) = "unused" /\ l \notin Holding
  BY DEF Acquire, Holding, Working
<1>2. PICK p \in {"queued", "start"} : loop' = [loop EXCEPT ![l].pc = p]
  BY DEF Acquire
<1>3. [loop[l] EXCEPT !.pc = p] \in LoopState
  BY <1>0, <1>2 DEF LoopState, Working
<1>4. /\ loop' \in [Loops -> LoopState]
      /\ loop'[l] = [loop[l] EXCEPT !.pc = p]
      /\ \A k \in Loops \ {l} : loop'[k] = loop[k]
  BY <1>0, <1>2, <1>3
<1>5. loop'[l].pc = p
  BY <1>0, <1>4 DEF LoopState
<1>6. /\ IsFiniteSet(Holding)
      /\ Cardinality(Holding) \in Nat
      /\ Cardinality(Holding \union {l}) = Cardinality(Holding) + 1
  BY <1>1, Slots, FS_AddElement
<1>7. CASE active < MaxConcurrent
  <2>1. active' = active + 1 /\ queue' = queue /\ p = "start"
    <3>1. active' = active + 1 /\ queue' = queue /\ loop' = [loop EXCEPT ![l].pc = "start"]
      BY <1>7, <1>0 DEF Acquire, StoreAssumption
    <3>2. loop'[l].pc = "start"
      BY <3>1, <1>0 DEF LoopState
    <3>3. QED
      BY <3>1, <3>2, <1>5
  <2>2. queue = <<>>
    BY <1>7, <1>0 DEF SlotsAccounted, StoreAssumption
  <2>3. Holding' = Holding \union {l}
    BY <2>1, <1>4, <1>5, Slots DEF Holding, Pc, Working
  <2>4. SlotsAccounted' /\ active' \in Nat
    BY <2>1, <2>2, <2>3, <1>6, <1>7, <1>0 DEF SlotsAccounted, StoreAssumption
  <2>5. Ticketed'
    <3>1. Len(queue) = 0
      BY <2>2
    <3>2. \A k \in Loops : loop'[k].pc # "queued"
      <4>1. \A k \in Loops : loop[k].pc # "queued"
        BY <3>1 DEF Ticketed, Pc
      <4>2. QED
        BY <4>1, <2>1, <1>4, <1>5
    <3>3. QED
      BY <3>1, <3>2, <2>1 DEF Ticketed, Pc
  <2>6. QED
    BY <2>1, <2>4, <2>5, <1>0, <1>4, <1>5 DEF SlotInv
<1>8. CASE ~(active < MaxConcurrent)
  <2>1. active' = active /\ queue' = Append(queue, l) /\ p = "queued"
    <3>1. /\ active' = active
          /\ queue' = Append(queue, l)
          /\ loop' = [loop EXCEPT ![l].pc = "queued"]
      BY <1>8, <1>0 DEF Acquire, StoreAssumption
    <3>2. loop'[l].pc = "queued"
      BY <3>1, <1>0 DEF LoopState
    <3>3. QED
      BY <3>1, <3>2, <1>5
  <2>2. Holding' = Holding
    BY <2>1, <1>1, <1>4, <1>5, Slots DEF Holding, Pc, Working
  <2>3. SlotsAccounted' /\ active' \in Nat
    BY <2>1, <2>2, <1>0, <1>8 DEF SlotsAccounted, StoreAssumption
  <2>4. /\ queue' \in Seq(Loops)
        /\ Len(queue') = Len(queue) + 1
        /\ Len(queue) \in Nat
        /\ \A i \in 1 .. Len(queue) : queue'[i] = queue[i]
        /\ queue'[Len(queue) + 1] = l
    BY <2>1, <1>0, AppendProperties, LenProperties
  <2>5. \A i \in 1 .. Len(queue) : queue[i] \in Loops \ {l}
    BY <1>0, <1>1, ElementOfSeq DEF Ticketed
  <2>6. Ticketed'
    <3>1. \A i \in 1 .. Len(queue') : loop'[queue'[i]].pc = "queued"
      <4>1. \A i \in 1 .. Len(queue) : loop[queue[i]].pc = "queued"
        BY DEF Ticketed, Pc
      <4>2. \A i \in 1 .. Len(queue) : loop'[queue'[i]].pc = "queued"
        BY <4>1, <2>4, <2>5, <1>4
      <4>3. loop'[queue'[Len(queue) + 1]].pc = "queued"
        BY <2>1, <2>4, <1>5
      <4>4. QED
        BY <4>2, <4>3, <2>4
    <3>2. \A i, j \in 1 .. Len(queue') : queue'[i] = queue'[j] => i = j
      BY <2>4, <2>5 DEF Ticketed
    <3>3. \A k \in Loops : loop'[k].pc = "queued" => \E i \in 1 .. Len(queue') : queue'[i] = k
      <4> SUFFICES ASSUME NEW k \in Loops, loop'[k].pc = "queued"
                   PROVE  \E i \in 1 .. Len(queue') : queue'[i] = k
        OBVIOUS
      <4>1. CASE k = l
        BY <4>1, <2>4
      <4>2. CASE k # l
        <5>1. PICK i \in 1 .. Len(queue) : queue[i] = k
          BY <4>2, <1>4 DEF Ticketed, Pc
        <5>2. QED
          BY <5>1, <2>4
      <4>3. QED
        BY <4>1, <4>2
    <3>4. QED
      BY <3>1, <3>2, <3>3 DEF Ticketed, Pc
  <2>7. QED
    BY <2>1, <2>3, <2>4, <2>6, <1>4, <1>5 DEF SlotInv
<1>9. QED
  BY <1>7, <1>8

\* A loop that changes neither its slot nor its ticket
KeepsSlot(k) ==
  /\ loop'[k].pc \in Working <=> loop[k].pc \in Working
  /\ loop'[k].pc = "queued" <=> loop[k].pc = "queued"

\* A step that moves no loop into or out of its slot or the queue changes neither.
LEMMA KeepSlots ==
  ASSUME TypeOK, Ticketed, SlotsAccounted, UNCHANGED <<active, queue>>,
         \A k \in Loops : KeepsSlot(k)
  PROVE  SlotInv'
<1>1. Holding' = Holding
  BY DEF Holding, Pc, KeepsSlot
<1>2. SlotsAccounted'
  BY <1>1 DEF SlotsAccounted
<1>3. \A i \in 1 .. Len(queue) : queue[i] \in Loops
  BY ElementOfSeq DEF TypeOK
<1>4. Ticketed'
  BY <1>3 DEF Ticketed, Pc, KeepsSlot
<1>5. QED
  BY <1>2, <1>4 DEF SlotInv, TypeOK

-----------------------------------------------------------------------------
\* What a step of a loop does

\* To the loops and the semaphore
Outcome(l) ==
  /\ loop' \in [Loops -> LoopState]
  /\ queue' \in Seq(Loops)
  /\ OthersWait(l)
  /\ SlotInv'
  /\ loop'[l].pc \in Working \union {"ended"}

\* To the tasks and to the server
Shared ==
  /\ status' \in [Tasks -> {"new", "pending", "encrypting", "uploading",
                            "paused", "done", "error", "gone"}]
  /\ last' \in [Tasks -> -1 .. TotalChunks - 1]
  /\ dekCache' \in [Tasks -> Loops \union {None}]
  /\ controller' \in [Tasks -> Loops \union {None}]
  /\ acked' \in [Tasks -> [Chunks -> Loops \union {None}]]

\* To what its task and its chunks are known to be
Known(l) ==
  /\ Fit(loop'[l])
  /\ \A t \in Tasks : controller'[t] # l => controller'[t] \in {controller[t], None}
  /\ \A t \in Tasks : controller'[t] = l => t = owner[l]
  /\ \A t \in Tasks, i \in Chunks : acked[t][i] # None => acked'[t][i] # None
  /\ \A i \in Chunks : loop'[l].pc \in Working \ {"start"} /\ i < loop'[l].at
                         => acked'[owner[l]][i] # None
  /\ \A t \in Tasks, i \in Chunks : i <= last'[t] => acked'[t][i] # None
  /\ \A t \in Tasks : status'[t] = "done" /\ status[t] # "done"
                        => \A i \in Chunks : acked'[t][i] # None

\* To the status of its task: pending is over once it has started, and work is
\* shown only as long as some loop does it.
Shown(l) ==
  /\ \A t \in Tasks \ {owner[l]} : status'[t] = status[t]
  /\ status'[owner[l]] = "pending" => status[owner[l]] = "pending" /\ Pc(l) # "start"
  /\ status'[owner[l]] \in {"encrypting", "uploading"} =>
       \/ loop'[l].pc \in Working /\ (loop'[l].pc = "sending" => ~loop'[l].aborted)
       \/ /\ status'[owner[l]] = status[owner[l]]
          /\ Pc(l) = "sending" /\ loop[l].aborted

LoopStep(l) == Outcome(l) /\ Shared /\ Known(l) /\ Shown(l) /\ owner' = owner

\* A loop that ends leaves the others alone, but for the one it wakes.
LEMMA ReleaseOutcome ==
  ASSUME StoreAssumption, TypeOK, Ticketed, SlotsAccounted,
         NEW l \in Loops, Pc(l) \in Working, Release(l)
  PROVE  Outcome(l) /\ loop'[l].pc = "ended"
BY ReleaseEffect, ReleaseSlots DEF Outcome, NoLocals

\* A loop that goes on leaves the others alone.
LEMMA ChangeOutcome ==
  ASSUME TypeOK, Ticketed, SlotsAccounted, NEW l \in Loops, Pc(l) \in Working,
         NEW x \in LoopState, x.pc \in Working,
         loop' = [loop EXCEPT ![l] = x], UNCHANGED <<active, queue>>
  PROVE  Outcome(l) /\ loop'[l] = x
<1>1. loop \in [Loops -> LoopState] /\ queue \in Seq(Loops)
  BY DEF TypeOK
<1>2. /\ loop' \in [Loops -> LoopState]
      /\ loop'[l] = x
      /\ \A k \in Loops \ {l} : loop'[k] = loop[k]
  BY <1>1
<1>3. "queued" \notin Working
  BY DEF Working
<1>4. \A k \in Loops : KeepsSlot(k)
  BY <1>2, <1>3 DEF KeepsSlot, Pc
<1>5. SlotInv'
  BY <1>4, KeepSlots
<1>6. QED
  BY <1>1, <1>2, <1>5 DEF Outcome, OthersWait

\* The parts of the invariant a step of a loop rests on
Before(l) ==
  /\ TypeOK /\ Owned /\ Equipped /\ Ticketed /\ SlotsAccounted /\ AckedSoFar
  /\ l \in Loops /\ owner[l] \in Tasks /\ Pc(l) \in Working

\* A loop that takes a step is at work for a task of the list.
LEMMA BeforeLoop ==
  ASSUME StoreInv, NEW l \in Loops, Loop(l)
  PROVE  Before(l)
<1>1. Pc(l) \in Working
  BY DEF Loop, Start, DekReady, PrepareFails, LoopHead, ChunkReady, Ack, Advance, TryFails,
         Wake, Aborted, Working
<1>2. QED
  BY <1>1 DEF StoreInv, Before, Owned, Working

\* The status of a task, if it is in the list, and nothing else
LEMMA StatusSet ==
  ASSUME TypeOK, NEW t \in Tasks,
         NEW s \in {"encrypting", "uploading", "done", "error"}, SetStatus(t, s)
  PROVE  /\ status' \in [Tasks -> {"new", "pending", "encrypting", "uploading",
                                   "paused", "done", "error", "gone"}]
         /\ \A u \in Tasks \ {t} : status'[u] = status[u]
         /\ status'[t] = s \/ (status'[t] = status[t] /\ status[t] \in {"new", "gone"})
BY DEF SetStatus, TypeOK, Added

\* A step that leaves the files and the server alone keeps what is known of them.
LEMMA KnownKept ==
  ASSUME NEW l \in Loops, Before(l), UNCHANGED <<last, acked>>,
         Fit(loop'[l]),
         \A t \in Tasks : controller'[t] # l => controller'[t] \in {controller[t], None},
         \A t \in Tasks : controller'[t] = l => t = owner[l],
         \/ loop'[l].pc \notin Working
         \/ loop'[l].at = last[owner[l]] + 1
         \/ loop'[l].at = loop[l].at /\ Pc(l) # "start",
         \A t \in Tasks : status'[t] = "done" /\ status[t] # "done"
                            => \A i \in Chunks : acked[t][i] # None
  PROVE  Known(l)
<1>1. \A i \in Chunks : loop'[l].pc \in Working \ {"start"} /\ i < loop'[l].at
                         => acked'[owner[l]][i] # None
  <2> SUFFICES ASSUME NEW i \in Chunks, loop'[l].pc \in Working, i < loop'[l].at
               PROVE  acked[owner[l]][i] # None
    OBVIOUS
  <2>1. CASE loop'[l].at = last[owner[l]] + 1
    <3>1. last[owner[l]] \in Int /\ i \in Int
      BY DEF Before, TypeOK, Chunks
    <3>2. i <= last[owner[l]]
      BY <2>1, <3>1
    <3>3. QED
      BY <3>2 DEF Before, AckedSoFar
  <2>2. CASE loop'[l].at = loop[l].at /\ Pc(l) # "start"
    BY <2>2 DEF Before, AckedSoFar
  <2>3. QED
    BY <2>1, <2>2
<1>2. \A t \in Tasks, i \in Chunks : i <= last[t] => acked[t][i] # None
  BY DEF Before, AckedSoFar
<1>3. QED
  BY <1>1, <1>2 DEF Known

\* A loop whose task fails ends; the task is an error, if it is still there.
LEMMA FailStep ==
  ASSUME StoreAssumption, NEW l \in Loops, Before(l), FailTask(l), UNCHANGED <<last, owner, acked>>,
         \/ UNCHANGED controller
         \/ controller' = [controller EXCEPT ![owner[l]] = None]
  PROVE  LoopStep(l)
<1>1. Outcome(l) /\ loop'[l].pc = "ended"
  BY ReleaseOutcome DEF FailTask, Before
<1>2. /\ status' \in [Tasks -> {"new", "pending", "encrypting", "uploading",
                                "paused", "done", "error", "gone"}]
      /\ \A u \in Tasks \ {owner[l]} : status'[u] = status[u]
      /\ status'[owner[l]] = "error" \/ (/\ status'[owner[l]] = status[owner[l]]
                                         /\ status[owner[l]] \in {"new", "gone"})
  BY StatusSet DEF FailTask, Before
<1>3. Shared
  BY <1>2 DEF Shared, FailTask, Before, TypeOK
<1>4. \A t \in Tasks : controller'[t] \in {controller[t], None}
  BY DEF Before, TypeOK
<1>5. \A t \in Tasks : controller'[t] = l => t = owner[l]
  BY <1>4 DEF Before, Owned, StoreAssumption
<1>6. Known(l)
  BY <1>1, <1>2, <1>4, <1>5, KnownKept DEF Working, Fit
<1>7. Shown(l)
  BY <1>1, <1>2 DEF Shown
<1>8. QED
  BY <1>1, <1>3, <1>6, <1>7 DEF LoopStep

\* So does one that halts without a word.
LEMMA HaltStep ==
  ASSUME StoreAssumption, NEW l \in Loops, Before(l), Release(l),
         UNCHANGED <<status, last, dekCache, owner, acked>>,
         \/ UNCHANGED controller
         \/ controller' = [controller EXCEPT ![owner[l]] = None],
         \/ status[owner[l]] \in {"new", "gone", "paused"}
         \/ Pc(l) = "sending" /\ loop[l].aborted
  PROVE  LoopStep(l)
<1>1. Outcome(l) /\ loop'[l].pc = "ended"
  BY ReleaseOutcome DEF Before
<1>2. Shared
  BY DEF Shared, Before, TypeOK
<1>3. \A t \in Tasks : controller'[t] \in {controller[t], None}
  BY DEF Before, TypeOK
<1>4. \A t \in Tasks : controller'[t] = l => t = owner[l]
  BY <1>3 DEF Before, Owned, StoreAssumption
<1>5. Known(l)
  BY <1>1, <1>3, <1>4, KnownKept DEF Working, Fit
<1>6. Shown(l)
  BY <1>1 DEF Shown
<1>7. QED
  BY <1>1, <1>2, <1>5, <1>6 DEF LoopStep

\* A loop that goes on with its task, in the state x.
LEMMA GoesOn ==
  ASSUME StoreAssumption, NEW l \in Loops, Before(l), UNCHANGED <<last, active, queue, owner, acked>>,
         NEW x \in LoopState, x.pc \in Working, loop' = [loop EXCEPT ![l] = x],
         x.pc = "sending" => ~x.aborted,
         Fit(x),
         x.at = last[owner[l]] + 1 \/ (x.at = loop[l].at /\ Pc(l) # "start"),
         dekCache' \in [Tasks -> Loops \union {None}],
         \/ UNCHANGED controller
         \/ controller' = [controller EXCEPT ![owner[l]] = l],
         \/ UNCHANGED status /\ Pc(l) # "start"
         \/ SetStatus(owner[l], "encrypting") /\ Added(owner[l])
         \/ SetStatus(owner[l], "uploading") /\ (Pc(l) = "start" => Added(owner[l]))
  PROVE  LoopStep(l)
<1>1. Outcome(l) /\ loop'[l] = x
  BY ChangeOutcome DEF Before
<1>2. /\ status' \in [Tasks -> {"new", "pending", "encrypting", "uploading",
                                "paused", "done", "error", "gone"}]
      /\ \A u \in Tasks \ {owner[l]} : status'[u] = status[u]
      /\ \/ status'[owner[l]] \in {"encrypting", "uploading"}
         \/ status'[owner[l]] = status[owner[l]] /\ Pc(l) # "start"
  <2>1. CASE UNCHANGED status /\ Pc(l) # "start"
    BY <2>1 DEF Before, TypeOK
  <2>2. CASE SetStatus(owner[l], "encrypting") /\ Added(owner[l])
    BY <2>2, StatusSet DEF Before, Added
  <2>3. CASE SetStatus(owner[l], "uploading") /\ (Pc(l) = "start" => Added(owner[l]))
    BY <2>3, StatusSet DEF Before, Added
  <2>4. QED
    BY <2>1, <2>2, <2>3
<1>3. Shared
  BY <1>2, ZenonT(40) DEF Shared, Before, TypeOK
<1>4. /\ \A t \in Tasks : controller'[t] # l => controller'[t] \in {controller[t], None}
      /\ \A t \in Tasks : controller'[t] = l => t = owner[l]
  BY DEF Before, TypeOK, Owned
<1>5. Known(l)
  BY <1>1, <1>2, <1>4, KnownKept
<1>6. Shown(l)
  BY <1>1, <1>2 DEF Shown
<1>7. QED
  BY <1>1, <1>3, <1>5, <1>6 DEF LoopStep

\* A loop that got its slot ends at once, fails, or begins its task.
LEMMA StartStep ==
  ASSUME StoreAssumption, NEW l \in Loops, Before(l), Start(l)
  PROVE  LoopStep(l)
<1> DEFINE t == owner[l]
<1>1. /\ t \in Tasks
      /\ loop[l] \in LoopState
      /\ last[t] + 1 \in 0 .. TotalChunks
      /\ dekCache[t] \in Loops \union {None}
      /\ Pc(l) = "start"
      /\ UNCHANGED <<last, controller, owner, acked>>
  BY DEF Before, TypeOK, Start, StoreAssumption
<1>2. CASE /\ ~Added(t) \/ status[t] = "paused"
           /\ Release(l)
           /\ UNCHANGED <<status, dekCache>>
  BY <1>1, <1>2, HaltStep DEF Added
<1>3. CASE FailTask(l)
  BY <1>1, <1>3, FailStep
<1>4. CASE /\ Added(t) /\ status[t] # "paused"
           /\ SetStatus(t, "encrypting")
           /\ loop' = [loop EXCEPT ![l].pc = "deriving", ![l].at = last[t] + 1]
           /\ UNCHANGED <<dekCache, active, queue>>
  <2> DEFINE x == [loop[l] EXCEPT !.pc = "deriving", !.at = last[t] + 1]
  <2>1. x \in LoopState /\ x.pc = "deriving" /\ x.at = last[t] + 1
    BY <1>1 DEF LoopState, Working
  <2>2. loop' = [loop EXCEPT ![l] = x]
    BY <1>4 DEF Before, TypeOK
  <2>3. dekCache' \in [Tasks -> Loops \union {None}]
    BY <1>4 DEF Before, TypeOK
  <2> HIDE DEF x
  <2>4. QED
    BY <1>1, <1>4, <2>1, <2>2, <2>3, GoesOn DEF Working, Fit
<1>5. CASE /\ Added(t) /\ status[t] # "paused"
           /\ dekCache[t] # None
           /\ SetStatus(t, "uploading")
           /\ loop' = [loop EXCEPT ![l].pc = "head", ![l].at = last[t] + 1,
                                   ![l].bundle = dekCache[t]]
           /\ UNCHANGED <<dekCache, active, queue>>
  <2> DEFINE x == [loop[l] EXCEPT !.pc = "head", !.at = last[t] + 1, !.bundle = dekCache[t]]
  <2>1. x \in LoopState /\ x.pc = "head" /\ x.at = last[t] + 1 /\ x.bundle # None
    BY <1>1, <1>5 DEF LoopState, Working
  <2>2. loop' = [loop EXCEPT ![l] = x]
    BY <1>5 DEF Before, TypeOK
  <2>3. dekCache' \in [Tasks -> Loops \union {None}]
    BY <1>5 DEF Before, TypeOK
  <2> HIDE DEF x
  <2>4. QED
    BY <1>1, <1>5, <2>1, <2>2, <2>3, GoesOn DEF Working, Fit
<1>6. QED
  BY <1>2, <1>3, <1>4, <1>5 DEF Start

\* The bundle is ready.
LEMMA DekReadyStep ==
  ASSUME StoreAssumption, NEW l \in Loops, Before(l), DekReady(l)
  PROVE  LoopStep(l)
<1> DEFINE x == [loop[l] EXCEPT !.pc = "head", !.bundle = l]
<1>1. loop[l] \in LoopState /\ Pc(l) = "deriving" /\ loop \in [Loops -> LoopState]
  BY DEF Before, TypeOK, DekReady
<1>2. x \in LoopState /\ x.pc = "head" /\ x.at = loop[l].at /\ x.bundle # None
  BY <1>1 DEF LoopState, Working, StoreAssumption
<1>3. loop' = [loop EXCEPT ![l] = x]
  BY <1>1 DEF DekReady
<1>4. dekCache' \in [Tasks -> Loops \union {None}]
  BY DEF DekReady, Before, TypeOK
<1> HIDE DEF x
<1>5. QED
  BY <1>1, <1>2, <1>3, <1>4, GoesOn DEF DekReady, Working, Fit

\* The bundle or the chunk cannot be made.
LEMMA PrepareFailsStep ==
  ASSUME StoreAssumption, NEW l \in Loops, Before(l), PrepareFails(l)
  PROVE  LoopStep(l)
BY FailStep DEF PrepareFails

\* At the head of the loop the file is done, the task was halted, or the next
\* chunk is made.
LEMMA LoopHeadStep ==
  ASSUME StoreAssumption, NEW l \in Loops, Before(l), LoopHead(l)
  PROVE  LoopStep(l)
<1> DEFINE t == owner[l]
<1>1. /\ t \in Tasks
      /\ loop[l] \in LoopState
      /\ loop \in [Loops -> LoopState]
      /\ Pc(l) = "head"
      /\ loop[l].bundle # None
      /\ UNCHANGED <<last, controller, owner, acked>>
  BY DEF Before, TypeOK, LoopHead, Equipped, Fit, Pc
<1>2. CASE /\ loop[l].at = TotalChunks
           /\ SetStatus(t, "done")
           /\ dekCache' = [dekCache EXCEPT ![t] = None]
           /\ Release(l)
  <2>1. Outcome(l) /\ loop'[l].pc = "ended"
    BY <1>2, ReleaseOutcome DEF Before
  <2>2. /\ status' \in [Tasks -> {"new", "pending", "encrypting", "uploading",
                                  "paused", "done", "error", "gone"}]
        /\ \A u \in Tasks \ {t} : status'[u] = status[u]
        /\ status'[t] = "done" \/ (status'[t] = status[t] /\ status[t] \in {"new", "gone"})
    BY <1>1, <1>2, StatusSet DEF Before
  <2>3. Shared
    BY <1>1, <1>2, <2>2 DEF Shared, Before, TypeOK
  <2>4. \A i \in Chunks : acked[t][i] # None
    <3>1. \A i \in Chunks : i < loop[l].at
      BY <1>2 DEF Chunks, StoreAssumption
    <3>2. QED
      BY <3>1, <1>1 DEF Before, AckedSoFar, Working
  <2>5. \A u \in Tasks : status'[u] = "done" /\ status[u] # "done"
                           => \A i \in Chunks : acked[u][i] # None
    BY <2>2, <2>4
  <2>6. Known(l)
    BY <1>1, <2>1, <2>5, KnownKept DEF Before, Owned, Working, Fit
  <2>7. Shown(l)
    BY <2>1, <2>2 DEF Shown
  <2>8. QED
    BY <1>1, <2>1, <2>3, <2>6, <2>7 DEF LoopStep
<1>3. CASE /\ ~Added(t) \/ status[t] = "paused"
           /\ Release(l)
           /\ UNCHANGED <<status, dekCache>>
  BY <1>1, <1>3, HaltStep DEF Added
<1>4. CASE /\ loop[l].at < TotalChunks
           /\ loop' = [loop EXCEPT ![l].pc = "encrypting"]
           /\ UNCHANGED <<status, dekCache, active, queue>>
  <2> DEFINE x == [loop[l] EXCEPT !.pc = "encrypting"]
  <2>1. x \in LoopState /\ x.pc = "encrypting" /\ x.at = loop[l].at /\ x.bundle = loop[l].bundle
    BY <1>1 DEF LoopState, Working
  <2>2. loop' = [loop EXCEPT ![l] = x]
    BY <1>1, <1>4
  <2>3. dekCache' \in [Tasks -> Loops \union {None}]
    BY <1>4 DEF Before, TypeOK
  <2> HIDE DEF x
  <2>4. QED
    BY <1>1, <1>4, <2>1, <2>2, <2>3, GoesOn DEF Working, Fit
<1>5. QED
  BY <1>2, <1>3, <1>4 DEF LoopHead

\* A try is sent, for the first time or again.
LEMMA SendTryStep ==
  ASSUME StoreAssumption, NEW l \in Loops, Before(l), Pc(l) \in {"encrypting", "backoff"},
         NEW n \in 0 .. MaxRetries - 1, SendTry(l, n)
  PROVE  LoopStep(l)
<1> DEFINE x == [loop[l] EXCEPT !.pc = "sending", !.retries = n, !.aborted = FALSE]
<1>1. loop[l] \in LoopState /\ loop \in [Loops -> LoopState] 
      /\ loop[l].at < TotalChunks /\ loop[l].bundle # None
  BY DEF Before, TypeOK, Equipped, Fit, Pc
<1>2. x \in LoopState /\ x.pc = "sending" /\ x.at = loop[l].at /\ ~x.aborted
      /\ x.bundle = loop[l].bundle
  BY <1>1 DEF LoopState, Working
<1>3. loop' = [loop EXCEPT ![l] = x]
  BY <1>1 DEF SendTry
<1>4. dekCache' \in [Tasks -> Loops \union {None}]
  BY DEF SendTry, Before, TypeOK
<1> HIDE DEF x
<1>5. QED
  BY <1>1, <1>2, <1>3, <1>4, GoesOn DEF SendTry, Working, Fit

\* A try has failed: the task fails, or the loop sleeps.
LEMMA TryFailsStep ==
  ASSUME StoreAssumption, NEW l \in Loops, Before(l), TryFails(l)
  PROVE  LoopStep(l)
<1>1. /\ loop[l] \in LoopState
      /\ loop \in [Loops -> LoopState]
      /\ loop[l].at < TotalChunks
      /\ loop[l].bundle # None
      /\ Pc(l) = "sending"
  BY DEF Before, TypeOK, Equipped, Fit, Pc, TryFails
<1>2. CASE controller' = [controller EXCEPT ![owner[l]] = None] /\ FailTask(l)
  BY <1>2, FailStep DEF TryFails
<1>3. CASE /\ loop[l].retries + 1 < MaxRetries
           /\ loop' = [loop EXCEPT ![l].pc = "backoff", ![l].retries = @ + 1]
           /\ UNCHANGED <<status, dekCache, active, queue, controller>>
  <2> DEFINE x == [loop[l] EXCEPT !.pc = "backoff", !.retries = @ + 1]
  <2>1. loop[l].retries \in 0 .. MaxRetries - 1 /\ loop[l].retries + 1 \in 0 .. MaxRetries - 1
    BY <1>1, <1>3 DEF LoopState, StoreAssumption
  <2>2. x \in LoopState /\ x.pc = "backoff" /\ x.at = loop[l].at /\ x.bundle = loop[l].bundle
    BY <1>1, <2>1 DEF LoopState, Working
  <2>3. loop' = [loop EXCEPT ![l] = x]
    BY <1>1, <1>3
  <2>4. dekCache' \in [Tasks -> Loops \union {None}]
    BY <1>3 DEF Before, TypeOK
  <2> HIDE DEF x
  <2>5. QED
    BY <1>1, <1>3, <2>2, <2>3, <2>4, GoesOn DEF TryFails, Working, Fit
<1>4. QED
  BY <1>2, <1>3 DEF TryFails

\* A try was aborted.
LEMMA AbortedStep ==
  ASSUME StoreAssumption, NEW l \in Loops, Before(l), Aborted(l)
  PROVE  LoopStep(l)
BY HaltStep DEF Aborted

\* The server has the chunk: it is recorded for a resume.
LEMMA AckStep ==
  ASSUME StoreAssumption, NEW l \in Loops, Before(l), Ack(l)
  PROVE  LoopStep(l)
<1> DEFINE t == owner[l]
           n == loop[l].at
           x == [loop[l] EXCEPT !.pc = "head", !.at = n + 1]
<1>1. /\ loop[l] \in LoopState
      /\ loop \in [Loops -> LoopState]
      /\ n \in Chunks
      /\ Pc(l) = "sending"
      /\ t \in Tasks
      /\ loop[l].bundle \in Loops /\ loop[l].bundle # None
  BY DEF Before, TypeOK, Equipped, Fit, Pc, Ack, Advance, Chunks, LoopState, StoreAssumption
<1>2. x \in LoopState /\ x.pc = "head" /\ x.at = n + 1 /\ x.bundle = loop[l].bundle
  <2>1. n + 1 \in 0 .. TotalChunks
    BY <1>1 DEF Chunks, StoreAssumption
  <2>2. QED
    BY <1>1, <2>1 DEF LoopState, Working
<1>3. loop' = [loop EXCEPT ![l] = x]
  BY <1>1 DEF Ack, Advance
<1> HIDE DEF x
<1>4. Outcome(l) /\ loop'[l] = x
  BY <1>2, <1>3, ChangeOutcome DEF Before, Ack, Advance, Working
<1>5. acked \in [Tasks -> [Chunks -> Loops \union {None}]]
  BY DEF Before, TypeOK
<1>6. /\ acked' \in [Tasks -> [Chunks -> Loops \union {None}]]
      /\ acked'[t][n] # None
      /\ \A u \in Tasks, i \in Chunks : acked[u][i] # None => acked'[u][i] # None
  BY <1>1, <1>5 DEF Ack, Accepted
<1>7. /\ last' \in [Tasks -> -1 .. TotalChunks - 1]
      /\ \A u \in Tasks : last'[u] = last[u] \/ (u = t /\ last'[u] = n)
  BY <1>1 DEF Ack, Advance, Before, TypeOK, Chunks, StoreAssumption
<1>8. \A i \in Chunks : i <= n => acked'[t][i] # None
  <2>1. \A i \in Chunks : i < n => acked[t][i] # None
    BY <1>1 DEF Before, AckedSoFar, Working
  <2>2. \A i \in Chunks : i <= n => i < n \/ i = n
    BY <1>1 DEF Chunks
  <2>3. QED
    BY <2>1, <2>2, <1>1, <1>6
<1>9. Shared
  BY <1>6, <1>7 DEF Shared, Before, TypeOK, Ack, Advance
<1>10. Known(l)
  <2>1. Fit(loop'[l])
    BY <1>1, <1>2, <1>4 DEF Fit
  <2>2. \A u \in Tasks : controller'[u] \in {controller[u], None}
    BY DEF Before, TypeOK, Ack, Advance
  <2>3. \A u \in Tasks : controller'[u] = l => u = owner[l]
    BY <2>2 DEF Before, Owned, StoreAssumption
  <2>4. \A i \in Chunks : i < loop'[l].at => i <= n
    BY <1>1, <1>2, <1>4 DEF Chunks
  <2>5. \A u \in Tasks, i \in Chunks : i <= last'[u] => acked'[u][i] # None
    BY <1>6, <1>7, <1>8 DEF Before, AckedSoFar
  <2>6. UNCHANGED status
    BY DEF Ack, Advance
  <2>7. QED
    BY <2>1, <2>2, <2>3, <2>4, <2>5, <2>6, <1>6, <1>8 DEF Known
<1>11. Shown(l)
  BY <1>1, <1>2, <1>4 DEF Shown, Ack, Advance, Working
<1>12. QED
  BY <1>4, <1>9, <1>10, <1>11 DEF LoopStep, Ack, Advance

\* Every action of a loop is such a step.
LEMMA EachLoopStep ==
  ASSUME StoreAssumption, StoreInv, NEW l \in Loops, Loop(l)
  PROVE  LoopStep(l)
<1>1. Before(l)
  BY BeforeLoop
<1>2. CASE ChunkReady(l)
  <2>1. 0 \in 0 .. MaxRetries - 1
    BY DEF StoreAssumption
  <2>2. QED
    BY <1>1, <1>2, <2>1, SendTryStep DEF ChunkReady
<1>3. CASE Wake(l)
  <2>1. loop[l].retries \in 0 .. MaxRetries - 1
    BY <1>1 DEF Before, TypeOK, LoopState
  <2>2. QED
    BY <1>1, <1>3, <2>1, SendTryStep DEF Wake
<1>4. QED
  BY <1>1, <1>2, <1>3, StartStep, DekReadyStep, PrepareFailsStep, LoopHeadStep, AckStep,
     TryFailsStep, AbortedStep DEF Loop

\* What a step of a loop does keeps the invariant.
LEMMA LoopKeepsInv ==
  ASSUME StoreAssumption, StoreInv, NEW l \in Loops, Before(l), LoopStep(l)
  PROVE  StoreInv'
<1> USE DEF LoopStep
<1>0. /\ loop \in [Loops -> LoopState]
      /\ loop' \in [Loops -> LoopState]
      /\ owner[l] \in Tasks
  BY DEF StoreInv, TypeOK, Outcome, Before
<1>1. TypeOK'
  BY DEF StoreInv, TypeOK, Outcome, Shared, SlotInv
<1>2. \A k \in Loops \ {l} :
        /\ loop'[k].at = loop[k].at /\ loop'[k].bundle = loop[k].bundle
        /\ loop'[k].aborted = loop[k].aborted
        /\ \/ loop'[k].pc = loop[k].pc
           \/ loop[k].pc = "queued" /\ loop'[k].pc = "start"
  BY <1>0, SMTT(30) DEF Outcome, OthersWait, LoopState, Pc
<1>3. Owned'
  <2> SUFFICES ASSUME NEW k \in Loops
               PROVE  /\ loop'[k].pc # "unused" => owner[k] \in Tasks
                      /\ \A t \in Tasks : controller'[t] = k =>
                           loop'[k].pc # "unused" /\ owner[k] = t
    BY DEF Owned, Pc
  <2>1. loop[k].pc # "unused" => owner[k] \in Tasks
    BY DEF StoreInv, Owned, Pc
  <2>2. \A t \in Tasks : controller[t] = k => loop[k].pc # "unused" /\ owner[k] = t
    BY DEF StoreInv, Owned, Pc
  <2>3. loop'[l].pc # "unused"
    BY DEF Outcome, Working
  <2>4. CASE k = l
    BY <2>3, <2>4, <1>0 DEF Known
  <2>5. CASE k # l
    <3>1. loop'[k].pc # "unused" <=> loop[k].pc # "unused"
      BY <2>5, <1>2
    <3>2. \A t \in Tasks : controller'[t] = k => controller[t] = k
      BY <2>5 DEF Known, StoreAssumption
    <3>3. QED
      BY <2>1, <2>2, <3>1, <3>2
  <2>6. QED
    BY <2>4, <2>5
<1>4. Equipped'
  <2>1. \A k \in Loops \ {l} : Fit(loop'[k])
    BY <1>2 DEF StoreInv, Equipped, Fit
  <2>2. QED
    BY <2>1 DEF Known, Equipped
<1>5. Ticketed' /\ SlotsAccounted'
  BY DEF Outcome, SlotInv
<1>6. AckedSoFar'
  <2>1. \A k \in Loops, i \in Chunks :
          loop'[k].pc \in Working \ {"start"} /\ i < loop'[k].at => acked'[owner[k]][i] # None
    <3> SUFFICES ASSUME NEW k \in Loops, NEW i \in Chunks,
                        loop'[k].pc \in Working \ {"start"}, i < loop'[k].at
                 PROVE  acked'[owner[k]][i] # None
      OBVIOUS
    <3>1. CASE k = l
      BY <3>1 DEF Known
    <3>2. CASE k # l
      <4>1. loop[k].pc \in Working \ {"start"} /\ i < loop[k].at
        BY <3>2, <1>2
      <4>2. acked[owner[k]][i] # None /\ owner[k] \in Tasks
        BY <4>1 DEF StoreInv, AckedSoFar, Owned, Pc, Working
      <4>3. QED
        BY <4>2 DEF Known
    <3>3. QED
      BY <3>1, <3>2
  <2>2. DoneMeansAllAcked'
    BY DEF StoreInv, AckedSoFar, DoneMeansAllAcked, Known
  <2>3. QED
    BY <2>1, <2>2 DEF AckedSoFar, Known, Pc
<1>7. Led'
  <2> SUFFICES ASSUME NEW t \in Tasks
               PROVE  /\ status'[t] = "pending" =>
                           \E k \in Loops : owner[k] = t /\ loop'[k].pc \in {"queued", "start"}
                      /\ status'[t] \in {"encrypting", "uploading"} =>
                           \E k \in Loops :
                             /\ owner[k] = t
                             /\ loop'[k].pc \in Working \union {"queued"}
                             /\ loop'[k].pc = "sending" => ~loop'[k].aborted
    BY DEF Led, Leads, Moves, Pc
  <2>1. ASSUME status'[t] = "pending"
        PROVE  \E k \in Loops : owner[k] = t /\ loop'[k].pc \in {"queued", "start"}
    <3>1. status[t] = "pending" /\ (t = owner[l] => Pc(l) # "start")
      BY <2>1 DEF Shown
    <3>2. PICK k \in Loops : Leads(k, t)
      BY <3>1 DEF StoreInv, Led
    <3>3. k # l
      BY <3>1, <3>2 DEF Leads, Before, Working
    <3>4. QED
      BY <3>2, <3>3, <1>2 DEF Leads, Pc
  <2>2. ASSUME status'[t] \in {"encrypting", "uploading"}
        PROVE  \E k \in Loops :
                 /\ owner[k] = t
                 /\ loop'[k].pc \in Working \union {"queued"}
                 /\ loop'[k].pc = "sending" => ~loop'[k].aborted
    <3>1. CASE /\ t = owner[l]
               /\ loop'[l].pc \in Working
               /\ loop'[l].pc = "sending" => ~loop'[l].aborted
      BY <3>1
    <3>2. CASE /\ status'[t] = status[t]
               /\ t = owner[l] => Pc(l) = "sending" /\ loop[l].aborted
      <4>1. PICK k \in Loops : Moves(k, t)
        BY <2>2, <3>2 DEF StoreInv, Led
      <4>2. k # l
        BY <3>2, <4>1 DEF Moves
      <4>3. "start" \in Working
        BY DEF Working
      <4>4. QED
        BY <4>1, <4>2, <4>3, <1>2 DEF Moves, Pc
    <3>3. QED
      BY <2>2, <3>1, <3>2 DEF Shown
  <2>3. QED
    BY <2>1, <2>2
<1>8. QED
  BY <1>1, <1>3, <1>4, <1>5, <1>6, <1>7 DEF StoreInv

-----------------------------------------------------------------------------
\* What the user does

\* A new call of processTask is pending, and waits or has a slot.
LEMMA AcquireKeepsInv ==
  ASSUME StoreAssumption, StoreInv, NEW t \in Tasks, NEW l \in Loops,
         AddFile(t, l) \/ Resume(t, l)
  PROVE  StoreInv'
<1>0. /\ TypeOK /\ Ticketed /\ SlotsAccounted
      /\ loop \in [Loops -> LoopState]
      /\ owner \in [Loops -> Tasks \union {None}]
  BY DEF StoreInv, TypeOK
<1>1. /\ Acquire(l, t)
      /\ status' = [status EXCEPT ![t] = "pending"]
      /\ UNCHANGED <<last, dekCache, controller, acked>>
  BY DEF AddFile, Resume
<1>2. /\ loop' \in [Loops -> LoopState]
      /\ queue' \in Seq(Loops)
      /\ loop'[l].pc \in {"queued", "start"}
      /\ \A k \in Loops \ {l} : loop'[k] = loop[k]
      /\ SlotInv'
  BY <1>0, <1>1, AcquireSlots
<1>3. /\ Pc(l) = "unused"
      /\ owner' = [owner EXCEPT ![l] = t]
  BY <1>1 DEF Acquire
<1>4. owner'[l] = t /\ \A k \in Loops \ {l} : owner'[k] = owner[k]
  BY <1>0, <1>3
<1>5. TypeOK'
  BY <1>0, <1>1, <1>2, <1>3 DEF TypeOK, SlotInv
<1>6. Owned'
  <2>1. \A u \in Tasks : controller[u] # l
    BY <1>3 DEF StoreInv, Owned
  <2>2. QED
    BY <1>1, <1>2, <1>4, <2>1, ZenonT(40) DEF StoreInv, Owned, Pc
<1>7. Equipped'
  BY <1>2 DEF StoreInv, Equipped, Fit
<1>8. AckedSoFar'
  <2>1. \A k \in Loops, i \in Chunks :
          loop'[k].pc \in Working \ {"start"} /\ i < loop'[k].at => acked[owner'[k]][i] # None
    BY <1>2, <1>4 DEF StoreInv, AckedSoFar, Pc, Working
  <2>2. DoneMeansAllAcked'
    BY <1>0, <1>1 DEF StoreInv, AckedSoFar, DoneMeansAllAcked, TypeOK
  <2>3. QED
    BY <1>1, <2>1, <2>2 DEF StoreInv, AckedSoFar, Pc
<1>9. Led'
  <2>1. \A u \in Tasks \ {t} : status'[u] = status[u]
    BY <1>0, <1>1 DEF TypeOK
  <2>2. status'[t] = "pending"
    BY <1>0, <1>1 DEF TypeOK
  <2> SUFFICES ASSUME NEW u \in Tasks
               PROVE  /\ status'[u] = "pending" =>
                           \E k \in Loops : owner'[k] = u /\ loop'[k].pc \in {"queued", "start"}
                      /\ status'[u] \in {"encrypting", "uploading"} =>
                           \E k \in Loops :
                             /\ owner'[k] = u
                             /\ loop'[k].pc \in Working \union {"queued"}
                             /\ loop'[k].pc = "sending" => ~loop'[k].aborted
    BY DEF Led, Leads, Moves, Pc
  <2>3. CASE u = t
    BY <2>2, <2>3, <1>2, <1>4
  <2>4. CASE u # t
    <3>1. l \notin {k \in Loops : Leads(k, u) \/ Moves(k, u)}
      BY <1>3 DEF Leads, Moves, Working
    <3>2. /\ status[u] = "pending" => \E k \in Loops \ {l} : Leads(k, u)
          /\ status[u] \in {"encrypting", "uploading"} => \E k \in Loops \ {l} : Moves(k, u)
      BY <3>1 DEF StoreInv, Led
    <3>3. QED
      BY <2>1, <2>4, <3>2, <1>2, <1>4 DEF Leads, Moves, Pc
  <2>5. QED
    BY <2>3, <2>4
<1>10. QED
  BY <1>2, <1>5, <1>6, <1>7, <1>8, <1>9 DEF StoreInv, SlotInv

\* Pause and cancel abort the try of a loop of the task.
LEMMA AbortTryEffect ==
  ASSUME StoreAssumption, TypeOK, Owned, NEW t \in Tasks, AbortTry(t)
  PROVE  /\ loop' \in [Loops -> LoopState]
         /\ \A k \in Loops : /\ loop'[k].pc = loop[k].pc
                             /\ loop'[k].at = loop[k].at
                             /\ loop'[k].bundle = loop[k].bundle
                             /\ owner[k] # t => loop'[k].aborted = loop[k].aborted
         /\ controller' \in [Tasks -> Loops \union {None}]
         /\ \A u \in Tasks : controller'[u] \in {controller[u], None}
<1>1. /\ loop \in [Loops -> LoopState]
      /\ controller \in [Tasks -> Loops \union {None}]
  BY DEF TypeOK
<1>2. CASE controller[t] = None
  BY <1>1, <1>2 DEF AbortTry
<1>3. CASE controller[t] # None
  <2> DEFINE c == controller[t]
             x == [loop[c] EXCEPT !.aborted = TRUE]
  <2>1. c \in Loops /\ owner[c] = t /\ loop[c] \in LoopState
    BY <1>1, <1>3 DEF Owned
  <2> HIDE DEF c
  <2>2. /\ x \in LoopState
        /\ x.pc = loop[c].pc /\ x.at = loop[c].at /\ x.bundle = loop[c].bundle
    BY <1>1, <2>1 DEF LoopState
  <2>3. loop' = [loop EXCEPT ![c] = x]
    BY <1>1, <1>3, <2>1 DEF AbortTry, c
  <2> HIDE DEF x
  <2>4. /\ loop' \in [Loops -> LoopState]
        /\ loop'[c] = x
        /\ \A k \in Loops \ {c} : loop'[k] = loop[k]
    BY <1>1, <2>1, <2>2, <2>3
  <2>5. controller' = [controller EXCEPT ![t] = None]
    BY DEF AbortTry
  <2>6. QED
    BY <1>1, <2>1, <2>2, <2>4, <2>5
<1>4. QED
  BY <1>2, <1>3

\* Pause and cancel keep the invariant: no task that is shown as live had its
\* try aborted.
LEMMA HaltKeepsInv ==
  ASSUME StoreAssumption, StoreInv, NEW t \in Tasks, Pause(t) \/ Cancel(t)
  PROVE  StoreInv'
<1>0. /\ TypeOK /\ Owned /\ Ticketed /\ SlotsAccounted
      /\ loop \in [Loops -> LoopState]
      /\ AbortTry(t)
      /\ UNCHANGED <<last, active, queue, owner, acked>>
  BY DEF StoreInv, TypeOK, Pause, Cancel
<1>1. /\ loop' \in [Loops -> LoopState]
      /\ \A k \in Loops : /\ loop'[k].pc = loop[k].pc
                          /\ loop'[k].at = loop[k].at
                          /\ loop'[k].bundle = loop[k].bundle
                          /\ owner[k] # t => loop'[k].aborted = loop[k].aborted
      /\ controller' \in [Tasks -> Loops \union {None}]
      /\ \A u \in Tasks : controller'[u] \in {controller[u], None}
  BY <1>0, AbortTryEffect
<1>2. /\ status' \in [Tasks -> {"new", "pending", "encrypting", "uploading",
                                "paused", "done", "error", "gone"}]
      /\ \A u \in Tasks \ {t} : status'[u] = status[u]
      /\ \/ status'[t] \in {"paused", "gone"}
         \/ status'[t] = status[t] /\ status[t] \notin {"encrypting", "uploading"}
  BY <1>0 DEF TypeOK, Pause, Cancel
<1>3. dekCache' \in [Tasks -> Loops \union {None}]
  BY <1>0 DEF TypeOK, Pause, Cancel
<1>4. TypeOK'
  BY <1>0, <1>1, <1>2, <1>3 DEF TypeOK
<1>5. Owned'
  BY <1>0, <1>1 DEF Owned, Pc, StoreAssumption
<1>6. Equipped'
  BY <1>1 DEF StoreInv, Equipped, Fit
<1>7. SlotInv'
  BY <1>0, <1>1, KeepSlots DEF KeepsSlot
<1>8. AckedSoFar'
  <2>1. DoneMeansAllAcked'
    BY <1>0, <1>2 DEF StoreInv, AckedSoFar, DoneMeansAllAcked
  <2>2. QED
    BY <1>0, <1>1, <2>1 DEF StoreInv, AckedSoFar, Pc
<1>9. Led'
  <2> SUFFICES ASSUME NEW u \in Tasks
               PROVE  /\ status'[u] = "pending" =>
                           \E k \in Loops : owner[k] = u /\ loop'[k].pc \in {"queued", "start"}
                      /\ status'[u] \in {"encrypting", "uploading"} =>
                           \E k \in Loops :
                             /\ owner[k] = u
                             /\ loop'[k].pc \in Working \union {"queued"}
                             /\ loop'[k].pc = "sending" => ~loop'[k].aborted
    BY <1>0 DEF Led, Leads, Moves, Pc
  <2>1. CASE u = t
    BY <2>1, <1>1, <1>2 DEF StoreInv, Led, Leads, Pc
  <2>2. CASE u # t
    BY <2>2, <1>1, <1>2 DEF StoreInv, Led, Leads, Moves, Pc
  <2>3. QED
    BY <2>1, <2>2
<1>10. QED
  BY <1>4, <1>5, <1>6, <1>7, <1>8, <1>9 DEF StoreInv, SlotInv

\* Tasks that are done leave the list.
LEMMA ClearDoneKeepsInv ==
  ASSUME StoreAssumption, StoreInv, ClearDone
  PROVE  StoreInv'
<1>1. /\ \A t \in Tasks : status'[t] = IF status[t] = "done" THEN "gone" ELSE status[t]
      /\ status' \in [Tasks -> {"new", "pending", "encrypting", "uploading",
                                "paused", "done", "error", "gone"}]
      /\ UNCHANGED <<last, dekCache, controller, active, queue, owner, loop, acked>>
  BY DEF ClearDone, StoreInv, TypeOK
<1>2. TypeOK'
  BY <1>1 DEF StoreInv, TypeOK
<1>3. Owned' /\ Equipped'
  BY <1>1 DEF StoreInv, Owned, Equipped, Pc
<1>4. \A k \in Loops : KeepsSlot(k)
  BY <1>1 DEF KeepsSlot
<1>5. SlotInv'
  BY <1>1, <1>4, KeepSlots DEF StoreInv
<1>6. AckedSoFar'
  BY <1>1 DEF StoreInv, AckedSoFar, DoneMeansAllAcked, Pc
<1>7. Led'
  BY <1>1 DEF StoreInv, Led, Leads, Moves, Pc
<1>8. QED
  BY <1>2, <1>3, <1>5, <1>6, <1>7 DEF StoreInv, SlotInv

\* A step of another part of the browser.
LEMMA UnchangedKeepsInv == StoreInv /\ UNCHANGED vars => StoreInv'
BY DEF StoreInv, vars, TypeOK, Owned, Equipped, Ticketed, SlotsAccounted, Holding, AckedSoFar,
       DoneMeansAllAcked, Led, Leads, Moves, Pc

\* Every step of the upload list keeps its invariant.
LEMMA StoreStep ==
  ASSUME StoreAssumption, StoreInv, [Next]_vars
  PROVE  StoreInv'
BY EachLoopStep, BeforeLoop, LoopKeepsInv, AcquireKeepsInv, HaltKeepsInv, ClearDoneKeepsInv,
   UnchangedKeepsInv DEF Next

\* It holds of the empty list.
LEMMA StoreInit == StoreAssumption /\ Init => StoreInv
<1> SUFFICES ASSUME StoreAssumption, Init
             PROVE  StoreInv
  OBVIOUS
<1>1. NoLocals("unused") \in LoopState
  BY DEF NoLocals, LoopState, StoreAssumption
<1>2. \A l \in Loops : loop[l] = NoLocals("unused") /\ loop[l].pc = "unused"
  BY DEF Init, NoLocals
<1>3. TypeOK
  <2>1. loop \in [Loops -> LoopState]
    BY <1>1 DEF Init
  <2>2. queue \in Seq(Loops)
    BY EmptySeq DEF Init
  <2>3. QED
    BY <2>1, <2>2 DEF Init, TypeOK, StoreAssumption
<1>4. Owned /\ Equipped
  BY <1>2 DEF Init, Owned, Equipped, Fit, Pc, StoreAssumption
<1>5. Ticketed
  <2>1. Len(queue) = 0
    BY DEF Init
  <2>2. QED
    BY <2>1, <1>2 DEF Ticketed, Pc
<1>6. SlotsAccounted
  <2>1. Holding = {}
    BY <1>2 DEF Holding, Pc, Working
  <2>2. QED
    BY <2>1, FS_EmptySet DEF Init, SlotsAccounted, StoreAssumption
<1>7. AckedSoFar
  <2>1. \A t \in Tasks, i \in Chunks : ~(i <= last[t])
    BY DEF Init, Chunks
  <2>2. QED
    BY <2>1, <1>2 DEF Init, AckedSoFar, DoneMeansAllAcked, Pc, Working
<1>8. Led
  BY DEF Init, Led
<1>9. QED
  BY <1>3, <1>4, <1>5, <1>6, <1>7, <1>8 DEF StoreInv

\* The part of the browser that rests does not change.
LEMMA StoreRuns == BrowserSpec => Init /\ [][Next]_vars
<1>1. [BrowserNext]_allVars => [Next]_vars
  BY DEF BrowserNext, allVars
<1>2. QED
  BY <1>1, PTL DEF BrowserSpec, BrowserInit

\* The upload list keeps its invariant, whatever the user and the server do:
\* the semaphore is counted right, tickets are neither lost nor doubled, what is
\* taken for sent has been accepted, and every task that is shown as live has a
\* loop that will move it on.
THEOREM StoreSafe == BrowserSpec => []StoreInv
<1>1. StoreInv /\ [Next]_vars => StoreInv'
  BY StoreStep, StoreAssumption
<1>2. Init => StoreInv
  BY StoreInit, StoreAssumption
<1>3. QED
  BY <1>1, <1>2, StoreRuns, PTL

\* The counter of the semaphore is the number of loops at work and never above
\* MAX_CONCURRENT, and no slot is free while a ticket waits.
THEOREM SlotsAreAccounted == BrowserSpec => []SlotsAccounted
BY StoreSafe, PTL DEF StoreInv

\* The list shows a task as done only when the server has accepted every chunk
\* of it, across pauses, resumes and retries.
THEOREM DoneIsAcked == BrowserSpec => []DoneMeansAllAcked
BY StoreSafe, PTL DEF StoreInv, AckedSoFar

\* A task shown as pending or in progress has a loop that will move it on.
THEOREM LiveTasksAreLed == BrowserSpec => []LiveTaskHasLoop
<1>1. StoreInv => LiveTaskHasLoop
  BY DEF StoreInv, Led, Leads, Moves, LiveTaskHasLoop, Working
<1>2. QED
  BY <1>1, StoreSafe, PTL

-----------------------------------------------------------------------------
\* The preview window

AtNode(f) == node # None /\ f = node.file

\* Only documents are shown as text, and only documents are new.
Editable ==
  /\ view.status = "text" => view.file \in Documents
  /\ node # None /\ node.new => node.file \in Documents

\* Whatever is on its way for the window, in its editor or asked of the user
\* belongs to the file it shows.
SameFile ==
  /\ \A l \in Loads : load[l] # None => load[l].mounted /\ AtNode(load[l].file)
  /\ \A s \in Saves : save[s] # None =>
       save[s].of = save[s].file /\ (save[s].mounted => AtNode(save[s].file))
  /\ derive # None =>
       derive.of = derive.file /\ (derive.mounted => AtNode(derive.file) /\ AtNode(of))
  /\ editing \/ needPassword => AtNode(of)
  /\ node # None /\ view.status = "text" => AtNode(view.file)

\* A load that will make an object URL is alone, and no URL is there.
OneUrl ==
  /\ lost = {}
  /\ \A l \in Loads : load[l] # None /\ load[l].key =>
       /\ mek = "derived"
       /\ blobUrl = None
       /\ \A k \in Loads : load[k] # None /\ load[k].key => k = l

PreviewInv == P!TypeOK /\ Editable /\ (Patient => SameFile /\ OneUrl)

\* The save that waits for the key
Deriving == [file : Documents, text : P!AllTexts, of : Documents \union {None},
             key : BOOLEAN, mounted : BOOLEAN]

\* The editor is closed.
LEMMA CancelKeeps ==
  ASSUME PreviewInv, P!Cancel
  PROVE  PreviewInv'
<1>1. /\ editing' = FALSE
      /\ typed' = None
      /\ UNCHANGED <<content, listed, stale, node, mek, view, text, of, saving, needPassword,
                     keysOff, blobUrl, lost, load, save, derive>>
      /\ needPassword = FALSE
  BY DEF P!Cancel, P!server, P!asked
<1>2. P!TypeOK'
  <2>1. editing' \in BOOLEAN
    BY <1>1
  <2>2. QED
    BY <1>1, <2>1 DEF PreviewInv, P!TypeOK
<1>3. Editable'
  BY <1>1 DEF PreviewInv, Editable
<1>4. Patient => SameFile' /\ OneUrl'
  BY <1>1 DEF PreviewInv, SameFile, OneUrl, AtNode
<1>5. QED
  BY <1>2, <1>3, <1>4 DEF PreviewInv

\* The password is not given.
LEMMA DropPasswordKeeps ==
  ASSUME PreviewInv, P!DropPassword
  PROVE  PreviewInv'
<1>1. /\ needPassword' = FALSE
      /\ UNCHANGED <<content, listed, stale, node, mek, view, editing, text, of, saving,
                     keysOff, blobUrl, lost, load, save, derive, typed>>
  BY DEF P!DropPassword, P!server, P!editor
<1>2. P!TypeOK'
  <2>1. needPassword' \in BOOLEAN
    BY <1>1
  <2>2. QED
    BY <1>1, <2>1 DEF PreviewInv, P!TypeOK
<1>3. Editable'
  BY <1>1 DEF PreviewInv, Editable
<1>4. Patient => SameFile' /\ OneUrl'
  BY <1>1 DEF PreviewInv, SameFile, OneUrl, AtNode
<1>5. QED
  BY <1>2, <1>3, <1>4 DEF PreviewInv

\* The list of files is fetched again.
LEMMA RefetchKeeps ==
  ASSUME PreviewInv, P!Refetch
  PROVE  PreviewInv'
<1>1. /\ stale' = FALSE
      /\ listed' = content
      /\ keysOff' \in BOOLEAN
      /\ UNCHANGED <<content, node, mek, view, editing, text, of, saving, needPassword,
                     blobUrl, lost, load, save, derive, typed>>
  BY DEF P!Refetch, P!editor, P!asked
<1>2. P!TypeOK'
  <2>1. stale' \in BOOLEAN
    BY <1>1
  <2>2. QED
    BY <1>1, <2>1 DEF PreviewInv, P!TypeOK
<1>3. Editable'
  BY <1>1 DEF PreviewInv, Editable
<1>4. Patient => SameFile' /\ OneUrl'
  BY <1>1 DEF PreviewInv, SameFile, OneUrl, AtNode
<1>5. QED
  BY <1>2, <1>3, <1>4 DEF PreviewInv

\* The user types.
LEMMA TypeKeeps ==
  ASSUME PreviewInv, NEW t \in Texts, P!Type(t)
  PROVE  PreviewInv'
<1>1. /\ text' = t /\ typed' = t
      /\ UNCHANGED <<content, listed, stale, node, mek, view, editing, of, saving,
                     needPassword, keysOff, blobUrl, lost, load, save, derive>>
  BY DEF P!Type, P!server, P!asked
<1>2. P!TypeOK'
  BY <1>1 DEF PreviewInv, P!TypeOK, P!AllTexts
<1>3. Editable'
  BY <1>1 DEF PreviewInv, Editable
<1>4. Patient => SameFile' /\ OneUrl'
  BY <1>1 DEF PreviewInv, SameFile, OneUrl, AtNode
<1>5. QED
  BY <1>2, <1>3, <1>4 DEF PreviewInv

\* The editor is opened on the text that is shown.
LEMMA EditKeeps ==
  ASSUME PreviewInv, P!Edit
  PROVE  PreviewInv'
<1>1. /\ node # None /\ view.status = "text"
      /\ editing' = TRUE /\ text' = view.text /\ of' = view.file
      /\ needPassword = FALSE
      /\ UNCHANGED <<content, listed, stale, node, mek, view, saving, needPassword, keysOff,
                     blobUrl, lost, load, save, derive, typed>>
  BY DEF P!Edit, P!server, P!asked
<1>2. view.file \in Documents /\ view.text \in P!AllTexts
  BY <1>1 DEF PreviewInv, Editable, P!TypeOK
<1>3. P!TypeOK'
  BY <1>1, <1>2 DEF PreviewInv, P!TypeOK
<1>4. Editable'
  BY <1>1 DEF PreviewInv, Editable
<1>5. Patient => SameFile' /\ OneUrl'
  BY <1>1 DEF PreviewInv, SameFile, OneUrl, AtNode
<1>6. QED
  BY <1>3, <1>4, <1>5 DEF PreviewInv

-----------------------------------------------------------------------------
\* Loads

\* The server answers a load.
LEMMA FetchKeeps ==
  ASSUME PreviewInv, NEW l \in Loads, P!Fetch(l)
  PROVE  PreviewInv'
<1>1. load[l] \in P!Load /\ load \in [Loads -> P!Load \union {None}]
  BY DEF PreviewInv, P!TypeOK, P!Fetch
<1> DEFINE x == [load[l] EXCEPT !.text = content[load[l].file]]
<1>2. /\ x \in P!Load
      /\ x.file = load[l].file /\ x.key = load[l].key /\ x.mounted = load[l].mounted
  BY <1>1 DEF PreviewInv, P!TypeOK, P!Load
<1>3. load' = [load EXCEPT ![l] = x] /\ load[l] # None
  BY <1>1 DEF P!Fetch
<1> HIDE DEF x
<1>4. /\ load' \in [Loads -> P!Load \union {None}]
      /\ \A k \in Loads : load'[k] # None =>
           /\ load[k] # None
           /\ load'[k].file = load[k].file
           /\ load'[k].key = load[k].key
           /\ load'[k].mounted = load[k].mounted
  BY <1>1, <1>2, <1>3
<1>5. UNCHANGED <<content, listed, stale, node, mek, view, editing, text, of, saving,
                  needPassword, keysOff, blobUrl, lost, save, derive, typed>>
  BY DEF P!Fetch, P!server, P!editor, P!asked
<1>6. P!TypeOK'
  BY <1>4, <1>5 DEF PreviewInv, P!TypeOK
<1>7. Editable'
  BY <1>5 DEF PreviewInv, Editable
<1>8. Patient => SameFile' /\ OneUrl'
  BY <1>4, <1>5 DEF PreviewInv, SameFile, OneUrl, AtNode
<1>9. QED
  BY <1>6, <1>7, <1>8 DEF PreviewInv

\* A load that has ended belongs to the file that is shown, and its URL is the
\* only one.
LEMMA LoadedKeeps ==
  ASSUME PreviewInv, NEW l \in Loads, P!Loaded(l) \/ P!LoadFails(l)
  PROVE  PreviewInv'
<1>1. load[l] \in P!Load /\ load \in [Loads -> P!Load \union {None}]
  BY DEF PreviewInv, P!TypeOK, P!Loaded, P!LoadFails
<1> DEFINE f == load[l].file
<1>2. /\ load[l] # None
      /\ load' = [load EXCEPT ![l] = None]
      /\ UNCHANGED <<content, listed, stale, node, mek, editing, text, of, saving,
                     needPassword, keysOff, save, derive, typed>>
  BY DEF P!Loaded, P!LoadFails, P!server, P!editor, P!asked
<1>3. /\ load' \in [Loads -> P!Load \union {None}]
      /\ \A k \in Loads : load'[k] # None => load'[k] = load[k] /\ k # l
  BY <1>1, <1>2
<1>4. \/ view' = view
      \/ /\ view'.file = f
         /\ view'.status = "text" => f \in Documents
         /\ view' \in [status : {"loading", "text", "ready", "error"},
                       file : P!Files \union {None}, text : P!AllTexts]
  BY <1>1 DEF P!Loaded, P!LoadFails, P!Show, P!Load, P!Files, P!AllTexts
<1>5. /\ blobUrl' \in Media \union {None}
      /\ lost' \subseteq Media
  BY <1>1 DEF PreviewInv, P!TypeOK, P!Loaded, P!LoadFails
<1>6. P!TypeOK'
  BY <1>2, <1>3, <1>4, <1>5 DEF PreviewInv, P!TypeOK
<1>7. Editable'
  BY <1>2, <1>4 DEF PreviewInv, Editable
<1>8. ASSUME Patient
      PROVE  SameFile' /\ OneUrl'
  <2>1. SameFile /\ OneUrl
    BY <1>8 DEF PreviewInv
  <2>2. load[l].mounted /\ AtNode(f)
    BY <1>2, <2>1 DEF SameFile
  <2>3. SameFile'
    BY <1>2, <1>3, <1>4, <2>1, <2>2 DEF SameFile, AtNode
  <2>4. /\ lost' = {}
        /\ blobUrl' # blobUrl => load[l].key
    BY <1>2, <2>1, <2>2 DEF P!Loaded, P!LoadFails, OneUrl
  <2>5. OneUrl'
    BY <1>2, <1>3, <2>1, <2>4 DEF OneUrl
  <2>6. QED
    BY <2>3, <2>5
<1>9. QED
  BY <1>6, <1>7, <1>8 DEF PreviewInv

-----------------------------------------------------------------------------
\* Which file is shown

\* What the list says of a file is a node that the window can show.
LEMMA ListedNode ==
  ASSUME P!TypeOK, NEW f \in P!Files
  PROVE  /\ P!Listed(f) \in P!Node
         /\ P!Listed(f).file = f
         /\ P!Listed(f).new => f \in Documents
BY DEF P!Listed, P!Node

\* The file is in the editor or a load of it begins, and its URL is revoked.
LEMMA LoadPreviewEffect ==
  ASSUME P!TypeOK, NEW n \in P!Node, n.new => n.file \in Documents,
         NEW key \in BOOLEAN, P!LoadPreview(n, key)
  PROVE  /\ blobUrl' = None
         /\ editing' \in BOOLEAN
         /\ text' \in P!AllTexts
         /\ of' \in Documents \union {None}
         /\ view' \in [status : {"loading", "text", "ready", "error"},
                       file : P!Files \union {None}, text : P!AllTexts]
         /\ view'.status = "text" => view'.file = n.file /\ n.file \in Documents
         /\ \/ of' = n.file /\ UNCHANGED load
            \/ /\ UNCHANGED <<editing, text, of>>
               /\ \E l \in Loads :
                    /\ load[l] = None
                    /\ load' = [load EXCEPT ![l] =
                                  [file |-> n.file, key |-> key, text |-> None, mounted |-> TRUE]]
         /\ load' \in [Loads -> P!Load \union {None}]
<1>1. CASE n.new
  BY <1>1 DEF P!LoadPreview, P!RevokeUrl, P!Show, P!TypeOK, P!Node, P!AllTexts, P!Files
<1>2. CASE ~n.new
  <2>1. /\ UNCHANGED <<editing, text, of>>
        /\ view' = [status |-> "loading", file |-> None, text |-> Empty]
        /\ blobUrl' = None
        /\ \E l \in Loads :
             /\ load[l] = None
             /\ load' = [load EXCEPT ![l] =
                           [file |-> n.file, key |-> key, text |-> None, mounted |-> TRUE]]
    BY <1>2 DEF P!LoadPreview, P!RevokeUrl, P!Show, P!Blank, P!editor
  <2>2. [file |-> n.file, key |-> key, text |-> None, mounted |-> TRUE] \in P!Load
    BY DEF P!Load, P!Node
  <2>3. load' \in [Loads -> P!Load \union {None}]
    BY <2>1, <2>2 DEF P!TypeOK
  <2>4. view' \in [status : {"loading", "text", "ready", "error"},
                   file : P!Files \union {None}, text : P!AllTexts]
        /\ view'.status # "text"
    BY <2>1 DEF P!AllTexts
  <2>5. QED
    BY <2>1, <2>3, <2>4 DEF P!TypeOK
<1>3. QED
  BY <1>1, <1>2

\* A change of the file shown, when nothing is on its way unless the user is
\* impatient.
LEMMA ShowKeeps ==
  ASSUME PreviewAssumption, PreviewInv, NEW f \in P!Files, P!Open(f) \/ P!Turn(f),
         typed' \in Texts \union {None}
  PROVE  PreviewInv'
<1> DEFINE n == P!Listed(f)
<1>1. P!TypeOK /\ Editable
  BY DEF PreviewInv
<1>2. n \in P!Node /\ n.file = f /\ (n.new => f \in Documents) /\ n # None
  BY <1>1, ListedNode DEF PreviewAssumption
<1> HIDE DEF n
<1>3. /\ node' = n
      /\ Patient => P!Quiet
      /\ UNCHANGED <<content, listed, stale, mek, saving, needPassword, lost, save, derive>>
  BY DEF P!Open, P!Turn, P!server, P!asked, n
<1>4. keysOff' \in BOOLEAN
  BY <1>1 DEF P!Open, P!Turn, P!TypeOK
<1>5. (mek = "derived") \in BOOLEAN /\ P!LoadPreview(n, mek = "derived")
  BY DEF P!Open, P!Turn, n
<1>6. /\ blobUrl' = None
      /\ editing' \in BOOLEAN
      /\ text' \in P!AllTexts
      /\ of' \in Documents \union {None}
      /\ view' \in [status : {"loading", "text", "ready", "error"},
                    file : P!Files \union {None}, text : P!AllTexts]
      /\ view'.status = "text" => view'.file = f /\ f \in Documents
      /\ \/ of' = f /\ UNCHANGED load
         \/ /\ UNCHANGED <<editing, text, of>>
            /\ \E l \in Loads :
                 /\ load[l] = None
                 /\ load' = [load EXCEPT ![l] = [file |-> f, key |-> mek = "derived",
                                                 text |-> None, mounted |-> TRUE]]
      /\ load' \in [Loads -> P!Load \union {None}]
  BY <1>1, <1>2, <1>5, LoadPreviewEffect
<1>7. P!TypeOK'
  BY <1>1, <1>2, <1>3, <1>4, <1>6 DEF P!TypeOK
<1>8. Editable'
  BY <1>2, <1>3, <1>6 DEF Editable
<1>9. ASSUME Patient
      PROVE  SameFile' /\ OneUrl'
  <2>1. /\ editing = FALSE /\ needPassword = FALSE /\ derive = None
        /\ \A l \in Loads : load[l] = None
        /\ \A s \in Saves : save[s] = None
        /\ lost = {}
        /\ load \in [Loads -> P!Load \union {None}]
    BY <1>1, <1>3, <1>9 DEF P!Quiet, PreviewInv, OneUrl, P!TypeOK
  <2>2. \/ \A k \in Loads : load'[k] = None
        \/ \E l \in Loads :
             /\ \A k \in Loads : k # l => load'[k] = None
             /\ load'[l] = [file |-> f, key |-> mek = "derived", text |-> None, mounted |-> TRUE]
    BY <1>6, <2>1
  <2>3. SameFile'
    BY <1>2, <1>3, <1>6, <2>1, <2>2 DEF SameFile, AtNode
  <2>4. OneUrl'
    BY <1>3, <1>6, <2>1, <2>2 DEF OneUrl
  <2>5. QED
    BY <2>3, <2>4
<1>10. QED
  BY <1>7, <1>8, <1>9 DEF PreviewInv

\* What the window had under way is on its own once it is closed.
LEMMA LeaveKeeps ==
  ASSUME PreviewInv, P!Leave, typed' \in Texts \union {None}
  PROVE  PreviewInv'
<1>1. P!TypeOK /\ Editable
  BY DEF PreviewInv
<1>2. /\ node' = None
      /\ Patient => \A l \in Loads : load[l] = None
      /\ view' = [status |-> "loading", file |-> None, text |-> Empty]
      /\ text' = Empty
      /\ of' = None
      /\ blobUrl' = None
      /\ UNCHANGED <<content, listed, stale, mek, lost>>
  BY DEF P!Leave, P!Nothing, P!RevokeUrl, P!server
<1>3. editing' = FALSE /\ saving' = FALSE /\ needPassword' = FALSE /\ keysOff' = FALSE
  BY DEF P!Leave
<1>4. /\ load' \in [Loads -> P!Load \union {None}]
      /\ \A l \in Loads : load[l] = None => load'[l] = None
  <2>1. \A l \in Loads : load[l] = None \/ [load[l] EXCEPT !.mounted = FALSE] \in P!Load
    BY <1>1 DEF P!TypeOK, P!Load
  <2>2. QED
    BY <2>1 DEF P!Leave
<1>5. /\ save' \in [Saves -> P!Save \union {None}]
      /\ \A s \in Saves : save'[s] # None =>
           save[s] # None /\ save'[s].file = save[s].file /\ save'[s].of = save[s].of
                          /\ ~save'[s].mounted
  <2>1. \A s \in Saves : save[s] # None =>
          /\ [save[s] EXCEPT !.mounted = FALSE] \in P!Save
          /\ [save[s] EXCEPT !.mounted = FALSE].file = save[s].file
          /\ [save[s] EXCEPT !.mounted = FALSE].of = save[s].of
          /\ ~[save[s] EXCEPT !.mounted = FALSE].mounted
    BY <1>1 DEF P!TypeOK, P!Save
  <2>2. QED
    BY <2>1 DEF P!Leave
<1>6. /\ derive' \in Deriving \union {None}
      /\ derive' # None => derive # None /\ derive'.file = derive.file
                                         /\ derive'.of = derive.of /\ ~derive'.mounted
  BY <1>1 DEF P!TypeOK, P!Leave, Deriving
<1>7. P!TypeOK'
  <2>1. editing' \in BOOLEAN /\ saving' \in BOOLEAN /\ needPassword' \in BOOLEAN /\ keysOff' \in BOOLEAN
    BY <1>3
  <2>2. view' \in [status : {"loading", "text", "ready", "error"},
                   file : P!Files \union {None}, text : P!AllTexts] /\ text' \in P!AllTexts
    BY <1>2 DEF P!AllTexts
  <2>3. QED
    BY <1>1, <1>2, <1>4, <1>5, <1>6, <2>1, <2>2 DEF P!TypeOK, Deriving
<1>8. Editable'
  BY <1>2 DEF Editable
<1>9. ASSUME Patient
      PROVE  SameFile' /\ OneUrl'
  BY <1>2, <1>3, <1>4, <1>5, <1>6, <1>9 DEF PreviewInv, SameFile, OneUrl
<1>10. QED
  BY <1>7, <1>8, <1>9 DEF PreviewInv

\* The key is there: the file shown is loaded once more, with the key.
LEMMA StoreDerivesKeeps ==
  ASSUME PreviewInv, P!StoreDerives
  PROVE  PreviewInv'
<1>1. P!TypeOK /\ Editable
  BY DEF PreviewInv
<1>2. /\ mek = "session" /\ mek' = "derived"
      /\ UNCHANGED <<content, listed, stale, node, saving, needPassword, keysOff, lost, save,
                     derive, typed>>
  BY DEF P!StoreDerives, P!server, P!asked
<1>3. CASE node = None
  <2>1. UNCHANGED <<view, editing, text, of, blobUrl, load>>
    BY <1>3 DEF P!StoreDerives, P!editor
  <2>2. P!TypeOK'
    BY <1>1, <1>2, <2>1 DEF P!TypeOK
  <2>3. Editable'
    BY <1>1, <1>2, <2>1 DEF Editable
  <2>4. Patient => SameFile' /\ OneUrl'
    BY <1>2, <2>1 DEF PreviewInv, SameFile, OneUrl, AtNode
  <2>5. QED
    BY <2>2, <2>3, <2>4 DEF PreviewInv
<1>4. CASE node # None
  <2>1. node \in P!Node /\ (node.new => node.file \in Documents)
    BY <1>1, <1>4 DEF P!TypeOK, Editable
  <2>2. P!LoadPreview(node, TRUE)
    BY <1>4 DEF P!StoreDerives
  <2>3. /\ blobUrl' = None
        /\ editing' \in BOOLEAN
        /\ text' \in P!AllTexts
        /\ of' \in Documents \union {None}
        /\ view' \in [status : {"loading", "text", "ready", "error"},
                      file : P!Files \union {None}, text : P!AllTexts]
        /\ view'.status = "text" => view'.file = node.file /\ node.file \in Documents
        /\ \/ of' = node.file /\ UNCHANGED load
           \/ /\ UNCHANGED <<editing, text, of>>
              /\ \E l \in Loads :
                   /\ load[l] = None
                   /\ load' = [load EXCEPT ![l] = [file |-> node.file, key |-> TRUE,
                                                   text |-> None, mounted |-> TRUE]]
        /\ load' \in [Loads -> P!Load \union {None}]
    BY <1>1, <2>1, <2>2, LoadPreviewEffect
  <2>4. P!TypeOK'
    BY <1>1, <1>2, <2>3 DEF P!TypeOK
  <2>5. Editable'
    BY <1>1, <1>2, <2>3 DEF Editable
  <2>6. ASSUME Patient
        PROVE  SameFile' /\ OneUrl'
    <3>1. SameFile /\ OneUrl
      BY <2>6 DEF PreviewInv
    <3>2. \A k \in Loads : load[k] # None => ~load[k].key
      BY <1>2, <3>1 DEF OneUrl
    <3>3. \/ load' = load
          \/ \E l \in Loads :
               /\ load[l] = None
               /\ \A k \in Loads : k # l => load'[k] = load[k]
               /\ load'[l] = [file |-> node.file, key |-> TRUE, text |-> None, mounted |-> TRUE]
      BY <1>1, <2>3 DEF P!TypeOK
    <3>4. SameFile'
      BY <1>2, <1>4, <2>3, <3>1, <3>3 DEF SameFile, AtNode
    <3>5. OneUrl'
      BY <1>2, <2>3, <3>1, <3>2, <3>3 DEF OneUrl
    <3>6. QED
      BY <3>4, <3>5
  <2>7. QED
    BY <2>4, <2>5, <2>6 DEF PreviewInv
<1>5. QED
  BY <1>3, <1>4

-----------------------------------------------------------------------------
\* Saves

\* A save begins: of the text of the editor to the file it belongs to.
LEMMA SendEffect ==
  ASSUME P!TypeOK, NEW f \in Documents, NEW x \in P!AllTexts, NEW o \in Documents \union {None},
         NEW m \in BOOLEAN, P!Send(f, x, o, m)
  PROVE  /\ save' \in [Saves -> P!Save \union {None}]
         /\ \A s \in Saves :
              \/ save'[s] = save[s]
              \/ save'[s].file = f /\ save'[s].of = o /\ save'[s].mounted = m
<1> DEFINE new == [file |-> f, text |-> x, of |-> o, stored |-> FALSE, mounted |-> m]
<1>1. new \in P!Save /\ new.file = f /\ new.of = o /\ new.mounted = m
  BY DEF P!Save
<1>2. PICK s \in Saves : save' = [save EXCEPT ![s] = new]
  BY DEF P!Send
<1> HIDE DEF new
<1>3. QED
  BY <1>1, <1>2 DEF P!TypeOK

\* The save button: the text in the editor belongs to the file shown.
LEMMA HandleSaveKeeps ==
  ASSUME PreviewInv, P!HandleSave
  PROVE  PreviewInv'
<1>1. P!TypeOK /\ Editable
  BY DEF PreviewInv
<1>2. /\ node # None /\ node.file \in Documents
      /\ UNCHANGED <<content, listed, stale, node, mek, view, editing, text, of, keysOff,
                     blobUrl, lost, load, derive, typed>>
  BY DEF P!HandleSave, P!InEditor, P!server, P!editor
<1>3. editing = TRUE
  BY <1>1 DEF P!HandleSave, P!InEditor, P!TypeOK
<1>4. text \in P!AllTexts /\ of \in Documents \union {None} /\ TRUE \in BOOLEAN
  BY <1>1 DEF P!TypeOK
<1>5. /\ saving' \in BOOLEAN /\ needPassword' \in BOOLEAN
      /\ save' \in [Saves -> P!Save \union {None}]
      /\ \A s \in Saves :
           \/ save'[s] = save[s]
           \/ save'[s].file = node.file /\ save'[s].of = of
  <2>1. CASE mek = "derived"
    <3>1. P!Send(node.file, text, of, TRUE) /\ saving' = TRUE /\ UNCHANGED needPassword
      BY <2>1 DEF P!HandleSave
    <3>2. needPassword' \in BOOLEAN /\ saving' \in BOOLEAN
      BY <1>1, <3>1 DEF P!TypeOK
    <3>3. /\ save' \in [Saves -> P!Save \union {None}]
          /\ \A s \in Saves :
               \/ save'[s] = save[s]
               \/ save'[s].file = node.file /\ save'[s].of = of
      <4>1. P!Send(node.file, text, of, TRUE)
        BY <3>1
      <4>2. QED
        BY <1>1, <1>2, <1>4, <4>1, SendEffect, ZenonT(60)
    <3>4. QED
      BY <3>2, <3>3
  <2>2. CASE mek # "derived"
    <3>1. needPassword' = TRUE /\ UNCHANGED <<saving, save>>
      BY <2>2 DEF P!HandleSave
    <3>2. needPassword' \in BOOLEAN /\ saving' \in BOOLEAN
      BY <1>1, <3>1 DEF P!TypeOK
    <3>3. QED
      BY <1>1, <3>1, <3>2 DEF P!TypeOK
  <2>3. QED
    BY <2>1, <2>2
<1>6. P!TypeOK'
  BY <1>1, <1>2, <1>5 DEF P!TypeOK
<1>7. Editable'
  BY <1>1, <1>2 DEF Editable
<1>8. ASSUME Patient
      PROVE  SameFile' /\ OneUrl'
  <2>1. SameFile /\ OneUrl /\ AtNode(of)
    BY <1>3, <1>8 DEF PreviewInv, SameFile
  <2>2. SameFile'
    BY <1>2, <1>5, <2>1 DEF SameFile, AtNode
  <2>3. OneUrl'
    BY <1>2, <2>1 DEF OneUrl
  <2>4. QED
    BY <2>2, <2>3
<1>9. QED
  BY <1>6, <1>7, <1>8 DEF PreviewInv

\* The server has stored the text.
LEMMA StoredKeeps ==
  ASSUME PreviewInv, NEW s \in Saves, P!Stored(s)
  PROVE  PreviewInv'
<1>1. P!TypeOK /\ Editable /\ save[s] # None
  BY DEF PreviewInv, P!Stored
<1>2. save[s] \in P!Save /\ save \in [Saves -> P!Save \union {None}]
  BY <1>1 DEF P!TypeOK
<1> DEFINE x == [save[s] EXCEPT !.stored = TRUE]
<1>3. /\ x \in P!Save
      /\ x.file = save[s].file /\ x.of = save[s].of /\ x.mounted = save[s].mounted
      /\ save[s].text \in P!AllTexts
  BY <1>2 DEF P!Save
<1>4. /\ save' = [save EXCEPT ![s] = x]
      /\ content' = [content EXCEPT ![save[s].file] = save[s].text]
      /\ UNCHANGED <<listed, stale, node, mek, view, editing, text, of, saving, needPassword,
                     keysOff, blobUrl, lost, load, derive, typed>>
  BY <1>2 DEF P!Stored, P!editor, P!asked
<1> HIDE DEF x
<1>5. /\ save' \in [Saves -> P!Save \union {None}]
      /\ \A u \in Saves : save'[u] # None =>
           /\ save[u] # None
           /\ save'[u].file = save[u].file
           /\ save'[u].of = save[u].of
           /\ save'[u].mounted = save[u].mounted
  BY <1>1, <1>2, <1>3, <1>4
<1>6. content' \in [P!Files -> P!AllTexts]
  BY <1>1, <1>3, <1>4 DEF P!TypeOK
<1>7. P!TypeOK'
  BY <1>1, <1>4, <1>5, <1>6 DEF P!TypeOK
<1>8. Editable'
  BY <1>1, <1>4 DEF Editable
<1>9. Patient => SameFile' /\ OneUrl'
  BY <1>4, <1>5 DEF PreviewInv, SameFile, OneUrl, AtNode
<1>10. QED
  BY <1>7, <1>8, <1>9 DEF PreviewInv

\* The answer to a save shows its text, if the window is still open.
LEMMA SavedKeeps ==
  ASSUME PreviewInv, NEW s \in Saves, P!Saved(s)
  PROVE  PreviewInv'
<1>1. P!TypeOK /\ Editable /\ save[s] # None
  BY DEF PreviewInv, P!Saved
<1>2. save[s] \in P!Save /\ save \in [Saves -> P!Save \union {None}]
  BY <1>1 DEF P!TypeOK
<1>3. /\ save[s].file \in Documents /\ save[s].text \in P!AllTexts
      /\ save[s].mounted \in BOOLEAN
  BY <1>2 DEF P!Save
<1>4. /\ stale' = TRUE
      /\ save' = [save EXCEPT ![s] = None]
      /\ UNCHANGED <<content, listed, node, mek, text, of, needPassword, keysOff, blobUrl,
                     lost, load, derive>>
  BY DEF P!Saved
<1>5. /\ save' \in [Saves -> P!Save \union {None}]
      /\ \A u \in Saves : save'[u] # None => save'[u] = save[u]
  BY <1>2, <1>4
<1>6. \/ /\ save[s].mounted
         /\ view' = [status |-> "text", file |-> save[s].file, text |-> save[s].text]
         /\ editing' = FALSE /\ saving' = FALSE /\ typed' = None
      \/ UNCHANGED <<view, editing, saving, typed>>
  BY DEF P!Saved, P!Show
<1>7. /\ view' \in [status : {"loading", "text", "ready", "error"},
                    file : P!Files \union {None}, text : P!AllTexts]
      /\ typed' \in Texts \union {None}
  BY <1>1, <1>3, <1>6 DEF P!TypeOK, P!Files
<1>8. editing' \in BOOLEAN /\ saving' \in BOOLEAN /\ stale' \in BOOLEAN
  BY <1>1, <1>4, <1>6 DEF P!TypeOK
<1>9. P!TypeOK'
  BY <1>1, <1>4, <1>5, <1>7, <1>8 DEF P!TypeOK
<1>10. Editable'
  BY <1>1, <1>3, <1>4, <1>6 DEF Editable
<1>11. ASSUME Patient
       PROVE  SameFile' /\ OneUrl'
  <2>1. SameFile /\ OneUrl
    BY <1>11 DEF PreviewInv
  <2>2. save[s].mounted => AtNode(save[s].file)
    BY <1>1, <2>1 DEF SameFile
  <2>3. SameFile'
    BY <1>4, <1>5, <1>6, <2>1, <2>2 DEF SameFile, AtNode
  <2>4. OneUrl'
    BY <1>4, <2>1 DEF OneUrl
  <2>5. QED
    BY <2>3, <2>4
<1>12. QED
  BY <1>9, <1>10, <1>11 DEF PreviewInv

\* A save has failed.
LEMMA SaveFailsKeeps ==
  ASSUME PreviewInv, NEW s \in Saves, P!SaveFails(s)
  PROVE  PreviewInv'
<1>1. P!TypeOK /\ Editable
  BY DEF PreviewInv
<1>2. /\ save' = [save EXCEPT ![s] = None]
      /\ UNCHANGED <<content, listed, stale, node, mek, view, editing, text, of, needPassword,
                     keysOff, blobUrl, lost, load, derive, typed>>
  BY DEF P!SaveFails, P!server, P!editor
<1>3. saving' \in BOOLEAN
  BY DEF P!SaveFails
<1>4. /\ save' \in [Saves -> P!Save \union {None}]
      /\ \A u \in Saves : save'[u] # None => save'[u] = save[u]
  BY <1>1, <1>2 DEF P!TypeOK
<1>5. P!TypeOK'
  BY <1>1, <1>2, <1>3, <1>4 DEF P!TypeOK
<1>6. Editable'
  BY <1>1, <1>2 DEF Editable
<1>7. Patient => SameFile' /\ OneUrl'
  BY <1>2, <1>4 DEF PreviewInv, SameFile, OneUrl, AtNode
<1>8. QED
  BY <1>5, <1>6, <1>7 DEF PreviewInv

-----------------------------------------------------------------------------
\* The password

\* The password is given: the key is derived for the text in the editor.
LEMMA DeriveKeeps ==
  ASSUME PreviewInv, P!Derive
  PROVE  PreviewInv'
<1>1. P!TypeOK /\ Editable
  BY DEF PreviewInv
<1>2. /\ node.file \in Documents
      /\ derive' = [file |-> node.file, text |-> text, of |-> of, key |-> mek = "derived",
                    mounted |-> TRUE]
      /\ UNCHANGED <<content, listed, stale, node, mek, view, editing, text, of, needPassword,
                     keysOff, blobUrl, lost, load, save, typed>>
  BY DEF P!Derive, P!server, P!editor
<1>3. saving' = TRUE /\ needPassword = TRUE
  BY <1>1 DEF P!Derive, P!TypeOK
<1>4. derive' \in Deriving /\ derive'.of = of /\ derive'.file = node.file
  BY <1>1, <1>2 DEF P!TypeOK, Deriving
<1>5. P!TypeOK'
  <2>1. saving' \in BOOLEAN
    BY <1>3
  <2>2. QED
    BY <1>1, <1>2, <1>4, <2>1 DEF P!TypeOK, Deriving
<1>6. Editable'
  BY <1>1, <1>2 DEF Editable
<1>7. ASSUME Patient
      PROVE  SameFile' /\ OneUrl'
  <2>1. SameFile /\ OneUrl /\ AtNode(of)
    BY <1>3, <1>7 DEF PreviewInv, SameFile
  <2>2. SameFile'
    BY <1>2, <1>4, <2>1 DEF SameFile, AtNode
  <2>3. OneUrl'
    BY <1>2, <2>1 DEF OneUrl
  <2>4. QED
    BY <2>2, <2>3
<1>8. QED
  BY <1>5, <1>6, <1>7 DEF PreviewInv

\* The key is derived: the save goes on with what it was called with, or the
\* password is asked for once more.
LEMMA DerivedKeeps ==
  ASSUME PreviewInv, P!Derived
  PROVE  PreviewInv'
<1>1. P!TypeOK /\ Editable
  BY DEF PreviewInv
<1>2. derive \in Deriving /\ derive # None
  BY <1>1 DEF P!Derived, P!TypeOK, Deriving
<1>3. /\ derive.file \in Documents /\ derive.text \in P!AllTexts
      /\ derive.of \in Documents \union {None}
      /\ derive.key \in BOOLEAN /\ derive.mounted \in BOOLEAN
  BY <1>2 DEF Deriving
<1>4. /\ derive' = None
      /\ mek' = IF mek = "none" THEN "session" ELSE mek
      /\ UNCHANGED <<content, listed, stale, node, view, editing, text, of, keysOff, blobUrl,
                     lost, load, typed>>
  BY DEF P!Derived, P!server, P!editor
<1>5. /\ save' \in [Saves -> P!Save \union {None}]
      /\ \A s \in Saves :
           \/ save'[s] = save[s]
           \/ save'[s].file = derive.file /\ save'[s].of = derive.of
                                          /\ save'[s].mounted = derive.mounted
  <2>1. CASE derive.key
    <3>1. P!Send(derive.file, derive.text, derive.of, derive.mounted)
      BY <2>1 DEF P!Derived
    <3>2. QED
      BY <1>1, <1>3, <3>1, SendEffect
  <2>2. CASE ~derive.key
    BY <1>1, <2>2 DEF P!Derived, P!TypeOK
  <2>3. QED
    BY <2>1, <2>2
<1>6. /\ needPassword' \in BOOLEAN /\ saving' \in BOOLEAN
      /\ needPassword' => needPassword \/ derive.mounted
  BY <1>1, <1>3 DEF P!Derived, P!TypeOK, P!asked
<1>7. P!TypeOK'
  BY <1>1, <1>4, <1>5, <1>6 DEF P!TypeOK
<1>8. Editable'
  BY <1>1, <1>4 DEF Editable
<1>9. ASSUME Patient
      PROVE  SameFile' /\ OneUrl'
  <2>1. SameFile /\ OneUrl
    BY <1>9 DEF PreviewInv
  <2>2. /\ derive.of = derive.file
        /\ derive.mounted => AtNode(derive.file) /\ AtNode(of)
    BY <1>2, <2>1 DEF SameFile
  <2>3. SameFile'
    BY <1>4, <1>5, <1>6, <2>1, <2>2 DEF SameFile, AtNode
  <2>4. OneUrl'
    BY <1>4, <2>1 DEF OneUrl
  <2>5. QED
    BY <2>3, <2>4
<1>10. QED
  BY <1>7, <1>8, <1>9 DEF PreviewInv

-----------------------------------------------------------------------------

\* Every step of the preview window keeps its invariant.
LEMMA PreviewStep ==
  ASSUME PreviewAssumption, PreviewInv, [P!Next]_(P!vars)
  PROVE  PreviewInv'
<1>1. ASSUME NEW f \in P!Files, P!Open(f) \/ P!ClickTurn(f) \/ P!PressTurn(f)
      PROVE  PreviewInv'
  <2>1. typed' \in Texts \union {None}
    BY <1>1 DEF P!Open, P!ClickTurn, P!PressTurn, PreviewInv, P!TypeOK
  <2>2. QED
    BY <1>1, <2>1, ShowKeeps DEF P!ClickTurn, P!PressTurn
<1>2. CASE P!ClickClose \/ P!PressClose
  <2>1. typed' \in Texts \union {None}
    BY <1>2 DEF P!ClickClose, P!PressClose, PreviewInv, P!TypeOK
  <2>2. QED
    BY <1>2, <2>1, LeaveKeeps DEF P!ClickClose, P!PressClose
<1>3. CASE UNCHANGED P!vars
  BY <1>3 DEF P!vars, P!server, P!editor, P!asked, PreviewInv, P!TypeOK, Editable, SameFile,
              OneUrl, AtNode
<1>4. QED
  BY <1>1, <1>2, <1>3, RefetchKeeps, FetchKeeps, LoadedKeeps, EditKeeps, CancelKeeps, TypeKeeps,
     HandleSaveKeeps, StoredKeeps, SavedKeeps, SaveFailsKeeps, DropPasswordKeeps, DeriveKeeps,
     DerivedKeeps, StoreDerivesKeeps DEF P!Next

\* It holds before a window is opened.
LEMMA PreviewInit == P!Init => PreviewInv
<1> SUFFICES ASSUME P!Init
             PROVE  PreviewInv
  OBVIOUS
<1>1. P!TypeOK
  <2>1. editing \in BOOLEAN /\ saving \in BOOLEAN /\ needPassword \in BOOLEAN
        /\ keysOff \in BOOLEAN /\ stale \in BOOLEAN
    BY DEF P!Init
  <2>2. view \in [status : {"loading", "text", "ready", "error"},
                  file : P!Files \union {None}, text : P!AllTexts] /\ text \in P!AllTexts
    BY DEF P!Init, P!Nothing, P!AllTexts
  <2>3. QED
    BY <2>1, <2>2 DEF P!Init, P!TypeOK
<1>2. Editable
  BY DEF P!Init, P!Nothing, Editable
<1>3. SameFile /\ OneUrl
  BY DEF P!Init, SameFile, OneUrl
<1>4. QED
  BY <1>1, <1>2, <1>3 DEF PreviewInv

\* The preview window keeps its invariant.
THEOREM PreviewSafe == BrowserSpec => []PreviewInv
<1>1. [BrowserNext]_allVars => [P!Next]_(P!vars)
  BY DEF BrowserNext, allVars, preview, P!vars, P!server, P!editor, P!asked
<1>2. PreviewInv /\ [P!Next]_(P!vars) => PreviewInv'
  BY PreviewStep, PreviewAssumption
<1>3. BrowserInit => PreviewInv
  BY PreviewInit DEF BrowserInit
<1>4. QED
  BY <1>1, <1>2, <1>3, PTL DEF BrowserSpec

\* As long as files are changed only when nothing is on its way, a text is saved
\* to the file it was loaded from: the editor, the password it waits for and the
\* saves on their way belong to the file that is shown.
THEOREM TextsStayInTheirFiles == BrowserSpec => []SavedWhereTyped
<1>1. PreviewInv => SavedWhereTyped
  BY DEF PreviewInv, SameFile, SavedWhereTyped, P!SavedWhereTyped
<1>2. QED
  BY <1>1, PreviewSafe, PTL

\* Under the same condition every object URL is revoked: at most one load makes
\* one, and none is there when it does.
THEOREM NoUrlIsLost == BrowserSpec => []UrlsAreRevoked
<1>1. PreviewInv => UrlsAreRevoked
  BY DEF PreviewInv, OneUrl, UrlsAreRevoked, P!UrlsAreRevoked
<1>2. QED
  BY <1>1, PreviewSafe, PTL
=============================================================================
