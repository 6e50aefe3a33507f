------------------------ MODULE RobustChannelProofs ------------------------
(***************************************************************************)
(* Proofs about RobustChannel.tla, for any users and any number of         *)
(* underlay channels.                                                      *)
(***************************************************************************)
EXTENDS RobustChannel, SequenceTheorems, TLAPS

\* Where the owner of the restore lock may be.
Inside == {"lock", "open", "broken", "setup", "ready", "undo", "reopen_cb"}

\* A closer runs only while the callback of its channel does.
CloserRuns == \A n \in Chans : pc[n] # "idle" => chan[n] = "callback"

\* The queue of the restore lock holds tasks that wait for it, each once and
\* not the owner; only the owner runs reopen callbacks.
QueueWaits ==
    /\ \A i, j \in 1..Len(lockq) : lockq[i] = lockq[j] => i = j
    /\ \A i \in 1..Len(lockq) : pc[lockq[i]] = "lock" /\ lockq[i] # lock
    /\ \A t \in Tasks : pc[t] = "reopen_cb" => lock = t

LockInv == QueueWaits /\ LockHeldInside

ChannelInv == TypeOK /\ CloserRuns /\ LockInv

-----------------------------------------------------------------------------
(* The four things that happen to the restore lock. *)

\* Nobody is named NoTask.
LEMMA NobodyIsNoTask == NoTask \notin Tasks
BY ChannelAssumption DEF Tasks, Chans

\* The lock stays where it is while a task moves that does not wait for it.
LEMMA MoveKeepsLock ==
  ASSUME TypeOK, LockInv, NEW t \in Tasks, NEW v,
         pc' = [pc EXCEPT ![t] = v], UNCHANGED <<lock, lockq>>,
         pc[t] = "lock" => t = lock,
         v # "lock",
         t = lock => v \in Inside,
         v = "reopen_cb" => t = lock
  PROVE  LockInv'
<1>1. /\ lockq \in Seq(Tasks)
      /\ DOMAIN lockq = 1..Len(lockq)
      /\ \A i \in 1..Len(lockq) : lockq[i] \in Tasks
      /\ pc \in [Tasks -> TaskStates]
      /\ lock \in Tasks \cup {NoTask}
  BY DEF TypeOK
<1>2. \A s \in Tasks : pc'[s] = IF s = t THEN v ELSE pc[s]
  BY <1>1
<1>3. QueueWaits'
  BY <1>1, <1>2 DEF LockInv, QueueWaits
<1>4. LockHeldInside'
  BY <1>1, <1>2 DEF LockInv, LockHeldInside, Inside
<1> QED BY <1>3, <1>4 DEF LockInv

\* The owner leaves and the oldest waiter owns the lock.
LEMMA ReleaseKeepsLock ==
  ASSUME TypeOK, LockInv, NEW t \in Tasks, NEW v,
         pc' = [pc EXCEPT ![t] = v], t = lock, ReleaseLock, v \notin Inside
  PROVE  LockInv' /\ lock' \in Tasks \cup {NoTask} /\ lockq' \in Seq(Tasks)
<1>1. /\ lockq \in Seq(Tasks)
      /\ DOMAIN lockq = 1..Len(lockq)
      /\ \A i \in 1..Len(lockq) : lockq[i] \in Tasks
      /\ pc \in [Tasks -> TaskStates]
      /\ lock \in Tasks
  BY DEF TypeOK
<1>2. \A s \in Tasks : pc'[s] = IF s = t THEN v ELSE pc[s]
  BY <1>1
<1>3. CASE lockq = << >>
  <2>1. lock' = NoTask /\ lockq' = << >> /\ Len(lockq) = 0 /\ Len(lockq') = 0
    BY <1>3 DEF ReleaseLock
  <2>2. \A s \in Tasks : pc'[s] # "lock" /\ pc'[s] # "reopen_cb"
    BY <1>1, <1>2, <2>1 DEF LockInv, QueueWaits, LockHeldInside, Inside
  <2>3. DOMAIN lockq' = {}
    BY <2>1
  <2>4. LockHeldInside'
    BY <2>1, <2>2 DEF LockHeldInside
  <2>5. QueueWaits'
    BY <2>1, <2>2 DEF QueueWaits
  <2> QED BY <2>1, <2>4, <2>5 DEF LockInv
<1>4. CASE lockq # << >>
  <2>1. /\ lock' = lockq[1] /\ lockq' = Tail(lockq)
        /\ lockq' \in Seq(Tasks)
        /\ Len(lockq') = Len(lockq) - 1
        /\ Len(lockq) \in Nat \ {0}
        /\ \A i \in 1..Len(lockq') : lockq'[i] = lockq[i + 1]
    <3>1. lock' = Head(lockq) /\ lockq' = Tail(lockq)
      BY <1>4 DEF ReleaseLock
    <3>2. Head(lockq) = lockq[1]
      BY <1>1, <1>4
    <3>3. Len(lockq) \in Nat \ {0}
      BY <1>1, <1>4
    <3>4. Tail(lockq) \in Seq(Tasks) /\ Len(Tail(lockq)) = Len(lockq) - 1
      BY <1>1, <1>4, HeadTailProperties
    <3>5. \A i \in 1..Len(Tail(lockq)) : Tail(lockq)[i] = lockq[i + 1]
      BY <1>1, <1>4
    <3> QED BY <3>1, <3>2, <3>3, <3>4, <3>5
  <2>2. DOMAIN lockq' = 1..Len(lockq')
    BY <2>1
  <2>3. \A i \in 1..Len(lockq') : i + 1 \in 1..Len(lockq) /\ i + 1 # 1
    BY <2>1
  <2>4. 1 \in 1..Len(lockq) /\ lock' \in Tasks /\ pc[lock'] = "lock" /\ lock' # t
    BY <1>1, <2>1 DEF LockInv, QueueWaits
  <2>5. QueueWaits'
    <3>1. \A i, j \in 1..Len(lockq') : lockq'[i] = lockq'[j] => i = j
      BY <2>1, <2>3 DEF LockInv, QueueWaits
    <3>2. \A i \in 1..Len(lockq') : pc'[lockq'[i]] = "lock" /\ lockq'[i] # lock'
      BY <1>1, <1>2, <2>1, <2>3, <2>4 DEF LockInv, QueueWaits
    <3>3. \A s \in Tasks : pc'[s] # "reopen_cb"
      BY <1>2 DEF LockInv, QueueWaits, Inside
    <3> QED BY <3>1, <3>2, <3>3 DEF QueueWaits
  <2>6. LockHeldInside'
    <3>1. ASSUME NEW s \in Tasks, pc'[s] = "lock"
          PROVE  s = lock' \/ \E i \in DOMAIN lockq' : lockq'[i] = s
      <4>1. s # t /\ pc[s] = "lock"
        BY <1>2, <3>1 DEF Inside
      <4>2. PICK i \in 1..Len(lockq) : lockq[i] = s
        BY <1>1, <4>1 DEF LockInv, LockHeldInside
      <4>3. CASE i = 1
        BY <2>1, <4>2, <4>3
      <4>4. CASE i # 1
        <5>1. i - 1 \in 1..Len(lockq') /\ lockq'[i - 1] = s
          BY <2>1, <4>2, <4>4
        <5> QED BY <2>2, <5>1
      <4> QED BY <4>3, <4>4
    <3>2. lock' # NoTask
      BY <2>4, NobodyIsNoTask
    <3>3. pc'[lock'] = "lock"
      BY <1>2, <2>4
    <3> QED BY <3>1, <3>2, <3>3 DEF LockHeldInside
  <2> QED BY <2>1, <2>4, <2>5, <2>6 DEF LockInv
<1> QED BY <1>3, <1>4

\* A task takes the free lock.
LEMMA TakeKeepsLock ==
  ASSUME TypeOK, LockInv, NEW t \in Tasks, NEW v \in {"open", "broken"},
         pc' = [pc EXCEPT ![t] = v], lock = NoTask, lock' = t, lockq' = lockq
  PROVE  LockInv'
<1>1. /\ pc \in [Tasks -> TaskStates]
      /\ lockq = << >>
      /\ Len(lockq) = 0
  BY DEF TypeOK, LockInv, LockHeldInside
<1>2. \A s \in Tasks : pc'[s] = IF s = t THEN v ELSE pc[s]
  BY <1>1
<1>3. \A s \in Tasks : pc[s] # "lock" /\ pc[s] # "reopen_cb"
  BY <1>1, NobodyIsNoTask DEF LockInv, QueueWaits, LockHeldInside
<1>4. QueueWaits'
  BY <1>1, <1>2, <1>3 DEF QueueWaits
<1>5. LockHeldInside'
  BY <1>1, <1>2, <1>3, NobodyIsNoTask DEF LockHeldInside
<1> QED BY <1>4, <1>5 DEF LockInv

\* A task lines up behind the owner.
LEMMA EnqueueKeepsLock ==
  ASSUME TypeOK, LockInv, NEW t \in Tasks,
         pc' = [pc EXCEPT ![t] = "lock"], lock # NoTask, t # lock,
         pc[t] # "lock", lock' = lock, lockq' = Append(lockq, t)
  PROVE  LockInv' /\ lockq' \in Seq(Tasks)
<1>1. /\ lockq \in Seq(Tasks)
      /\ DOMAIN lockq = 1..Len(lockq)
      /\ Len(lockq) \in Nat
      /\ \A i \in 1..Len(lockq) : lockq[i] \in Tasks
      /\ pc \in [Tasks -> TaskStates]
      /\ lock \in Tasks
  BY DEF TypeOK
<1>2. \A s \in Tasks : pc'[s] = IF s = t THEN "lock" ELSE pc[s]
  BY <1>1
<1>3. /\ lockq' \in Seq(Tasks)
      /\ Len(lockq') = Len(lockq) + 1
      /\ \A i \in 1..Len(lockq) : lockq'[i] = lockq[i]
      /\ lockq'[Len(lockq) + 1] = t
  BY <1>1, AppendProperties
<1>4. DOMAIN lockq' = 1..(Len(lockq) + 1)
  BY <1>3
<1>5. \A i \in 1..Len(lockq) : lockq[i] # t
  BY DEF LockInv, QueueWaits
<1>6. QueueWaits'
  <2>1. \A i, j \in 1..Len(lockq') : lockq'[i] = lockq'[j] => i = j
    BY <1>1, <1>3, <1>5 DEF LockInv, QueueWaits
  <2>2. \A i \in 1..Len(lockq') : pc'[lockq'[i]] = "lock" /\ lockq'[i] # lock'
    BY <1>1, <1>2, <1>3, <1>5 DEF LockInv, QueueWaits
  <2>3. \A s \in Tasks : pc'[s] = "reopen_cb" => lock' = s
    BY <1>2 DEF LockInv, QueueWaits
  <2> QED BY <2>1, <2>2, <2>3 DEF QueueWaits
<1>7. LockHeldInside'
  <2>1. ASSUME NEW s \in Tasks, pc'[s] = "lock"
        PROVE  s = lock' \/ \E i \in DOMAIN lockq' : lockq'[i] = s
    <3>1. CASE s = t
      BY <1>1, <1>3, <1>4, <3>1
    <3>2. CASE s # t
      <4>1. s = lock \/ \E i \in 1..Len(lockq) : lockq[i] = s
        BY <1>1, <1>2, <2>1, <3>2 DEF LockInv, LockHeldInside
      <4> QED BY <1>1, <1>3, <1>4, <4>1
    <3> QED BY <3>1, <3>2
  <2>2. pc'[lock'] = pc[lock] /\ lock' # NoTask
    BY <1>1, <1>2
  <2> QED BY <2>1, <2>2 DEF LockHeldInside, LockInv
<1> QED BY <1>3, <1>6, <1>7 DEF LockInv

-----------------------------------------------------------------------------
\* The places where a task has no channel in its hands.
EmptyHanded == TaskStates \ {"setup", "ready", "undo", "close"}

\* What a step of task t from or to one of these places leaves in order.
Moved(t) ==
    /\ LockInv'
    /\ lock' \in Tasks \cup {NoTask}
    /\ lockq' \in Seq(Tasks)
    /\ \E v \in EmptyHanded : pc' = [pc EXCEPT ![t] = v]

\* restore() up to its first await.
LEMMA RestoreMoves ==
  ASSUME TypeOK, LockInv, NEW t \in Tasks, NEW r \in BOOLEAN,
         pc[t] \in {"idle", "call"}, Restore(t, r)
  PROVE  Moved(t) /\ mishap' \in BOOLEAN
<1>1. t # lock
  BY NobodyIsNoTask DEF LockInv, LockHeldInside, TypeOK
<1>2. {"idle", "done", "lock", "open", "broken"} \subseteq EmptyHanded
  BY DEF EmptyHanded, TaskStates
<1>3. lock \in Tasks \cup {NoTask} /\ lockq \in Seq(Tasks) /\ mishap \in BOOLEAN
  BY DEF TypeOK
<1>4. CASE /\ lock = NoTask
           /\ pc' = [pc EXCEPT ![t] = Returned(t)]
           /\ UNCHANGED <<lock, lockq, mishap>>
  <2>1. Returned(t) \in {"idle", "done"}
    BY DEF Returned
  <2>2. LockInv'
    BY <1>1, <1>4, <2>1, MoveKeepsLock
  <2> QED BY <1>2, <1>3, <1>4, <2>1, <2>2 DEF Moved
<1>5. CASE lock = NoTask /\ lock' = t /\ Open(t) /\ UNCHANGED lockq
  <2>1. PICK v \in {"open", "broken"} : pc' = [pc EXCEPT ![t] = v]
    BY <1>5 DEF Open
  <2>2. LockInv'
    BY <1>5, <2>1, TakeKeepsLock
  <2>3. mishap' \in BOOLEAN
    BY <1>3, <1>5 DEF Open
  <2> QED BY <1>2, <1>3, <1>5, <2>1, <2>2, <2>3 DEF Moved
<1>6. CASE /\ lock # NoTask
           /\ lockq' = Append(lockq, t)
           /\ pc' = [pc EXCEPT ![t] = "lock"]
           /\ UNCHANGED <<lock, mishap>>
  <2>1. LockInv' /\ lockq' \in Seq(Tasks)
    BY <1>1, <1>6, EnqueueKeepsLock
  <2> QED BY <1>2, <1>3, <1>6, <2>1 DEF Moved
<1> QED BY <1>4, <1>5, <1>6 DEF Restore

\* An error leaves the locked code, or code that took no lock.
LEMMA RaiseMoves ==
  ASSUME TypeOK, LockInv, NEW t \in Tasks, pc[t] # "lock", Raise(t)
  PROVE  Moved(t)
<1>1. Raised(t) \in {"idle", "done", "raise"}
  BY DEF Raised
<1>2. {"idle", "done", "raise"} \subseteq EmptyHanded
  BY DEF EmptyHanded, TaskStates
<1>3. lock \in Tasks \cup {NoTask} /\ lockq \in Seq(Tasks)
  BY DEF TypeOK
<1>4. pc' = [pc EXCEPT ![t] = Raised(t)]
  BY DEF Raise
<1>5. CASE lock = t
  <2>1. ReleaseLock
    BY <1>5 DEF Raise
  <2>2. Raised(t) \notin Inside
    BY <1>1 DEF Inside
  <2>3. LockInv' /\ lock' \in Tasks \cup {NoTask} /\ lockq' \in Seq(Tasks)
    BY <1>4, <1>5, <2>1, <2>2, ReleaseKeepsLock
  <2> QED BY <1>1, <1>2, <1>4, <2>3 DEF Moved
<1>6. CASE lock # t
  <2>1. UNCHANGED <<lock, lockq>>
    BY <1>6 DEF Raise
  <2>2. LockInv'
    BY <1>1, <1>4, <1>6, <2>1, MoveKeepsLock
  <2> QED BY <1>1, <1>2, <1>3, <1>4, <2>1, <2>2 DEF Moved
<1> QED BY <1>5, <1>6

\* A task that was and stays empty-handed keeps the types of pc and mine.
LEMMA MovedTypes ==
  ASSUME TypeOK, NEW t \in Tasks, Moved(t),
         \/ pc[t] \in EmptyHanded /\ mine' = mine
         \/ mine' = [mine EXCEPT ![t] = 0],
         chan' \in [Chans -> ChanStates],
         UNCHANGED link,
         closed' \in BOOLEAN,
         current' \in {0} \cup Chans,
         restored' \in BOOLEAN,
         mishap' \in BOOLEAN
  PROVE  TypeOK'
<1>1. PICK v \in EmptyHanded : pc' = [pc EXCEPT ![t] = v]
  BY DEF Moved
<1>2. pc' \in [Tasks -> TaskStates]
  BY <1>1 DEF TypeOK, EmptyHanded
<1>3. mine' \in [Tasks -> {0} \cup Chans]
  BY DEF TypeOK
<1>4. ASSUME NEW s \in Tasks
      PROVE  mine'[s] # 0 <=> pc'[s] \in {"setup", "ready", "undo", "close"}
  <2>1. CASE s = t
    BY <1>1, <2>1 DEF TypeOK, EmptyHanded
  <2>2. CASE s # t
    BY <1>1, <2>2 DEF TypeOK
  <2> QED BY <2>1, <2>2
<1> QED BY <1>2, <1>3, <1>4 DEF TypeOK, Moved

\* A task of which a closer's name may be taken moves only while it runs.
LEMMA MovedRuns ==
  ASSUME TypeOK, CloserRuns, NEW t \in Tasks, NEW v,
         pc' = [pc EXCEPT ![t] = v],
         t \in Chans => v = "idle" \/ chan'[t] = "callback",
         \A n \in Chans : chan[n] = "callback" => n = t \/ chan'[n] = "callback"
  PROVE  CloserRuns'
BY DEF TypeOK, CloserRuns

\* Closing channels, or giving names of no closer other places, stops no closer.
LEMMA ClosingRuns ==
  ASSUME CloserRuns,
         \A n \in Chans : pc'[n] = "idle" \/ pc[n] # "idle",
         \A n \in Chans : chan[n] = "callback" => chan'[n] = "callback"
  PROVE  CloserRuns'
BY DEF CloserRuns

\* The loss of the connection moves no task that waits for the lock.
LEMMA LinkGoneKeeps ==
  ASSUME TypeOK, CloserRuns, LockInv, NEW pcs,
         \/ pcs = pc
         \/ pc[Factory] = "raise" /\ pcs = [pc EXCEPT ![Factory] = "idle"],
         LinkGone(pcs),
         UNCHANGED <<current, closed, restored, lock, lockq, mine>>
  PROVE  ChannelInv'
<1>1. /\ pc \in [Tasks -> TaskStates]
      /\ pc' = [t \in Tasks |-> IF pcs[t] = "open" THEN "broken" ELSE pcs[t]]
      /\ Factory \in Tasks
  BY DEF TypeOK, LinkGone, Tasks
<1>2. \A t \in Tasks : \/ pc'[t] = pc[t]
                       \/ pc[t] = "open" /\ pc'[t] = "broken"
                       \/ t = Factory /\ pc[t] = "raise" /\ pc'[t] = "idle"
  BY <1>1
<1>3. TypeOK'
  <2>1. pc' \in [Tasks -> TaskStates]
    BY <1>1, <1>2 DEF TaskStates
  <2>2. chan' \in [Chans -> ChanStates] /\ link' = "lost" /\ mishap' \in BOOLEAN
    BY DEF TypeOK, LinkGone, ChanStates, InCallbacks
  <2>3. \A t \in Tasks : mine'[t] # 0 <=> pc'[t] \in {"setup", "ready", "undo", "close"}
    BY <1>2 DEF TypeOK
  <2> QED BY <2>1, <2>2, <2>3 DEF TypeOK
<1>4. CloserRuns'
  <2>1. \A n \in Chans : chan[n] = "callback" => chan'[n] = "callback"
    BY DEF TypeOK, LinkGone
  <2>2. \A n \in Chans : n \in Tasks
    BY DEF Tasks
  <2> QED BY <1>2, <2>1, <2>2, ClosingRuns
<1>5. QueueWaits'
  <2>1. \A i \in 1..Len(lockq) : lockq[i] \in Tasks
    BY DEF TypeOK
  <2> QED BY <1>2, <2>1 DEF LockInv, QueueWaits
<1>6. LockHeldInside'
  <2>1. lock # NoTask => lock \in Tasks
    BY DEF TypeOK
  <2> QED BY <1>2, <2>1 DEF LockInv, LockHeldInside
<1> QED BY <1>3, <1>4, <1>5, <1>6 DEF ChannelInv, LockInv

-----------------------------------------------------------------------------
LEMMA InitHolds == Init => ChannelInv
<1> SUFFICES ASSUME Init PROVE ChannelInv
  OBVIOUS
<1>1. TypeOK
  <2>1. lockq \in Seq(Tasks)
    BY DEF Init
  <2>2. chan \in [Chans -> ChanStates]
    BY DEF Init, ChanStates
  <2>3. pc \in [Tasks -> TaskStates] /\ mine \in [Tasks -> {0} \cup Chans]
    BY DEF Init, TaskStates
  <2>4. \A t \in Tasks : mine[t] # 0 <=> pc[t] \in {"setup", "ready", "undo", "close"}
    BY DEF Init
  <2> QED BY <2>1, <2>2, <2>3, <2>4 DEF Init, TypeOK
<1>2. CloserRuns
  BY DEF Init, CloserRuns, Tasks
<1>3. QueueWaits
  BY DEF Init, QueueWaits
<1>4. LockHeldInside
  BY DEF Init, LockHeldInside
<1> QED BY <1>1, <1>2, <1>3, <1>4 DEF ChannelInv, LockInv

\* The steps of a task that opens the channel.
LEMMA OpeningKeeps ==
  ASSUME ChannelInv, NEW t \in Tasks, OpeningStep(t)
  PROVE  ChannelInv'
<1> USE DEF ChannelInv
<1>1. /\ pc \in [Tasks -> TaskStates] /\ mine \in [Tasks -> {0} \cup Chans]
      /\ chan \in [Chans -> ChanStates]
      /\ mishap \in BOOLEAN /\ restored \in BOOLEAN /\ closed \in BOOLEAN
      /\ current \in {0} \cup Chans
      /\ lock \in Tasks \cup {NoTask} /\ lockq \in Seq(Tasks)
  BY DEF TypeOK
<1>2. \A n \in Chans : pc[n] # "idle" => chan[n] = "callback"
  BY DEF CloserRuns
<1>3. CASE LockGranted(t)
  <2>1. PICK v \in {"idle", "done", "open", "broken"} : pc' = [pc EXCEPT ![t] = v]
    BY <1>3 DEF LockGranted, Returned, Open
  <2>2. LockInv' /\ lock' \in Tasks \cup {NoTask} /\ lockq' \in Seq(Tasks)
    <3>1. CASE restored
      <4>1. pc' = [pc EXCEPT ![t] = Returned(t)] /\ ReleaseLock /\ t = lock
        BY <1>3, <3>1 DEF LockGranted
      <4>2. Returned(t) \notin Inside
        BY DEF Returned, Inside
      <4> QED BY <4>1, <4>2, ReleaseKeepsLock
    <3>2. CASE ~restored
      <4>1. Open(t) /\ UNCHANGED <<lock, lockq>> /\ t = lock
        BY <1>3, <3>2 DEF LockGranted
      <4>2. PICK w \in {"open", "broken"} : pc' = [pc EXCEPT ![t] = w]
        BY <4>1 DEF Open
      <4>3. LockInv'
        BY <4>1, <4>2, MoveKeepsLock DEF Inside
      <4> QED BY <1>1, <4>1, <4>3
    <3> QED BY <3>1, <3>2
  <2>3. Moved(t)
    BY <2>1, <2>2 DEF Moved, EmptyHanded, TaskStates
  <2>4. TypeOK'
    <3>1. mishap' \in BOOLEAN /\ pc[t] \in EmptyHanded
      BY <1>1, <1>3 DEF LockGranted, Open, EmptyHanded, TaskStates
    <3> QED BY <1>1, <1>3, <2>3, <3>1, MovedTypes DEF LockGranted
  <2>5. CloserRuns'
    BY <1>2, <1>3, <2>1, MovedRuns DEF LockGranted
  <2> QED BY <2>2, <2>4, <2>5
<1>4. CASE Created(t)
  <2> DEFINE n == CHOOSE n \in Free : TRUE
  <2>1. n \in Free /\ n \in Chans /\ chan[n] # "callback"
    BY <1>4 DEF Created, Free
  <2>2. /\ chan' = [chan EXCEPT ![n] = "open"]
        /\ mine' = [mine EXCEPT ![t] = n]
        /\ current' = n
        /\ pc' = [pc EXCEPT ![t] = "setup"]
        /\ pc[t] = "open"
        /\ UNCHANGED <<link, closed, restored, lock, lockq, mishap>>
    BY <1>4 DEF Created
  <2> HIDE DEF n
  <2>3. TypeOK'
    <3>1. n # 0
      BY <2>1 DEF Chans
    <3>2. \A s \in Tasks : mine'[s] # 0 <=> pc'[s] \in {"setup", "ready", "undo", "close"}
      BY <1>1, <2>2, <3>1 DEF TypeOK
    <3>3. pc' \in [Tasks -> TaskStates]
      BY <1>1, <2>2 DEF TaskStates
    <3>4. chan' \in [Chans -> ChanStates]
      BY <1>1, <2>2 DEF ChanStates
    <3>5. mine' \in [Tasks -> {0} \cup Chans]
      BY <1>1, <2>1, <2>2
    <3> QED BY <1>1, <2>1, <2>2, <3>2, <3>3, <3>4, <3>5 DEF TypeOK
  <2>4. LockInv'
    BY <2>2, MoveKeepsLock DEF Inside
  <2>5. CloserRuns'
    BY <1>1, <1>2, <2>1, <2>2, MovedRuns
  <2> QED BY <2>3, <2>4, <2>5
<1>5. CASE CreateFails(t)
  <2>1. Moved(t)
    BY <1>5, RaiseMoves DEF CreateFails
  <2>2. TypeOK'
    BY <1>1, <1>5, <2>1, MovedTypes DEF CreateFails, EmptyHanded, TaskStates
  <2>3. CloserRuns'
    BY <1>2, <1>5, MovedRuns DEF CreateFails, Raise
  <2> QED BY <2>1, <2>2, <2>3 DEF Moved
<1>6. CASE SetUpWaits(t)
  <2>1. pc' = [pc EXCEPT ![t] = "ready"] /\ pc[t] = "setup"
    BY <1>6 DEF SetUpWaits
  <2>2. TypeOK'
    BY <1>6, <2>1 DEF SetUpWaits, TypeOK, TaskStates
  <2>3. LockInv'
    BY <1>6, <2>1, MoveKeepsLock DEF SetUpWaits, Inside
  <2>4. CloserRuns'
    BY <1>2, <1>6, <2>1, MovedRuns DEF SetUpWaits
  <2> QED BY <2>2, <2>3, <2>4
<1>7. CASE SetUp(t)
  <2>1. PICK v \in {"reopen_cb", "idle"} : /\ pc' = [pc EXCEPT ![t] = v]
                                         /\ v = "reopen_cb" <=> lock = t
    BY <1>7 DEF SetUp
  <2>2. pc[t] \in {"setup", "ready"}
    BY <1>7 DEF SetUp, SettingUp
  <2>3. LockInv'
    BY <1>7, <2>1, <2>2, MoveKeepsLock DEF SetUp, Inside
  <2>4. Moved(t)
    BY <1>1, <1>7, <2>1, <2>3 DEF Moved, SetUp, EmptyHanded, TaskStates
  <2>5. TypeOK'
    BY <1>1, <1>7, <2>4, MovedTypes DEF SetUp
  <2>6. CloserRuns'
    BY <1>2, <1>7, <2>1, <2>2, MovedRuns DEF SetUp
  <2> QED BY <2>3, <2>5, <2>6
<1>8. CASE SetUpFails(t)
  <2>1. pc' = [pc EXCEPT ![t] = "undo"] /\ pc[t] \in {"setup", "ready"}
    BY <1>8 DEF SetUpFails, SettingUp
  <2>2. /\ chan' \in [Chans -> ChanStates]
        /\ mishap' \in BOOLEAN
        /\ \A m \in Chans : chan[m] = "callback" => chan'[m] = "callback"
    BY <1>1, <1>8 DEF SetUpFails, CloseChan, ChanStates, InCallbacks
  <2>3. TypeOK'
    BY <1>8, <2>1, <2>2 DEF SetUpFails, TypeOK, TaskStates
  <2>4. LockInv'
    BY <1>8, <2>1, MoveKeepsLock DEF SetUpFails, Inside
  <2>5. CloserRuns'
    BY <1>2, <2>1, <2>2, MovedRuns
  <2> QED BY <2>3, <2>4, <2>5
<1>9. CASE Undone(t)
  <2>1. Moved(t)
    BY <1>9, RaiseMoves DEF Undone
  <2>2. TypeOK'
    BY <1>1, <1>9, <2>1, MovedTypes DEF Undone
  <2>3. CloserRuns'
    BY <1>2, <1>9, MovedRuns DEF Undone, Raise
  <2> QED BY <2>1, <2>2, <2>3 DEF Moved
<1>10. CASE Reopened(t)
  <2>1. t = lock
    BY <1>10 DEF Reopened, LockInv, QueueWaits
  <2>2. /\ pc' = [pc EXCEPT ![t] = Returned(t)]
        /\ ReleaseLock
        /\ Returned(t) \in {"idle", "done"}
    BY <1>10 DEF Reopened, Returned
  <2>3. LockInv' /\ lock' \in Tasks \cup {NoTask} /\ lockq' \in Seq(Tasks)
    BY <2>1, <2>2, ReleaseKeepsLock DEF Inside
  <2>4. Moved(t) /\ pc[t] \in EmptyHanded
    BY <1>10, <2>2, <2>3 DEF Reopened, Moved, EmptyHanded, TaskStates
  <2>5. TypeOK'
    BY <1>1, <1>10, <2>4, MovedTypes DEF Reopened
  <2>6. CloserRuns'
    BY <1>2, <1>10, <2>2, MovedRuns DEF Reopened
  <2> QED BY <2>3, <2>5, <2>6
<1> QED BY <1>3, <1>4, <1>5, <1>6, <1>7, <1>8, <1>9, <1>10 DEF OpeningStep

\* The users' calls.
LEMMA UserKeeps ==
  ASSUME ChannelInv, NEW u \in Users,
         Initialize(u) \/ Reopen(u) \/ Close(u) \/ CloseReturns(u)
  PROVE  ChannelInv'
<1> USE DEF ChannelInv
<1>1. /\ pc \in [Tasks -> TaskStates] /\ mine \in [Tasks -> {0} \cup Chans]
      /\ chan \in [Chans -> ChanStates]
      /\ mishap \in BOOLEAN /\ restored \in BOOLEAN /\ closed \in BOOLEAN
      /\ current \in {0} \cup Chans
      /\ lock \in Tasks \cup {NoTask} /\ lockq \in Seq(Tasks)
  BY DEF TypeOK
<1>2. u \in Tasks /\ u \notin Chans
  BY ChannelAssumption DEF Tasks, Chans
<1>3. pc[u] \in {"idle", "close"} => u # lock
  BY <1>2, NobodyIsNoTask DEF LockInv, LockHeldInside
<1>4. CASE Initialize(u) \/ Reopen(u)
  <2>1. pc[u] = "idle" /\ Open(u)
        /\ UNCHANGED <<link, chan, current, closed, restored, lock, lockq, mine>>
    BY <1>4 DEF Initialize, Reopen
  <2>2. PICK v \in {"open", "broken"} : pc' = [pc EXCEPT ![u] = v]
    BY <2>1 DEF Open
  <2>3. LockInv'
    BY <1>2, <1>3, <2>1, <2>2, MoveKeepsLock
  <2>4. Moved(u)
    BY <1>1, <2>1, <2>2, <2>3 DEF Moved, EmptyHanded, TaskStates
  <2>5. pc[u] \in EmptyHanded /\ mishap' \in BOOLEAN
    BY <1>1, <2>1 DEF Open, EmptyHanded, TaskStates
  <2>6. TypeOK'
    BY <1>1, <1>2, <2>1, <2>4, <2>5, MovedTypes
  <2>7. CloserRuns'
    BY <1>2, <2>1, <2>2, MovedRuns
  <2> QED BY <2>3, <2>6, <2>7
<1>5. CASE /\ Close(u)
           /\ chan[current] = "finished"
           /\ UNCHANGED <<chan, pc, mine, mishap>>
  <2>1. /\ closed' = TRUE
        /\ UNCHANGED <<link, chan, current, restored, lock, lockq, pc, mine, mishap>>
    BY <1>5 DEF Close
  <2>2. TypeOK'
    BY <2>1 DEF TypeOK
  <2>3. LockInv'
    BY <2>1 DEF LockInv, QueueWaits, LockHeldInside
  <2>4. CloserRuns'
    BY <2>1 DEF CloserRuns
  <2> QED BY <2>2, <2>3, <2>4
<1>6. CASE /\ Close(u)
           /\ CloseChan(current)
           /\ pc' = [pc EXCEPT ![u] = "close"]
           /\ mine' = [mine EXCEPT ![u] = current]
  <2>1. /\ pc[u] = "idle" /\ current \in Chans /\ current # 0 /\ closed' = TRUE
        /\ UNCHANGED <<link, current, restored, lock, lockq>>
    BY <1>1, <1>6 DEF Close
  <2>2. /\ chan' \in [Chans -> ChanStates]
        /\ mishap' \in BOOLEAN
        /\ \A m \in Chans : chan[m] = "callback" => chan'[m] = "callback"
    BY <1>1, <1>6 DEF CloseChan, ChanStates, InCallbacks
  <2>3. TypeOK'
    <3>1. \A s \in Tasks : mine'[s] # 0 <=> pc'[s] \in {"setup", "ready", "undo", "close"}
      BY <1>1, <1>6, <2>1 DEF TypeOK
    <3>2. pc' \in [Tasks -> TaskStates] /\ mine' \in [Tasks -> {0} \cup Chans]
      BY <1>1, <1>6, <2>1 DEF TaskStates
    <3> QED BY <2>1, <2>2, <3>1, <3>2 DEF TypeOK
  <2>4. LockInv'
    BY <1>2, <1>3, <1>6, <2>1, MoveKeepsLock
  <2>5. CloserRuns'
    BY <1>2, <1>6, <2>2, MovedRuns
  <2> QED BY <2>3, <2>4, <2>5
<1>7. CASE CloseReturns(u)
  <2>1. /\ pc[u] = "close"
        /\ pc' = [pc EXCEPT ![u] = "idle"]
        /\ mine' = [mine EXCEPT ![u] = 0]
        /\ UNCHANGED <<link, chan, current, closed, restored, lock, lockq, mishap>>
    BY <1>7 DEF CloseReturns
  <2>2. LockInv'
    BY <1>2, <1>3, <2>1, MoveKeepsLock
  <2>3. Moved(u)
    BY <1>1, <2>1, <2>2 DEF Moved, EmptyHanded, TaskStates
  <2>4. TypeOK'
    BY <1>1, <1>2, <2>1, <2>3, MovedTypes
  <2>5. CloserRuns'
    BY <1>2, <2>1, MovedRuns
  <2> QED BY <2>2, <2>4, <2>5
<1> QED BY <1>4, <1>5, <1>6, <1>7 DEF Close

\* The closers, and the broker that closes a channel.
LEMMA CloserKeeps ==
  ASSUME ChannelInv, NEW n \in Chans,
         CloserStarts(n) \/ CloserEnds(n) \/ ChannelLost(n)
  PROVE  ChannelInv'
<1> USE DEF ChannelInv
<1>1. /\ pc \in [Tasks -> TaskStates] /\ mine \in [Tasks -> {0} \cup Chans]
      /\ chan \in [Chans -> ChanStates]
      /\ mishap \in BOOLEAN /\ restored \in BOOLEAN /\ closed \in BOOLEAN
      /\ current \in {0} \cup Chans
      /\ lock \in Tasks \cup {NoTask} /\ lockq \in Seq(Tasks)
  BY DEF TypeOK
<1>2. n \in Tasks
  BY DEF Tasks
<1>3. pc[n] \in {"idle", "done"} => n # lock
  BY <1>2, NobodyIsNoTask DEF LockInv, LockHeldInside
<1>4. CASE CloserStarts(n)
  <2>1. pc[n] = "idle"
    BY <1>4 DEF CloserStarts, CloserRuns
  <2>2. /\ chan[n] = "closing"
        /\ chan' = [chan EXCEPT ![n] = "callback"]
        /\ restored' = FALSE
        /\ UNCHANGED <<link, current, closed, mine>>
    BY <1>4 DEF CloserStarts
  <2>3. Moved(n) /\ mishap' \in BOOLEAN
    <3>1. CASE pc' = [pc EXCEPT ![n] = "done"] /\ UNCHANGED <<lock, lockq, mishap>>
      <4>1. LockInv'
        BY <1>2, <1>3, <2>1, <3>1, MoveKeepsLock
      <4> QED BY <1>1, <3>1, <4>1 DEF Moved, EmptyHanded, TaskStates
    <3>2. CASE Restore(n, FALSE)
      BY <1>2, <2>1, <3>2, RestoreMoves
    <3> QED BY <1>4, <3>1, <3>2 DEF CloserStarts
  <2>4. TypeOK'
    <3>1. chan' \in [Chans -> ChanStates] /\ pc[n] \in EmptyHanded
      BY <1>1, <2>1, <2>2 DEF ChanStates, EmptyHanded, TaskStates
    <3> QED BY <1>1, <1>2, <2>2, <2>3, <3>1, MovedTypes
  <2>5. CloserRuns'
    <3>1. PICK v \in EmptyHanded : pc' = [pc EXCEPT ![n] = v]
      BY <2>3 DEF Moved
    <3> QED BY <1>1, <1>2, <2>2, <3>1, MovedRuns
  <2> QED BY <2>3, <2>4, <2>5 DEF Moved
<1>5. CASE CloserEnds(n)
  <2>1. /\ pc[n] = "done"
        /\ chan' = [chan EXCEPT ![n] = "finished"]
        /\ pc' = [pc EXCEPT ![n] = "idle"]
        /\ UNCHANGED <<link, current, closed, restored, lock, lockq, mine, mishap>>
    BY <1>5 DEF CloserEnds
  <2>2. LockInv'
    BY <1>2, <1>3, <2>1, MoveKeepsLock
  <2>3. Moved(n)
    BY <1>1, <2>1, <2>2 DEF Moved, EmptyHanded, TaskStates
  <2>4. TypeOK'
    <3>1. chan' \in [Chans -> ChanStates] /\ pc[n] \in EmptyHanded
      BY <1>1, <2>1 DEF ChanStates, EmptyHanded, TaskStates
    <3> QED BY <1>1, <1>2, <2>1, <2>3, <3>1, MovedTypes
  <2>5. CloserRuns'
    BY <1>1, <1>2, <2>1, MovedRuns
  <2> QED BY <2>2, <2>4, <2>5
<1>6. CASE ChannelLost(n)
  <2>1. /\ chan' \in [Chans -> ChanStates]
        /\ mishap' \in BOOLEAN
        /\ \A m \in Chans : chan[m] = "callback" => chan'[m] = "callback"
        /\ UNCHANGED <<link, current, closed, restored, lock, lockq, pc, mine>>
    BY <1>1, <1>6 DEF ChannelLost, CloseChan, ChanStates, InCallbacks
  <2>2. TypeOK'
    BY <2>1 DEF TypeOK
  <2>3. LockInv'
    BY <2>1 DEF LockInv, QueueWaits, LockHeldInside
  <2>4. CloserRuns'
    BY <2>1 DEF CloserRuns
  <2> QED BY <2>2, <2>3, <2>4
<1> QED BY <1>4, <1>5, <1>6

\* The connection and its factory.
LEMMA LinkKeeps ==
  ASSUME ChannelInv,
         LinkLost \/ LinkDown \/ LinkUp \/ FactoryRestores \/ FactoryGivesUp
  PROVE  ChannelInv'
<1> USE DEF ChannelInv
<1>1. /\ pc \in [Tasks -> TaskStates] /\ mine \in [Tasks -> {0} \cup Chans]
      /\ chan \in [Chans -> ChanStates]
      /\ mishap \in BOOLEAN /\ restored \in BOOLEAN /\ closed \in BOOLEAN
      /\ current \in {0} \cup Chans
      /\ lock \in Tasks \cup {NoTask} /\ lockq \in Seq(Tasks)
  BY DEF TypeOK
<1>2. Factory \in Tasks /\ Factory \notin Chans
  BY ChannelAssumption DEF Tasks, Chans
<1>3. pc[Factory] \in {"idle", "call", "raise"} => Factory # lock
  BY <1>2, NobodyIsNoTask DEF LockInv, LockHeldInside
<1>4. CASE LinkLost
  BY <1>4, LinkGoneKeeps DEF LinkLost
<1>5. CASE LinkDown
  <2>1. /\ link' = "down"
        /\ UNCHANGED <<chan, current, closed, restored, lock, lockq, pc, mine, mishap>>
    BY <1>5 DEF LinkDown
  <2>2. TypeOK'
    BY <2>1 DEF TypeOK
  <2>3. LockInv' /\ CloserRuns'
    BY <2>1 DEF LockInv, QueueWaits, LockHeldInside, CloserRuns
  <2> QED BY <2>2, <2>3
<1>6. CASE LinkUp
  <2>1. /\ pc[Factory] = "idle"
        /\ link' = "up"
        /\ pc' = [pc EXCEPT ![Factory] = "call"]
        /\ UNCHANGED <<chan, current, closed, restored, lock, lockq, mine, mishap>>
    BY <1>6 DEF LinkUp
  <2>2. LockInv'
    BY <1>2, <1>3, <2>1, MoveKeepsLock
  <2>3. TypeOK'
    <3>1. pc' \in [Tasks -> TaskStates]
      BY <1>1, <2>1 DEF TaskStates
    <3>2. \A s \in Tasks : mine'[s] # 0 <=> pc'[s] \in {"setup", "ready", "undo", "close"}
      BY <1>1, <2>1 DEF TypeOK
    <3> QED BY <1>1, <2>1, <3>1, <3>2 DEF TypeOK
  <2>4. CloserRuns'
    BY <1>2, <2>1, MovedRuns
  <2> QED BY <2>2, <2>3, <2>4
<1>7. CASE FactoryRestores
  <2>1. /\ pc[Factory] = "call"
        /\ Restore(Factory, restored)
        /\ UNCHANGED <<link, chan, current, closed, restored, mine>>
    BY <1>7 DEF FactoryRestores
  <2>2. Moved(Factory) /\ mishap' \in BOOLEAN
    BY <1>1, <1>2, <2>1, RestoreMoves
  <2>3. TypeOK'
    <3>1. pc[Factory] \in EmptyHanded
      BY <2>1 DEF EmptyHanded, TaskStates
    <3> QED BY <1>1, <1>2, <2>1, <2>2, <3>1, MovedTypes
  <2>4. CloserRuns'
    <3>1. PICK v \in EmptyHanded : pc' = [pc EXCEPT ![Factory] = v]
      BY <2>2 DEF Moved
    <3> QED BY <1>2, <2>1, <3>1, MovedRuns
  <2> QED BY <2>2, <2>3, <2>4 DEF Moved
<1>8. CASE FactoryGivesUp
  <2>1. /\ pc[Factory] = "raise"
        /\ UNCHANGED <<current, closed, restored, lock, lockq, mine>>
    BY <1>8 DEF FactoryGivesUp
  <2>2. CASE LinkGone([pc EXCEPT ![Factory] = "idle"])
    BY <2>1, <2>2, LinkGoneKeeps
  <2>3. CASE pc' = [pc EXCEPT ![Factory] = "idle"] /\ UNCHANGED <<link, chan, mishap>>
    <3>1. LockInv'
      BY <1>2, <1>3, <2>1, <2>3, MoveKeepsLock
    <3>2. Moved(Factory) /\ pc[Factory] \in EmptyHanded
      BY <1>1, <2>1, <2>3, <3>1 DEF Moved, EmptyHanded, TaskStates
    <3>3. TypeOK'
      BY <1>1, <1>2, <2>1, <2>3, <3>2, MovedTypes
    <3>4. CloserRuns'
      BY <1>2, <2>3, MovedRuns
    <3> QED BY <3>1, <3>3, <3>4
  <2> QED BY <1>8, <2>2, <2>3 DEF FactoryGivesUp
<1> QED BY <1>4, <1>5, <1>6, <1>7, <1>8

-----------------------------------------------------------------------------
\* The inductive invariant of the channel: well formed, every running closer
\* has its callback under way, and the queue of the restore lock is in order.
THEOREM ChannelInvariant == Spec => []ChannelInv
<1>1. Init => ChannelInv
  BY InitHolds
<1>2. ChannelInv /\ [Next]_vars => ChannelInv'
  <2> SUFFICES ASSUME ChannelInv, [Next]_vars PROVE ChannelInv'
    OBVIOUS
  <2>1. CASE \E t \in Tasks : OpeningStep(t)
    BY <2>1, OpeningKeeps
  <2>2. CASE \E u \in Users : Initialize(u) \/ Reopen(u) \/ Close(u) \/ CloseReturns(u)
    BY <2>2, UserKeeps
  <2>3. CASE \E n \in Chans : CloserStarts(n) \/ CloserEnds(n) \/ ChannelLost(n)
    BY <2>3, CloserKeeps
  <2>4. CASE LinkLost \/ LinkDown \/ LinkUp \/ FactoryRestores \/ FactoryGivesUp
    BY <2>4, LinkKeeps
  <2>5. CASE UNCHANGED vars
    BY <2>5 DEF vars, ChannelInv, TypeOK, CloserRuns, LockInv, QueueWaits, LockHeldInside
  <2> QED BY <2>1, <2>2, <2>3, <2>4, <2>5 DEF Next
<1> QED BY <1>1, <1>2, PTL DEF Spec

\* The state of the channel and its tasks is well formed, for any number of
\* users and underlay channels.
THEOREM ChannelTypes == Spec => []TypeOK
<1>1. ChannelInv => TypeOK
  BY DEF ChannelInv
<1> QED BY <1>1, ChannelInvariant, PTL

\* The restore lock is given back on every way out of restore(), to the next
\* task that waits for it, and no waiting task is forgotten.
THEOREM ChannelLock == Spec => []LockHeldInside
<1>1. ChannelInv => LockHeldInside
  BY DEF ChannelInv, LockInv
<1> QED BY <1>1, ChannelInvariant, PTL

-----------------------------------------------------------------------------
(* What holds as long as no mishap happened: one task opens the channel at a *)
(* time, and nothing but what it opened, or the channel in use, is open.     *)

OneOpens == \A s, t \in Opening : s = t

\* Only the channel in use may be open, or lost so recently that its closer did
\* not start; and what a task sets up or undoes is the channel in use.
OpenIsCurrent == \A n \in Chans : chan[n] \in {"open", "closing"} => n = current
HandsOnCurrent == \A t \in Tasks : pc[t] \in {"setup", "ready", "undo"} => mine[t] = current

\* Nobody asks for a channel while one is open.
NothingOpenYet == \A t \in Tasks : pc[t] = "open" => \A n \in Chans : chan[n] # "open"

\* An open channel is in use, or on its way there.
OpenIsInUse == \A n \in Chans :
    chan[n] = "open" => (~closed /\ restored) \/ \E t \in Tasks : pc[t] \in {"setup", "ready"}

\* Reopen callbacks run on an open channel that nobody opens again.
CallbacksOnOpen == \A t \in Tasks :
    pc[t] = "reopen_cb" => /\ current # 0
                           /\ chan[current] = "open"
                           /\ ~closed
                           /\ Opening = {}

RestoredUsable == restored => Usable

InUse ==
    /\ OneOpens
    /\ OpenIsCurrent
    /\ HandsOnCurrent
    /\ NothingOpenYet
    /\ OpenIsInUse
    /\ CallbacksOnOpen
    /\ RestoredUsable

UseInv == mishap \/ InUse

\* A task moves that opens nothing, while the channels stay as they are or end.
LEMMA BystanderKeepsUse ==
  ASSUME TypeOK, InUse, NEW t \in Tasks, NEW v,
         pc' = [pc EXCEPT ![t] = v],
         pc[t] \notin {"setup", "ready"},
         v \notin {"open", "setup", "ready", "undo", "reopen_cb"},
         \A s \in Tasks : s # t => mine'[s] = mine[s],
         \A n \in Chans : \/ chan'[n] = chan[n]
                          \/ {chan[n], chan'[n]} \cap {"open", "closing"} = {},
         UNCHANGED <<current, closed>>,
         restored' = (restored \/ pc[t] = "reopen_cb")
  PROVE  InUse'
<1>1. \A s \in Tasks : pc'[s] = IF s = t THEN v ELSE pc[s]
  BY DEF TypeOK
<1>2. Opening' \subseteq Opening
  BY <1>1 DEF Opening
<1>3. /\ \A n \in Chans : chan'[n] = "open" <=> chan[n] = "open"
      /\ \A n \in Chans : chan'[n] = "closing" <=> chan[n] = "closing"
  OBVIOUS
<1>4. OneOpens' /\ OpenIsCurrent' /\ HandsOnCurrent' /\ NothingOpenYet'
  BY <1>1, <1>2, <1>3 DEF InUse, OneOpens, OpenIsCurrent, HandsOnCurrent, NothingOpenYet
<1>5. OpenIsInUse'
  <2> SUFFICES ASSUME NEW n \in Chans, chan[n] = "open"
               PROVE  (~closed /\ restored') \/ \E s \in Tasks : pc'[s] \in {"setup", "ready"}
    BY <1>3 DEF OpenIsInUse
  <2>1. CASE ~closed /\ restored
    <3>1. restored'
      BY <2>1
    <3> QED BY <2>1, <3>1
  <2>2. CASE \E s \in Tasks : pc[s] \in {"setup", "ready"}
    BY <1>1, <2>2
  <2> QED BY <2>1, <2>2 DEF InUse, OpenIsInUse
<1>6. CallbacksOnOpen'
  BY <1>1, <1>2, <1>3 DEF InUse, CallbacksOnOpen, TypeOK
<1>7. RestoredUsable'
  BY <1>3 DEF InUse, RestoredUsable, CallbacksOnOpen, Usable, TypeOK
<1> QED BY <1>4, <1>5, <1>6, <1>7 DEF InUse

\* A task begins to open the channel: nothing is open.
LEMMA OpenKeepsUse ==
  ASSUME TypeOK, LockInv, InUse, NEW t \in Tasks, Open(t), ~mishap',
         pc[t] \in {"idle", "call", "lock"},
         \A n \in Chans : chan[n] # "open",
         \A n \in Chans : chan'[n] = chan[n] \/ chan'[n] = "callback",
         restored' => /\ restored
                      /\ chan' = chan,
         UNCHANGED <<current, closed, mine>>
  PROVE  InUse'
<1>1. PICK v \in {"open", "broken"} : pc' = [pc EXCEPT ![t] = v]
  BY DEF Open
<1>2. \A s \in Tasks : pc'[s] = IF s = t THEN v ELSE pc[s]
  BY <1>1 DEF TypeOK
<1>3. Opening = {} /\ Opening' \subseteq {t}
  BY <1>2 DEF Open, Opening
<1>4. \A n \in Chans : chan'[n] # "open" /\ (chan'[n] = "closing" => chan[n] = "closing")
  OBVIOUS
<1>5. \A s \in Tasks : pc[s] # "reopen_cb"
  BY DEF InUse, CallbacksOnOpen, TypeOK
<1>6. \A s \in Tasks : pc'[s] \notin {"setup", "ready", "undo", "reopen_cb"}
  BY <1>2, <1>3, <1>5 DEF Opening
<1>7. OneOpens' /\ HandsOnCurrent' /\ NothingOpenYet' /\ OpenIsInUse' /\ CallbacksOnOpen'
  BY <1>3, <1>4, <1>6
     DEF OneOpens, HandsOnCurrent, NothingOpenYet, OpenIsInUse, CallbacksOnOpen
<1>8. OpenIsCurrent'
  BY <1>4 DEF InUse, OpenIsCurrent
<1>9. RestoredUsable'
  BY DEF InUse, RestoredUsable, Usable
<1> QED BY <1>7, <1>8, <1>9 DEF InUse

\* Channels close while no reopen callbacks run.
LEMMA ClosingKeepsUse ==
  ASSUME TypeOK, InUse,
         \A n \in Chans : \/ chan'[n] = chan[n]
                          \/ chan[n] = "open" /\ chan'[n] = "closing",
         \A t \in Tasks : \/ pc'[t] = pc[t]
                          \/ pc'[t] \notin {"open", "setup", "ready", "undo", "reopen_cb"}
                          \/ pc'[t] = "undo" /\ pc[t] \in {"setup", "ready"},
         \A t \in Tasks : pc[t] # "reopen_cb",
         \A t \in Tasks : mine'[t] = mine[t] \/ (pc[t] = "idle" /\ pc'[t] = "close"),
         UNCHANGED <<current, restored>>,
         OpenIsInUse'
  PROVE  InUse'
<1>1. Opening' \subseteq Opening
  BY DEF Opening
<1>2. \A n \in Chans : chan'[n] \in {"open", "closing"} => chan[n] \in {"open", "closing"}
  OBVIOUS
<1>3. \A n \in Chans : chan[n] \in {"open", "closing"} => chan'[n] \in {"open", "closing"}
  OBVIOUS
<1>4. OneOpens' /\ OpenIsCurrent'
  BY <1>1, <1>2 DEF InUse, OneOpens, OpenIsCurrent
<1>5. HandsOnCurrent'
  BY DEF InUse, HandsOnCurrent
<1>6. NothingOpenYet'
  BY DEF InUse, NothingOpenYet
<1>7. CallbacksOnOpen'
  BY DEF CallbacksOnOpen
<1>8. RestoredUsable'
  BY <1>3 DEF InUse, RestoredUsable, Usable, TypeOK
<1> QED BY <1>4, <1>5, <1>6, <1>7, <1>8 DEF InUse

\* The closer of the channel in use moves: nothing is open any more.
LEMMA CloserKeepsUse ==
  ASSUME TypeOK, InUse, NEW n \in Chans, NEW v,
         pc' = [pc EXCEPT ![n] = v],
         v \notin {"open", "setup", "ready", "undo", "reopen_cb"},
         chan[n] = "closing", chan' = [chan EXCEPT ![n] = "callback"],
         ~restored', UNCHANGED <<current, closed, mine>>
  PROVE  InUse'
<1>1. \A s \in Tasks : pc'[s] = IF s = n THEN v ELSE pc[s]
  BY DEF TypeOK
<1>2. Opening' \subseteq Opening
  BY <1>1 DEF Opening
<1>3. \A m \in Chans : m # n => chan[m] \notin {"open", "closing"}
  BY DEF InUse, OpenIsCurrent
<1>4. \A m \in Chans : chan'[m] \notin {"open", "closing"}
  BY <1>3 DEF TypeOK
<1>5. \A s \in Tasks : pc[s] # "reopen_cb"
  BY <1>3 DEF InUse, CallbacksOnOpen, TypeOK
<1>6. OneOpens' /\ HandsOnCurrent' /\ OpenIsCurrent' /\ NothingOpenYet' /\ OpenIsInUse'
  BY <1>1, <1>2, <1>4
     DEF InUse, OneOpens, HandsOnCurrent, OpenIsCurrent, NothingOpenYet, OpenIsInUse
<1>7. CallbacksOnOpen' /\ RestoredUsable'
  BY <1>1, <1>5 DEF CallbacksOnOpen, RestoredUsable
<1> QED BY <1>6, <1>7 DEF InUse

\* restore() up to its first await, by the factory.
LEMMA FactoryKeepsUse ==
  ASSUME TypeOK, LockInv, InUse, FactoryRestores, ~mishap'
  PROVE  InUse'
<1>1. Factory \in Tasks
  BY DEF Tasks
<1>2. /\ pc[Factory] = "call"
      /\ Restore(Factory, restored)
      /\ UNCHANGED <<link, chan, current, closed, restored, mine>>
  BY DEF FactoryRestores
<1>3. ASSUME NEW v \in {"lock", "idle", "done"}, pc' = [pc EXCEPT ![Factory] = v]
      PROVE  InUse'
  <2>1. restored' = (restored \/ pc[Factory] = "reopen_cb")
    BY <1>2 DEF TypeOK
  <2> QED BY <1>1, <1>2, <1>3, <2>1, BystanderKeepsUse
<1>4. ASSUME ~restored, Open(Factory) PROVE InUse'
  <2>1. \A n \in Chans : chan[n] # "open"
    BY <1>4 DEF Open, Opening, InUse, OpenIsInUse
  <2> QED BY <1>1, <1>2, <1>4, <2>1, OpenKeepsUse
<1>5. Returned(Factory) \in {"idle", "done"}
  BY DEF Returned
<1> QED BY <1>2, <1>3, <1>4, <1>5 DEF Restore

\* A closer starts, and may restore the channel.
LEMMA CloserStartsKeepsUse ==
  ASSUME TypeOK, LockInv, InUse, NEW n \in Chans, CloserStarts(n), pc[n] = "idle", ~mishap'
  PROVE  InUse'
<1>1. /\ chan[n] = "closing"
      /\ chan' = [chan EXCEPT ![n] = "callback"]
      /\ restored' = FALSE
      /\ UNCHANGED <<link, current, closed, mine>>
      /\ n \in Tasks
  BY DEF CloserStarts, Tasks
<1>2. ASSUME NEW v \in {"lock", "idle", "done"}, pc' = [pc EXCEPT ![n] = v]
      PROVE  InUse'
  BY <1>1, <1>2, CloserKeepsUse
<1>3. ASSUME Open(n) PROVE InUse'
  <2>1. \A m \in Chans : chan[m] # "open"
    BY <1>1 DEF InUse, OpenIsCurrent
  <2>2. \A m \in Chans : chan'[m] = chan[m] \/ chan'[m] = "callback"
    BY <1>1 DEF TypeOK
  <2> QED BY <1>1, <1>3, <2>1, <2>2, OpenKeepsUse
<1>4. Returned(n) \in {"idle", "done"}
  BY DEF Returned
<1>5. CASE pc' = [pc EXCEPT ![n] = "done"]
  BY <1>2, <1>5
<1>6. CASE Restore(n, FALSE)
  BY <1>2, <1>3, <1>4, <1>6 DEF Restore
<1> QED BY <1>5, <1>6 DEF CloserStarts

\* A task that waited for the restore lock gets it.
LEMMA GrantKeepsUse ==
  ASSUME TypeOK, LockInv, InUse, NEW t \in Tasks, LockGranted(t), ~mishap'
  PROVE  InUse'
<1>1. pc[t] = "lock" /\ UNCHANGED <<link, chan, current, closed, restored, mine>>
  BY DEF LockGranted
<1>2. CASE restored /\ pc' = [pc EXCEPT ![t] = Returned(t)]
  <2>1. PICK v \in {"idle", "done"} : pc' = [pc EXCEPT ![t] = v]
    BY <1>2 DEF Returned
  <2>2. restored' = (restored \/ pc[t] = "reopen_cb")
    BY <1>1 DEF TypeOK
  <2> QED BY <1>1, <2>1, <2>2, BystanderKeepsUse
<1>3. CASE ~restored /\ Open(t)
  <2>1. \A n \in Chans : chan[n] # "open"
    BY <1>3 DEF Open, Opening, InUse, OpenIsInUse
  <2> QED BY <1>1, <1>3, <2>1, OpenKeepsUse
<1> QED BY <1>2, <1>3 DEF LockGranted

\* The broker opened the channel a task asked for.
LEMMA CreatedKeepsUse ==
  ASSUME TypeOK, InUse, NEW t \in Tasks, Created(t)
  PROVE  InUse'
<1>1. PICK n \in Chans : /\ n \in Free
                         /\ chan' = [chan EXCEPT ![n] = "open"]
                         /\ mine' = [mine EXCEPT ![t] = n]
                         /\ current' = n
  BY DEF Created, Free
<1>2. /\ pc[t] = "open" /\ pc' = [pc EXCEPT ![t] = "setup"]
      /\ \A m \in Chans : chan[m] # "closing"
      /\ UNCHANGED <<closed, restored>>
  BY DEF Created, Settled
<1>3. \A s \in Tasks : pc'[s] = IF s = t THEN "setup" ELSE pc[s]
  BY <1>2 DEF TypeOK
<1>4. Opening = {t} /\ Opening' = {t}
  BY <1>2, <1>3 DEF InUse, OneOpens, Opening
<1>5. \A m \in Chans : /\ chan'[m] = "open" <=> m = n
                       /\ chan'[m] # "closing"
  BY <1>1, <1>2 DEF InUse, NothingOpenYet, TypeOK
<1>6. \A s \in Tasks : s # t => pc'[s] \notin {"open", "setup", "ready", "undo"}
  BY <1>4 DEF Opening
<1>7. OneOpens' /\ OpenIsCurrent' /\ NothingOpenYet'
  BY <1>1, <1>3, <1>4, <1>5, <1>6 DEF OneOpens, OpenIsCurrent, NothingOpenYet
<1>8. HandsOnCurrent'
  BY <1>1, <1>6 DEF HandsOnCurrent, TypeOK
<1>9. OpenIsInUse'
  BY <1>3 DEF OpenIsInUse
<1>10. CallbacksOnOpen'
  BY <1>3, <1>4 DEF InUse, CallbacksOnOpen
<1>11. RestoredUsable'
  BY <1>1, <1>5 DEF RestoredUsable, Usable, Chans
<1> QED BY <1>7, <1>8, <1>9, <1>10, <1>11 DEF InUse

\* The channel is set up: it is in use now, or its reopen callbacks run.
LEMMA SetUpKeepsUse ==
  ASSUME TypeOK, InUse, NEW t \in Tasks, SetUp(t)
  PROVE  InUse'
<1>1. /\ pc[t] \in {"setup", "ready"}
      /\ current # 0 /\ chan[current] = "open"
      /\ restored' = TRUE /\ closed' = FALSE
      /\ mine' = [mine EXCEPT ![t] = 0]
      /\ UNCHANGED <<chan, current>>
  BY DEF SetUp, SettingUp
<1>2. PICK v \in {"reopen_cb", "idle"} : pc' = [pc EXCEPT ![t] = v]
  BY DEF SetUp
<1>3. \A s \in Tasks : pc'[s] = IF s = t THEN v ELSE pc[s]
  BY <1>2 DEF TypeOK
<1>4. Opening = {t} /\ Opening' = {}
  BY <1>1, <1>3 DEF InUse, OneOpens, Opening
<1>5. OneOpens' /\ HandsOnCurrent' /\ NothingOpenYet'
  BY <1>4 DEF Opening, OneOpens, HandsOnCurrent, NothingOpenYet
<1>6. OpenIsCurrent' /\ OpenIsInUse' /\ CallbacksOnOpen' /\ RestoredUsable'
  BY <1>1, <1>4
     DEF InUse, OpenIsCurrent, OpenIsInUse, CallbacksOnOpen, RestoredUsable, Usable
<1> QED BY <1>5, <1>6 DEF InUse

\* The channel that could not be set up has closed and is forgotten.
LEMMA UndoneKeepsUse ==
  ASSUME TypeOK, InUse, NEW t \in Tasks, Undone(t)
  PROVE  InUse'
<1>1. /\ pc[t] = "undo" /\ current' = 0
      /\ UNCHANGED <<chan, closed, restored>>
      /\ mine[t] = current /\ current \in Chans /\ chan[current] = "finished"
  BY DEF Undone, InUse, HandsOnCurrent, TypeOK
<1>2. PICK v \in {"idle", "done", "raise"} : pc' = [pc EXCEPT ![t] = v]
  BY DEF Undone, Raise, Raised
<1>3. \A s \in Tasks : pc'[s] = IF s = t THEN v ELSE pc[s]
  BY <1>2 DEF TypeOK
<1>4. Opening = {t} /\ Opening' = {}
  BY <1>1, <1>3 DEF InUse, OneOpens, Opening
<1>5. ~restored /\ \A n \in Chans : chan[n] \notin {"open", "closing"}
  BY <1>1 DEF InUse, OpenIsCurrent, RestoredUsable, Usable
<1>6. \A s \in Tasks : pc'[s] # "reopen_cb"
  BY <1>1, <1>3, <1>4 DEF InUse, CallbacksOnOpen
<1>7. OneOpens' /\ HandsOnCurrent' /\ NothingOpenYet' /\ CallbacksOnOpen'
  BY <1>4, <1>6 DEF Opening, OneOpens, HandsOnCurrent, NothingOpenYet, CallbacksOnOpen
<1>8. OpenIsCurrent' /\ OpenIsInUse' /\ RestoredUsable'
  BY <1>1, <1>5 DEF OpenIsCurrent, OpenIsInUse, RestoredUsable
<1> QED BY <1>7, <1>8 DEF InUse

\* The steps of a task that opens the channel.
LEMMA OpeningKeepsUse ==
  ASSUME ChannelInv, InUse, NEW t \in Tasks, OpeningStep(t), ~mishap'
  PROVE  InUse'
<1>0. TypeOK /\ LockInv
  BY DEF ChannelInv
<1>1. CASE CreateFails(t)
  <2>1. PICK v \in {"idle", "done", "raise"} : pc' = [pc EXCEPT ![t] = v]
    BY <1>1 DEF CreateFails, Raise, Raised
  <2>2. /\ pc[t] \in {"open", "broken"}
        /\ UNCHANGED <<link, chan, current, closed, restored, mine, mishap>>
    BY <1>1 DEF CreateFails
  <2>3. restored' = (restored \/ pc[t] = "reopen_cb")
    BY <1>0, <2>2 DEF TypeOK
  <2> QED BY <1>0, <2>1, <2>2, <2>3, BystanderKeepsUse
<1>2. CASE Reopened(t)
  <2>1. PICK v \in {"idle", "done"} : pc' = [pc EXCEPT ![t] = v]
    BY <1>2 DEF Reopened, Returned
  <2>2. /\ pc[t] = "reopen_cb"
        /\ restored' = TRUE
        /\ UNCHANGED <<link, chan, current, closed, mine, mishap>>
    BY <1>2 DEF Reopened
  <2>3. restored' = (restored \/ pc[t] = "reopen_cb")
    BY <1>0, <2>2 DEF TypeOK
  <2> QED BY <1>0, <2>1, <2>2, <2>3, BystanderKeepsUse
<1>3. CASE SetUpWaits(t)
  <2>1. /\ pc[t] = "setup" /\ pc' = [pc EXCEPT ![t] = "ready"]
        /\ UNCHANGED <<link, chan, current, closed, restored, lock, lockq, mine, mishap>>
    BY <1>3 DEF SetUpWaits
  <2>2. \A s \in Tasks : pc'[s] = IF s = t THEN "ready" ELSE pc[s]
    BY <1>0, <2>1 DEF TypeOK
  <2>3. Opening' = Opening
    BY <2>1, <2>2 DEF Opening
  <2>4. OneOpens' /\ OpenIsCurrent' /\ HandsOnCurrent' /\ NothingOpenYet' /\ OpenIsInUse'
    BY <2>1, <2>2, <2>3
       DEF InUse, OneOpens, OpenIsCurrent, HandsOnCurrent, NothingOpenYet, OpenIsInUse
  <2>5. CallbacksOnOpen' /\ RestoredUsable'
    BY <2>1, <2>2, <2>3 DEF InUse, CallbacksOnOpen, RestoredUsable, Usable
  <2> QED BY <2>4, <2>5 DEF InUse
<1>4. CASE SetUpFails(t)
  <2>1. /\ pc[t] \in {"setup", "ready"} /\ pc' = [pc EXCEPT ![t] = "undo"]
        /\ UNCHANGED <<link, current, closed, restored, lock, lockq, mine>>
        /\ mine[t] = current /\ current \in Chans
        /\ chan' = [chan EXCEPT ![current] = IF @ = "open" THEN "closing" ELSE @]
        /\ ~InCallbacks
    BY <1>0, <1>4 DEF SetUpFails, SettingUp, CloseChan, InUse, HandsOnCurrent, TypeOK
  <2>2. \A n \in Chans : \/ chan'[n] = chan[n]
                         \/ chan[n] = "open" /\ chan'[n] = "closing"
    BY <1>0, <2>1 DEF TypeOK
  <2>3. OpenIsInUse'
    BY <1>0, <2>1 DEF OpenIsInUse, InUse, OpenIsCurrent, TypeOK
  <2>4. \A s \in Tasks : pc'[s] = pc[s] \/ (pc'[s] = "undo" /\ pc[s] \in {"setup", "ready"})
    BY <1>0, <2>1 DEF TypeOK
  <2>5. \A s \in Tasks : pc[s] # "reopen_cb" /\ mine'[s] = mine[s]
    BY <2>1 DEF InCallbacks
  <2> QED BY <1>0, <2>1, <2>2, <2>3, <2>4, <2>5, ClosingKeepsUse
<1>5. CASE LockGranted(t) \/ Created(t) \/ SetUp(t) \/ Undone(t)
  BY <1>0, <1>5, GrantKeepsUse, CreatedKeepsUse, SetUpKeepsUse, UndoneKeepsUse
<1> QED BY <1>1, <1>2, <1>3, <1>4, <1>5 DEF OpeningStep

\* The users' calls.
LEMMA UserKeepsUse ==
  ASSUME ChannelInv, InUse, NEW u \in Users, ~mishap',
         Initialize(u) \/ Reopen(u) \/ Close(u) \/ CloseReturns(u)
  PROVE  InUse'
<1>0. TypeOK /\ LockInv /\ u \in Tasks
  BY DEF ChannelInv, Tasks
<1>1. CASE Initialize(u) \/ Reopen(u)
  <2>1. /\ pc[u] = "idle" /\ Open(u)
        /\ UNCHANGED <<link, chan, current, closed, restored, lock, lockq, mine>>
    BY <1>1 DEF Initialize, Reopen
  <2>2. \A n \in Chans : chan[n] # "open"
    <3> SUFFICES ASSUME NEW n \in Chans, chan[n] = "open" PROVE FALSE
      OBVIOUS
    <3>1. n = current /\ n # 0
      BY DEF InUse, OpenIsCurrent, Chans
    <3>2. closed
      BY <1>1, <3>1 DEF Initialize, Reopen, is_closed
    <3> QED BY <2>1, <3>2 DEF InUse, OpenIsInUse, Open, Opening
  <2> QED BY <1>0, <2>1, <2>2, OpenKeepsUse
<1>2. CASE /\ Close(u)
           /\ chan[current] = "finished"
           /\ UNCHANGED <<chan, pc, mine, mishap>>
  <2>1. /\ UNCHANGED <<chan, pc, mine, current, restored>>
        /\ current \in Chans
    BY <1>0, <1>2 DEF Close, TypeOK
  <2>2. \A n \in Chans : chan[n] # "open"
    BY <1>2 DEF InUse, OpenIsCurrent
  <2>3. OpenIsInUse'
    BY <2>1, <2>2 DEF OpenIsInUse
  <2>4. \A t \in Tasks : pc[t] # "reopen_cb"
    BY <1>2 DEF InUse, CallbacksOnOpen
  <2> QED BY <1>0, <2>1, <2>3, <2>4, ClosingKeepsUse
<1>3. CASE /\ Close(u)
           /\ CloseChan(current)
           /\ pc' = [pc EXCEPT ![u] = "close"]
           /\ mine' = [mine EXCEPT ![u] = current]
  <2>1. /\ pc[u] = "idle" /\ current \in Chans
        /\ UNCHANGED <<link, current, restored>>
        /\ chan' = [chan EXCEPT ![current] = IF @ = "open" THEN "closing" ELSE @]
        /\ ~InCallbacks
    BY <1>0, <1>3 DEF Close, CloseChan, TypeOK
  <2>2. \A n \in Chans : \/ chan'[n] = chan[n]
                         \/ chan[n] = "open" /\ chan'[n] = "closing"
    BY <1>0, <2>1 DEF TypeOK
  <2>3. OpenIsInUse'
    BY <1>0, <2>1 DEF OpenIsInUse, InUse, OpenIsCurrent, TypeOK
  <2>4. \A t \in Tasks : /\ pc'[t] = pc[t] \/ pc'[t] = "close"
                         /\ mine'[t] = mine[t] \/ (pc[t] = "idle" /\ pc'[t] = "close")
    BY <1>0, <1>3, <2>1 DEF TypeOK
  <2>5. \A t \in Tasks : pc[t] # "reopen_cb"
    BY <2>1 DEF InCallbacks
  <2> QED BY <1>0, <2>1, <2>2, <2>3, <2>4, <2>5, ClosingKeepsUse
<1>4. CASE CloseReturns(u)
  <2>1. /\ pc[u] = "close" /\ pc' = [pc EXCEPT ![u] = "idle"]
        /\ mine' = [mine EXCEPT ![u] = 0]
        /\ UNCHANGED <<chan, current, closed, restored>>
    BY <1>4 DEF CloseReturns
  <2>2. \A s \in Tasks : s # u => mine'[s] = mine[s]
    BY <1>0, <2>1 DEF TypeOK
  <2>3. restored' = (restored \/ pc[u] = "reopen_cb")
    BY <1>0, <2>1 DEF TypeOK
  <2>4. PICK v \in {"idle"} : pc' = [pc EXCEPT ![u] = v]
    BY <2>1
  <2> QED BY <1>0, <2>1, <2>2, <2>3, <2>4, BystanderKeepsUse
<1> QED BY <1>1, <1>2, <1>3, <1>4 DEF Close

\* The broker and the connection.
LEMMA WorldKeepsUse ==
  ASSUME ChannelInv, InUse, ~mishap',
         \/ \E n \in Chans : CloserStarts(n) \/ CloserEnds(n) \/ ChannelLost(n)
         \/ LinkLost
         \/ LinkDown
         \/ LinkUp
         \/ FactoryRestores
         \/ FactoryGivesUp
  PROVE  InUse'
<1>0. TypeOK /\ LockInv /\ CloserRuns /\ Factory \in Tasks
  BY DEF ChannelInv, Tasks
<1>1. ASSUME NEW n \in Chans, CloserStarts(n) PROVE InUse'
  <2>1. pc[n] = "idle"
    BY <1>0, <1>1 DEF CloserStarts, CloserRuns
  <2> QED BY <1>0, <1>1, <2>1, CloserStartsKeepsUse
<1>2. ASSUME NEW n \in Chans, CloserEnds(n) PROVE InUse'
  <2>1. /\ pc[n] = "done" /\ n \in Tasks
        /\ chan' = [chan EXCEPT ![n] = "finished"]
        /\ UNCHANGED <<link, current, closed, restored, lock, lockq, mine, mishap>>
    BY <1>2 DEF CloserEnds, Tasks
  <2>2. chan[n] = "callback"
    BY <1>0, <2>1 DEF CloserRuns
  <2>3. \A m \in Chans : \/ chan'[m] = chan[m]
                         \/ {chan[m], chan'[m]} \cap {"open", "closing"} = {}
    BY <1>0, <2>1, <2>2 DEF TypeOK
  <2>4. restored' = (restored \/ pc[n] = "reopen_cb")
    BY <1>0, <2>1 DEF TypeOK
  <2>5. PICK v \in {"idle"} : pc' = [pc EXCEPT ![n] = v]
    BY <1>2 DEF CloserEnds
  <2> QED BY <1>0, <2>1, <2>3, <2>4, <2>5, BystanderKeepsUse
<1>3. ASSUME NEW n \in Chans, ChannelLost(n) PROVE InUse'
  <2>1. /\ chan[n] = "open" /\ chan' = [chan EXCEPT ![n] = "closing"]
        /\ UNCHANGED <<link, current, closed, restored, lock, lockq, pc, mine>>
        /\ ~InCallbacks
    BY <1>0, <1>3 DEF ChannelLost, CloseChan, TypeOK
  <2>2. \A m \in Chans : \/ chan'[m] = chan[m]
                         \/ chan[m] = "open" /\ chan'[m] = "closing"
    BY <1>0, <2>1 DEF TypeOK
  <2>3. OpenIsInUse'
    BY <2>1, <2>2 DEF OpenIsInUse, InUse
  <2>4. \A t \in Tasks : pc[t] # "reopen_cb"
    BY <2>1 DEF InCallbacks
  <2> QED BY <1>0, <2>1, <2>2, <2>3, <2>4, ClosingKeepsUse
<1>4. ASSUME NEW pcs, LinkGone(pcs), UNCHANGED <<current, closed, restored, mine>>,
             \/ pcs = pc
             \/ pc[Factory] = "raise" /\ pcs = [pc EXCEPT ![Factory] = "idle"]
      PROVE  InUse'
  <2>1. /\ \A n \in Chans : chan'[n] = IF chan[n] = "open" THEN "closing" ELSE chan[n]
        /\ \A t \in Tasks : pc'[t] = IF pcs[t] = "open" THEN "broken" ELSE pcs[t]
        /\ ~InCallbacks
    BY <1>4 DEF LinkGone
  <2>2. \A t \in Tasks : pcs[t] = pc[t] \/ pcs[t] = "idle"
    BY <1>0, <1>4 DEF TypeOK
  <2>3. OpenIsInUse'
    BY <2>1 DEF OpenIsInUse
  <2>4. \A t \in Tasks : pc[t] # "reopen_cb" /\ mine'[t] = mine[t]
    BY <1>4, <2>1 DEF InCallbacks
  <2> QED BY <1>0, <1>4, <2>1, <2>2, <2>3, <2>4, ClosingKeepsUse
<1>5. CASE LinkLost
  BY <1>4, <1>5 DEF LinkLost
<1>6. CASE LinkDown
  <2>1. UNCHANGED <<chan, current, closed, restored, pc, mine>>
    BY <1>6 DEF LinkDown
  <2> QED BY <2>1 DEF InUse, OneOpens, Opening, OpenIsCurrent, HandsOnCurrent, NothingOpenYet,
                      OpenIsInUse, CallbacksOnOpen, RestoredUsable, Usable
<1>7. ASSUME NEW v \in {"idle", "call"}, pc[Factory] \in {"idle", "raise"},
             pc' = [pc EXCEPT ![Factory] = v],
             UNCHANGED <<chan, current, closed, restored, mine>>
      PROVE  InUse'
  <2>1. restored' = (restored \/ pc[Factory] = "reopen_cb")
    BY <1>0, <1>7 DEF TypeOK
  <2> QED BY <1>0, <1>7, <2>1, BystanderKeepsUse
<1>8. CASE LinkUp
  BY <1>7, <1>8 DEF LinkUp
<1>9. CASE FactoryGivesUp
  BY <1>4, <1>7, <1>9 DEF FactoryGivesUp
<1> QED BY <1>0, <1>1, <1>2, <1>3, <1>5, <1>6, <1>8, <1>9, FactoryKeepsUse

\* A mishap is never forgotten.
LEMMA MishapStays == [Next]_vars /\ mishap => mishap'
<1> SUFFICES ASSUME [Next]_vars, mishap PROVE mishap'
  OBVIOUS
<1>1. ASSUME NEW t \in Tasks, OpeningStep(t) PROVE mishap'
  BY <1>1 DEF OpeningStep, LockGranted, Open, Created, CreateFails, SetUpWaits, SetUp,
              SetUpFails, CloseChan, Undone, Reopened
<1>2. ASSUME NEW u \in Users, Initialize(u) \/ Reopen(u) \/ Close(u) \/ CloseReturns(u)
      PROVE  mishap'
  BY <1>2 DEF Initialize, Reopen, Open, Close, CloseChan, CloseReturns
<1>3. ASSUME NEW n \in Chans, CloserStarts(n) \/ CloserEnds(n) \/ ChannelLost(n)
      PROVE  mishap'
  BY <1>3 DEF CloserStarts, Restore, Open, CloserEnds, ChannelLost, CloseChan
<1>4. CASE LinkLost \/ LinkDown \/ LinkUp \/ FactoryRestores \/ FactoryGivesUp
  BY <1>4 DEF LinkLost, LinkGone, LinkDown, LinkUp, FactoryRestores, Restore, Open,
              FactoryGivesUp
<1>5. CASE UNCHANGED vars
  BY <1>5 DEF vars
<1> QED BY <1>1, <1>2, <1>3, <1>4, <1>5 DEF Next

-----------------------------------------------------------------------------
\* As long as no mishap happened, one task opens the channel at a time and what
\* is open is in use, for any users and number of underlay channels.
THEOREM ChannelInUse == Spec => []UseInv
<1>1. Init => UseInv
  <2> SUFFICES ASSUME Init PROVE InUse
    BY DEF UseInv
  <2>1. \A t \in Tasks : pc[t] = "idle"
    BY DEF Init
  <2>2. \A n \in Chans : chan[n] = "none"
    BY DEF Init
  <2>3. Opening = {}
    BY <2>1 DEF Opening
  <2> QED BY <2>1, <2>2, <2>3
          DEF Init, InUse, OneOpens, OpenIsCurrent, HandsOnCurrent, NothingOpenYet,
              OpenIsInUse, CallbacksOnOpen, RestoredUsable
<1>2. ChannelInv /\ UseInv /\ [Next]_vars => UseInv'
  <2> SUFFICES ASSUME ChannelInv, UseInv, [Next]_vars, ~mishap' PROVE InUse'
    BY DEF UseInv
  <2>1. InUse
    BY MishapStays DEF UseInv
  <2>2. CASE UNCHANGED vars
    BY <2>1, <2>2
       DEF vars, InUse, OneOpens, Opening, OpenIsCurrent, HandsOnCurrent, NothingOpenYet,
           OpenIsInUse, CallbacksOnOpen, RestoredUsable, Usable
  <2> QED BY <2>1, <2>2, OpeningKeepsUse, UserKeepsUse, WorldKeepsUse DEF Next
<1> QED BY <1>1, <1>2, ChannelInvariant, PTL DEF Spec

\* ready() returns on a channel that can be used, or was lost so recently that
\* its closer has not run, unless two tasks opened the channel at once or it
\* went down under reopen callbacks.
THEOREM RestoredIsUsableHolds == Spec => []RestoredIsUsable
<1>1. UseInv => RestoredIsUsable
  BY DEF UseInv, InUse, RestoredUsable, RestoredIsUsable
<1> QED BY <1>1, ChannelInUse, PTL

\* No underlay channel is left open behind the one in use, under the same
\* condition.
THEOREM NoChannelLeaksHolds == Spec => []NoChannelLeaks
<1>1. UseInv => NoChannelLeaks
  BY DEF UseInv, InUse, OpenIsCurrent, NoChannelLeaks
<1> QED BY <1>1, ChannelInUse, PTL

-----------------------------------------------------------------------------
(* A restore() that undoes what it opened waits, with the lock in its hands, *)
(* for the closer of that channel.                                           *)

\* The owner of the lock opens a channel that is not restored ...
OpensUnrestored == lock \in Opening => ~restored

\* ... and the closer of the channel it sets up or undoes has no part in it.
CloserStandsBack ==
    lock \in Tasks /\ pc[lock] \in {"setup", "ready", "undo"} =>
       pc[mine[lock]] \in {"idle", "done"}

RestoreSafe == OpensUnrestored /\ CloserStandsBack

SafeInv == mishap \/ RestoreSafe

\* No restore() waits, with the lock in its hands, for a closer that waits for
\* the lock: the closer of the channel it undoes is through, or on its way there,
\* as long as no two tasks opened the channel at once.
NoRestoreDeadlock ==
    ~mishap /\ lock \in Tasks /\ pc[lock] = "undo" => pc[mine[lock]] \in {"idle", "done"}

\* A task moves; the lock stays, is given back, or is taken.
LEMMA MoveKeepsSafe ==
  ASSUME TypeOK, RestoreSafe, NEW s \in Tasks, NEW v, pc' = [pc EXCEPT ![s] = v],
         lock' \in {lock, NoTask, s} \/ (lock' \in Tasks /\ pc[lock'] = "lock"),
         \A t \in Tasks \ {s} : mine'[t] = mine[t],
         restored' => restored \/ Opening \subseteq {s},
         s = lock' /\ v \in {"open", "setup", "ready", "undo"} => ~restored',
         s = lock' /\ v \in {"setup", "ready", "undo"} =>
            mine'[s] \in Tasks \ {s} /\ pc[mine'[s]] \in {"idle", "done"},
         \A t \in Tasks \ {s} :
            t = lock /\ pc[t] \in {"setup", "ready", "undo"} /\ mine[t] = s => v \in {"idle", "done"}
  PROVE  RestoreSafe'
<1>1. \A t \in Tasks : pc'[t] = IF t = s THEN v ELSE pc[t]
  BY DEF TypeOK
<1>2. CASE lock' = s
  BY <1>1, <1>2 DEF RestoreSafe, OpensUnrestored, CloserStandsBack, Opening
<1>3. CASE lock' # s /\ lock' = lock /\ lock \in Tasks
  <2>1. pc'[lock] = pc[lock] /\ mine'[lock] = mine[lock]
    BY <1>1, <1>3
  <2>2. OpensUnrestored'
    BY <1>3, <2>1 DEF RestoreSafe, OpensUnrestored, Opening
  <2>3. ASSUME pc[lock] \in {"setup", "ready", "undo"} PROVE pc'[mine[lock]] \in {"idle", "done"}
    <3>1. mine[lock] \in Tasks /\ pc[mine[lock]] \in {"idle", "done"}
      BY <1>3, <2>3 DEF TypeOK, RestoreSafe, CloserStandsBack, Tasks
    <3>2. CASE mine[lock] = s
      BY <1>1, <1>3, <2>3, <3>2
    <3>3. CASE mine[lock] # s
      BY <1>1, <3>1, <3>3
    <3> QED BY <3>2, <3>3
  <2> QED BY <1>3, <2>1, <2>2, <2>3 DEF RestoreSafe, CloserStandsBack
<1>4. CASE lock' # s /\ lock' \in Tasks /\ pc[lock'] = "lock"
  BY <1>1, <1>4 DEF RestoreSafe, OpensUnrestored, CloserStandsBack, Opening
<1>5. CASE lock' \notin Tasks
  BY <1>5 DEF RestoreSafe, OpensUnrestored, CloserStandsBack, Opening
<1> QED BY <1>2, <1>3, <1>4, <1>5, NobodyIsNoTask

\* Who gets the lock that is given back.
LEMMA HandedOver ==
  ASSUME TypeOK, LockInv, ReleaseLock
  PROVE  lock' = NoTask \/ (lock' \in Tasks /\ pc[lock'] = "lock")
<1>1. CASE lockq = << >>
  BY <1>1 DEF ReleaseLock
<1>2. CASE lockq # << >>
  <2>1. lock' = lockq[1] /\ 1 \in 1..Len(lockq) /\ lockq[1] \in Tasks
    BY <1>2 DEF ReleaseLock, TypeOK
  <2> QED BY <2>1 DEF LockInv, QueueWaits
<1> QED BY <1>1, <1>2

\* A step of a task that opens the channel.
LEMMA OpeningKeepsSafe ==
  ASSUME ChannelInv, InUse, RestoreSafe, NEW t \in Tasks, OpeningStep(t)
  PROVE  RestoreSafe'
<1>0. TypeOK /\ LockInv /\ CloserRuns
  BY DEF ChannelInv
<1>1. pc[t] \notin {"idle", "done"}
  BY DEF OpeningStep, LockGranted, Created, CreateFails, SetUpWaits, SetUp, SetUpFails, Undone,
         Reopened, SettingUp
<1>2. ASSUME NEW w \in Tasks \ {t}, w = lock, pc[w] \in {"setup", "ready", "undo"}, mine[w] = t
      PROVE  FALSE
  BY <1>1, <1>2 DEF RestoreSafe, CloserStandsBack
<1>3. CASE LockGranted(t)
  <2>1. /\ lock = t /\ UNCHANGED <<restored, mine>>
        /\ \E v : pc' = [pc EXCEPT ![t] = v] /\ v \notin {"setup", "ready", "undo"}
                  /\ (restored => v \notin {"open"})
        /\ lock' = lock \/ ReleaseLock
    BY <1>3 DEF LockGranted, Open, Returned
  <2>2. lock' \in {lock, NoTask, t} \/ (lock' \in Tasks /\ pc[lock'] = "lock")
    BY <1>0, <2>1, HandedOver
  <2> QED BY <1>0, <1>2, <2>1, <2>2, MoveKeepsSafe
<1>4. CASE Created(t)
  <2>1. PICK n \in Free : mine' = [mine EXCEPT ![t] = n]
    BY <1>4 DEF Created
  <2>2. /\ pc[t] = "open" /\ pc' = [pc EXCEPT ![t] = "setup"]
        /\ UNCHANGED <<restored, lock>>
    BY <1>4 DEF Created
  <2>3. n \in Tasks /\ pc[n] = "idle" /\ n # t
    BY <1>0, <2>2 DEF Free, CloserRuns, Tasks
  <2>4. mine'[t] = n /\ \A s \in Tasks \ {t} : mine'[s] = mine[s]
    BY <1>0, <2>1 DEF TypeOK
  <2>5. t = lock => ~restored
    BY <2>2 DEF RestoreSafe, OpensUnrestored, Opening
  <2> QED BY <1>0, <1>2, <2>2, <2>3, <2>4, <2>5, MoveKeepsSafe
<1>5. CASE SetUpWaits(t) \/ SetUpFails(t)
  <2>1. /\ pc[t] \in {"setup", "ready"}
        /\ UNCHANGED <<restored, lock, mine>>
        /\ \E v \in {"ready", "undo"} : pc' = [pc EXCEPT ![t] = v]
    BY <1>5 DEF SetUpWaits, SetUpFails, SettingUp
  <2>2. t = lock => ~restored /\ pc[mine[t]] \in {"idle", "done"}
    BY <2>1 DEF RestoreSafe, OpensUnrestored, CloserStandsBack, Opening
  <2>3. t = lock => mine[t] \in Tasks \ {t}
    BY <1>0, <1>1, <2>1, <2>2 DEF TypeOK, Tasks
  <2> QED BY <1>0, <1>2, <2>1, <2>2, <2>3, MoveKeepsSafe
<1>6. CASE SetUp(t)
  <2>1. /\ pc[t] \in {"setup", "ready"}
        /\ lock' = lock /\ mine' = [mine EXCEPT ![t] = 0]
        /\ \E v \in {"reopen_cb", "idle"} : pc' = [pc EXCEPT ![t] = v]
    BY <1>6 DEF SetUp, SettingUp
  <2>2. Opening \subseteq {t}
    BY <2>1 DEF InUse, OneOpens, Opening
  <2>3. \A s \in Tasks \ {t} : mine'[s] = mine[s]
    BY <1>0, <2>1 DEF TypeOK
  <2> QED BY <1>0, <1>2, <2>1, <2>2, <2>3, MoveKeepsSafe
<1>7. CASE CreateFails(t) \/ Undone(t) \/ Reopened(t)
  <2>1. \E v \in {"done", "raise", "idle"} : pc' = [pc EXCEPT ![t] = v]
    BY <1>7 DEF CreateFails, Undone, Reopened, Raise, Raised, Returned
  <2>2. lock' = lock \/ ReleaseLock
    BY <1>7 DEF CreateFails, Undone, Reopened, Raise
  <2>3. lock' \in {lock, NoTask, t} \/ (lock' \in Tasks /\ pc[lock'] = "lock")
    BY <1>0, <2>2, HandedOver
  <2>4. \A s \in Tasks \ {t} : mine'[s] = mine[s]
    BY <1>0, <1>7 DEF CreateFails, Undone, Reopened, TypeOK
  <2>5. restored' => restored \/ Opening \subseteq {t}
    BY <1>0, <1>7 DEF CreateFails, Undone, Reopened, InUse, CallbacksOnOpen
  <2> QED BY <1>0, <1>2, <2>1, <2>3, <2>4, <2>5, MoveKeepsSafe
<1> QED BY <1>3, <1>4, <1>5, <1>6, <1>7 DEF OpeningStep

\* A step of a user, who has no lock when it begins.
LEMMA UserKeepsSafe ==
  ASSUME ChannelInv, RestoreSafe, NEW u \in Users,
         Initialize(u) \/ Reopen(u) \/ Close(u) \/ CloseReturns(u)
  PROVE  RestoreSafe'
<1>0. TypeOK /\ LockInv /\ u \in Tasks /\ u \notin Chans
  BY ChannelAssumption DEF ChannelInv, Tasks, Chans
<1>1. pc[u] \in {"idle", "close"} /\ lock' = lock /\ restored' = restored
  BY DEF Initialize, Reopen, Close, CloseReturns
<1>2. u # lock
  BY <1>0, <1>1, NobodyIsNoTask DEF LockInv, LockHeldInside
<1>3. \A t \in Tasks : pc[t] \in {"setup", "ready", "undo"} => mine[t] # u
  BY <1>0 DEF TypeOK, Chans
<1>4. CASE \E v : pc' = [pc EXCEPT ![u] = v]
  <2>1. \A s \in Tasks \ {u} : mine'[s] = mine[s]
    BY <1>0 DEF Initialize, Reopen, Close, CloseReturns, TypeOK
  <2> QED BY <1>0, <1>1, <1>2, <1>3, <1>4, <2>1, MoveKeepsSafe
<1>5. CASE UNCHANGED <<pc, mine>>
  BY <1>1, <1>5 DEF RestoreSafe, OpensUnrestored, CloserStandsBack, Opening
<1> QED BY <1>4, <1>5 DEF Initialize, Reopen, Open, Close, CloseReturns

\* restore() up to its first await keeps it, by whoever has no lock yet; a
\* closer the owner of the lock waits for does not get here.
LEMMA RestoreKeepsSafe ==
  ASSUME ChannelInv, RestoreSafe, NEW s \in Tasks, Restore(s, restored'),
         restored' => restored, mine' = mine,
         \A t \in Tasks : t = lock /\ pc[t] \in {"setup", "ready", "undo"} => mine[t] # s
  PROVE  RestoreSafe'
<1>0. TypeOK
  BY DEF ChannelInv
<1>1. PICK v \in {"idle", "done", "open", "broken", "lock"} : pc' = [pc EXCEPT ![s] = v]
  BY DEF Restore, Open, Returned
<1>2. CASE lock' = s /\ ~restored'
  BY <1>0, <1>1, <1>2, MoveKeepsSafe
<1>3. CASE lock' = lock /\ v \in {"idle", "done", "lock"}
  BY <1>0, <1>1, <1>3, MoveKeepsSafe
<1>4. \/ lock' = s /\ ~restored'
      \/ lock' = lock /\ pc' = [pc EXCEPT ![s] = "lock"]
      \/ lock' = lock /\ pc' = [pc EXCEPT ![s] = Returned(s)]
  BY DEF Restore
<1>5. Returned(s) \in {"idle", "done"}
  BY DEF Returned
<1>6. pc'[s] = v
  BY <1>0, <1>1 DEF TypeOK
<1>7. (lock' = s /\ ~restored') \/ (lock' = lock /\ v \in {"idle", "done", "lock"})
  BY <1>0, <1>4, <1>5, <1>6 DEF TypeOK
<1> QED BY <1>2, <1>3, <1>7

\* The closers, the broker and the connection.
LEMMA WorldKeepsSafe ==
  ASSUME ChannelInv, RestoreSafe,
         \/ \E n \in Chans : CloserStarts(n) \/ CloserEnds(n) \/ ChannelLost(n)
         \/ LinkLost
         \/ LinkDown
         \/ LinkUp
         \/ FactoryRestores
         \/ FactoryGivesUp
  PROVE  RestoreSafe'
<1>0. TypeOK /\ LockInv /\ CloserRuns /\ Factory \in Tasks /\ Factory \notin Chans
  BY ChannelAssumption DEF ChannelInv, Tasks, Chans
<1>1. ASSUME NEW n \in Chans, CloserStarts(n) PROVE RestoreSafe'
  <2>1. n \in Tasks /\ ~restored' /\ mine' = mine
    BY <1>1 DEF CloserStarts, Tasks
  <2>2. CASE pc' = [pc EXCEPT ![n] = "done"] /\ lock' = lock
    BY <1>0, <2>1, <2>2, MoveKeepsSafe
  <2>3. CASE restored /\ Restore(n, FALSE)
    <3>1. \A t \in Tasks : t = lock => pc[t] \notin {"setup", "ready", "undo"}
      BY <2>3 DEF RestoreSafe, OpensUnrestored, Opening
    <3>2. restored' = FALSE /\ Restore(n, restored')
      BY <1>1, <2>3 DEF CloserStarts
    <3> QED BY <2>1, <3>1, <3>2, RestoreKeepsSafe
  <2> QED BY <1>1, <2>2, <2>3 DEF CloserStarts
<1>2. ASSUME NEW n \in Chans, CloserEnds(n) PROVE RestoreSafe'
  <2>1. n \in Tasks /\ pc' = [pc EXCEPT ![n] = "idle"] /\ UNCHANGED <<lock, mine, restored>>
    BY <1>2 DEF CloserEnds, Tasks
  <2> QED BY <1>0, <2>1, MoveKeepsSafe
<1>3. ASSUME UNCHANGED <<lock, mine, restored>>,
             \A t \in Tasks : pc'[t] = pc[t] \/ (pc[t] = "open" /\ pc'[t] = "broken")
                              \/ (t = Factory /\ pc'[t] = "idle")
      PROVE  RestoreSafe'
  <2>1. Opening' \subseteq Opening
    BY <1>3 DEF Opening
  <2>2. OpensUnrestored'
    BY <1>3, <2>1 DEF RestoreSafe, OpensUnrestored
  <2>3. CloserStandsBack'
    <3> SUFFICES ASSUME lock \in Tasks, pc'[lock] \in {"setup", "ready", "undo"}
                 PROVE  pc'[mine[lock]] \in {"idle", "done"}
      BY <1>3 DEF CloserStandsBack
    <3>1. pc[lock] \in {"setup", "ready", "undo"}
      BY <1>3
    <3>2. mine[lock] \in Tasks /\ pc[mine[lock]] \in {"idle", "done"}
      BY <1>0, <3>1 DEF TypeOK, RestoreSafe, CloserStandsBack, Tasks
    <3> QED BY <1>3, <3>2
  <2> QED BY <2>2, <2>3 DEF RestoreSafe
<1>4. ASSUME NEW n \in Chans, ChannelLost(n) PROVE RestoreSafe'
  BY <1>3, <1>4 DEF ChannelLost
<1>5. ASSUME NEW pcs, LinkGone(pcs), UNCHANGED <<lock, mine, restored>>,
             \A t \in Tasks : pcs[t] = pc[t] \/ (t = Factory /\ pcs[t] = "idle")
      PROVE  RestoreSafe'
  BY <1>3, <1>5 DEF LinkGone
<1>6. CASE LinkLost \/ LinkDown
  BY <1>3, <1>5, <1>6 DEF LinkLost, LinkDown
<1>7. CASE LinkUp
  <2>1. pc' = [pc EXCEPT ![Factory] = "call"] /\ UNCHANGED <<lock, mine, restored>>
    BY <1>7 DEF LinkUp
  <2>2. \A t \in Tasks : pc[t] \in {"setup", "ready", "undo"} => mine[t] # Factory
    BY <1>0 DEF TypeOK
  <2> QED BY <1>0, <2>1, <2>2, MoveKeepsSafe
<1>8. CASE FactoryRestores
  <2>1. Restore(Factory, restored') /\ restored' = restored /\ mine' = mine
    BY <1>8 DEF FactoryRestores
  <2>2. \A t \in Tasks : pc[t] \in {"setup", "ready", "undo"} => mine[t] # Factory
    BY <1>0 DEF TypeOK
  <2> QED BY <1>0, <2>1, <2>2, RestoreKeepsSafe
<1>9. CASE FactoryGivesUp
  <2>1. UNCHANGED <<lock, mine, restored>>
    BY <1>9 DEF FactoryGivesUp
  <2>2. \A t \in Tasks : LET idle == [pc EXCEPT ![Factory] = "idle"] IN
           idle[t] = pc[t] \/ (t = Factory /\ idle[t] = "idle")
    BY <1>0 DEF TypeOK
  <2> QED BY <1>3, <1>5, <1>9, <2>1, <2>2 DEF FactoryGivesUp
<1> QED BY <1>1, <1>2, <1>4, <1>6, <1>7, <1>8, <1>9

\* The check of in_restore_state in the closer keeps restore() from waiting for
\* itself, for any users and number of underlay channels.
THEOREM NoRestoreDeadlockHolds == Spec => []NoRestoreDeadlock
<1>1. Init => SafeInv
  BY NobodyIsNoTask DEF Init, SafeInv, RestoreSafe, OpensUnrestored, CloserStandsBack, Opening
<1>2. ChannelInv /\ UseInv /\ SafeInv /\ [Next]_vars => SafeInv'
  <2> SUFFICES ASSUME ChannelInv, UseInv, SafeInv, [Next]_vars, ~mishap' PROVE RestoreSafe'
    BY DEF SafeInv
  <2>1. InUse /\ RestoreSafe
    BY MishapStays DEF UseInv, SafeInv
  <2>2. CASE UNCHANGED vars
    BY <2>1, <2>2 DEF vars, RestoreSafe, OpensUnrestored, CloserStandsBack, Opening
  <2> QED BY <2>1, <2>2, OpeningKeepsSafe, UserKeepsSafe, WorldKeepsSafe DEF Next
<1>3. SafeInv => NoRestoreDeadlock
  BY DEF SafeInv, RestoreSafe, CloserStandsBack, NoRestoreDeadlock
<1> QED BY <1>1, <1>2, <1>3, ChannelInvariant, ChannelInUse, PTL DEF Spec

-----------------------------------------------------------------------------
(* What a reconnect promises where ReconnectRestores does not hold. *)

\* The factory is past the head of restore() only with the lock in its hands.
FactoryHoldsLock ==
    pc[Factory] \in {"open", "broken", "setup", "ready", "undo", "reopen_cb"} => lock = Factory

\* The factory's call of restore() ends without an error.
RestoreReturns == pc[Factory] \notin {"idle", "raise"} /\ pc'[Factory] = "idle"

\* After a reconnect the channel is marked restored and can be used, a channel
\* that its user closed too, unless two tasks opened it at once or it went down
\* under reopen callbacks.
RestoresUnlessMishap ==
    [][RestoreReturns => mishap' \/ (restored' /\ Usable')]_vars

\* The others leave the lock with the factory.
LEMMA FactoryKeepsLock ==
  ASSUME ChannelInv, FactoryHoldsLock, [Next]_vars
  PROVE  FactoryHoldsLock'
<1>0. Factory \in Tasks /\ Factory \notin Users \cup Chans
  BY ChannelAssumption DEF Tasks, Chans
<1> DEFINE Past == {"open", "broken", "setup", "ready", "undo", "reopen_cb"}
<1>1. ASSUME NEW t \in Tasks, OpeningStep(t) PROVE FactoryHoldsLock'
  <2>1. CASE t = Factory
    <3>1. CASE LockGranted(t) \/ Created(t) \/ SetUpWaits(t) \/ SetUp(t) \/ SetUpFails(t)
      <4>1. pc'[t] \notin Past \/ (lock' = lock /\ lock = t)
        BY <2>1, <3>1 DEF LockGranted, Created, SetUpWaits, SetUp, SetUpFails, SettingUp, Open, Returned,
           FactoryHoldsLock, ChannelInv, TypeOK
      <4> QED BY <2>1, <4>1 DEF FactoryHoldsLock
    <3>2. CASE CreateFails(t) \/ Undone(t) \/ Reopened(t)
      <4>1. pc'[t] \notin Past
        BY <1>0, <2>1, <3>2 DEF CreateFails, Undone, Reopened, Raise, Raised, Returned, ChannelInv, TypeOK
      <4> QED BY <2>1, <4>1 DEF FactoryHoldsLock
    <3> QED BY <1>1, <3>1, <3>2 DEF OpeningStep
  <2>2. CASE t # Factory
    <3>1. pc'[Factory] = pc[Factory]
      BY <1>0, <1>1, <2>2 DEF OpeningStep, LockGranted, Created, CreateFails, SetUpWaits, SetUp, SetUpFails,
         Undone, Reopened, Raise, Open, ChannelInv, TypeOK
    <3>2. lock' = lock \/ lock = t
      BY <1>1 DEF OpeningStep, LockGranted, Created, CreateFails, SetUpWaits, SetUp, SetUpFails,
         Undone, Reopened, Raise, ChannelInv, LockInv, QueueWaits
    <3> QED BY <2>2, <3>1, <3>2 DEF FactoryHoldsLock
  <2> QED BY <2>1, <2>2
<1>2. ASSUME NEW t \in Tasks \ {Factory},
             \/ t \in Users /\ (Initialize(t) \/ Reopen(t) \/ Close(t) \/ CloseReturns(t))
             \/ t \in Chans /\ (CloserStarts(t) \/ CloserEnds(t))
      PROVE  FactoryHoldsLock'
  <2>1. pc'[Factory] = pc[Factory]
    BY <1>0, <1>2 DEF Initialize, Reopen, Close, CloseReturns, CloserStarts, CloserEnds, Restore, Open,
       ChannelInv, TypeOK
  <2>2. lock' = lock \/ lock = NoTask
    BY <1>2 DEF Initialize, Reopen, Close, CloseReturns, CloserStarts, CloserEnds, Restore
  <2> QED BY <1>0, <2>1, <2>2, NobodyIsNoTask DEF FactoryHoldsLock
<1>3. ASSUME NEW n \in Chans, ChannelLost(n) PROVE FactoryHoldsLock'
  BY <1>3 DEF ChannelLost, FactoryHoldsLock
<1>4. CASE LinkLost \/ LinkDown
  BY <1>0, <1>4 DEF LinkLost, LinkGone, LinkDown, FactoryHoldsLock, ChannelInv, TypeOK
<1>5. CASE LinkUp \/ FactoryGivesUp
  <2>1. pc'[Factory] \in {"call", "idle"}
    BY <1>0, <1>5 DEF LinkUp, FactoryGivesUp, LinkGone, ChannelInv, TypeOK
  <2> QED BY <2>1 DEF FactoryHoldsLock
<1>6. CASE FactoryRestores
  <2>1. pc'[Factory] \notin Past \/ lock' = Factory
    BY <1>0, <1>6 DEF FactoryRestores, Restore, Returned, ChannelInv, TypeOK
  <2> QED BY <2>1 DEF FactoryHoldsLock
<1>7. CASE UNCHANGED vars
  BY <1>7 DEF vars, FactoryHoldsLock
<1>8. ASSUME NEW u \in Users, Initialize(u) \/ Reopen(u) \/ Close(u) \/ CloseReturns(u)
      PROVE  FactoryHoldsLock'
  BY <1>0, <1>2, <1>8 DEF Tasks
<1>9. ASSUME NEW n \in Chans, CloserStarts(n) \/ CloserEnds(n) PROVE FactoryHoldsLock'
  BY <1>0, <1>2, <1>9 DEF Tasks
<1> HIDE DEF Past
<1> QED BY <1>1, <1>3, <1>4, <1>5, <1>6, <1>7, <1>8, <1>9 DEF Next

\* restore() returns with the event set: it was, or the reopen callbacks are
\* through, as the factory holds the lock.
LEMMA RestoreReturnsRestored ==
  ASSUME ChannelInv, FactoryHoldsLock, [Next]_vars, RestoreReturns
  PROVE  restored'
<1>0. Factory \in Tasks /\ Factory \notin Users \cup Chans
  BY ChannelAssumption DEF Tasks, Chans
<1>1. ASSUME NEW t \in Tasks, OpeningStep(t) PROVE restored'
  <2>1. t = Factory
    BY <1>0, <1>1 DEF OpeningStep, LockGranted, Created, CreateFails, SetUpWaits, SetUp, SetUpFails,
       Undone, Reopened, Raise, Open, ChannelInv, TypeOK, RestoreReturns
  <2>2. CASE LockGranted(t)
    BY <1>0, <2>1, <2>2 DEF LockGranted, Open, ChannelInv, TypeOK, RestoreReturns
  <2>3. ~CreateFails(t) /\ ~Undone(t)
    BY <1>0, <2>1 DEF CreateFails, Undone, Raise, Raised, ChannelInv, TypeOK, RestoreReturns
  <2>4. ~Created(t) /\ ~SetUpWaits(t) /\ ~SetUpFails(t)
    BY <1>0, <2>1 DEF Created, SetUpWaits, SetUpFails, ChannelInv, TypeOK, RestoreReturns
  <2>5. CASE SetUp(t) \/ Reopened(t)
    BY <2>5 DEF SetUp, Reopened
  <2> QED BY <1>1, <2>2, <2>3, <2>4, <2>5 DEF OpeningStep
<1>2. CASE FactoryRestores
  BY <1>0, <1>2 DEF FactoryRestores, Restore, Open, ChannelInv, TypeOK, RestoreReturns
<1>3. ~LinkUp /\ ~FactoryGivesUp /\ ~LinkLost /\ ~LinkDown /\ ~UNCHANGED vars
  BY <1>0 DEF LinkUp, FactoryGivesUp, LinkLost, LinkGone, LinkDown, vars, ChannelInv, TypeOK, RestoreReturns
<1>4. \A u \in Users : ~Initialize(u) /\ ~Reopen(u) /\ ~Close(u) /\ ~CloseReturns(u)
  BY <1>0 DEF Initialize, Reopen, Close, CloseReturns, Open, ChannelInv, TypeOK, RestoreReturns
<1>5. \A n \in Chans : ~CloserStarts(n) /\ ~CloserEnds(n) /\ ~ChannelLost(n)
  BY <1>0 DEF CloserStarts, CloserEnds, ChannelLost, Restore, Open, ChannelInv, TypeOK, RestoreReturns
<1> QED BY <1>1, <1>2, <1>3, <1>4, <1>5 DEF Next

\* README.rst:54, as far as the code keeps it: every restore that the factory
\* finishes leaves a channel that can be used, for any users and number of
\* underlay channels; only the two mishaps break it.
THEOREM RestoresUnlessMishapHolds == Spec => RestoresUnlessMishap
<1>1. Init => FactoryHoldsLock
  BY ChannelAssumption DEF Init, FactoryHoldsLock, Tasks
<1>2. ChannelInv /\ FactoryHoldsLock /\ [Next]_vars => FactoryHoldsLock'
  BY FactoryKeepsLock
<1>3. ChannelInv /\ FactoryHoldsLock /\ UseInv' /\ [Next]_vars
      => [RestoreReturns => mishap' \/ (restored' /\ Usable')]_vars
  <2> SUFFICES ASSUME ChannelInv, FactoryHoldsLock, UseInv', [Next]_vars, RestoreReturns, ~mishap'
               PROVE  restored' /\ Usable'
    OBVIOUS
  <2>1. restored'
    BY RestoreReturnsRestored
  <2> QED BY <2>1 DEF UseInv, InUse, RestoredUsable
<1> QED BY <1>1, <1>2, <1>3, ChannelInvariant, ChannelInUse, PTL DEF Spec, RestoresUnlessMishap

-----------------------------------------------------------------------------
(* The connection as this module takes it is Link. *)

restoreNow == CASE pc[Factory] = "idle" -> "idle"
                [] pc[Factory] = "raise" -> "failed"
                [] OTHER -> "running"

\* The actions of Link, in this variable.
LEMMA LinkMapping ==
  /\ Connectivity!Up <=>
        /\ link = "down" /\ restoreNow = "idle"
        /\ link' = "up" /\ restoreNow' \in {"idle", "running"}
  /\ Connectivity!Lost <=> link = "up" /\ link' = "lost" /\ restoreNow' = restoreNow
  /\ Connectivity!Down <=> link = "lost" /\ link' = "down" /\ restoreNow' = restoreNow
  /\ Connectivity!RestoreReturns <=>
        restoreNow = "running" /\ restoreNow' = "idle" /\ link' = link
  /\ Connectivity!RestoreRaises <=>
        restoreNow = "running" /\ restoreNow' = "failed" /\ link' = link
  /\ Connectivity!GiveUp <=>
        /\ restoreNow = "failed" /\ restoreNow' = "idle"
        /\ link' = (IF link = "up" THEN "lost" ELSE link)
  /\ UNCHANGED Connectivity!vars <=> link' = link /\ restoreNow' = restoreNow
BY DEF Connectivity!Up, Connectivity!Lost, Connectivity!Down, Connectivity!RestoreReturns,
       Connectivity!RestoreRaises, Connectivity!GiveUp, Connectivity!vars, restoreNow

\* What a step of the channel is to Link.
LinkStep == [Connectivity!Next]_Connectivity!vars

\* A task that is not the factory changes nothing of it.
LEMMA OthersLink ==
  ASSUME TypeOK, NEW t \in Tasks, t # Factory, NEW v, pc' = [pc EXCEPT ![t] = v], link' = link
  PROVE  LinkStep
<1>1. pc'[Factory] = pc[Factory]
  BY DEF TypeOK, Tasks
<1>2. restoreNow' = restoreNow
  BY <1>1 DEF restoreNow
<1> QED BY <1>2, LinkMapping DEF LinkStep

\* The factory goes on in its restore, or is through.
LEMMA FactoryLink ==
  ASSUME TypeOK, NEW v, pc[Factory] \notin {"idle", "raise"},
         pc' = [pc EXCEPT ![Factory] = v], link' = link
  PROVE  LinkStep
<1>1. pc'[Factory] = v
  BY DEF TypeOK, Tasks
<1>2. restoreNow = "running" /\ restoreNow' \in {"idle", "failed", "running"}
  BY DEF restoreNow
<1> QED BY <1>2, LinkMapping DEF LinkStep, Connectivity!Next

\* The loss of the connection leaves the factory in its restore.
LEMMA LinkGoneLink ==
  ASSUME TypeOK, NEW pcs, LinkGone(pcs), link = "up",
         pcs = pc \/ (pc[Factory] = "raise" /\ pcs = [pc EXCEPT ![Factory] = "idle"])
  PROVE  LinkStep
<1>1. Factory \in Tasks /\ link' = "lost"
  BY DEF LinkGone, Tasks
<1>2. pc'[Factory] = IF pcs[Factory] = "open" THEN "broken" ELSE pcs[Factory]
  BY <1>1 DEF LinkGone
<1>3. CASE pcs = pc
  <2>1. restoreNow' = restoreNow
    BY <1>2, <1>3 DEF restoreNow
  <2> QED BY <1>1, <2>1, LinkMapping DEF LinkStep, Connectivity!Next
<1>4. CASE pc[Factory] = "raise" /\ pcs = [pc EXCEPT ![Factory] = "idle"]
  <2>1. pc'[Factory] = "idle"
    BY <1>1, <1>2, <1>4 DEF TypeOK
  <2>2. restoreNow = "failed" /\ restoreNow' = "idle"
    BY <1>4, <2>1 DEF restoreNow
  <2> QED BY <1>1, <2>2, LinkMapping DEF LinkStep, Connectivity!Next
<1> QED BY <1>3, <1>4

\* Every step of a task that opens the channel moves that task only.
LEMMA OpeningMoves ==
  ASSUME NEW t \in Tasks, OpeningStep(t)
  PROVE  /\ \E v : pc' = [pc EXCEPT ![t] = v]
         /\ pc[t] \notin {"idle", "raise", "call"}
         /\ link' = link
<1>1. CASE LockGranted(t)
  BY <1>1 DEF LockGranted, Open
<1>2. CASE Created(t) \/ SetUpWaits(t) \/ SetUp(t) \/ SetUpFails(t)
  BY <1>2 DEF Created, SetUpWaits, SetUp, SetUpFails, SettingUp
<1>3. CASE CreateFails(t) \/ Undone(t) \/ Reopened(t)
  BY <1>3 DEF CreateFails, Undone, Reopened, Raise
<1> QED BY <1>1, <1>2, <1>3 DEF OpeningStep

\* What this module takes the connection for is Link.
THEOREM ChannelImplementsLink == Spec => ImplementsLink
<1>1. Init => Connectivity!Init
  <2> SUFFICES ASSUME Init PROVE Connectivity!Init
    OBVIOUS
  <2>1. pc[Factory] = "idle" /\ link = "up"
    BY DEF Init, Tasks
  <2> QED BY <2>1 DEF Connectivity!Init
<1>2. TypeOK /\ [Next]_vars => [Connectivity!Next]_Connectivity!vars
  <2> SUFFICES ASSUME TypeOK, [Next]_vars PROVE LinkStep
    BY DEF LinkStep
  <2>0. /\ Factory \in Tasks
        /\ Users \subseteq Tasks /\ Chans \subseteq Tasks
        /\ Factory \notin Users /\ Factory \notin Chans
    BY ChannelAssumption DEF Tasks, Chans
  <2>a. ASSUME UNCHANGED <<link, pc>> PROVE LinkStep
    <3>1. restoreNow' = restoreNow
      BY <2>a DEF restoreNow
    <3> QED BY <2>a, <3>1, LinkMapping DEF LinkStep
  <2>1. ASSUME NEW t \in Tasks, OpeningStep(t) PROVE LinkStep
    <3>1. PICK v : pc' = [pc EXCEPT ![t] = v]
      BY <2>1, OpeningMoves
    <3>2. link' = link /\ pc[t] \notin {"idle", "raise"}
      BY <2>1, OpeningMoves
    <3>3. CASE t = Factory
      BY <3>1, <3>2, <3>3, FactoryLink
    <3>4. CASE t # Factory
      BY <3>1, <3>2, <3>4, OthersLink
    <3> QED BY <3>3, <3>4
  <2>2. ASSUME NEW u \in Users, Initialize(u) \/ Reopen(u) \/ Close(u) \/ CloseReturns(u)
        PROVE  LinkStep
    <3>1. link' = link /\ (UNCHANGED pc \/ \E v : pc' = [pc EXCEPT ![u] = v])
      BY <2>2 DEF Initialize, Reopen, Open, Close, CloseReturns
    <3>2. ASSUME NEW v, pc' = [pc EXCEPT ![u] = v] PROVE LinkStep
      BY <2>0, <3>1, <3>2, OthersLink
    <3> QED BY <2>a, <3>1, <3>2
  <2>3. ASSUME NEW n \in Chans, CloserStarts(n) \/ CloserEnds(n) \/ ChannelLost(n)
        PROVE  LinkStep
    <3>1. link' = link /\ (UNCHANGED pc \/ \E v : pc' = [pc EXCEPT ![n] = v])
      BY <2>3 DEF CloserStarts, Restore, Open, CloserEnds, ChannelLost
    <3>2. ASSUME NEW v, pc' = [pc EXCEPT ![n] = v] PROVE LinkStep
      BY <2>0, <3>1, <3>2, OthersLink
    <3> QED BY <2>a, <3>1, <3>2
  <2>4. CASE LinkLost
    BY <2>4, LinkGoneLink DEF LinkLost
  <2>5. CASE LinkDown
    <3>1. link = "lost" /\ link' = "down" /\ UNCHANGED pc
      BY <2>5 DEF LinkDown
    <3>2. restoreNow' = restoreNow
      BY <3>1 DEF restoreNow
    <3> QED BY <3>1, <3>2, LinkMapping DEF LinkStep, Connectivity!Next
  <2>6. CASE LinkUp
    <3>1. link = "down" /\ link' = "up" /\ pc[Factory] = "idle" /\ pc'[Factory] = "call"
      BY <2>0, <2>6 DEF LinkUp, TypeOK
    <3>2. restoreNow = "idle" /\ restoreNow' = "running"
      BY <3>1 DEF restoreNow
    <3> QED BY <3>1, <3>2, LinkMapping DEF LinkStep, Connectivity!Next
  <2>7. CASE FactoryRestores
    <3>1. /\ pc[Factory] = "call" /\ link' = link
          /\ \E v : pc' = [pc EXCEPT ![Factory] = v]
      BY <2>7 DEF FactoryRestores, Restore, Open
    <3> QED BY <3>1, FactoryLink
  <2>8. CASE FactoryGivesUp
    <3>1. pc[Factory] = "raise"
      BY <2>8 DEF FactoryGivesUp
    <3>2. CASE link = "up" /\ LinkGone([pc EXCEPT ![Factory] = "idle"])
      BY <3>1, <3>2, LinkGoneLink
    <3>3. CASE link # "up" /\ pc' = [pc EXCEPT ![Factory] = "idle"] /\ UNCHANGED link
      <4>1. pc'[Factory] = "idle"
        BY <2>0, <3>3 DEF TypeOK
      <4>2. restoreNow = "failed" /\ restoreNow' = "idle"
        BY <3>1, <4>1 DEF restoreNow
      <4> QED BY <3>3, <4>2, LinkMapping DEF LinkStep, Connectivity!Next
    <3> QED BY <2>8, <3>2, <3>3 DEF FactoryGivesUp
  <2>9. CASE UNCHANGED vars
    BY <2>a, <2>9 DEF vars
  <2> QED BY <2>1, <2>2, <2>3, <2>4, <2>5, <2>6, <2>7, <2>8, <2>9 DEF Next
<1> QED BY <1>1, <1>2, ChannelTypes, PTL DEF Spec, ImplementsLink, Connectivity!Spec
=============================================================================
