--------------------------- MODULE RobustChannel ---------------------------
(***************************************************************************)
(* The channel that survives its connection: aio_pika/robust_channel.py    *)
(* with channel.py and UnderlayChannel (abc.py).                           *)
(*                                                                         *)
(* One channel object lives on one reconnecting connection.  Its users     *)
(* initialize, close and reopen it; the connection's factory restores it   *)
(* whenever it has reconnected; and each underlay channel that closes      *)
(* starts a task of its OneShotCallback, here called its closer, which may *)
(* restore the channel as well.  restore() runs under a lock, initialize() *)
(* and reopen() do not.                                                    *)
(*                                                                         *)
(* The underlay channels (aiormq) and the broker are external: a channel   *)
(* that is opened or set up may be refused, an open channel may be closed  *)
(* and the connection may be lost at any time.  The connection is reduced  *)
(* to what RobustConnection.tla shows of it.                               *)
(***************************************************************************)
EXTENDS Naturals, Sequences

CONSTANTS
    Users,     \* the tasks that use the channel
    Factory,   \* the task of the connection's factory
    NoTask,    \* nobody: the lock is free
    MaxChans   \* bound: underlay channels that exist at once

ASSUME ChannelAssumption ==
    /\ MaxChans \in Nat
    /\ Factory \notin Users
    /\ NoTask \notin Users \cup {Factory}
    /\ (Users \cup {Factory, NoTask}) \cap Nat = {}

\* The underlay channels.  A number is used again for a new one when the old
\* one is finished and nobody refers to it.
Chans == 1..MaxChans

\* The closer of an underlay channel is named like the channel.
Tasks == Users \cup {Factory} \cup Chans

VARIABLES
    link,      \* the connection: "up", "lost" (nobody told yet) or "down"
    chan,      \* where each underlay channel is in its life, see ChanStates
    current,   \* self._channel: an underlay channel, 0 for None
    closed,    \* self._closed
    restored,  \* the event __restored
    lock,      \* the task that owns __restore_lock, or NoTask
    lockq,     \* the tasks waiting for it, oldest first
    pc,        \* where each task is suspended
    mine,      \* the underlay channel a task opens or closes, 0 for none
    mishap     \* history: whether two tasks ever opened the channel at once,
               \* or it went down while reopen callbacks ran

vars == <<link, chan, current, closed, restored, lock, lockq, pc, mine, mishap>>

\* "closing": its closing future is done.  "callback": _on_close() runs.
\* "finished": OneShotCallback.finished is set.
ChanStates == {"none", "open", "closing", "callback", "finished"}

TaskStates == {"idle", "call", "lock", "open", "broken", "setup", "ready", "undo",
               "reopen_cb", "raise", "close", "done"}

Init ==
    /\ link = "up"
    /\ chan = [n \in Chans |-> "none"]
    /\ current = 0
    /\ closed = FALSE
    /\ restored = FALSE
    /\ lock = NoTask
    /\ lockq = << >>
    /\ pc = [t \in Tasks |-> "idle"]
    /\ mine = [t \in Tasks |-> 0]
    /\ mishap = FALSE

-----------------------------------------------------------------------------
(* Opening: restore(), reopen(), initialize(). *)

is_closed == current # 0 => closed \/ chan[current] # "open"

\* asyncio.Lock.release(): the oldest waiter becomes the owner.
ReleaseLock ==
    IF lockq = << >>
    THEN lock' = NoTask /\ lockq' = lockq
    ELSE lock' = Head(lockq) /\ lockq' = Tail(lockq)

\* What a task that opened or restored the channel does next when that
\* returned: a closer is through with its callback.
Returned(t) == IF t \in Chans THEN "done" ELSE "idle"

\* ... and when it raised: gather() swallows the error of a closer, the
\* factory gives the connection up.
Raised(t) ==
    IF t \in Chans THEN "done" ELSE IF t = Factory THEN "raise" ELSE "idle"

\* The tasks between the start and the end of _open().
Opening == {t \in Tasks : pc[t] \in {"open", "setup", "ready", "undo"}}

\* _open() up to its first await: it needs a transport that lives.
Open(t) ==
    /\ pc' = [pc EXCEPT ![t] = IF link = "up" THEN "open" ELSE "broken"]
    /\ mishap' = (mishap \/ Opening # {})

\* restore() up to its first await that suspends, the event being r.
Restore(t, r) ==
    \/ /\ lock = NoTask
       /\ r
       /\ pc' = [pc EXCEPT ![t] = Returned(t)]
       /\ UNCHANGED <<lock, lockq, mishap>>
    \/ /\ lock = NoTask
       /\ ~r
       /\ lock' = t
       /\ Open(t)
       /\ UNCHANGED lockq
    \/ /\ lock # NoTask
       /\ lockq' = Append(lockq, t)
       /\ pc' = [pc EXCEPT ![t] = "lock"]
       /\ UNCHANGED <<lock, mishap>>

LockGranted(t) ==
    /\ pc[t] = "lock"
    /\ lock = t
    /\ \/ /\ restored
          /\ pc' = [pc EXCEPT ![t] = Returned(t)]
          /\ ReleaseLock
          /\ UNCHANGED mishap
       \/ ~restored /\ Open(t) /\ UNCHANGED <<lock, lockq>>
    /\ UNCHANGED <<link, chan, current, closed, restored, mine>>

\* When a channel closes, its closer starts and the requests that wait for its
\* answers raise, all within a few turns of the loop: before anybody else gets
\* an answer from the broker.
Settled ==
    /\ \A n \in Chans : chan[n] # "closing"
    /\ \A t \in Tasks : pc[t] = "setup" => chan[mine[t]] = "open"

Free == {n \in Chans : /\ chan[n] \in {"none", "finished"}
                       /\ n # current
                       /\ \A t \in Tasks : mine[t] # n}

\* UnderlayChannel.create() returns: the new channel is self._channel.
Created(t) ==
    /\ pc[t] = "open"
    /\ Settled
    /\ Free # {}
    /\ LET n == CHOOSE n \in Free : TRUE IN
       /\ chan' = [chan EXCEPT ![n] = "open"]
       /\ mine' = [mine EXCEPT ![t] = n]
       /\ current' = n
    /\ pc' = [pc EXCEPT ![t] = "setup"]
    /\ UNCHANGED <<link, closed, restored, lock, lockq, mishap>>

\* Faulty Raise: an error leaves the lock taken.
RaiseLocked(t) ==
    /\ pc' = [pc EXCEPT ![t] = Raised(t)]
    /\ UNCHANGED <<lock, lockq>>

\* An error leaves restore(), reopen() or initialize(); restore() gives the
\* lock back.
Raise(t) ==
    /\ pc' = [pc EXCEPT ![t] = Raised(t)]
    /\ IF lock = t THEN ReleaseLock ELSE UNCHANGED <<lock, lockq>>

\* UnderlayChannel.create() raises, or there is no transport that lives.
CreateFails(t) ==
    /\ pc[t] \in {"open", "broken"}
    /\ Raise(t)
    /\ UNCHANGED <<link, chan, current, closed, restored, mine, mishap>>

\* _on_open() asks for the underlay channel again and waits in ready() for
\* the connection.
SetUpWaits(t) ==
    /\ pc[t] = "setup"
    /\ link = "down"
    /\ pc' = [pc EXCEPT ![t] = "ready"]
    /\ UNCHANGED <<link, chan, current, closed, restored, lock, lockq, mine, mishap>>

SettingUp(t) == pc[t] = "setup" \/ (pc[t] = "ready" /\ link # "down")

\* _on_open() ends: qos, exchanges and queues are restored, on the channel
\* that is self._channel by now; then _closed is reset.  A restore() goes on
\* with the reopen callbacks; a user's call changes nothing any more.
SetUp(t) ==
    /\ SettingUp(t)
    /\ Settled
    /\ current # 0
    /\ chan[current] = "open"
    /\ restored' = TRUE
    /\ closed' = FALSE
    /\ pc' = [pc EXCEPT ![t] = IF lock = t THEN "reopen_cb" ELSE "idle"]
    /\ mine' = [mine EXCEPT ![t] = 0]
    /\ UNCHANGED <<link, chan, current, lock, lockq, mishap>>

InCallbacks == \E t \in Tasks : pc[t] = "reopen_cb"

\* Channel n is closed, unless it was already.
CloseChan(n) ==
    /\ chan' = [chan EXCEPT ![n] = IF @ = "open" THEN "closing" ELSE @]
    /\ mishap' = (mishap \/ InCallbacks)

\* Faulty SetUpFails: the channel that was opened is left behind.
SetUpFailsOpen(t) ==
    /\ SettingUp(t)
    /\ current' = 0
    /\ mine' = [mine EXCEPT ![t] = 0]
    /\ Raise(t)
    /\ UNCHANGED <<link, chan, closed, restored, mishap>>

\* _on_open() raises, because the channel is gone or the broker refuses a
\* declaration (and closes the channel): _open() closes what it opened.
SetUpFails(t) ==
    /\ SettingUp(t)
    /\ pc' = [pc EXCEPT ![t] = "undo"]
    /\ CloseChan(mine[t])
    /\ UNCHANGED <<link, current, closed, restored, lock, lockq, mine>>

\* ... waits for its closer, forgets the channel and raises.
Undone(t) ==
    /\ pc[t] = "undo"
    /\ chan[mine[t]] = "finished"
    /\ current' = 0
    /\ mine' = [mine EXCEPT ![t] = 0]
    /\ Raise(t)
    /\ UNCHANGED <<link, chan, closed, restored, mishap>>

\* The reopen callbacks of a restore() have run.
Reopened(t) ==
    /\ pc[t] = "reopen_cb"
    /\ restored' = TRUE
    /\ pc' = [pc EXCEPT ![t] = Returned(t)]
    /\ ReleaseLock
    /\ UNCHANGED <<link, chan, current, closed, mine, mishap>>

-----------------------------------------------------------------------------
(* The users. *)

Initialize(u) ==
    /\ pc[u] = "idle"
    /\ current = 0
    /\ ~closed
    /\ Open(u)
    /\ UNCHANGED <<link, chan, current, closed, restored, lock, lockq, mine>>

\* reopen() of a channel that is closed.
Reopen(u) ==
    /\ pc[u] = "idle"
    /\ is_closed
    /\ Open(u)
    /\ UNCHANGED <<link, chan, current, closed, restored, lock, lockq, mine>>

\* Faulty Close: does not wait for the closer.
CloseAtOnce(u) ==
    /\ pc[u] = "idle"
    /\ current # 0
    /\ closed' = TRUE
    /\ mine' = [mine EXCEPT ![u] = current]
    /\ CloseChan(current)
    /\ UNCHANGED <<link, current, restored, lock, lockq, pc>>

\* close(): returns at once when the channel was not opened or its closer has
\* finished, else waits for the closer.
Close(u) ==
    /\ pc[u] = "idle"
    /\ current # 0
    /\ closed' = TRUE
    /\ \/ chan[current] = "finished" /\ UNCHANGED <<chan, pc, mine, mishap>>
       \/ /\ chan[current] # "finished"
          /\ CloseChan(current)
          /\ pc' = [pc EXCEPT ![u] = "close"]
          /\ mine' = [mine EXCEPT ![u] = current]
    /\ UNCHANGED <<link, current, restored, lock, lockq>>

CloseReturns(u) ==
    /\ pc[u] = "close"
    /\ chan[mine[u]] = "finished"
    /\ pc' = [pc EXCEPT ![u] = "idle"]
    /\ mine' = [mine EXCEPT ![u] = 0]
    /\ UNCHANGED <<link, chan, current, closed, restored, lock, lockq, mishap>>

-----------------------------------------------------------------------------
(* The closers: _on_close() with __close_callback(). *)

\* Faulty CloserStarts: the event stays set.
CloserStartsRestored(n) ==
    /\ chan[n] = "closing"
    /\ chan' = [chan EXCEPT ![n] = "callback"]
    /\ pc' = [pc EXCEPT ![n] = "done"]
    /\ UNCHANGED <<link, current, closed, restored, lock, lockq, mine, mishap>>

\* Faulty CloserStarts: does not ask whether a restore is under way.
CloserStartsAnyway(n) ==
    /\ chan[n] = "closing"
    /\ chan' = [chan EXCEPT ![n] = "callback"]
    /\ restored' = FALSE
    /\ \/ /\ pc' = [pc EXCEPT ![n] = "done"]
          /\ UNCHANGED <<lock, lockq, mishap>>
       \/ ~closed /\ Restore(n, FALSE)
    /\ UNCHANGED <<link, current, closed, mine>>

\* The closing future carries a CancelledError, or another error, upon which
\* the closer restores a channel that was in use.
CloserStarts(n) ==
    /\ chan[n] = "closing"
    /\ chan' = [chan EXCEPT ![n] = "callback"]
    /\ restored' = FALSE
    /\ \/ /\ pc' = [pc EXCEPT ![n] = "done"]
          /\ UNCHANGED <<lock, lockq, mishap>>
       \/ ~closed /\ restored /\ Restore(n, FALSE)
    /\ UNCHANGED <<link, current, closed, mine>>

\* Faulty CloserEnds: the end is signalled only if nobody restores the channel.
CloserEndsUnheard(n) ==
    /\ pc[n] = "done"
    /\ lock = NoTask
    /\ chan' = [chan EXCEPT ![n] = IF closed THEN "callback" ELSE "finished"]
    /\ pc' = [pc EXCEPT ![n] = "idle"]
    /\ UNCHANGED <<link, current, closed, restored, lock, lockq, mine, mishap>>

CloserEnds(n) ==
    /\ pc[n] = "done"
    /\ chan' = [chan EXCEPT ![n] = "finished"]
    /\ pc' = [pc EXCEPT ![n] = "idle"]
    /\ UNCHANGED <<link, current, closed, restored, lock, lockq, mine, mishap>>

-----------------------------------------------------------------------------
(* The broker and the connection. *)

\* The broker closes one channel.
ChannelLost(n) ==
    /\ chan[n] = "open"
    /\ CloseChan(n)
    /\ UNCHANGED <<link, current, closed, restored, lock, lockq, pc, mine>>

\* The connection is gone, and with it every channel and every attempt to
\* open one.
LinkGone(pcs) ==
    /\ link' = "lost"
    /\ chan' = [n \in Chans |-> IF chan[n] = "open" THEN "closing" ELSE chan[n]]
    /\ pc' = [t \in Tasks |-> IF pcs[t] = "open" THEN "broken" ELSE pcs[t]]
    /\ mishap' = (mishap \/ InCallbacks)

LinkLost ==
    /\ link = "up"
    /\ LinkGone(pc)
    /\ UNCHANGED <<current, closed, restored, lock, lockq, mine>>

\* The connection's own close callback has run: ready() waits from now on.
LinkDown ==
    /\ link = "lost"
    /\ link' = "down"
    /\ UNCHANGED <<chan, current, closed, restored, lock, lockq, pc, mine, mishap>>

\* The factory has reconnected and will restore the channel.
LinkUp ==
    /\ link = "down"
    /\ pc[Factory] = "idle"
    /\ Settled
    /\ link' = "up"
    /\ pc' = [pc EXCEPT ![Factory] = "call"]
    /\ UNCHANGED <<chan, current, closed, restored, lock, lockq, mine, mishap>>

FactoryRestores ==
    /\ pc[Factory] = "call"
    /\ Restore(Factory, restored)
    /\ UNCHANGED <<link, chan, current, closed, restored, mine>>

\* Faulty FactoryGivesUp: the connection is left up.
FactoryGivesUpOnly ==
    /\ pc[Factory] = "raise"
    /\ pc' = [pc EXCEPT ![Factory] = "idle"]
    /\ UNCHANGED <<link, chan, current, closed, restored, lock, lockq, mine, mishap>>

\* restore() raised in the factory: it closes the connection and connects
\* again later.
FactoryGivesUp ==
    /\ pc[Factory] = "raise"
    /\ LET idle == [pc EXCEPT ![Factory] = "idle"] IN
       \/ link = "up" /\ LinkGone(idle)
       \/ link # "up" /\ pc' = idle /\ UNCHANGED <<link, chan, mishap>>
    /\ UNCHANGED <<current, closed, restored, lock, lockq, mine>>

-----------------------------------------------------------------------------
OpeningStep(t) ==
    \/ LockGranted(t)
    \/ Created(t)
    \/ CreateFails(t)
    \/ SetUpWaits(t)
    \/ SetUp(t)
    \/ SetUpFails(t)
    \/ Undone(t)
    \/ Reopened(t)

Next ==
    \/ \E t \in Tasks : OpeningStep(t)
    \/ \E u \in Users : Initialize(u) \/ Reopen(u) \/ Close(u) \/ CloseReturns(u)
    \/ \E n \in Chans : CloserStarts(n) \/ CloserEnds(n) \/ ChannelLost(n)
    \/ LinkLost
    \/ LinkDown
    \/ LinkUp
    \/ FactoryRestores
    \/ FactoryGivesUp

Spec == Init /\ [][Next]_vars

\* Tasks that can go on do, callbacks end, and the connection comes back.  A
\* broker that can open and set up the channel for the factory time and again
\* does it in the end.  No user has to call anything, no loss has to happen.
Fairness ==
    /\ \A t \in Tasks :
          /\ WF_vars(LockGranted(t))
          /\ WF_vars(Created(t) \/ CreateFails(t))
          /\ WF_vars(SetUpWaits(t) \/ SetUp(t) \/ SetUpFails(t))
          /\ WF_vars(Undone(t))
          /\ WF_vars(Reopened(t))
    /\ SF_vars(Created(Factory))
    /\ SF_vars(SetUp(Factory))
    /\ \A u \in Users : WF_vars(CloseReturns(u))
    /\ \A n \in Chans : WF_vars(CloserStarts(n)) /\ WF_vars(CloserEnds(n))
    /\ WF_vars(LinkDown)
    /\ WF_vars(LinkUp)
    /\ WF_vars(FactoryRestores)
    /\ WF_vars(FactoryGivesUp)

FairSpec == Spec /\ Fairness

-----------------------------------------------------------------------------
\* The state of the channel and of its tasks is well formed: a task has a
\* channel in its hands exactly while it sets it up, undoes or closes it.
TypeOK ==
    /\ link \in {"up", "lost", "down"}
    /\ chan \in [Chans -> ChanStates]
    /\ current \in {0} \cup Chans
    /\ closed \in BOOLEAN
    /\ restored \in BOOLEAN
    /\ lock \in Tasks \cup {NoTask}
    /\ lockq \in Seq(Tasks)
    /\ pc \in [Tasks -> TaskStates]
    /\ mine \in [Tasks -> {0} \cup Chans]
    /\ \A t \in Tasks : mine[t] # 0 <=> pc[t] \in {"setup", "ready", "undo", "close"}
    /\ mishap \in BOOLEAN

Usable == current # 0 /\ chan[current] \in {"open", "closing"}

\* ready() returns on a channel that can be used, or was lost so recently
\* that its closer has not run, as long as no mishap happened.
RestoredIsUsable == restored /\ ~mishap => Usable

\* README.rst:54: the connection comes back with its state restored.  When the
\* factory's restore() of a channel that no user closed returns, the channel
\* can be used.
ReconnectRestores ==
    [][pc[Factory] = "call" /\ pc'[Factory] = "idle" => closed \/ Usable]_vars

\* No underlay channel is left open behind the one in use.
NoChannelLeaks == ~mishap => \A n \in Chans : chan[n] = "open" => n = current

\* Every way out of restore(), by an error too, gives the lock back, and to the
\* next one that waits for it.
LockHeldInside ==
    /\ \A t \in Tasks : pc[t] = "lock" => t = lock \/ \E i \in DOMAIN lockq : lockq[i] = t
    /\ lock = NoTask => lockq = << >>
    /\ lock # NoTask =>
          pc[lock] \in {"lock", "open", "broken", "setup", "ready", "undo", "reopen_cb"}

\* The connection as Link.tla has it, with the factory's restore of this channel.
Connectivity == INSTANCE Link WITH
    restore <- CASE pc[Factory] = "idle" -> "idle"
                 [] pc[Factory] = "raise" -> "failed"
                 [] OTHER -> "running",
    stopped <- FALSE

\* What this module takes the connection for is the Link that RobustConnection
\* implements: the factory enters restore() once per connection and does not
\* connect again before that call, with all its waiting for locks, closers and
\* the broker, came to an end, and an error of it takes the connection down.
ImplementsLink == Connectivity!Spec

\* The factory waits, itself or through the restore lock, in ready() for the
\* connection, which nobody but the factory can make: the RestoreWaits of
\* RobustConnection.tla.
FactoryWaits ==
    /\ link = "down"
    /\ \/ pc[Factory] = "ready"
       \/ pc[Factory] = "lock" /\ \E t \in Tasks : pc[t] = "ready"

\* A task that waits for the restore lock gets it: no restore waits for a
\* closer that waits for the restore.
RestoreEnds == \A t \in Tasks :
    (pc[t] = "lock") ~> (pc[t] # "lock" \/ mishap \/ FactoryWaits)

\* close() returns.
CloseEnds == \A u \in Users :
    (pc[u] = "close") ~> (pc[u] # "close" \/ mishap \/ FactoryWaits)

\* A connection that went down comes back with a restored channel, if it is
\* not lost over and over again.
Recovers ==
    \/ []<><<LinkLost>>_vars
    \/ (link = "down") ~> (restored \/ mishap \/ FactoryWaits)

\* _closed says that the user closed the channel (channel.py:80): only a user's
\* reopen() takes that back.
ClosedByUser ==
    [][closed /\ ~closed' => \E u \in Users : pc[u] = "setup" /\ pc'[u] = "idle"]_vars
=============================================================================
