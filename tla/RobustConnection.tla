------------------------- MODULE RobustConnection -------------------------
(***************************************************************************)
(* The reconnecting connection: aio_pika/robust_connection.py with the     *)
(* parts of connection.py and of UnderlayConnection (abc.py) it runs on.   *)
(*                                                                         *)
(* Three kinds of tasks share one event loop: the tasks of the users, who  *)
(* call connect(), reconnect(), channel() and close(); the factory, the    *)
(* task of __connection_factory() that makes underlay connections one      *)
(* after another; and, for each underlay connection that closes, the task  *)
(* its OneShotCallback starts for _on_connection_close().  An action is    *)
(* the code between two awaits that suspend.  The underlay connections     *)
(* (aiormq) and the broker are external: an attempt succeeds or fails and  *)
(* an open connection may be lost at any time.                             *)
(***************************************************************************)
EXTENDS Naturals, FiniteSets

CONSTANTS
    Users,      \* the tasks that use the connection
    Channels,   \* the channels that may be created on it
    FailFast,   \* the fail_fast parameter
    MaxConns,   \* bound: how many underlay connections are made
    SlowCallbacks, \* whether close callbacks may outlast reconnect_interval
    OtherErrors    \* whether attempts fail outside CONNECTION_EXCEPTIONS too

ASSUME ConnectionAssumption ==
    /\ MaxConns \in Nat
    /\ {FailFast, SlowCallbacks, OtherErrors} \subseteq BOOLEAN

VARIABLES
    transport,  \* self.transport: the underlay connection, 0 for None
    made,       \* how many underlay connections were made, named 1 .. made
    conn,       \* the place of each of them in its life, see ConnStates
    connected,  \* the event self.connected
    closeEvent, \* the event __connection_close_event
    closeCalled,\* self._close_called
    closed,     \* self._closed
    failFast,   \* the future __fail_fast_future
    attempts,   \* whether connection_attempt is not 0
    channels,   \* __channels
    todo,       \* the channels that _on_connected() has yet to restore
    task,       \* __reconnection_task: where the factory is suspended
    user,       \* where each user's task is suspended
    mishap      \* history: whether a connection ever went down while its
                \* channels were restored or the reconnect callbacks ran

vars == <<transport, made, conn, connected, closeEvent, closeCalled, closed,
          failFast, attempts, channels, todo, task, user, mishap>>

\* "closing": its closing future is done.  "callbacks": _on_connection_close()
\* runs the close callbacks.  "finished": OneShotCallback.finished is set.
ConnStates == {"none", "open", "closing", "callbacks", "finished"}

TaskStates == {"none", "loop", "wait", "connect", "fail_cb", "restore",
               "restore_ready", "reopen_cb", "raise_cb", "raise_close",
               "reconnect_cb", "sleep", "cancelling", "done"}

UserStates == {"idle", "fail_fast", "connected", "gather", "underlay_close",
               "reconnect"}

Conns == 1..MaxConns

Init ==
    /\ transport = 0
    /\ made = 0
    /\ conn = [g \in Conns |-> "none"]
    /\ connected = FALSE
    /\ closeEvent = TRUE
    /\ closeCalled = FALSE
    /\ closed = FALSE
    /\ failFast = IF FailFast THEN "pending" ELSE "ok"
    /\ attempts = FALSE
    /\ channels = {}
    /\ todo = {}
    /\ task = "none"
    /\ user = [u \in Users |-> "idle"]
    /\ mishap = FALSE

-----------------------------------------------------------------------------
(* The users. *)

\* connected.set(): every task in connected.wait() returns.
WakeConnected == [u \in Users |-> IF user[u] = "connected" THEN "idle" ELSE user[u]]

\* "await self.__fail_fast_future" on a future that is done (it returns or
\* raises), then "await self.connected.wait()".
AfterFailFast ==
    IF failFast = "ok" /\ ~connected THEN "connected" ELSE "idle"

\* The body of connect().  The check of "reconnecting" never fires: nothing
\* acquires _reconnect_lock.
ConnectBody(u) ==
    \/ /\ closed
       /\ user' = [user EXCEPT ![u] = "idle"]
       /\ UNCHANGED task
    \/ /\ ~closed
       /\ task' = IF task = "none" THEN "loop" ELSE task
       /\ user' = [user EXCEPT ![u] = IF failFast = "pending" THEN "fail_fast"
                                      ELSE AfterFailFast]

Connect(u) ==
    /\ user[u] = "idle"
    /\ ConnectBody(u)
    /\ UNCHANGED <<transport, made, conn, connected, closeEvent, closeCalled,
                   closed, failFast, attempts, channels, todo, mishap>>

FailFastDone(u) ==
    /\ user[u] = "fail_fast"
    /\ failFast # "pending"
    /\ user' = [user EXCEPT ![u] = AfterFailFast]
    /\ UNCHANGED <<transport, made, conn, connected, closeEvent, closeCalled,
                   closed, failFast, attempts, channels, todo, task, mishap>>

\* connect() is cancelled (asyncio.wait_for): cancelling a task cancels the
\* future it awaits, here the one every user shares; the factory runs on.
CancelConnect(u) ==
    /\ user[u] \in {"fail_fast", "connected"}
    /\ failFast' = IF user[u] = "fail_fast" /\ failFast = "pending"
                   THEN "cancelled" ELSE failFast
    /\ user' = [user EXCEPT ![u] = "idle"]
    /\ UNCHANGED <<transport, made, conn, connected, closeEvent, closeCalled,
                   closed, attempts, channels, todo, task, mishap>>

\* The underlay connection g is closed from this side (or was already).
CloseUnderlay(g) ==
    conn' = [conn EXCEPT ![g] = IF @ = "open" THEN "closing" ELSE @]

\* An open connection goes down, other than by close(); the bound must let
\* the factory make another.
GoesDown(g) ==
    /\ conn[g] = "open"
    /\ made < MaxConns
    /\ CloseUnderlay(g)
    /\ mishap' = (mishap \/ task \in {"restore", "restore_ready", "reopen_cb",
                                     "reconnect_cb"})

\* reconnect(): closes the underlay connection, then connects.
Reconnect(u) ==
    /\ user[u] = "idle"
    /\ \/ /\ transport # 0
          /\ \/ GoesDown(transport)
             \/ conn[transport] # "open" /\ UNCHANGED <<conn, mishap>>
          /\ user' = [user EXCEPT ![u] = "reconnect"]
          /\ UNCHANGED task
       \/ transport = 0 /\ ConnectBody(u) /\ UNCHANGED <<conn, mishap>>
    /\ UNCHANGED <<transport, made, connected, closeEvent, closeCalled,
                   closed, failFast, attempts, channels, todo>>

ReconnectGoesOn(u) ==
    /\ user[u] = "reconnect"
    /\ ConnectBody(u)
    /\ UNCHANGED <<transport, made, conn, connected, closeEvent, closeCalled,
                   closed, failFast, attempts, channels, todo, mishap>>

Channel(u, c) ==
    /\ user[u] = "idle"
    /\ transport # 0
    /\ channels' = channels \cup {c}
    /\ UNCHANGED <<transport, made, conn, connected, closeEvent, closeCalled,
                   closed, failFast, attempts, todo, task, user, mishap>>

\* Connection.close() up to its await: it takes the transport away and closes
\* it; without a transport it returns and leaves _closed as it is.
SuperClose(u) ==
    /\ transport' = 0
    /\ closeCalled' = TRUE
    /\ \/ /\ transport = 0
          /\ user' = [user EXCEPT ![u] = "idle"]
          /\ UNCHANGED <<conn, closed>>
       \/ /\ transport # 0
          /\ conn[transport] = "finished"
          /\ closed' = TRUE
          /\ user' = [user EXCEPT ![u] = "idle"]
          /\ UNCHANGED conn
       \/ /\ transport # 0
          /\ conn[transport] # "finished"
          /\ CloseUnderlay(transport)
          /\ user' = [user EXCEPT ![u] = "underlay_close"]
          /\ UNCHANGED closed

\* Faulty Close: the factory is not cancelled.
CloseAtOnce(u) ==
    /\ user[u] = "idle"
    /\ SuperClose(u)
    /\ UNCHANGED <<made, connected, closeEvent, failFast, attempts, channels,
                   todo, task, mishap>>

\* Faulty Close: waits for the factory but does not cancel it.
CloseWaits(u) ==
    /\ user[u] = "idle"
    /\ task # "none"
    /\ user' = [user EXCEPT ![u] = "gather"]
    /\ UNCHANGED <<transport, made, conn, connected, closeEvent, closeCalled,
                   closed, failFast, attempts, channels, todo, task, mishap>>

\* close(): cancels the factory and waits for it, if there is one.
Close(u) ==
    /\ user[u] = "idle"
    /\ \/ task = "none" /\ SuperClose(u) /\ UNCHANGED task
       \/ /\ task # "none"
          /\ task' = IF task = "done" THEN "done" ELSE "cancelling"
          /\ user' = [user EXCEPT ![u] = "gather"]
          /\ UNCHANGED <<transport, conn, closeCalled, closed>>
    /\ UNCHANGED <<made, connected, closeEvent, failFast, attempts, channels,
                   todo, mishap>>

\* gather() returns; a close() that gathered the same task may have gone first.
FactoryGathered(u) ==
    /\ user[u] = "gather"
    /\ task = "done" \/ closeCalled
    /\ task' = "none"
    /\ SuperClose(u)
    /\ UNCHANGED <<made, connected, closeEvent, failFast, attempts, channels,
                   todo, mishap>>

\* UnderlayConnection.close() returns once the close callbacks of the last
\* connection, the one that was the transport, have run.
UnderlayClosed(u) ==
    /\ user[u] = "underlay_close"
    /\ conn[made] = "finished"
    /\ closed' = TRUE
    /\ user' = [user EXCEPT ![u] = "idle"]
    /\ UNCHANGED <<transport, made, conn, connected, closeEvent, closeCalled,
                   failFast, attempts, channels, todo, task, mishap>>

-----------------------------------------------------------------------------
(* The factory. *)

CloseHandled(g) == conn[g] \in {"none", "open", "finished"}

\* The head of the loop: stop, wait for the close event, or try to connect.
\* The factory gets here when it starts, after its sleep, and when the event
\* it waits for is set.
FactoryLoop ==
    /\ \/ task = "loop"
       \/ task = "sleep" /\ (SlowCallbacks \/ \A g \in Conns : CloseHandled(g))
       \/ task = "wait" /\ closeEvent
    /\ \/ /\ closed \/ closeCalled
          /\ task' = "done"
          /\ UNCHANGED <<transport, connected>>
       \/ /\ ~closed /\ ~closeCalled
          /\ ~closeEvent
          /\ task' = "wait"
          /\ UNCHANGED <<transport, connected>>
       \/ /\ ~closed /\ ~closeCalled
          /\ closeEvent
          /\ task' = "connect"
          /\ transport' = 0
          /\ connected' = FALSE
    /\ UNCHANGED <<made, conn, closeEvent, closeCalled, closed, failFast,
                   attempts, channels, todo, user, mishap>>

\* Faulty AttemptRaises: the factory stops and nobody is told.
AttemptRaisesSilently == task' = "done" /\ UNCHANGED failFast

\* An exception of the attempt reaches the factory: one of
\* CONNECTION_EXCEPTIONS ends a fail-fast connect(), any other is retried.
AttemptRaises ==
    \/ /\ failFast = "pending"
       /\ failFast' = "error"
       /\ task' = "done"
    \/ /\ failFast # "pending" \/ OtherErrors
       /\ task' = "sleep"
       /\ UNCHANGED failFast

\* UnderlayConnection.connect() fails and calls _on_connection_close() itself.
AttemptFails ==
    /\ task = "connect"
    /\ connected' = FALSE
    /\ task' = "fail_cb"
    /\ UNCHANGED <<transport, made, conn, closeEvent, closeCalled, closed,
                   failFast, attempts, channels, todo, user, mishap>>

\* The close callbacks of the failed attempt have run.
FailureHandled ==
    /\ task = "fail_cb"
    /\ closeEvent' = (closeEvent \/ ~(closed \/ closeCalled))
    /\ AttemptRaises
    /\ UNCHANGED <<transport, made, conn, connected, closeCalled, closed,
                   attempts, channels, todo, user, mishap>>

\* Faulty Established: the close event stays set.
EstablishedUncleared ==
    /\ attempts' = TRUE
    /\ failFast' = IF failFast = "pending" THEN "ok" ELSE failFast
    /\ task' = "sleep"
    /\ UNCHANGED closeEvent

\* The end of _on_connected() and of the attempt.
Established ==
    /\ attempts' = TRUE
    /\ closeEvent' = FALSE
    /\ failFast' = IF failFast = "pending" THEN "ok" ELSE failFast
    /\ task' = "sleep"

\* What follows the channels: the first connection is established at once, a
\* later one runs the reconnect callbacks first.
AfterRestore ==
    \/ /\ attempts
       /\ task' = "reconnect_cb"
       /\ UNCHANGED <<attempts, closeEvent, failFast>>
    \/ ~attempts /\ Established

\* An underlay connection is made, and _on_connected() runs up to the first
\* channel it restores.
AttemptSucceeds ==
    /\ task = "connect"
    /\ made < MaxConns
    /\ made' = made + 1
    /\ conn' = [conn EXCEPT ![made + 1] = "open"]
    /\ transport' = made + 1
    /\ connected' = TRUE
    /\ user' = WakeConnected
    /\ todo' = channels
    /\ \/ channels = {} /\ AfterRestore
       \/ /\ channels # {}
          /\ task' = "restore"
          /\ UNCHANGED <<attempts, closeEvent, failFast>>
    /\ UNCHANGED <<closeCalled, closed, channels, mishap>>

\* channel.restore() has talked to the broker; its reopen callbacks run.
ChannelReopened(c) ==
    /\ task \in {"restore", "restore_ready"}
    /\ connected
    /\ c \in todo
    /\ todo' = todo \ {c}
    /\ task' = "reopen_cb"
    /\ UNCHANGED <<transport, made, conn, connected, closeEvent, closeCalled,
                   closed, failFast, attempts, channels, user, mishap>>

\* The reopen callbacks end; their errors are swallowed by gather().
ChannelRestored ==
    /\ task = "reopen_cb"
    /\ \/ todo # {} /\ task' = "restore" /\ UNCHANGED <<attempts, closeEvent, failFast>>
       \/ todo = {} /\ AfterRestore
    /\ UNCHANGED <<transport, made, conn, connected, closeCalled, closed,
                   channels, todo, user, mishap>>

\* The connection was lost under the restore: get_underlay_channel() waits for
\* connected, which only the factory itself sets.
RestoreWaits ==
    /\ task = "restore"
    /\ ~connected
    /\ task' = "restore_ready"
    /\ UNCHANGED <<transport, made, conn, connected, closeEvent, closeCalled,
                   closed, failFast, attempts, channels, todo, user, mishap>>

\* channel.restore() raises: _on_connected() runs the close callbacks ...
RestoreRaises ==
    /\ task = "restore"
    /\ made < MaxConns
    /\ task' = "raise_cb"
    /\ UNCHANGED <<transport, made, conn, connected, closeEvent, closeCalled,
                   closed, failFast, attempts, channels, todo, user, mishap>>

\* Faulty RestoreCloses: the connection stays up.
RestoreLeaves ==
    /\ task = "raise_cb"
    /\ task' = "raise_close"
    /\ UNCHANGED <<transport, made, conn, connected, closeEvent, closeCalled,
                   closed, failFast, attempts, channels, todo, user, mishap>>

\* ... closes the underlay connection it was called for (the last one made) ...
RestoreCloses ==
    /\ task = "raise_cb"
    /\ CloseUnderlay(made)
    /\ task' = "raise_close"
    /\ UNCHANGED <<transport, made, connected, closeEvent, closeCalled,
                   closed, failFast, attempts, channels, todo, user, mishap>>

\* ... and raises on.
RestoreGivesUp ==
    /\ task = "raise_close"
    /\ AttemptRaises
    /\ UNCHANGED <<transport, made, conn, connected, closeEvent, closeCalled,
                   closed, attempts, channels, todo, user, mishap>>

\* The reconnect callbacks end.
Reconnected ==
    /\ task = "reconnect_cb"
    /\ Established
    /\ UNCHANGED <<transport, made, conn, connected, closeCalled, closed,
                   channels, todo, user, mishap>>

\* The cancelled factory ends.
FactoryCancelled ==
    /\ task = "cancelling"
    /\ task' = "done"
    /\ todo' = {}
    /\ UNCHANGED <<transport, made, conn, connected, closeEvent, closeCalled,
                   closed, failFast, attempts, channels, user, mishap>>

-----------------------------------------------------------------------------
(* The underlay connections. *)

\* The broker or the network closes an open connection.
Lost(g) ==
    /\ GoesDown(g)
    /\ UNCHANGED <<transport, made, connected, closeEvent, closeCalled,
                   closed, failFast, attempts, channels, todo, task, user>>

\* Faulty CloseStarts: connected stays set.
CloseStartsConnected(g) ==
    /\ conn[g] = "closing"
    /\ conn' = [conn EXCEPT ![g] = "callbacks"]
    /\ UNCHANGED <<transport, made, connected, closeEvent, closeCalled, closed,
                   failFast, attempts, channels, todo, task, user, mishap>>

\* The task of OneShotCallback starts _on_connection_close().
CloseStarts(g) ==
    /\ conn[g] = "closing"
    /\ conn' = [conn EXCEPT ![g] = "callbacks"]
    /\ connected' = FALSE
    /\ UNCHANGED <<transport, made, closeEvent, closeCalled, closed, failFast,
                   attempts, channels, todo, task, user, mishap>>

\* Faulty CloseEnds: the factory is not told.
CloseEndsUntold(g) ==
    /\ conn[g] = "callbacks"
    /\ conn' = [conn EXCEPT ![g] = "finished"]
    /\ UNCHANGED <<transport, made, connected, closeEvent, closeCalled, closed,
                   failFast, attempts, channels, todo, task, user, mishap>>

\* Faulty CloseEnds: the callback is reset as if it had never been called.
CloseEndsReset(g) ==
    /\ conn[g] = "callbacks"
    /\ conn' = [conn EXCEPT ![g] = "none"]
    /\ closeEvent' = (closeEvent \/ ~(closed \/ closeCalled))
    /\ UNCHANGED <<transport, made, connected, closeCalled, closed, failFast,
                   attempts, channels, todo, task, user, mishap>>

\* The close callbacks have run; unless the user closes the connection, the
\* factory is told.
CloseEnds(g) ==
    /\ conn[g] = "callbacks"
    /\ conn' = [conn EXCEPT ![g] = "finished"]
    /\ closeEvent' = (closeEvent \/ ~(closed \/ closeCalled))
    /\ UNCHANGED <<transport, made, connected, closeCalled, closed, failFast,
                   attempts, channels, todo, task, user, mishap>>

-----------------------------------------------------------------------------
UserStep(u) ==
    \/ Connect(u)
    \/ FailFastDone(u)
    \/ CancelConnect(u)
    \/ Reconnect(u)
    \/ ReconnectGoesOn(u)
    \/ \E c \in Channels : Channel(u, c)
    \/ Close(u)
    \/ FactoryGathered(u)
    \/ UnderlayClosed(u)

FactoryStep ==
    \/ FactoryLoop
    \/ AttemptFails
    \/ FailureHandled
    \/ AttemptSucceeds
    \/ \E c \in Channels : ChannelReopened(c)
    \/ ChannelRestored
    \/ RestoreWaits
    \/ RestoreRaises
    \/ RestoreCloses
    \/ RestoreGivesUp
    \/ Reconnected
    \/ FactoryCancelled

UnderlayStep(g) == Lost(g) \/ CloseStarts(g) \/ CloseEnds(g)

Next ==
    \/ \E u \in Users : UserStep(u)
    \/ FactoryStep
    \/ \E g \in Conns : UnderlayStep(g)

Spec == Init /\ [][Next]_vars

\* The event loop runs every task that can go on, sleeps and callbacks end,
\* and aiormq calls the closing callback.  A broker that can be reached time
\* and again is reached in the end, and a channel that can be restored time and
\* again is restored.  No user has to call anything and no loss has to happen.
Fairness ==
    /\ \A u \in Users :
          WF_vars(FailFastDone(u) \/ ReconnectGoesOn(u) \/ FactoryGathered(u)
                  \/ UnderlayClosed(u))
    /\ WF_vars(FactoryStep)
    /\ SF_vars(AttemptSucceeds)
    /\ \A c \in Channels : SF_vars(ChannelReopened(c))
    /\ \A g \in Conns : WF_vars(CloseStarts(g) \/ CloseEnds(g))

FairSpec == Spec /\ Fairness

-----------------------------------------------------------------------------
\* The state of the connection and of its tasks is well formed.
TypeOK ==
    /\ transport \in {0, made}
    /\ made \in 0..MaxConns
    /\ conn \in [Conns -> ConnStates]
    /\ connected \in BOOLEAN
    /\ closeEvent \in BOOLEAN
    /\ closeCalled \in BOOLEAN
    /\ closed \in BOOLEAN
    /\ failFast \in {"pending", "ok", "error", "cancelled"}
    /\ attempts \in BOOLEAN
    /\ channels \subseteq Channels
    /\ todo \subseteq channels
    /\ task \in TaskStates
    /\ user \in [Users -> UserStates]
    /\ mishap \in BOOLEAN
    /\ \A g \in Conns : conn[g] # "none" <=> g <= made

\* connected is set only while the last connection made is up, or lost so
\* recently that nobody has been told: ready() does not return on a connection
\* that has been replaced or handled as lost.
ConnectedIsLive == connected => made > 0 /\ conn[made] \in {"open", "closing"}

\* An underlay connection is made only when every earlier one is down: the
\* close event that starts an attempt tells of the current connection.
OnlyLostIsReplaced ==
    [][made' # made => \A g \in Conns : conn[g] # "open"]_vars

\* close() takes every connection down, at whatever point of an attempt, a
\* restore or a reconnect it comes.
NothingOpenAfterClose == closeCalled => \A g \in Conns : conn[g] # "open"

\* No connection is made after close(), whoever calls connect() or reconnect()
\* again.
NoAttemptAfterClose == [][closeCalled => made' = made]_vars

\* What the channels may rely on (Link.tla): the close event, the retries, the
\* users and the life of the underlay connections are hidden.
Connectivity == INSTANCE Link WITH
    link <- IF ~connected THEN "down" ELSE IF conn[made] = "open" THEN "up" ELSE "lost",
    restore <- IF task \in {"restore", "restore_ready", "reopen_cb"} THEN "running"
               ELSE IF task = "raise_cb" THEN "failed" ELSE "idle",
    stopped <- closeCalled \/ task \in {"cancelling", "done"}

\* The reconnecting connection implements Link: no channel is restored on two
\* connections at once, none sees a connection come up whose predecessor it was
\* not told the end of, and none is left unrestored on a connection that is up.
ImplementsLink == Connectivity!Spec

\* Somebody has called close().
Closing == closeCalled \/ \E u \in Users : user[u] = "gather"

\* Nobody waits for what will not come.  A factory that does not find the close
\* event set has a connection whose end will set it, unless it went down at the
\* moments that "mishap" records; and a task in connect() has a factory that
\* did not end.
NoneWaitsForNothing ==
    /\ task \in {"sleep", "wait"} /\ ~closeEvent =>
          \/ closeCalled \/ mishap
          \/ made > 0 /\ conn[made] \in {"open", "closing", "callbacks"}
    /\ ~Closing => \A u \in Users :
          \/ user[u] \notin {"fail_fast", "connected"}
          \/ user[u] = "fail_fast" /\ failFast # "pending"
          \/ task \notin {"none", "cancelling", "done"}

\* Transparent reconnection: a connection that was up and is not any more is
\* replaced, unless a user closes it, as long as no connection went down at
\* the two moments that "mishap" records.
Reconnects ==
    (attempts /\ ~connected /\ ~mishap) ~> (connected \/ Closing \/ mishap)

\* Transparent reconnection as the README promises it: whenever the connection
\* goes down.
AlwaysReconnects == (attempts /\ ~connected) ~> (connected \/ Closing)

\* close() returns.
CloseReturns == \A u \in Users :
    (user[u] \in {"gather", "underlay_close"}) ~> (user[u] = "idle")

\* connect() returns or raises, unless somebody closes the connection
\* or a mishap stops the factory.
ConnectReturns == \A u \in Users :
    (user[u] \in {"fail_fast", "connected"}) ~>
       (user[u] = "idle" \/ Closing \/ mishap)
=============================================================================
