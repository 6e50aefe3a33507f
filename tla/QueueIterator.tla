---------------------------- MODULE QueueIterator ----------------------------
(***************************************************************************)
(* QueueIterator and RobustQueueIterator (aio_pika/queue.py,               *)
(* robust_queue.py) on top of Settlement.tla: one iterator of a queue on a *)
(* robust channel.  One task iterates; another one may close the iterator, *)
(* as the close callbacks of the queue and "async with" do.  What the      *)
(* iterator yields goes to a handler of its own, so a body may hand the    *)
(* message to a task and go on.                                            *)
(*                                                                         *)
(* The tasks that put received messages into the buffer run in the order   *)
(* of the deliveries and before the answer to a later request, so receiving*)
(* and buffering is one step.  A message of an underlay channel that closed*)
(* stays in the buffer, as Stale.                                          *)
(***************************************************************************)
EXTENDS Settlement

CONSTANTS
    MaxConsumers   \* bound: how many times the iterator consumes

ASSUME IteratorAssumption == MaxConsumers \in Nat

Consumers == 1..MaxConsumers
Stale == 0

VARIABLES
    consumers, \* broker: the consumers of the iterator
    recorded,  \* RobustQueue._consumers: the ones a restore consumes again
    asked,     \* the consumers asked for so far
    tag,       \* _consumer_tag, 0 when there is none
    callback,  \* whether close() is among the close callbacks of the queue
    buffer,    \* _queue: the deliveries received, oldest first
    iter,      \* the task that iterates, see IterStates
    closer,    \* the close() that runs, see CloserStates
    closing,   \* the consumer it cancels, the delivery it requeues, or 0
    stranded   \* history: a close() or a consume() did not run to its end

iterVars == <<consumers, recorded, asked, tag, callback, buffer, iter, closer,
              closing, stranded>>

vars == <<settleVars, iterVars>>

\* "idle": in the code of the user.  "consume": awaits the answer to
\* basic.consume, and the broker has it in "consumed".  "wait": in _queue.get().
\* "close": __anext__() was cancelled and waits for close().
IterStates == {"idle", "consume", "consumed", "wait", "close"}
CloserStates == {"idle", "cancel", "cancelled", "drain", "nack"}

Init ==
    /\ SettleInit
    /\ consumers = {}
    /\ recorded = {}
    /\ asked = 0
    /\ tag = 0
    /\ callback = TRUE
    /\ buffer = << >>
    /\ iter = "idle"
    /\ closer = "idle"
    /\ closing = 0
    /\ stranded = FALSE

-----------------------------------------------------------------------------
(* Consuming. *)

\* __aenter__() or __anext__() of an iterator without a consumer.
StartConsume ==
    /\ iter = "idle"
    /\ tag = 0
    /\ asked < MaxConsumers
    /\ asked' = asked + 1
    /\ iter' = "consume"
    /\ UNCHANGED <<settleVars, consumers, recorded, tag, callback, buffer, closer,
                   closing, stranded>>

\* The broker reads basic.consume.  On a closed channel consume() waits for
\* the next underlay channel and asks again.
Consumed ==
    /\ iter = "consume"
    /\ channel
    /\ consumers' = consumers \cup {asked}
    /\ iter' = "consumed"
    /\ UNCHANGED <<settleVars, recorded, asked, tag, callback, buffer, closer,
                   closing, stranded>>

\* The answer arrives: the tag is known and recorded for the next restore;
\* __anext__() goes on to wait for a message, __aenter__() returns.
ConsumeOk ==
    /\ iter = "consumed"
    /\ asked \in consumers
    /\ tag' = asked
    /\ recorded' = recorded \cup {asked}
    /\ iter' \in {"wait", "idle"}
    /\ UNCHANGED <<settleVars, consumers, asked, callback, buffer, closer,
                   closing, stranded>>

\* The channel closed before the answer: ChannelInvalidStateError starts over.
ConsumeAgain ==
    /\ iter = "consumed"
    /\ asked \notin consumers
    /\ iter' = "consume"
    /\ UNCHANGED <<settleVars, consumers, recorded, asked, tag, callback, buffer,
                   closer, closing, stranded>>

\* consume() is cancelled, or raises: it is outside the "try" of __anext__(),
\* so nobody closes the iterator, and a consumer that the broker started
\* already has no tag.
ConsumeCancelled ==
    /\ iter \in {"consume", "consumed"}
    /\ iter' = "idle"
    /\ stranded' = (stranded \/ asked \in consumers)
    /\ UNCHANGED <<settleVars, consumers, recorded, asked, tag, callback, buffer,
                   closer, closing>>

\* on_message(): a message is received and put into the buffer (which the
\* bound MaxDeliveries keeps finite here).
Receive(m) ==
    /\ consumers # {}
    /\ Len(buffer) < MaxDeliveries
    /\ Deliver(m, "buffer")
    /\ buffer' = Append(buffer, Len(message) + 1)
    /\ UNCHANGED <<consumers, recorded, asked, tag, callback, iter, closer,
                   closing, stranded>>

-----------------------------------------------------------------------------
(* Iterating. *)

\* __anext__() of an iterator that consumes.
Anext ==
    /\ iter = "idle"
    /\ tag # 0
    /\ iter' = "wait"
    /\ UNCHANGED <<settleVars, consumers, recorded, asked, tag, callback, buffer,
                   closer, closing, stranded>>

\* _queue.get() returns the oldest message to the body of the loop.
Yield ==
    /\ iter = "wait"
    /\ buffer # << >>
    /\ handler' = [d \in Deliveries |-> IF d = Head(buffer) THEN "body" ELSE handler[d]]
    /\ buffer' = Tail(buffer)
    /\ iter' = "idle"
    /\ UNCHANGED <<mode, channel, store, marked, unacked, frames, tx, started,
                   suspended, message, redelivered, processed, other, torn>>
    /\ UNCHANGED <<consumers, recorded, asked, tag, callback, closer, closing,
                   stranded>>

\* The timeout of the iterator ends the wait; the iterator goes on consuming.
AnextTimeout ==
    /\ iter = "wait"
    /\ iter' = "idle"
    /\ UNCHANGED <<settleVars, consumers, recorded, asked, tag, callback, buffer,
                   closer, closing, stranded>>

-----------------------------------------------------------------------------
(* Closing. *)

\* close() up to its first await.  Without a tag or on a closed channel it
\* returns at once; when its callback is not registered any more (a second
\* close() after the iterator was used again) it raises KeyError after it
\* forgot the tag.
BeginClose ==
    /\ closer = "idle"
    /\ IF tag = 0 \/ ~channel
       THEN UNCHANGED <<tag, callback, closer, closing, stranded>>
       ELSE /\ tag' = 0
            /\ callback' = FALSE
            /\ closer' = IF callback THEN "cancel" ELSE "idle"
            /\ closing' = IF callback THEN tag ELSE 0
            /\ stranded' = (stranded \/ ~callback)

\* Somebody closes the iterator: the end of "async with", the task itself
\* between two messages, or another task.
Close ==
    /\ tag # 0
    /\ channel
    /\ BeginClose
    /\ UNCHANGED <<settleVars, consumers, recorded, asked, buffer, iter>>

\* __anext__() is cancelled while it waits: it closes the iterator and raises
\* again; a close() that has nothing to do, or that raises, returns at once.
AnextCancelled ==
    /\ iter = "wait"
    /\ BeginClose
    /\ iter' = IF closer' = "cancel" THEN "close" ELSE "idle"
    /\ UNCHANGED <<settleVars, consumers, recorded, asked, buffer>>

\* The broker cancels the consumer; nothing is received from it any more.
Cancelled ==
    /\ closer = "cancel"
    /\ channel
    /\ consumers' = consumers \ {closing}
    /\ closer' = "cancelled"
    /\ UNCHANGED <<settleVars, recorded, asked, tag, callback, buffer, iter,
                   closing, stranded>>

\* Faulty CancelOk: the consumer stays recorded.
CancelOkRecorded ==
    /\ closer = "cancelled"
    /\ closer' = "drain"
    /\ closing' = 0
    /\ UNCHANGED <<settleVars, recorded, consumers, asked, tag, callback, buffer,
                   iter, stranded>>

\* close() got its answer; RobustQueue.cancel() forgets the consumer.
CancelOk ==
    /\ closer = "cancelled"
    /\ recorded' = recorded \ {closing}
    /\ closer' = "drain"
    /\ closing' = 0
    /\ UNCHANGED <<settleVars, consumers, asked, tag, callback, buffer, iter,
                   stranded>>

CloseReturns ==
    /\ closer' = "idle"
    /\ closing' = 0
    /\ iter' = IF iter = "close" THEN "idle" ELSE iter

\* Faulty Drained: close() leaves the buffer as it is.
DrainedFull ==
    /\ closer = "drain"
    /\ CloseReturns
    /\ UNCHANGED <<settleVars, consumers, recorded, asked, tag, callback, buffer,
                   stranded>>

\* The buffer is empty, and close() returns.  On a closed channel and with
\* no_ack what is left in it is lost.
Drained ==
    /\ closer = "drain"
    /\ buffer = << >> \/ ~channel \/ mode.no_ack
    /\ buffer' = << >>
    /\ CloseReturns
    /\ UNCHANGED <<settleVars, consumers, recorded, asked, tag, callback,
                   stranded>>

\* close() takes the oldest message out of the buffer and sends nack(requeue).
Requeue ==
    /\ closer = "drain"
    /\ buffer # << >>
    /\ channel
    /\ Head(buffer) # Stale
    /\ Send(Head(buffer), "requeue")
    /\ closing' = Head(buffer)
    /\ closer' = "nack"
    /\ buffer' = Tail(buffer)
    /\ UNCHANGED <<mode, channel, store, marked, unacked, tx, started, suspended,
                   message, redelivered, processed, handler, other, torn>>
    /\ UNCHANGED <<consumers, recorded, asked, tag, callback, iter, stranded>>

\* nack() is sent, and the loop goes on.
Requeued ==
    /\ closer = "nack"
    /\ closer' = "drain"
    /\ closing' = 0
    /\ IF closing = Stale THEN UNCHANGED processed ELSE Settled(closing)
    /\ handler' = [d \in Deliveries |-> IF d = closing THEN "over" ELSE handler[d]]
    /\ UNCHANGED <<mode, channel, store, marked, unacked, frames, tx, started,
                   suspended, message, redelivered, other, torn>>
    /\ UNCHANGED <<consumers, recorded, asked, tag, callback, buffer, iter,
                   stranded>>

\* The oldest message of the buffer came from an earlier underlay channel:
\* nack() raises ChannelInvalidStateError out of close().
RequeueStale ==
    /\ closer = "drain"
    /\ buffer # << >>
    /\ channel
    /\ ~mode.no_ack
    /\ Head(buffer) = Stale
    /\ buffer' = Tail(buffer)
    /\ CloseReturns
    /\ stranded' = TRUE
    /\ UNCHANGED <<settleVars, consumers, recorded, asked, tag, callback>>

\* close() does not come to its end: the wait_for() in __anext__() runs into
\* its timeout, the task is cancelled, or the channel closes and the request
\* raises.
CloseAborted ==
    /\ closer \in {"cancel", "cancelled", "drain", "nack"}
    /\ CloseReturns
    /\ stranded' = TRUE
    /\ UNCHANGED <<settleVars, consumers, recorded, asked, tag, callback, buffer>>

-----------------------------------------------------------------------------
(* The channel. *)

\* Faulty BrokerSteps: messages of a closed channel count as live ones.
BrokerStepsFresh ==
    /\ ReadFrame \/ CloseChannel \/ Commit \/ Rollback
    /\ consumers' = IF channel' THEN consumers ELSE {}
    /\ UNCHANGED <<recorded, asked, tag, callback, buffer, iter, closer, closing,
                   stranded>>

\* A settlement or a loss that closes the channel ends its consumers, and the
\* messages it delivered are stale.
BrokerSteps ==
    /\ ReadFrame \/ CloseChannel \/ Commit \/ Rollback
    /\ IF channel'
       THEN UNCHANGED <<consumers, buffer, closing>>
       ELSE /\ consumers' = {}
            /\ buffer' = [i \in DOMAIN buffer |-> Stale]
            /\ closing' = IF closer = "nack" THEN Stale ELSE closing
    /\ UNCHANGED <<recorded, asked, tag, callback, iter, closer, stranded>>

\* Faulty Restore: the consumers are not restored.
RestoreNone ==
    /\ ReopenChannel
    /\ consumers' = {}
    /\ UNCHANGED <<recorded, asked, tag, callback, buffer, iter, closer, closing,
                   stranded>>

\* RobustQueue.restore() consumes again what is recorded.  The requests of the
\* closed channel have raised before.
Restore ==
    /\ ReopenChannel
    /\ closer \notin {"cancel", "cancelled"}
    /\ iter # "consumed"
    /\ consumers' = recorded
    /\ UNCHANGED <<recorded, asked, tag, callback, buffer, iter, closer, closing,
                   stranded>>

Iterate ==
    \/ StartConsume
    \/ Consumed
    \/ ConsumeOk
    \/ ConsumeAgain
    \/ ConsumeCancelled
    \/ \E m \in Msgs : Receive(m)
    \/ Anext
    \/ Yield
    \/ AnextTimeout
    \/ AnextCancelled
    \/ Close
    \/ Cancelled
    \/ CancelOk
    \/ Drained
    \/ Requeue
    \/ Requeued
    \/ RequeueStale
    \/ CloseAborted

Settle ==
    /\ \/ \E m \in Msgs : Get(m)
       \/ \E d \in DOMAIN message : Handle(d)
       \/ Select
    /\ UNCHANGED iterVars

Next == Iterate \/ Settle \/ BrokerSteps \/ Restore

Spec == Init /\ [][Next]_vars

\* The loop schedules the task that iterates and the one that closes, the
\* broker answers and delivers, and a lost channel is restored.
Fairness ==
    /\ WF_vars(Yield)
    /\ WF_vars(Restore)
    /\ WF_vars(CancelOk \/ CloseAborted)
    /\ WF_vars(ConsumeAgain \/ ConsumeOk)
    /\ SF_vars(\E m \in Msgs : Receive(m))

FairSpec == Spec /\ Fairness

-----------------------------------------------------------------------------
TypeOK ==
    /\ SettleTypeOK
    /\ consumers \subseteq Consumers
    /\ recorded \subseteq Consumers
    /\ asked \in 0..MaxConsumers
    /\ tag \in 0..MaxConsumers
    /\ callback \in BOOLEAN
    /\ buffer \in Seq({Stale} \cup DOMAIN message)
    /\ iter \in IterStates
    /\ closer \in CloserStates
    /\ closing \in Nat
    /\ stranded \in BOOLEAN

\* What the comment in close() says, "Reject all messages that have been
\* received and in the buffer/cache": once an iterator is closed no delivery
\* is left in its buffer, unless a consume() or close() broke off.
BufferReturned ==
    /\ channel
    /\ ~mode.no_ack
    /\ tag = 0
    /\ closer = "idle"
    /\ iter = "idle"
    /\ ~stranded
    => \A i \in DOMAIN buffer : buffer[i] = Stale

\* The broker never feeds a consumer nobody can cancel: whatever consumes is
\* the iterator's tag, or being started or cancelled, through closing, losing
\* and restoring the channel in between.
ConsumerHasOwner ==
    stranded \/ consumers \subseteq
                   ({tag} \cup (IF iter = "consumed" THEN {asked} ELSE {})
                          \cup (IF closer = "cancel" THEN {closing} ELSE {}))

\* A task that waits in __anext__() while the queue has messages gets one,
\* over losses of the channel too.
WaiterFed ==
    (iter = "wait" /\ tag # 0) ~>
       \/ iter # "wait" \/ tag = 0 \/ stranded
       \/ Len(message) = MaxDeliveries \/ Len(buffer) = MaxDeliveries
       \/ \A m \in Msgs : store[m] # "ready"
=============================================================================
