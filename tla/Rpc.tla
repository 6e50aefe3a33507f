-------------------------------- MODULE Rpc --------------------------------
(***************************************************************************)
(* Remote calls: RPC (aio_pika/patterns/rpc.py) as a caller and as a       *)
(* server of one method, each on a robust channel of its own.              *)
(*                                                                         *)
(* The caller keeps a future for each call, by its correlation id, and     *)
(* resolves it from five sides: a result, a returned message, the dead     *)
(* letter of an expired or rejected call, the end of the channel, and      *)
(* close().  The server registers functions for the method, answers calls  *)
(* and acknowledges them.  The broker is external: the queue of the method,*)
(* the result queue with its consumer, and the dead letter exchange.  Each *)
(* of the queues may be an auto-delete queue: it goes with its consumers.  *)
(*                                                                         *)
(* The handler of a result does not wait between taking the future out of  *)
(* the dictionary and resolving it, and so it is one step.                 *)
(***************************************************************************)
EXTENDS Naturals, FiniteSets

CONSTANTS
    Calls,       \* the calls that are made
    Expirations, \* whether calls have an expiration: the values used
    Funcs,       \* the functions registered for the method
    AutoDeletes, \* pairs: auto_delete of the result queue, and of the method's
    MaxLosses    \* bound: channels lost, of the caller and of the server

ASSUME RpcAssumption ==
    /\ Expirations \subseteq BOOLEAN
    /\ AutoDeletes \subseteq BOOLEAN \X BOOLEAN
    /\ MaxLosses \in Nat

\* A consumer the server's channel has recorded and no function owns.
Unowned == "unowned"

VARIABLES
    \* the caller
    call,       \* where each call() is, see CallStates
    expiring,   \* the calls that were made with an expiration
    futures,    \* RPC.futures: the calls that have an entry
    done,       \* the calls whose future has a result, an error or is cancelled
    rpc,        \* where close() is, see CloseStates
    channel,    \* the channel of the caller, see ChannelStates
    autoDelete, \* whether the result queue is an auto-delete queue
    returns,    \* whether _on_return is registered on the underlay channel
    \* the broker
    method,     \* whether the queue of the method exists
    message,    \* the message of each call, see MessageStates
    returned,   \* the calls whose message is returned and not handled yet
    resultQueue, \* whether the result queue exists and is bound for dead letters
    listening,  \* whether it has its consumer
    replies,    \* the calls whose answer or dead letter is in it
    \* the server
    serverOpen, \* whether its channel is open and restored
    methodAutoDelete, \* whether it declares the method's queue auto-delete
    consumers,  \* the functions whose consumer the broker has, or Unowned
    leftover,   \* what a restore may find recorded, see Leftovers
    registered, \* where register() and unregister() of each function are
    routed,     \* whether routes has an entry for the method
    serving,    \* the calls whose handler runs, or waits to send its ack
    stale,      \* the calls whose handler outlived the channel of its message
    \* history
    answered,   \* the calls an answer was sent for, of whatever kind
    astray,     \* the calls nobody can answer any more, see Astray
    losses      \* see MaxLosses

chosen == <<autoDelete, expiring>>
link == <<rpc, channel, chosen, returns>>
caller == <<call, futures, done, link>>
broker == <<method, message, returned, resultQueue, listening, replies>>
registry == <<serverOpen, methodAutoDelete, consumers, leftover, registered, routed>>
server == <<registry, serving, stale>>
history == <<answered, astray>>
vars == <<caller, broker, server, history, losses>>

\* "publish": call() waits until its message is sent, and then in "confirm" for
\* the confirmation.  "wait": it waits for its future.
CallStates == {"idle", "publish", "confirm", "wait", "over"}
\* "cancel", "unbind", "delete": what close() waits for.  "stuck": it raised
\* when the consumer was gone and the queue was not.
CloseStates == {"open", "cancel", "unbind", "delete", "closed", "stuck"}

\* "lost": on_close() did not run yet.
ChannelStates == {"open", "lost", "closed", "restoring"}

\* "gone": acknowledged, rejected or expired.  "dropped": its queue has gone.
MessageStates == {"none", "queued", "unacked", "gone", "dropped"}

\* "consumed": the broker delivers calls, and register() has no answer yet.
\* "cancelled": the broker has cancelled, and unregister() has no answer yet.
RegisterStates == {"no", "consumed", "yes", "cancelled"}

\* A register() that a loss of the channel broke off leaves a queue recorded, an
\* unregister() a consumer, as long as the error that holds the queue object
\* lives: the close callback that restores the channel has one.
Leftovers == {"queue", "consumer"}

Pending(c) == c \notin done

Init ==
    /\ call = [c \in Calls |-> "idle"]
    /\ expiring = {}
    /\ futures = {}
    /\ done = {}
    /\ rpc = "open"
    /\ channel = "open"
    /\ \E a \in AutoDeletes : autoDelete = a[1] /\ methodAutoDelete = a[2]
    /\ returns = TRUE
    /\ method = FALSE
    /\ message = [c \in Calls |-> "none"]
    /\ returned = {}
    /\ resultQueue = TRUE
    /\ listening = TRUE
    /\ replies = {}
    /\ serverOpen = TRUE
    /\ consumers = {}
    /\ leftover = {}
    /\ registered = [f \in Funcs |-> "no"]
    /\ routed = FALSE
    /\ serving = [c \in Calls |-> "no"]
    /\ stale = {}
    /\ answered = {}
    /\ astray = {}
    /\ losses = 0

-----------------------------------------------------------------------------
(* The caller: call(). *)

\* The futures of cs that are not done get a result or an error, whichever; for
\* what they get makes no difference here.
Resolve(cs) == done' = done \cup cs

\* call() up to its first wait: the future is made, and the message is written;
\* with the result queue forgotten or the channel closed it raises, and the
\* future stays in the dictionary.
Call(c) ==
    /\ call[c] = "idle"
    /\ futures' = futures \cup {c}
    /\ \E expires \in Expirations :
          expiring' = IF expires THEN expiring \cup {c} ELSE expiring
    /\ call' = [call EXCEPT ![c] = IF rpc = "closed" \/ channel \in {"lost", "closed"}
                                   THEN "over" ELSE "publish"]
    /\ UNCHANGED <<done, rpc, channel, autoDelete, returns, broker, server,
                   history, losses>>

\* A returned message reaches the handler of the underlay channel, and it is
\* registered on the first one only.
Returned(c) == returned' = IF returns THEN returned \cup {c} ELSE returned

\* The broker routes the message, or returns it: it is mandatory.
Astray(c) == astray' = astray \cup {c}
Route(c) ==
    /\ call[c] = "publish"
    /\ channel \in {"open", "restoring"}
    /\ call' = [call EXCEPT ![c] = "confirm"]
    /\ IF method
       THEN message' = [message EXCEPT ![c] = "queued"] /\ UNCHANGED returned
       ELSE Returned(c) /\ UNCHANGED message
    \* After close() has resolved the futures nobody listens for the answer.
    /\ IF rpc \in {"delete", "stuck", "closed"} \/ ~(method \/ returns)
       THEN Astray(c) ELSE UNCHANGED astray
    /\ UNCHANGED <<futures, done, link, method, resultQueue, listening,
                   replies, server, answered, losses>>

\* The confirmation arrives, and call() waits for its future.
Confirmed(c) ==
    /\ call[c] = "confirm"
    /\ channel \in {"open", "restoring"}
    /\ call' = [call EXCEPT ![c] = "wait"]
    /\ UNCHANGED <<futures, done, link, broker, server, history, losses>>

\* publish() raises when the channel went away, or call() is cancelled: the
\* future is left as it is.
PublishFails(c) ==
    /\ call[c] \in {"publish", "confirm"}
    /\ call' = [call EXCEPT ![c] = "over"]
    /\ UNCHANGED <<futures, done, link, broker, server, history, losses>>

\* The future is done, and call() returns or raises.
CallEnds(c) ==
    /\ call[c] = "wait"
    /\ ~Pending(c)
    /\ call' = [call EXCEPT ![c] = "over"]
    /\ UNCHANGED <<futures, done, link, broker, server, history, losses>>

\* call() is cancelled while it waits, by a timeout of the user for instance,
\* and its future with it.
CallCancelled(c) ==
    /\ call[c] = "wait"
    /\ Pending(c)
    /\ call' = [call EXCEPT ![c] = "over"]
    /\ Resolve({c})
    /\ UNCHANGED <<futures, link, broker, server, history, losses>>

\* The callback of a future that is done takes it out of the dictionary.
DoRemove(c) ==
    /\ c \in futures
    /\ ~Pending(c)
    /\ futures' = futures \ {c}
    /\ UNCHANGED <<call, done, link, broker, server, history, losses>>

\* on_result_message(): an unknown one is ignored, and for a future that is
\* done set_result() raises.
OnResult(c) ==
    /\ c \in replies
    /\ listening
    /\ replies' = replies \ {c}
    /\ futures' = futures \ {c}
    /\ Resolve(futures \cap {c})
    /\ UNCHANGED <<call, link, method, message, returned, resultQueue, listening,
                   server, history, losses>>

\* Faulty OnReturned: the future is taken out and not resolved.
OnReturnedSilent(c) ==
    /\ c \in returned
    /\ returned' = returned \ {c}
    /\ futures' = futures \ {c}
    /\ UNCHANGED <<call, done, link, method, message, resultQueue, listening,
                   replies, server, history, losses>>

\* on_message_returned().
OnReturned(c) ==
    /\ c \in returned
    /\ returned' = returned \ {c}
    /\ futures' = futures \ {c}
    /\ Resolve(futures \cap {c})
    /\ UNCHANGED <<call, link, method, message, resultQueue, listening, replies,
                   server, history, losses>>

-----------------------------------------------------------------------------
(* The caller's channel. *)

\* An auto-delete queue goes with its consumer, and its messages with it.
ConsumerGone ==
    /\ listening' = FALSE
    /\ IF autoDelete
       THEN resultQueue' = FALSE /\ replies' = {}
       ELSE UNCHANGED <<resultQueue, replies>>

\* What close() leaves when the channel goes away under it.
CloseRaises ==
    rpc' = CASE rpc = "cancel" -> "open"
             [] rpc \in {"unbind", "delete"} -> "stuck"
             [] OTHER -> rpc

Lost ==
    /\ channel \in {"open", "restoring"}
    /\ losses < MaxLosses
    /\ losses' = losses + 1
    /\ channel' = "lost"
    /\ returns' = FALSE
    /\ returned' = {}
    /\ ConsumerGone
    /\ CloseRaises
    /\ UNCHANGED <<chosen, call, futures, done, method, message, server,
                   history>>

\* on_close().
OnClose ==
    /\ channel = "lost"
    /\ channel' = "closed"
    /\ Resolve(futures)
    /\ UNCHANGED <<chosen, call, futures, rpc, returns, broker, server,
                   history, losses>>

\* The robust channel is opened again: calls can be sent from here on.
Reopen ==
    /\ channel = "closed"
    /\ channel' = "restoring"
    /\ UNCHANGED <<chosen, call, futures, done, rpc, returns, broker,
                   server, history, losses>>

\* Faulty Restored: the result queue is consumed and not declared again.
RestoredUndeclared ==
    /\ channel = "restoring"
    /\ channel' = "open"
    /\ listening' = (rpc \in {"open", "cancel"})
    /\ UNCHANGED <<chosen, call, futures, done, rpc, returns, method, message,
                   returned, resultQueue, replies, server, history, losses>>

\* The result queue is declared, bound and consumed again as it is recorded.
Restored ==
    /\ channel = "restoring"
    /\ channel' = "open"
    /\ resultQueue' = (rpc # "closed" \/ resultQueue)
    /\ listening' = (rpc \in {"open", "cancel"})
    /\ UNCHANGED <<chosen, call, futures, done, rpc, returns, method,
                   message, returned, replies, server, history, losses>>

-----------------------------------------------------------------------------
(* The caller: close(). *)

Close ==
    /\ rpc = "open"
    /\ channel \in {"open", "restoring"}
    /\ rpc' = "cancel"
    /\ UNCHANGED <<chosen, call, futures, done, channel, returns, broker,
                   server, history, losses>>

\* The consumer is cancelled, and its tag forgotten.
Cancelled ==
    /\ rpc = "cancel"
    /\ channel \in {"open", "restoring"}
    /\ ConsumerGone
    /\ rpc' = "unbind"
    /\ UNCHANGED <<chosen, call, futures, done, channel, returns, method,
                   message, returned, server, history, losses>>

\* Faulty Unbound: the futures are left as they are.
UnboundSilent ==
    /\ rpc = "unbind"
    /\ channel \in {"open", "restoring"}
    /\ rpc' = "delete"
    /\ UNCHANGED <<chosen, call, futures, done, channel, returns, broker,
                   server, history, losses>>

\* The queue is unbound, and every future that is not done gets CancelledError.
Unbound ==
    /\ rpc = "unbind"
    /\ channel \in {"open", "restoring"}
    /\ Resolve(futures)
    /\ rpc' = "delete"
    /\ UNCHANGED <<chosen, call, futures, channel, returns, broker, server,
                   history, losses>>

\* The queue is deleted if it is empty; otherwise the broker closes the channel.
QueueDeleted ==
    /\ rpc = "delete"
    /\ channel \in {"open", "restoring"}
    /\ IF replies = {}
       THEN /\ rpc' = "closed"
            /\ resultQueue' = FALSE
            /\ UNCHANGED <<channel, returns, returned>>
       ELSE /\ rpc' = "stuck"
            /\ channel' = "lost"
            /\ returns' = FALSE
            /\ returned' = {}
            /\ UNCHANGED resultQueue
    /\ UNCHANGED <<chosen, call, futures, done, method, message, listening,
                   replies, server, history, losses>>

-----------------------------------------------------------------------------
(* The server: register() and unregister(). *)

Moves(f, from, to) ==
    /\ registered[f] = from
    /\ registered' = [registered EXCEPT ![f] = to]

\* register() declares the queue, refuses a method that has a route already,
\* and consumes.  Nothing another task does matters between its requests; the
\* broker starts to deliver before it has the answer.
Register(f) ==
    /\ serverOpen
    /\ registered[f] = "no"
    /\ method' = TRUE
    /\ IF ~routed
       THEN Moves(f, "no", "consumed") /\ consumers' = consumers \cup {f}
       ELSE UNCHANGED <<registered, consumers>>
    /\ UNCHANGED <<caller, message, returned, resultQueue, listening, replies,
                   serverOpen, methodAutoDelete, leftover, routed, serving, stale,
                   history, losses>>

\* The answer arrives.
Registered(f) ==
    /\ Moves(f, "consumed", "yes")
    /\ routed' = TRUE
    /\ UNCHANGED <<caller, broker, serverOpen, methodAutoDelete, consumers,
                   leftover, serving, stale, history, losses>>

\* An auto-delete queue of the method goes with its consumers, and its calls
\* with it, without dead letters: those that wait in it, and those that were
\* served by a handler whose channel is gone as well, go astray.
MethodGone ==
    /\ method' = FALSE
    /\ message' = [c \in Calls |-> IF message[c] \in {"queued", "unacked"}
                                   THEN "dropped" ELSE message[c]]
DroppedAstray ==
    astray' = astray \cup {c \in Calls : /\ message'[c] = "dropped"
                                         /\ message[c] = "queued" \/ serving[c] = "run"
                                         /\ serving'[c] = "no"}

\* unregister() forgets the consumer and cancels it.
Unregister(f) ==
    /\ serverOpen
    /\ Moves(f, "yes", "cancelled")
    /\ consumers' = consumers \ {f}
    /\ IF methodAutoDelete /\ consumers' = {}
       THEN MethodGone ELSE UNCHANGED <<method, message>>
    /\ UNCHANGED <<caller, returned, resultQueue, listening, replies, serverOpen,
                   methodAutoDelete, leftover, routed, serving, stale, answered,
                   losses>>
    /\ DroppedAstray

\* With the answer the route of the method goes, whosever it is.
Unregistered(f) ==
    /\ Moves(f, "cancelled", "no")
    /\ routed' = FALSE
    /\ UNCHANGED <<caller, broker, serverOpen, methodAutoDelete, consumers,
                   leftover, serving, stale, history, losses>>

\* Without a channel it raises: the route stays, and the recorded consumer.
UnregisterFails(f) ==
    /\ ~serverOpen
    /\ Moves(f, "yes", "no")
    /\ leftover' = leftover \cup {"consumer"}
    /\ UNCHANGED <<caller, broker, serverOpen, methodAutoDelete, consumers, routed,
                   serving, stale, history, losses>>

-----------------------------------------------------------------------------
(* The server: on_call_message(). *)

\* An answer reaches the result queue, or nobody when there is none.
Send(c) ==
    /\ answered' = answered \cup {c}
    /\ IF resultQueue
       THEN replies' = replies \cup {c} /\ UNCHANGED astray
       ELSE Astray(c) /\ UNCHANGED replies

\* Faulty Serve: the call is acknowledged before it is executed.
ServeAcked(c) ==
    /\ message[c] = "queued"
    /\ consumers # {}
    /\ message' = [message EXCEPT ![c] = "gone"]
    /\ serving' = [serving EXCEPT ![c] = "run"]
    /\ UNCHANGED <<caller, method, returned, resultQueue, listening, replies,
                   registry, stale, history, losses>>

\* A call is delivered and executed; without a route it is dropped, and nobody
\* acknowledges it.
Serve(c) ==
    /\ message[c] = "queued"
    /\ consumers # {}
    /\ message' = [message EXCEPT ![c] = "unacked"]
    /\ IF ~routed
       THEN Astray(c) /\ UNCHANGED serving
       ELSE serving' = [serving EXCEPT ![c] = "run"] /\ UNCHANGED astray
    /\ UNCHANGED <<caller, method, returned, resultQueue, listening, replies,
                   registry, stale, answered, losses>>

\* The function has returned or raised, and the answer is published.
Replies(c) ==
    /\ serving[c] = "run"
    /\ serving' = [serving EXCEPT ![c] = "ack"]
    /\ Send(c)
    /\ UNCHANGED <<caller, method, message, returned, resultQueue, listening,
                   registry, stale, losses>>

\* The broker forgets a call that is settled, if its queue is there.
Settled(c) ==
    message' = [message EXCEPT ![c] = IF @ = "unacked" THEN "gone" ELSE @]

\* ... and the call acknowledged.
Acks(c) ==
    /\ serving[c] = "ack"
    /\ serving' = [serving EXCEPT ![c] = "no"]
    /\ Settled(c)
    /\ UNCHANGED <<caller, method, returned, resultQueue, listening, replies,
                   registry, stale, history, losses>>

\* The answer cannot be published: the call is rejected, and its dead letter
\* tells the caller.
Rejects(c) ==
    /\ serving[c] = "run"
    /\ serving' = [serving EXCEPT ![c] = "no"]
    /\ Settled(c)
    /\ IF message[c] = "unacked"
       THEN Send(c)
       ELSE Astray(c) /\ UNCHANGED <<answered, replies>>
    /\ UNCHANGED <<caller, method, returned, resultQueue, listening, registry,
                   stale, losses>>

\* The server loses its channel: its consumers go, what it did not acknowledge
\* is in the queue again if that stays, its handlers go on, and register() and
\* unregister() raise.
ServerLost ==
    /\ serverOpen
    /\ losses < MaxLosses
    /\ losses' = losses + 1
    /\ serverOpen' = FALSE
    /\ consumers' = {}
    /\ registered' = [f \in Funcs |-> IF registered[f] = "yes" THEN "yes" ELSE "no"]
    /\ leftover' = {x \in Leftovers :
          \/ x = "queue" /\ \E f \in Funcs : registered[f] = "consumed"
          \/ x = "consumer" /\ \E f \in Funcs : registered[f] = "cancelled"
          \/ x = "consumer" /\ Unowned \in consumers}
    /\ stale' = stale \cup {c \in Calls : serving[c] = "run"}
    /\ serving' = [c \in Calls |-> "no"]
    /\ IF methodAutoDelete /\ consumers # {}
       THEN MethodGone
       ELSE /\ message' = [c \in Calls |-> IF message[c] = "unacked" THEN "queued"
                                           ELSE message[c]]
            /\ UNCHANGED method
    /\ DroppedAstray
    /\ UNCHANGED <<caller, returned, resultQueue, listening, replies,
                   methodAutoDelete, routed, answered>>

\* It is restored: the queue is declared and consumed as it is recorded.
ServerRestored ==
    /\ ~serverOpen
    /\ serverOpen' = TRUE
    /\ leftover' = {}
    /\ \E alive \in SUBSET leftover :
          /\ consumers' = {f \in Funcs : registered[f] = "yes"}
                          \cup {x \in {Unowned} : "consumer" \in alive}
          /\ method' = (method \/ consumers' \cup alive # {})
    /\ UNCHANGED <<caller, message, returned, resultQueue, listening, replies,
                   methodAutoDelete, registered, routed, serving, stale, history,
                   losses>>

\* A handler that outlived its channel still answers; its acknowledgement
\* raises.
StaleReplies(c) ==
    /\ serverOpen
    /\ c \in stale
    /\ stale' = stale \ {c}
    /\ Send(c)
    /\ UNCHANGED <<caller, method, message, returned, resultQueue, listening,
                   registry, serving, losses>>

\* A call that nobody took in time is dead-lettered to the result queue.
Expires(c) ==
    /\ c \in expiring
    /\ message[c] = "queued"
    /\ message' = [message EXCEPT ![c] = "gone"]
    /\ Send(c)
    /\ UNCHANGED <<caller, method, returned, resultQueue, listening, server,
                   losses>>

-----------------------------------------------------------------------------
Caller(c) ==
    \/ Call(c)
    \/ Route(c)
    \/ Confirmed(c)
    \/ PublishFails(c)
    \/ CallEnds(c)
    \/ CallCancelled(c)
    \/ DoRemove(c)
    \/ OnReturned(c)
    \/ OnResult(c)

Registration(f) ==
    \/ Register(f)
    \/ Registered(f)
    \/ Unregister(f)
    \/ Unregistered(f)
    \/ UnregisterFails(f)

Server(c) ==
    \/ Serve(c)
    \/ Replies(c)
    \/ Acks(c)
    \/ Rejects(c)
    \/ StaleReplies(c)
    \/ Expires(c)

Next ==
    \/ \E c \in Calls : Caller(c) \/ Server(c)
    \/ \E f \in Funcs : Registration(f)
    \/ Lost
    \/ OnClose
    \/ Reopen
    \/ Restored
    \/ Close
    \/ Cancelled
    \/ Unbound
    \/ QueueDeleted
    \/ ServerLost
    \/ ServerRestored

Spec == Init /\ [][Next]_vars

\* Handlers run, the broker answers and expires what is due, a lost channel is
\* restored, and while there are consumers calls are delivered.
Fairness ==
    /\ WF_vars(OnClose)
    /\ WF_vars(Reopen \/ Restored)
    /\ WF_vars(ServerRestored)
    /\ WF_vars(Cancelled \/ Unbound \/ QueueDeleted)
    /\ \A c \in Calls :
          /\ SF_vars(OnResult(c))
          /\ WF_vars(OnReturned(c))
          /\ WF_vars(Expires(c))
          /\ SF_vars(Serve(c))
          /\ WF_vars(Replies(c) \/ Rejects(c))
          /\ WF_vars(Acks(c))

FairSpec == Spec /\ Fairness

-----------------------------------------------------------------------------
TypeOK ==
    /\ call \in [Calls -> CallStates]
    /\ expiring \subseteq Calls
    /\ futures \subseteq Calls
    /\ done \subseteq Calls
    /\ rpc \in CloseStates
    /\ channel \in ChannelStates
    /\ <<autoDelete, methodAutoDelete>> \in AutoDeletes
    /\ returns \in BOOLEAN
    /\ method \in BOOLEAN
    /\ message \in [Calls -> MessageStates]
    /\ returned \subseteq Calls
    /\ resultQueue \in BOOLEAN
    /\ listening \in BOOLEAN
    /\ listening => resultQueue
    /\ replies \subseteq Calls
    /\ replies # {} => resultQueue
    /\ serverOpen \in BOOLEAN
    /\ consumers \subseteq Funcs \cup {Unowned}
    /\ consumers # {} => method
    /\ leftover \subseteq Leftovers
    /\ registered \in [Funcs -> RegisterStates]
    /\ routed \in BOOLEAN
    /\ serving \in [Calls -> {"no", "run", "ack"}]
    /\ stale \subseteq Calls
    /\ answered \subseteq Calls
    /\ astray \subseteq Calls
    /\ losses \in 0..MaxLosses

\* A call that waits is in the dictionary until its future is done: otherwise
\* no result, no returned message, no loss and no close() would ever end it.
PendingIsReachable ==
    \A c \in Calls :
       call[c] \in {"publish", "confirm", "wait"} /\ Pending(c) => c \in futures

\* The broker forgets a call only when an answer to it was sent, or with an
\* auto-delete queue of the method: from a queue that stays, a server that loses
\* its channel at any point, or unregisters, has the call served again.
AnsweredBeforeForgotten ==
    \A c \in Calls :
       /\ message[c] = "gone" => c \in answered
       /\ message[c] = "dropped" => methodAutoDelete

\* A call never waits for nothing: while it has no outcome and did not go astray
\* in one of the ways named below, as it does with an auto-delete queue of the
\* method when nobody serves that any more, its futures are about to be resolved by the
\* loss or by close(), or the caller listens (after a restore at the latest) and
\* the call is on its way to the server, being served, or its answer or its
\* return is on the way back.
AnswerUnderWay ==
    \A c \in Calls :
       call[c] \in {"confirm", "wait"} /\ Pending(c) =>
          \/ c \in astray
          \/ channel = "lost"
          \/ rpc = "unbind"
          \/ /\ rpc \in {"open", "cancel"}
             /\ channel = "open" => listening
             /\ \/ message[c] = "queued"
                \/ serving[c] = "run"
                \/ c \in returned
                \/ c \in replies

\* Every call comes to an end that expires or whose method is served again and
\* again, through losses and close(), unless it went astray in one of the
\* ways the code leaves open: it was returned on a reopened channel, sent
\* after close() had resolved the futures, dropped without a route, answered
\* while there was no result queue, or lost with an auto-delete queue of the
\* method, whose server lost its channel or unregistered.
WaitingEnds ==
    \A c \in Calls :
       []<>(c \in expiring \/ consumers # {}) =>
          (call[c] = "wait" ~> ~Pending(c) \/ c \in astray)
=============================================================================
