----------------------------- MODULE RpcProofs -----------------------------
(***************************************************************************)
(* Proofs about Rpc.tla, for any calls, any functions and any number of    *)
(* lost channels.                                                          *)
(***************************************************************************)
EXTENDS Rpc, TLAPS

\* Once close() has cancelled the consumer of the result queue no restore
\* brings it back: without this the queue could be deleted under a consumer.
ClosingIsDeaf == rpc \notin {"open", "cancel"} => ~listening

\* The handler of a call sends the acknowledgement after the answer.
AckAfterAnswer == \A c \in Calls : serving[c] = "ack" => c \in answered

\* Until close() cancels it, the consumer of the result queue is there whenever
\* the channel is restored.
ListensWhileOpen ==
    rpc \in {"open", "cancel"} /\ channel = "open" => listening

\* What is being served is not in the queue at the same time, and there is no
\* message of a call before it is routed.
ServedIsUnacked ==
    \A c \in Calls :
       /\ serving[c] # "no" => message[c] \in {"unacked", "dropped"}
       /\ call[c] \in {"idle", "publish"} => message[c] = "none"

RpcInv ==
    /\ TypeOK
    /\ ClosingIsDeaf
    /\ ListensWhileOpen
    /\ ServedIsUnacked
    /\ AnswerUnderWay
    /\ PendingIsReachable
    /\ AckAfterAnswer
    /\ AnsweredBeforeForgotten

-----------------------------------------------------------------------------
(* Types. *)

\* A step of the caller with one of its calls keeps the state well formed.
LEMMA CallerTypes ==
  ASSUME TypeOK, NEW c \in Calls, Caller(c)
  PROVE  TypeOK'
<1> USE RpcAssumption
<1>1. CASE Call(c)
  <2>1. expiring' \subseteq Calls /\ futures' \subseteq Calls
    BY <1>1 DEF Call, TypeOK
  <2>2. call' \in [Calls -> CallStates]
    BY <1>1 DEF Call, TypeOK, CallStates
  <2> QED BY <1>1, <2>1, <2>2 DEF Call, TypeOK, broker, server, registry, history
<1>2. CASE Route(c)
  <2>1. /\ returned' \subseteq Calls /\ astray' \subseteq Calls
        /\ message' \in [Calls -> MessageStates]
    BY <1>2 DEF Route, Returned, Astray, TypeOK, MessageStates
  <2>2. call' \in [Calls -> CallStates]
    BY <1>2 DEF Route, TypeOK, CallStates
  <2> QED BY <1>2, <2>1, <2>2 DEF Route, TypeOK, link, chosen, server, registry
<1>3. CASE Confirmed(c) \/ PublishFails(c) \/ CallEnds(c) \/ DoRemove(c)
  <2>1. call' \in [Calls -> CallStates] /\ futures' \subseteq Calls
    BY <1>3 DEF Confirmed, PublishFails, CallEnds, DoRemove, TypeOK, CallStates
  <2> QED BY <1>3, <2>1 DEF Confirmed, PublishFails, CallEnds, DoRemove, TypeOK,
          link, chosen, broker, server, registry, history
<1>4. CASE CallCancelled(c)
  <2>1. done' \subseteq Calls
    BY <1>4 DEF CallCancelled, Resolve, TypeOK
  <2>2. call' \in [Calls -> CallStates]
    BY <1>4 DEF CallCancelled, TypeOK, CallStates
  <2> QED BY <1>4, <2>1, <2>2 DEF CallCancelled, TypeOK, link, chosen, broker,
          server, registry, history
<1>5. CASE OnReturned(c)
  BY <1>5 DEF OnReturned, Resolve, TypeOK, link, chosen, server, registry, history
<1>6. CASE OnResult(c)
  BY <1>6 DEF OnResult, Resolve, TypeOK, link, chosen, server, registry, history
<1> QED BY <1>1, <1>2, <1>3, <1>4, <1>5, <1>6 DEF Caller

\* An answer keeps the result queue and what it holds well formed.
LEMMA SendTypes ==
  ASSUME TypeOK, NEW c \in Calls, Send(c), UNCHANGED resultQueue
  PROVE  /\ answered' \subseteq Calls /\ astray' \subseteq Calls
         /\ replies' \subseteq Calls
         /\ replies' # {} => resultQueue'
BY DEF Send, Astray, TypeOK

\* So does a step of the server with a call.
LEMMA ServerTypes ==
  ASSUME TypeOK, NEW c \in Calls, Server(c)
  PROVE  TypeOK'
<1> USE RpcAssumption
<1>1. CASE Serve(c)
  BY <1>1 DEF Serve, Astray, TypeOK, caller, link, chosen, registry, MessageStates
<1>2. CASE Acks(c)
  BY <1>2 DEF Acks, Settled, TypeOK, caller, link, chosen, registry, history,
     MessageStates
<1>3. CASE Replies(c) \/ Rejects(c) \/ StaleReplies(c) \/ Expires(c)
  <2>1. /\ answered' \subseteq Calls /\ astray' \subseteq Calls
        /\ replies' \subseteq Calls
        /\ replies' # {} => resultQueue'
    BY <1>3, SendTypes DEF Replies, Rejects, StaleReplies, Expires, Astray, TypeOK
  <2>2. /\ message' \in [Calls -> MessageStates]
        /\ serving' \in [Calls -> {"no", "run", "ack"}]
        /\ stale' \subseteq Calls
    BY <1>3 DEF Replies, Rejects, StaleReplies, Expires, Settled, TypeOK,
        MessageStates, server
  <2> QED BY <1>3, <2>1, <2>2 DEF Replies, Rejects, StaleReplies, Expires, TypeOK,
          caller, link, chosen, server, registry
<1> QED BY <1>1, <1>2, <1>3 DEF Server

\* The end of an auto-delete queue keeps the messages well formed.
LEMMA DroppedTypes ==
  ASSUME TypeOK, DroppedAstray, MethodGone \/ UNCHANGED <<method, message>>
  PROVE  /\ message' \in [Calls -> MessageStates]
         /\ method' \in BOOLEAN
         /\ astray' \subseteq Calls
<1>1. message' \in [Calls -> MessageStates]
  BY DEF MethodGone, TypeOK, MessageStates
<1>2. method' \in BOOLEAN
  BY DEF MethodGone, TypeOK
<1> QED BY <1>1, <1>2 DEF DroppedAstray, TypeOK

\* A step of register() and unregister() keeps the state well formed: the queue
\* of the method is declared before it is consumed, and goes without consumers.
LEMMA RegistrationTypes ==
  ASSUME TypeOK, NEW f \in Funcs, Registration(f)
  PROVE  TypeOK'
<1>1. registered' \in [Funcs -> RegisterStates] /\ routed' \in BOOLEAN
  BY DEF Registration, Register, Registered, Unregister, Unregistered,
      UnregisterFails, Moves, TypeOK, RegisterStates
<1>2. /\ consumers' \subseteq Funcs \cup {Unowned}
      /\ leftover' \subseteq Leftovers
  BY DEF Registration, Register, Registered, Unregister, Unregistered,
      UnregisterFails, TypeOK, Leftovers
<1>3. CASE Unregister(f)
  <2>1. MethodGone \/ UNCHANGED <<method, message>>
    BY <1>3 DEF Unregister
  <2>2. DroppedAstray
    BY <1>3 DEF Unregister
  <2>3. consumers' # {} => method'
    BY <1>3 DEF Unregister, TypeOK
  <2> QED BY <1>1, <1>2, <1>3, <2>1, <2>2, <2>3, DroppedTypes
          DEF Unregister, TypeOK, caller, link, chosen
<1>4. CASE Register(f)
  <2>1. method' \in BOOLEAN /\ method'
    BY <1>4 DEF Register
  <2> QED BY <1>1, <1>2, <1>4, <2>1 DEF Register, TypeOK, caller, link, chosen,
          history
<1>5. CASE Registered(f) \/ Unregistered(f) \/ UnregisterFails(f)
  BY <1>1, <1>2, <1>5 DEF Registered, Unregistered, UnregisterFails, TypeOK, caller,
     link, chosen, broker, history
<1> QED BY <1>3, <1>4, <1>5 DEF Registration

\* What the loss and the restore of the server's channel do, apart.
ServerLink == ServerLost \/ ServerRestored

\* So do the loss and the restore of the server's channel.
LEMMA ServerLinkTypes ==
  ASSUME TypeOK, ServerLink
  PROVE  TypeOK'
<1>1. CASE ServerLost
  <2>1. /\ message' \in [Calls -> MessageStates]
        /\ method' \in BOOLEAN
        /\ astray' \subseteq Calls
    <3>1. CASE MethodGone
      BY <1>1, <3>1, DroppedTypes DEF ServerLost
    <3>2. CASE ~(methodAutoDelete /\ consumers # {})
      <4>1. message' \in [Calls -> MessageStates]
        BY <1>1, <3>2 DEF ServerLost, TypeOK, MessageStates
      <4> QED BY <1>1, <3>2, <4>1 DEF ServerLost, DroppedAstray, TypeOK
    <3> QED BY <1>1, <3>1, <3>2 DEF ServerLost
  <2>2. /\ serving' \in [Calls -> {"no", "run", "ack"}]
        /\ stale' \subseteq Calls /\ losses' \in 0..MaxLosses
    BY <1>1, RpcAssumption DEF ServerLost, TypeOK
  <2>3. /\ registered' \in [Funcs -> RegisterStates]
        /\ leftover' \subseteq Leftovers
        /\ consumers' = {} /\ serverOpen' \in BOOLEAN
    BY <1>1 DEF ServerLost, TypeOK, RegisterStates, Leftovers
  <2> QED BY <1>1, <2>1, <2>2, <2>3 DEF ServerLost, TypeOK, caller, link, chosen
<1>2. CASE ServerRestored
  <2>1. PICK alive \in SUBSET leftover :
           /\ consumers' = {f \in Funcs : registered[f] = "yes"}
                           \cup {x \in {Unowned} : "consumer" \in alive}
           /\ method' = (method \/ consumers' \cup alive # {})
    BY <1>2 DEF ServerRestored
  <2>2. /\ consumers' \subseteq Funcs \cup {Unowned}
        /\ consumers' # {} => consumers' \cup alive # {}
    BY <2>1
  <2>3. method' \in BOOLEAN /\ (consumers' # {} => method')
    BY <2>1, <2>2, Zenon DEF TypeOK
  <2>4. leftover' \subseteq Leftovers /\ serverOpen' \in BOOLEAN
    BY <1>2 DEF ServerRestored
  <2> QED BY <1>2, <2>2, <2>3, <2>4 DEF ServerRestored, TypeOK, caller, link, chosen,
          history
<1> QED BY <1>1, <1>2 DEF ServerLink

\* What a step of the caller's channel or of close() may change.
LinkStep ==
    Lost \/ OnClose \/ Reopen \/ Restored
    \/ Close \/ Cancelled \/ Unbound \/ QueueDeleted

\* The end of a consumer keeps the result queue well formed.
LEMMA ConsumerGoneTypes ==
  ASSUME TypeOK, ConsumerGone
  PROVE  /\ listening' = FALSE /\ resultQueue' \in BOOLEAN
         /\ replies' \subseteq Calls
         /\ replies' # {} => resultQueue'
BY DEF ConsumerGone, TypeOK

\* Losing and restoring the channel, and close(), keep the state well formed;
\* the queue is deleted without a consumer because close() cancelled it.
LEMMA LinkTypes ==
  ASSUME TypeOK, ClosingIsDeaf, LinkStep
  PROVE  TypeOK' /\ ClosingIsDeaf'
<1> USE RpcAssumption
<1>1. CASE Lost
  <2>1. /\ listening' = FALSE /\ resultQueue' \in BOOLEAN
        /\ replies' \subseteq Calls
        /\ replies' # {} => resultQueue'
    BY <1>1, ConsumerGoneTypes DEF Lost
  <2>2. rpc' \in CloseStates
    BY <1>1 DEF Lost, CloseRaises, TypeOK, CloseStates
  <2>3. losses' \in 0..MaxLosses /\ channel' \in ChannelStates
    BY <1>1 DEF Lost, TypeOK, ChannelStates
  <2> QED BY <1>1, <2>1, <2>2, <2>3 DEF Lost, TypeOK, ClosingIsDeaf, chosen,
          server, registry, history
<1>2. CASE OnClose
  BY <1>2 DEF OnClose, Resolve, TypeOK, ClosingIsDeaf, chosen, broker,
          server, registry, history, ChannelStates
<1>3. CASE Reopen
  BY <1>3 DEF Reopen, TypeOK, ClosingIsDeaf, chosen, broker, server, registry, history,
      ChannelStates
<1>4. CASE Restored
  BY <1>4 DEF Restored, TypeOK, ClosingIsDeaf, chosen, server, registry, history,
      ChannelStates
<1>5. CASE Close
  BY <1>5 DEF Close, TypeOK, ClosingIsDeaf, chosen, broker, server, registry, history,
      CloseStates
<1>6. CASE Cancelled
  <2>1. /\ listening' = FALSE /\ resultQueue' \in BOOLEAN
        /\ replies' \subseteq Calls
        /\ replies' # {} => resultQueue'
    BY <1>6, ConsumerGoneTypes DEF Cancelled
  <2> QED BY <1>6, <2>1 DEF Cancelled, TypeOK, ClosingIsDeaf, chosen, server, registry,
          history, CloseStates
<1>7. CASE Unbound
  BY <1>7 DEF Unbound, Resolve, TypeOK, ClosingIsDeaf, chosen, broker,
          server, registry, history, CloseStates
<1>8. CASE QueueDeleted
  <2>1. ~listening
    BY <1>8 DEF QueueDeleted, ClosingIsDeaf
  <2>2. /\ rpc' \in CloseStates /\ channel' \in ChannelStates
        /\ losses' \in 0..MaxLosses /\ returned' \subseteq Calls
    BY <1>8 DEF QueueDeleted, TypeOK, CloseStates, ChannelStates
  <2>3. /\ returns' \in BOOLEAN /\ resultQueue' \in BOOLEAN
        /\ replies' # {} => resultQueue'
    BY <1>8 DEF QueueDeleted, TypeOK
  <2> QED BY <1>8, <2>1, <2>2, <2>3 DEF QueueDeleted, TypeOK, ClosingIsDeaf,
          chosen, server, registry, history
<1> QED BY <1>1, <1>2, <1>3, <1>4, <1>5, <1>6, <1>7, <1>8 DEF LinkStep

\* Nothing but close() and the channel touches what ClosingIsDeaf is about.
LEMMA OthersKeepDeaf ==
  ASSUME ClosingIsDeaf, UNCHANGED <<rpc, listening>>
  PROVE  ClosingIsDeaf'
BY DEF ClosingIsDeaf

\* Every step keeps the state well formed.
LEMMA TypeStep == TypeOK /\ ClosingIsDeaf /\ [Next]_vars => (TypeOK /\ ClosingIsDeaf)'
<1> SUFFICES ASSUME TypeOK, ClosingIsDeaf, [Next]_vars
             PROVE  TypeOK' /\ ClosingIsDeaf'
  OBVIOUS
<1>1. ASSUME NEW c \in Calls, Caller(c) PROVE TypeOK' /\ ClosingIsDeaf'
  <2>1. UNCHANGED <<rpc, listening>>
    BY <1>1 DEF Caller, Call, Route, Confirmed, PublishFails, CallEnds,
        CallCancelled, DoRemove, OnReturned, OnResult, link, broker
  <2> QED BY <1>1, <2>1, CallerTypes, OthersKeepDeaf
<1>2. ASSUME NEW c \in Calls, Server(c) PROVE TypeOK' /\ ClosingIsDeaf'
  <2>1. UNCHANGED <<rpc, listening>>
    BY <1>2 DEF Server, Serve, Replies, Acks, Rejects, StaleReplies, Expires,
        caller, link
  <2> QED BY <1>2, <2>1, ServerTypes, OthersKeepDeaf
<1>4. ASSUME NEW f \in Funcs, Registration(f) PROVE TypeOK' /\ ClosingIsDeaf'
  <2>1. UNCHANGED <<rpc, listening>>
    BY <1>4 DEF Registration, Register, Registered, Unregister, Unregistered,
        UnregisterFails, caller, link, broker
  <2> QED BY <1>4, <2>1, RegistrationTypes, OthersKeepDeaf
<1>5. CASE LinkStep
  BY <1>5, LinkTypes
<1>6. CASE ServerLink
  <2>1. UNCHANGED <<rpc, listening>>
    BY <1>6 DEF ServerLink, ServerLost, ServerRestored, caller, link
  <2> QED BY <1>6, <2>1, ServerLinkTypes, OthersKeepDeaf
<1>7. CASE UNCHANGED vars
  BY <1>7 DEF TypeOK, ClosingIsDeaf, vars, caller, link, chosen, broker, server,
      registry, history
<1> QED BY <1>1, <1>2, <1>4, <1>5, <1>6, <1>7 DEF Next, LinkStep, ServerLink

-----------------------------------------------------------------------------
(* Safety. *)

Going(c) == call[c] \in {"publish", "confirm", "wait"}

\* What every step does to the futures: one that is done stays done, a call
\* that starts has an entry, and what is taken out is done.
FuturesKept ==
    /\ \A c \in Calls : Pending(c)' => Pending(c)
    /\ \A c \in Calls : Going(c)' => Going(c) \/ c \in futures'
    /\ \A c \in futures \ futures' : ~Pending(c)'

\* A future leaves the dictionary only when it is done, and one that is done
\* stays done: so a call that waits stays within reach.
LEMMA ReachableStep ==
  ASSUME TypeOK, PendingIsReachable, [Next]_vars
  PROVE  PendingIsReachable'
<1>1. SUFFICES FuturesKept
  BY DEF FuturesKept, PendingIsReachable, Going
<1>2. ASSUME NEW d \in Calls, Call(d) PROVE FuturesKept
  BY <1>2 DEF Call, TypeOK, FuturesKept, Going, Pending
<1>3. ASSUME NEW d \in Calls,
             Route(d) \/ Confirmed(d) \/ PublishFails(d) \/ CallEnds(d) PROVE FuturesKept
  BY <1>3 DEF Route, Confirmed, PublishFails, CallEnds, TypeOK, FuturesKept, Going, Pending
<1>4. ASSUME NEW d \in Calls, CallCancelled(d) PROVE FuturesKept
  BY <1>4 DEF CallCancelled, Resolve, TypeOK, FuturesKept, Going, Pending
<1>5. ASSUME NEW d \in Calls, DoRemove(d) PROVE FuturesKept
  BY <1>5 DEF DoRemove, TypeOK, FuturesKept, Going, Pending
<1>6. ASSUME NEW d \in Calls, OnReturned(d) PROVE FuturesKept
  BY <1>6 DEF OnReturned, Resolve, TypeOK, FuturesKept, Going, Pending
<1>7. ASSUME NEW d \in Calls, OnResult(d) PROVE FuturesKept
  BY <1>7 DEF OnResult, Resolve, TypeOK, FuturesKept, Going, Pending
<1>8. ASSUME OnClose \/ Unbound PROVE FuturesKept
  BY <1>8 DEF OnClose, Unbound, Resolve, TypeOK, FuturesKept, Going, Pending
<1>9. ASSUME UNCHANGED <<call, futures, done>> PROVE FuturesKept
  BY <1>9 DEF FuturesKept, Going, Pending
<1>10. ASSUME NEW c \in Calls, Server(c) PROVE UNCHANGED <<call, futures, done>>
  BY <1>10 DEF Server, Serve, Replies, Acks, Rejects, StaleReplies, Expires, caller
<1>11. ASSUME NEW f \in Funcs, Registration(f)
       PROVE  UNCHANGED <<call, futures, done>>
  BY <1>11 DEF Registration, Register, Registered, Unregister, Unregistered,
      UnregisterFails, caller
<1>12. ASSUME Lost \/ Reopen \/ Restored \/ Close \/ Cancelled \/ QueueDeleted
              \/ ServerLink \/ UNCHANGED vars
       PROVE  UNCHANGED <<call, futures, done>>
  BY <1>12 DEF Lost, Reopen, Restored, Close, Cancelled, QueueDeleted, ServerLink,
      ServerLost, ServerRestored, vars, caller
<1> QED BY <1>2, <1>3, <1>4, <1>5, <1>6, <1>7, <1>8, <1>9, <1>10, <1>11, <1>12
        DEF Next, Caller, ServerLink

\* The broker forgets a call when its acknowledgement or its rejection arrives,
\* or when it expires: the first follows the answer, the others make one.  It
\* drops calls with an auto-delete queue of the method only.
LEMMA AnsweredStep ==
  ASSUME TypeOK, AckAfterAnswer, AnsweredBeforeForgotten, [Next]_vars
  PROVE  AckAfterAnswer' /\ AnsweredBeforeForgotten'
<1>1. ASSUME NEW d \in Calls, Server(d)
      PROVE  AckAfterAnswer' /\ AnsweredBeforeForgotten'
  <2>1. UNCHANGED methodAutoDelete
    BY <1>1 DEF Server, Serve, Replies, Acks, Rejects, StaleReplies, Expires,
        server, registry
  <2>2. CASE Serve(d)
    BY <2>1, <2>2 DEF Serve, TypeOK, AckAfterAnswer, AnsweredBeforeForgotten
  <2>3. CASE Acks(d)
    BY <2>1, <2>3 DEF Acks, Settled, TypeOK, AckAfterAnswer,
       AnsweredBeforeForgotten, history
  <2>4. CASE Rejects(d)
    BY <2>1, <2>4 DEF Rejects, Settled, Send, TypeOK, AckAfterAnswer,
       AnsweredBeforeForgotten
  <2>5. CASE Replies(d) \/ StaleReplies(d) \/ Expires(d)
    <3>1. answered' = answered \cup {d}
      BY <2>5 DEF Replies, StaleReplies, Expires, Send
    <3> QED BY <2>1, <2>5, <3>1 DEF Replies, StaleReplies, Expires, TypeOK,
            AckAfterAnswer, AnsweredBeforeForgotten, server
  <2> QED BY <1>1, <2>2, <2>3, <2>4, <2>5 DEF Server
<1>2. CASE ServerLost
  BY <1>2 DEF ServerLost, MethodGone, TypeOK, AckAfterAnswer,
     AnsweredBeforeForgotten, caller, link, chosen
<1>3. ASSUME NEW f \in Funcs, Unregister(f)
      PROVE  AckAfterAnswer' /\ AnsweredBeforeForgotten'
  BY <1>3 DEF Unregister, MethodGone, TypeOK, AckAfterAnswer,
     AnsweredBeforeForgotten
<1>4. ASSUME NEW d \in Calls, Route(d)
      PROVE  AckAfterAnswer' /\ AnsweredBeforeForgotten'
  BY <1>4 DEF Route, TypeOK, AckAfterAnswer, AnsweredBeforeForgotten, server, registry
<1>5. ASSUME UNCHANGED <<message, serving, answered, methodAutoDelete>>
      PROVE  AckAfterAnswer' /\ AnsweredBeforeForgotten'
  BY <1>5 DEF AckAfterAnswer, AnsweredBeforeForgotten
<1>6. ASSUME NEW d \in Calls, Caller(d), ~Route(d)
      PROVE  UNCHANGED <<message, serving, answered, methodAutoDelete>>
  BY <1>6 DEF Caller, Call, Confirmed, PublishFails, CallEnds, CallCancelled,
      DoRemove, OnReturned, OnResult, broker, server, registry, history
<1>7. ASSUME NEW f \in Funcs, Registration(f), ~Unregister(f)
      PROVE  UNCHANGED <<message, serving, answered, methodAutoDelete>>
  BY <1>7 DEF Registration, Register, Registered, Unregistered, UnregisterFails,
      broker, history
<1>8. ASSUME LinkStep \/ ServerRestored \/ UNCHANGED vars
      PROVE  UNCHANGED <<message, serving, answered, methodAutoDelete>>
  BY <1>8 DEF LinkStep, Lost, OnClose, Reopen, Restored, Close, Cancelled, Unbound,
      QueueDeleted, ServerRestored, broker, server, registry, history, vars
<1> QED BY <1>1, <1>2, <1>3, <1>4, <1>5, <1>6, <1>7, <1>8 DEF Next, LinkStep

\* The consumer is lost with the channel, and comes back before it is open.
LEMMA ListensStep ==
  ASSUME ListensWhileOpen, [Next]_vars
  PROVE  ListensWhileOpen'
<1>1. CASE LinkStep
  BY <1>1 DEF LinkStep, Lost, OnClose, Reopen, Restored, Close, Cancelled, Unbound,
      QueueDeleted, CloseRaises, ConsumerGone, ListensWhileOpen, broker
<1>2. CASE UNCHANGED <<rpc, channel, listening>>
  BY <1>2 DEF ListensWhileOpen
<1>3. ASSUME NEW c \in Calls, Caller(c) PROVE UNCHANGED <<rpc, channel, listening>>
  BY <1>3 DEF Caller, Call, Route, Confirmed, PublishFails, CallEnds,
      CallCancelled, DoRemove, OnReturned, OnResult, link, broker
<1>4. ASSUME NEW c \in Calls, Server(c) PROVE UNCHANGED <<rpc, channel, listening>>
  BY <1>4 DEF Server, Serve, Replies, Acks, Rejects, StaleReplies, Expires,
      caller, link
<1>5. ASSUME NEW f \in Funcs, Registration(f)
      PROVE  UNCHANGED <<rpc, channel, listening>>
  BY <1>5 DEF Registration, Register, Registered, Unregister, Unregistered,
      UnregisterFails, caller, link, broker
<1>6. ASSUME ServerLink \/ UNCHANGED vars PROVE UNCHANGED <<rpc, channel, listening>>
  BY <1>6 DEF ServerLink, ServerLost, ServerRestored, vars, caller, link, broker
<1> QED BY <1>1, <1>2, <1>3, <1>4, <1>5, <1>6 DEF Next, LinkStep, ServerLink

\* What AnswerUnderWay says of one call.
OnItsWay(c) ==
    /\ rpc \in {"open", "cancel"}
    /\ channel = "open" => listening
    /\ \/ message[c] = "queued"
       \/ serving[c] = "run"
       \/ c \in returned
       \/ c \in replies
Told(c) ==
    call[c] \in {"confirm", "wait"} /\ Pending(c) =>
       c \in astray \/ channel = "lost" \/ rpc = "unbind" \/ OnItsWay(c)

\* A step of a call that does not resolve it: it is routed to the queue of the
\* method, or returned, or goes astray.
LEMMA CallerTold ==
  ASSUME TypeOK, PendingIsReachable, \A c \in Calls : Told(c),
         NEW d \in Calls, Caller(d), ListensWhileOpen, NEW c \in Calls
  PROVE  Told(c)'
<1>1. CASE Route(d)
  <2>1. CASE c = d
    <3>1. \/ c \in astray'
          \/ rpc \notin {"delete", "stuck", "closed"} /\ message'[c] = "queued"
          \/ rpc \notin {"delete", "stuck", "closed"} /\ c \in returned'
      BY <1>1, <2>1 DEF Route, Returned, Astray, TypeOK
    <3> QED BY <1>1, <2>1, <3>1 DEF Route, TypeOK, CloseStates, link, Told, OnItsWay,
            ListensWhileOpen
  <2>2. CASE c # d
    <3>1. /\ call'[c] = call[c] /\ message'[c] = message[c]
          /\ c \in returned => c \in returned'
          /\ c \in astray => c \in astray'
      BY <1>1, <2>2 DEF Route, Returned, Astray, TypeOK
    <3> QED BY <1>1, <3>1 DEF Route, link, server, Told, OnItsWay, Pending
  <2> QED BY <2>1, <2>2
<1>2. CASE Call(d) \/ Confirmed(d) \/ PublishFails(d) \/ CallEnds(d) \/ DoRemove(d)
  <2>1. call'[c] \in {"confirm", "wait"} => call[c] \in {"confirm", "wait"}
    BY <1>2 DEF Call, Confirmed, PublishFails, CallEnds, DoRemove, TypeOK
  <2> QED BY <1>2, <2>1 DEF Call, Confirmed, PublishFails, CallEnds, DoRemove, link,
          broker, server, history, Told, OnItsWay, Pending
<1>3. CASE CallCancelled(d)
  BY <1>3 DEF CallCancelled, Resolve, TypeOK, link, broker, server, history, Told,
     OnItsWay, Pending
<1>4. CASE OnReturned(d)
  <2>1. Pending(c)' => Pending(c)
    BY <1>4 DEF OnReturned, Resolve, Pending
  <2>2. CASE c = d
    BY <1>4, <2>2 DEF OnReturned, Resolve, PendingIsReachable, Told, Pending
  <2>3. CASE c # d
    BY <1>4, <2>1, <2>3 DEF OnReturned, link, server, history, Told, OnItsWay
  <2> QED BY <2>2, <2>3
<1>5. CASE OnResult(d)
  <2>1. Pending(c)' => Pending(c)
    BY <1>5 DEF OnResult, Resolve, Pending
  <2>2. CASE c = d
    BY <1>5, <2>2 DEF OnResult, Resolve, PendingIsReachable, Told, Pending
  <2>3. CASE c # d
    BY <1>5, <2>1, <2>3 DEF OnResult, link, server, history, Told, OnItsWay
  <2> QED BY <2>2, <2>3
<1> QED BY <1>1, <1>2, <1>3, <1>4, <1>5 DEF Caller

\* The server passes a call on: it serves or drops it, answers it, and
\* acknowledges it.
LEMMA ServerTold ==
  ASSUME TypeOK, ServedIsUnacked, \A c \in Calls : Told(c),
         NEW d \in Calls, Server(d), NEW c \in Calls
  PROVE  Told(c)' /\ ServedIsUnacked'
<1> USE DEF Told, OnItsWay, Pending, ServedIsUnacked, TypeOK
<1>1. CASE Serve(d)
  BY <1>1 DEF Serve, Astray, caller, link
<1>2. CASE Acks(d)
  BY <1>2 DEF Acks, Settled, caller, link, history
<1>3. CASE Replies(d) \/ Rejects(d) \/ StaleReplies(d) \/ Expires(d)
  <2>1. /\ astray \subseteq astray' /\ replies \subseteq replies'
        /\ d \in astray' \/ d \in replies'
    BY <1>3 DEF Replies, Rejects, StaleReplies, Expires, Send, Astray
  <2>2. UNCHANGED <<call, done, rpc, channel, listening, returned>>
    BY <1>3 DEF Replies, Rejects, StaleReplies, Expires, caller, link
  <2>3. c # d => message'[c] = message[c] /\ serving'[c] = serving[c]
    BY <1>3 DEF Replies, Rejects, StaleReplies, Expires, Settled, server
  <2>4. Told(c)'
    BY <2>1, <2>2, <2>3
  <2>5. ServedIsUnacked'
    BY <1>3, <2>2 DEF Replies, Rejects, StaleReplies, Expires, Settled, server,
       MessageStates
  <2> QED BY <2>4, <2>5
<1> QED BY <1>1, <1>2, <1>3 DEF Server

\* A call that its queue takes along goes astray, unless its handler goes on:
\* what is served is dropped under the handler, what waits has none.
LEMMA DroppedTold ==
  ASSUME TypeOK, ServedIsUnacked, NEW c \in Calls, Told(c), DroppedAstray,
         UNCHANGED <<call, done, rpc, channel, listening, returned, replies>>,
         serving' \in [Calls -> {"no", "run", "ack"}],
         message'[c] \in {message[c], "queued", "dropped"},
         message[c] = "queued" => message'[c] # "none" /\ serving'[c] = "no",
         serving[c] = "run" =>
            \/ serving'[c] = "run"
            \/ serving'[c] = "no" /\ message'[c] \in {"queued", "dropped"}
  PROVE  Told(c)'
<1>1. astray \subseteq astray'
  BY DEF DroppedAstray
<1>2. CASE message[c] = "queued"
  <2>1. c \in astray' \/ message'[c] = "queued"
    BY <1>2 DEF DroppedAstray
  <2> QED BY <1>1, <1>2, <2>1 DEF Told, OnItsWay, Pending
<1>3. CASE serving[c] = "run"
  <2>1. c \in astray' \/ message'[c] = "queued" \/ serving'[c] = "run"
    BY <1>3 DEF DroppedAstray, TypeOK
  <2> QED BY <1>1, <1>3, <2>1 DEF Told, OnItsWay, Pending
<1>4. CASE message[c] # "queued" /\ serving[c] # "run"
  BY <1>1, <1>4 DEF Told, OnItsWay, Pending
<1> QED BY <1>2, <1>3, <1>4

\* The loss and close() resolve what has no answer coming any more.
LEMMA LinkTold ==
  ASSUME TypeOK, PendingIsReachable, ListensWhileOpen', \A c \in Calls : Told(c),
         LinkStep, NEW c \in Calls
  PROVE  Told(c)'
<1> USE DEF Told, Pending
<1>1. CASE Lost
  BY <1>1 DEF Lost
<1>2. CASE OnClose \/ Unbound
  <2>1. c \in futures => ~Pending(c)'
    BY <1>2 DEF OnClose, Unbound, Resolve
  <2>2. call[c] \in {"confirm", "wait"} /\ Pending(c) => c \in futures
    BY DEF PendingIsReachable
  <2> QED BY <1>2, <2>1, <2>2 DEF OnClose, Unbound, Resolve
<1>3. CASE Reopen \/ Close
  BY <1>3 DEF Reopen, Close, broker, server, history, OnItsWay
<1>4. CASE Restored
  BY <1>4 DEF Restored, server, history, OnItsWay
<1>5. CASE Cancelled
  BY <1>5 DEF Cancelled
<1>6. CASE QueueDeleted
  BY <1>6 DEF QueueDeleted, server, history, OnItsWay
<1> QED BY <1>1, <1>2, <1>3, <1>4, <1>5, <1>6 DEF LinkStep

\* Whoever waits keeps having something to wait for.
LEMMA ToldStep ==
  ASSUME TypeOK, ServedIsUnacked, ListensWhileOpen, PendingIsReachable,
         AnswerUnderWay, [Next]_vars
  PROVE  AnswerUnderWay' /\ ServedIsUnacked'
<1>1. AnswerUnderWay <=> \A c \in Calls : Told(c)
  BY DEF AnswerUnderWay, Told, OnItsWay
<1>2. AnswerUnderWay' <=> \A c \in Calls : Told(c)'
  BY DEF AnswerUnderWay, Told, OnItsWay, Pending
<1>3. \A c \in Calls : Told(c)
  BY <1>1
<1>4. ASSUME NEW d \in Calls, Caller(d)
      PROVE  (\A c \in Calls : Told(c)') /\ ServedIsUnacked'
  <2>1. ServedIsUnacked'
    BY <1>4 DEF Caller, Call, Route, Confirmed, PublishFails, CallEnds,
        CallCancelled, DoRemove, OnReturned, OnResult, broker, server,
        ServedIsUnacked, TypeOK
  <2> QED BY <1>3, <1>4, <2>1, CallerTold
<1>5. ASSUME NEW d \in Calls, Server(d)
      PROVE  (\A c \in Calls : Told(c)') /\ ServedIsUnacked'
  BY <1>3, <1>5, ServerTold
<1>6. ASSUME NEW f \in Funcs, Unregister(f)
      PROVE  (\A c \in Calls : Told(c)') /\ ServedIsUnacked'
  <2>1. ASSUME NEW c \in Calls
        PROVE  \/ message'[c] = message[c]
               \/ message[c] \in {"queued", "unacked"} /\ message'[c] = "dropped"
    BY <1>6 DEF Unregister, MethodGone
  <2>2. UNCHANGED <<call, done, rpc, channel, listening, returned, replies, serving>>
    BY <1>6 DEF Unregister, caller, link
  <2>3. ASSUME NEW c \in Calls PROVE Told(c)'
    <3>1. message[c] = "queued" => message'[c] # "none" /\ serving'[c] = "no"
      BY <2>1, <2>2 DEF ServedIsUnacked
    <3> QED BY <1>3, <1>6, <2>1, <2>2, <3>1, DroppedTold DEF Unregister, TypeOK
  <2>4. ServedIsUnacked'
    BY <2>1, <2>2 DEF ServedIsUnacked
  <2> QED BY <2>3, <2>4
<1>7. ASSUME NEW f \in Funcs, Registration(f), ~Unregister(f)
      PROVE  (\A c \in Calls : Told(c)') /\ ServedIsUnacked'
  <2>1. UNCHANGED <<call, done, rpc, channel, listening, message, serving,
                    returned, replies, astray>>
    BY <1>7 DEF Registration, Register, Registered, Unregistered, UnregisterFails,
        caller, link, broker, history
  <2> QED BY <1>3, <2>1 DEF Told, OnItsWay, Pending, ServedIsUnacked
<1>8. ASSUME LinkStep PROVE (\A c \in Calls : Told(c)') /\ ServedIsUnacked'
  <2>1. ServedIsUnacked'
    BY <1>8 DEF LinkStep, Lost, OnClose, Reopen, Restored, Close, Cancelled, Unbound,
        QueueDeleted, broker, server, ServedIsUnacked
  <2> QED BY <1>3, <1>8, <2>1, LinkTold, ListensStep
<1>9. ASSUME ServerLost PROVE (\A c \in Calls : Told(c)') /\ ServedIsUnacked'
  <2>1. ASSUME NEW c \in Calls
        PROVE  \/ message'[c] = message[c] /\ message[c] # "unacked"
               \/ message[c] \in {"queued", "unacked"}
                  /\ message'[c] \in {"queued", "dropped"}
    BY <1>9 DEF ServerLost, MethodGone
  <2>2. UNCHANGED <<call, done, rpc, channel, listening, returned, replies>>
    BY <1>9 DEF ServerLost, caller, link
  <2>3. serving' = [c \in Calls |-> "no"] /\ DroppedAstray
    BY <1>9 DEF ServerLost
  <2>4. ASSUME NEW c \in Calls PROVE Told(c)'
    <3>1. message'[c] \in {message[c], "queued", "dropped"}
      BY <2>1
    <3>2. message[c] = "queued" => message'[c] # "none" /\ serving'[c] = "no"
      BY <2>1, <2>3
    <3>3. serving[c] = "run" =>
             serving'[c] = "no" /\ message'[c] \in {"queued", "dropped"}
      BY <2>1, <2>3 DEF ServedIsUnacked
    <3> QED BY <1>3, <2>2, <2>3, <3>1, <3>2, <3>3, DroppedTold
  <2>5. ServedIsUnacked'
    BY <2>1, <2>2, <2>3 DEF ServedIsUnacked
  <2> QED BY <2>4, <2>5
<1>10. ASSUME ServerRestored \/ UNCHANGED vars
       PROVE  (\A c \in Calls : Told(c)') /\ ServedIsUnacked'
  BY <1>3, <1>10 DEF ServerRestored, vars, caller, link, broker, server, history,
     Told, OnItsWay, Pending, ServedIsUnacked
<1> QED BY <1>2, <1>4, <1>5, <1>6, <1>7, <1>8, <1>9, <1>10 DEF Next, LinkStep

\* A new RPC satisfies the invariant.
LEMMA RpcInit == Init => RpcInv
<1> SUFFICES ASSUME Init PROVE RpcInv
  OBVIOUS
<1>1. /\ call \in [Calls -> CallStates]
      /\ message \in [Calls -> MessageStates]
      /\ registered \in [Funcs -> RegisterStates]
      /\ serving \in [Calls -> {"no", "run", "ack"}]
  BY DEF Init, CallStates, MessageStates, RegisterStates
<1>2. /\ rpc \in CloseStates /\ channel \in ChannelStates /\ losses \in 0..MaxLosses
      /\ <<autoDelete, methodAutoDelete>> \in AutoDeletes
  BY RpcAssumption DEF Init, CloseStates, ChannelStates
<1>3. /\ returns \in BOOLEAN /\ method \in BOOLEAN /\ resultQueue \in BOOLEAN
      /\ listening \in BOOLEAN /\ resultQueue
      /\ serverOpen \in BOOLEAN /\ routed \in BOOLEAN
  BY Zenon DEF Init
<1>4. TypeOK
  BY <1>1, <1>2, <1>3 DEF Init, TypeOK
<1> QED BY <1>4 DEF Init, RpcInv, ClosingIsDeaf, PendingIsReachable, AckAfterAnswer,
        AnsweredBeforeForgotten, ListensWhileOpen, ServedIsUnacked, AnswerUnderWay

\* The inductive invariant holds: it needs that close() leaves no consumer
\* behind (for the types of the result queue), that an acknowledgement is sent
\* after the answer (for the calls the broker forgets), and that what is served
\* is not queued (for the calls an auto-delete queue of the method takes along).
THEOREM RpcInvariant == Spec => []RpcInv
<1>1. RpcInv /\ [Next]_vars => RpcInv'
  BY TypeStep, ReachableStep, AnsweredStep, ListensStep, ToldStep DEF RpcInv
<1> QED BY RpcInit, <1>1, PTL DEF Spec

\* The state is always well formed; in particular nobody consumes a result
\* queue that does not exist, and no answer lies in one.
THEOREM RpcTypes == Spec => []TypeOK
<1>1. RpcInv => TypeOK
  BY DEF RpcInv
<1> QED BY RpcInvariant, <1>1, PTL

\* A call() that waits has its future in RPC.futures until that is done, so a
\* result, a returned message, a loss or close() can end it.
THEOREM PendingIsReachableHolds == Spec => []PendingIsReachable
<1>1. RpcInv => PendingIsReachable
  BY DEF RpcInv
<1> QED BY RpcInvariant, <1>1, PTL

\* No call waits for nothing: until it is resolved, or went astray (with an
\* auto-delete queue of the method, for one), its answer is under way or the loss
\* or close() is about to resolve it.
THEOREM AnswerUnderWayHolds == Spec => []AnswerUnderWay
<1>1. RpcInv => AnswerUnderWay
  BY DEF RpcInv
<1> QED BY RpcInvariant, <1>1, PTL

\* No call is forgotten by the broker before an answer to it was sent, whenever
\* the server loses its channel or unregisters, but those that an auto-delete
\* queue of the method takes along.
THEOREM AnsweredBeforeForgottenHolds == Spec => []AnsweredBeforeForgotten
<1>1. RpcInv => AnsweredBeforeForgotten
  BY DEF RpcInv
<1> QED BY RpcInvariant, <1>1, PTL
=============================================================================
