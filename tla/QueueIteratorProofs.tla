------------------------ MODULE QueueIteratorProofs ------------------------
(***************************************************************************)
(* Proofs about QueueIterator.tla, on top of those about the settlement of *)
(* messages, for any messages, any number of deliveries and consumers, and *)
(* any modes.                                                              *)
(***************************************************************************)
EXTENDS QueueIterator, SettlementProofs

\* The deliveries taken out of the buffer by close().
Taken ==
    {d \in DOMAIN message :
        handler[d] = "buffer" /\ \A i \in DOMAIN buffer : buffer[i] # d}

\* The buffer holds live deliveries once, and nobody else has them; close()
\* waits for the settlement of one it took out.
BufferHolds ==
    /\ \A i, j \in DOMAIN buffer : buffer[i] = buffer[j] /\ buffer[i] # Stale => i = j
    /\ \A i \in DOMAIN buffer : buffer[i] # Stale => handler[buffer[i]] = "buffer"
    /\ \A d \in Deliveries : handler[d] = "buffer" => other[d] = "no"
    /\ closer = "nack" => closing \in {Stale} \cup Taken

\* A closed channel leaves only stale messages in the buffer.
StaleWhenClosed ==
    ~channel => DOMAIN message = {} /\ \A i \in DOMAIN buffer : buffer[i] = Stale

\* While the iterator asks for a consumer it has no tag.
NoTagYet == iter \in {"consume", "consumed"} => tag = 0 /\ asked # 0

\* What a restore consumes again is the iterator's tag, or is being cancelled.
RecordedHasOwner ==
    stranded \/ recorded \subseteq
       ({tag} \cup (IF closer \in {"cancel", "cancelled"} THEN {closing} ELSE {}))

\* The buffer of an iterator without a tag holds live messages only while
\* close() runs, or after the broker started a consumer that has no tag yet.
LiveHasReader ==
    /\ channel
    /\ ~mode.no_ack
    /\ tag = 0
    /\ closer = "idle"
    /\ ~stranded
    /\ ~(iter = "consumed" /\ asked \in consumers)
    => \A i \in DOMAIN buffer : buffer[i] = Stale

IterInv ==
    /\ TypeOK
    /\ NoAckProcessed
    /\ FreshIsFree
    /\ BufferHolds
    /\ StaleWhenClosed
    /\ NoTagYet
    /\ RecordedHasOwner
    /\ ConsumerHasOwner
    /\ LiveHasReader
    /\ Clean(Touched \cup Taken)

-----------------------------------------------------------------------------
(* Kinds of steps. *)

\* The steps of the iterator that leave messages and settlements alone.
IterateOnly ==
    \/ StartConsume \/ Consumed \/ ConsumeOk \/ ConsumeAgain \/ ConsumeCancelled
    \/ Anext \/ AnextTimeout \/ AnextCancelled \/ Close
    \/ Cancelled \/ CancelOk \/ Drained \/ RequeueStale \/ CloseAborted

\* The steps of the handlers and of the broker.
SettleOnly == Settle \/ BrokerSteps \/ Restore

LEMMA StepKinds ==
  ASSUME [Next]_vars
  PROVE  \/ IterateOnly /\ UNCHANGED settleVars
         \/ SettleOnly /\ SettleNext
         \/ \E m \in Msgs : Receive(m)
         \/ Yield
         \/ Requeue
         \/ Requeued
         \/ UNCHANGED vars
<1>1. IterateOnly => UNCHANGED settleVars
  BY DEF IterateOnly, StartConsume, Consumed, ConsumeOk, ConsumeAgain,
     ConsumeCancelled, Anext, AnextTimeout, AnextCancelled, Close, Cancelled, CancelOk,
     Drained, RequeueStale, CloseAborted
<1>2. SettleOnly => SettleNext
  BY DEF SettleOnly, Settle, BrokerSteps, Restore, SettleNext
<1> QED BY <1>1, <1>2 DEF Next, Iterate, IterateOnly, SettleOnly

\* What the type invariant says of the buffer.
LEMMA BufferTypes ==
  ASSUME TypeOK
  PROVE  /\ SettleTypeOK
         /\ buffer \in Seq({Stale} \cup DOMAIN message)
         /\ DOMAIN buffer = 1..Len(buffer) /\ Len(buffer) \in Nat
         /\ \A i \in DOMAIN buffer : buffer[i] = Stale \/ buffer[i] \in DOMAIN message
         /\ Stale \notin Deliveries
<1>1. buffer \in Seq({Stale} \cup DOMAIN message)
  BY DEF TypeOK
<1>2. \A i \in 1..Len(buffer) : buffer[i] \in {Stale} \cup DOMAIN message
  BY <1>1, ElementOfSeq
<1> QED BY <1>1, <1>2, SettlementAssumption DEF TypeOK, Deliveries, Stale

\* The oldest message of the buffer, and the rest.
LEMMA BufferHead ==
  ASSUME TypeOK, buffer # << >>
  PROVE  /\ Tail(buffer) \in Seq({Stale} \cup DOMAIN message)
         /\ Len(Tail(buffer)) \in Nat /\ Len(buffer) = Len(Tail(buffer)) + 1
         /\ DOMAIN Tail(buffer) = 1..Len(Tail(buffer))
         /\ \A i \in DOMAIN Tail(buffer) : i + 1 \in DOMAIN buffer
                                           /\ Tail(buffer)[i] = buffer[i + 1]
         /\ Head(buffer) = buffer[1] /\ 1 \in DOMAIN buffer
<1> DEFINE S == {Stale} \cup DOMAIN message
<1>1. buffer \in Seq(S) /\ DOMAIN buffer = 1..Len(buffer) /\ Len(buffer) \in Nat
  BY BufferTypes
<1> HIDE DEF S
<1>2. /\ Tail(buffer) \in Seq(S) /\ Len(Tail(buffer)) = Len(buffer) - 1
      /\ \A i \in 1..Len(Tail(buffer)) : Tail(buffer)[i] = buffer[i + 1]
  BY <1>1, HeadTailProperties
<1>3. Len(buffer) # 0 /\ Head(buffer) = buffer[1]
  BY <1>1
<1> QED BY <1>1, <1>2, <1>3 DEF S

-----------------------------------------------------------------------------
(* Types. *)

\* The part of TypeOK that is about the iterator.
IterTypeOK ==
    /\ consumers \subseteq Consumers
    /\ recorded \subseteq Consumers
    /\ asked \in 0..MaxConsumers
    /\ tag \in 0..MaxConsumers
    /\ callback \in BOOLEAN
    /\ buffer \in Seq({Stale} \cup DOMAIN message)
    /\ iter \in IterStates
    /\ closer \in CloserStates
    /\ closing \in Nat
    /\ stranded \in BOOLEAN

LEMMA TypeParts == /\ TypeOK <=> SettleTypeOK /\ IterTypeOK
                   /\ TypeOK' <=> SettleTypeOK' /\ IterTypeOK'
BY DEF TypeOK, IterTypeOK

LEMMA IterateOnlyTypes ==
  ASSUME TypeOK, NoTagYet, IterateOnly, UNCHANGED settleVars
  PROVE  TypeOK'
<1> USE IteratorAssumption DEF Consumers, IterStates, CloserStates, CloseReturns
<1>1. SettleTypeOK' /\ message' = message
  BY DEF TypeOK, SettleTypeOK, settleVars
<1>2. CASE StartConsume
  BY <1>1, <1>2 DEF StartConsume, TypeOK
<1>3. CASE Consumed
  BY <1>1, <1>3 DEF Consumed, TypeOK, NoTagYet
<1>4. CASE ConsumeOk
  BY <1>1, <1>4 DEF ConsumeOk, TypeOK
<1>5. CASE ConsumeCancelled
  <2>1. stranded' \in BOOLEAN
    BY <1>5, Zenon DEF ConsumeCancelled
  <2> QED BY <1>1, <1>5, <2>1 DEF ConsumeCancelled, TypeOK
<1>6. CASE ConsumeAgain \/ Anext \/ AnextTimeout
  BY <1>1, <1>6 DEF ConsumeAgain, Anext, AnextTimeout, TypeOK
<1>7. CASE BeginClose /\ UNCHANGED <<consumers, recorded, asked, buffer>>
           /\ iter' \in IterStates
  <2>1. stranded' \in BOOLEAN /\ callback' \in BOOLEAN
    BY <1>7 DEF BeginClose, TypeOK
  <2> QED BY <1>1, <1>7, <2>1 DEF BeginClose, TypeOK
<1>8. CASE Close \/ AnextCancelled
  BY <1>7, <1>8 DEF Close, AnextCancelled, TypeOK
<1>9. CASE Cancelled
  <2>1. consumers' \subseteq Consumers
    BY <1>9 DEF Cancelled, TypeOK
  <2> QED BY <1>1, <1>9, <2>1 DEF Cancelled, TypeOK
<1>13. CASE CancelOk
  <2>1. recorded' \subseteq Consumers
    BY <1>13 DEF CancelOk, TypeOK
  <2> QED BY <1>1, <1>13, <2>1 DEF CancelOk, TypeOK
<1>10. CASE CloseAborted
  BY <1>1, <1>10 DEF CloseAborted, TypeOK, Stale
<1>11. CASE Drained
  <2>1. buffer' \in Seq({Stale} \cup DOMAIN message')
    BY <1>11 DEF Drained
  <2> QED BY <1>1, <1>11, <2>1 DEF Drained, TypeOK
<1>12. CASE RequeueStale
  <2>1. buffer' \in Seq({Stale} \cup DOMAIN message')
    BY <1>1, <1>12, BufferHead DEF RequeueStale
  <2> QED BY <1>1, <1>12, <2>1 DEF RequeueStale, TypeOK
<1> QED BY <1>2, <1>3, <1>4, <1>5, <1>6, <1>8, <1>9, <1>10, <1>11, <1>12, <1>13
        DEF IterateOnly

LEMMA SettleOnlyTypes ==
  ASSUME TypeOK, SettleOnly, SettleNext
  PROVE  TypeOK'
<1>1. SettleTypeOK'
  BY SettleTypeStep, TypeParts
<1>2. CASE Settle
  <2>1. DOMAIN message \subseteq DOMAIN message'
    <3>1. ASSUME NEW m \in Msgs, Get(m) PROVE DOMAIN message \subseteq DOMAIN message'
      BY <3>1, DeliverTypes, TypeParts DEF Get, HandlerStates
    <3>2. ASSUME NEW d \in DOMAIN message, Handle(d) \/ Select
          PROVE  message' = message
      BY <3>2, HandleKeeps DEF Select
    <3>3. Select => message' = message
      BY DEF Select
    <3> QED BY <1>2, <3>1, <3>2, <3>3 DEF Settle
  <2>2. PICK S, T : S = {Stale} \cup DOMAIN message /\ T = {Stale} \cup DOMAIN message'
    OBVIOUS
  <2>3. buffer' \in Seq(T)
    <3>1. buffer \in Seq(S) /\ buffer' = buffer /\ S \subseteq T
      BY <1>2, <2>1, <2>2, BufferTypes DEF Settle, iterVars
    <3> QED BY <3>1, SeqMonotonic
  <2> QED BY <1>1, <1>2, <2>2, <2>3, TypeParts DEF Settle, iterVars, IterTypeOK
<1>3. CASE BrokerSteps
  <2>1. buffer' \in Seq({Stale} \cup DOMAIN message')
    <3>1. CASE channel'
      <4>1. message' = message
        BY <1>3, <3>1 DEF BrokerSteps, ReadFrame, CloseChannel, Commit, Rollback,
           NotTransactional, ChannelGone
      <4> QED BY <1>3, <3>1, <4>1, BufferTypes DEF BrokerSteps
    <3>2. CASE ~channel'
      <4>1. buffer' = [i \in 1..Len(buffer) |-> Stale] /\ Len(buffer) \in Nat
        BY <1>3, <3>2, BufferTypes DEF BrokerSteps
      <4> QED BY <4>1, IsASeq
    <3> QED BY <3>1, <3>2
  <2>2. /\ consumers' \subseteq Consumers /\ closing' \in Nat
        /\ UNCHANGED <<recorded, asked, tag, callback, iter, closer, stranded>>
    BY <1>3, TypeParts DEF BrokerSteps, IterTypeOK, Stale
  <2> QED BY <1>1, <2>1, <2>2, TypeParts DEF IterTypeOK
<1>4. CASE Restore
  BY <1>1, <1>4, TypeParts DEF Restore, ReopenChannel, IterTypeOK
<1> QED BY <1>2, <1>3, <1>4 DEF SettleOnly

LEMMA ReceiveTypes ==
  ASSUME TypeOK, NEW m \in Msgs, Receive(m)
  PROVE  TypeOK'
<1>1. Deliver(m, "buffer") /\ "buffer" \in HandlerStates
  BY DEF Receive, HandlerStates
<1>2. PICK n, S, T : /\ n = Len(message) + 1 /\ S = {Stale} \cup DOMAIN message
                     /\ T = {Stale} \cup DOMAIN message'
  OBVIOUS
<1>3. SettleTypeOK' /\ n \in T /\ S \subseteq T
  BY <1>1, <1>2, DeliverTypes, TypeParts
<1>4. buffer \in Seq(S) /\ buffer' = Append(buffer, n)
  BY <1>2, BufferTypes DEF Receive
<1>5. buffer' \in Seq(T)
  BY <1>3, <1>4, SeqMonotonic, AppendProperties
<1> QED BY <1>2, <1>3, <1>5, TypeParts DEF Receive, IterTypeOK

\* Yield and the requeueing of a message take the oldest one.
LEMMA TakeTypes ==
  ASSUME TypeOK, BufferHolds, Yield \/ Requeue \/ Requeued
  PROVE  TypeOK'
<1> USE DEF CloserStates, IterStates, HandlerStates
<1>1. message' = message
  BY DEF Yield, Requeue, Requeued
<1>2. CASE Yield
  <2>1. handler' \in [Deliveries -> HandlerStates]
    BY <1>2 DEF Yield, TypeOK, SettleTypeOK
  <2>2. SettleTypeOK'
    BY <1>2, <2>1 DEF Yield, TypeOK, SettleTypeOK
  <2>3. buffer' \in Seq({Stale} \cup DOMAIN message')
    BY <1>1, <1>2, BufferHead DEF Yield
  <2> QED BY <1>2, <2>2, <2>3, TypeParts DEF Yield, IterTypeOK
<1>3. CASE Requeue
  <2>1. Head(buffer) \in DOMAIN message
    BY <1>3, BufferHead, BufferTypes DEF Requeue
  <2>2. frames' \in Seq([delivery: DOMAIN message, kind: Kinds])
    BY <1>3, <2>1, SendTypes, BufferTypes DEF Requeue, Kinds
  <2>3. SettleTypeOK'
    BY <1>3, <2>2 DEF Requeue, TypeOK, SettleTypeOK
  <2>4. buffer' \in Seq({Stale} \cup DOMAIN message')
    BY <1>1, <1>3, BufferHead DEF Requeue
  <2>5. closing' \in Nat
    BY <1>3, <2>1, BufferTypes, SettlementAssumption, FrameTypes DEF Requeue
  <2> QED BY <1>3, <2>3, <2>4, <2>5, TypeParts DEF Requeue, IterTypeOK
<1>4. CASE Requeued
  <2>1. handler' \in [Deliveries -> HandlerStates]
    BY <1>4 DEF Requeued, TypeOK, SettleTypeOK
  <2>2. processed' \subseteq DOMAIN message
    BY <1>4 DEF Requeued, Settled, BufferHolds, Taken, TypeOK, SettleTypeOK
  <2>3. SettleTypeOK'
    BY <1>4, <2>1, <2>2 DEF Requeued, TypeOK, SettleTypeOK
  <2> QED BY <1>1, <1>4, <2>3, TypeParts DEF Requeued, IterTypeOK
<1> QED BY <1>2, <1>3, <1>4

LEMMA IterTypeStep ==
  ASSUME TypeOK, BufferHolds, NoTagYet, [Next]_vars
  PROVE  TypeOK'
<1>1. ASSUME UNCHANGED vars PROVE TypeOK'
  BY <1>1 DEF vars, settleVars, iterVars, TypeOK, SettleTypeOK
<1> QED BY <1>1, StepKinds, IterateOnlyTypes, SettleOnlyTypes, ReceiveTypes, TakeTypes

-----------------------------------------------------------------------------
(* Consumers and their owners. *)

OwnerInv == NoTagYet /\ RecordedHasOwner /\ ConsumerHasOwner

\* Every consumer of the broker and every recorded one keeps its owner through
\* the steps of the iterator: the tag passes it on to the close() that starts,
\* and a step that would leave one behind is stranded.
LEMMA OwnerIterateOnly ==
  ASSUME TypeOK, OwnerInv, IterateOnly
  PROVE  OwnerInv'
<1> USE DEF OwnerInv, NoTagYet, RecordedHasOwner, ConsumerHasOwner, CloseReturns
<1>1. /\ consumers \subseteq Consumers /\ recorded \subseteq Consumers
      /\ 0 \notin Consumers /\ asked \in Nat /\ tag \in Nat
  BY IteratorAssumption DEF TypeOK, Consumers
<1>2. CASE StartConsume
  BY <1>1, <1>2 DEF StartConsume
<1>3. CASE Consumed
  BY <1>1, <1>3 DEF Consumed
<1>4. CASE ConsumeOk
  BY <1>1, <1>4 DEF ConsumeOk
<1>5. CASE ConsumeAgain \/ ConsumeCancelled
  BY <1>1, <1>5 DEF ConsumeAgain, ConsumeCancelled
<1>6. CASE Anext \/ AnextTimeout
  BY <1>1, <1>6 DEF Anext, AnextTimeout
<1>7. CASE Close
  BY <1>1, <1>7 DEF Close, BeginClose
<1>8. CASE AnextCancelled
  BY <1>1, <1>8 DEF AnextCancelled, BeginClose
<1>9. CASE Cancelled \/ CancelOk
  BY <1>1, <1>9 DEF Cancelled, CancelOk
<1>10. CASE Drained \/ RequeueStale \/ CloseAborted
  BY <1>1, <1>10 DEF Drained, RequeueStale, CloseAborted
<1> QED BY <1>2, <1>3, <1>4, <1>5, <1>6, <1>7, <1>8, <1>9, <1>10 DEF IterateOnly

\* A channel that closes has no consumers, and a restore makes those again that
\* are recorded.
LEMMA OwnerStep ==
  ASSUME TypeOK, OwnerInv, [Next]_vars
  PROVE  OwnerInv'
<1> USE DEF OwnerInv, NoTagYet, RecordedHasOwner, ConsumerHasOwner
<1>1. CASE Restore
  BY <1>1 DEF Restore
<1>2. CASE BrokerSteps
  BY <1>2 DEF BrokerSteps
<1>3. CASE Yield
  BY <1>3 DEF Yield
<1>4. CASE Requeue \/ Requeued
  BY <1>4 DEF Requeue, Requeued
<1>5. CASE UNCHANGED <<consumers, recorded, asked, tag, iter, closer, closing, stranded>>
  BY <1>5
<1>6. ASSUME NEW m \in Msgs, Receive(m) PROVE OwnerInv'
  BY <1>5, <1>6 DEF Receive
<1>7. CASE Settle \/ UNCHANGED vars
  BY <1>5, <1>7 DEF Settle, iterVars, vars
<1> QED BY <1>1, <1>2, <1>3, <1>4, <1>6, <1>7, StepKinds, OwnerIterateOnly DEF SettleOnly

-----------------------------------------------------------------------------
(* What the buffer holds when nobody reads it. *)

\* A closed channel leaves no deliveries and only stale messages behind, and
\* nothing is received on it.
LEMMA StaleStep ==
  ASSUME TypeOK, BufferHolds, StaleWhenClosed, [Next]_vars
  PROVE  StaleWhenClosed'
<1> USE DEF StaleWhenClosed
<1>1. CASE IterateOnly /\ UNCHANGED settleVars
  <2>1. \/ UNCHANGED buffer
        \/ buffer' = << >>
        \/ buffer' = Tail(buffer) /\ buffer # << >>
    BY <1>1 DEF IterateOnly, StartConsume, Consumed, ConsumeOk, ConsumeAgain,
       ConsumeCancelled, Anext, AnextTimeout, AnextCancelled, Close, Cancelled,
       CancelOk, Drained, RequeueStale, CloseAborted
  <2>2. CASE buffer' = Tail(buffer) /\ buffer # << >>
    BY <1>1, <2>2, BufferHead DEF settleVars
  <2> QED BY <1>1, <2>1, <2>2 DEF settleVars
<1>2. CASE BrokerSteps
  <2>1. ~channel' => DOMAIN message' = {}
    BY <1>2 DEF BrokerSteps, ReadFrame, CloseChannel, Commit, Rollback,
       NotTransactional, ChannelGone, Answers
  <2> QED BY <1>2, <2>1 DEF BrokerSteps
<1>3. CASE Restore
  BY <1>3 DEF Restore, ReopenChannel
<1>4. CASE Settle
  <2>1. ASSUME NEW m \in Msgs, Get(m) PROVE channel'
    BY <2>1 DEF Get, Deliver
  <2>2. ASSUME NEW d \in DOMAIN message, Handle(d)
        PROVE  UNCHANGED <<channel, message>>
    BY <2>2, HandleKeeps
  <2>3. Select => channel'
    BY DEF Select, Answers
  <2> QED BY <1>4, <2>1, <2>2, <2>3 DEF Settle, iterVars
<1>5. ASSUME NEW m \in Msgs, Receive(m) PROVE StaleWhenClosed'
  BY <1>5 DEF Receive, Deliver
<1>6. CASE Yield
  BY <1>6, BufferHead DEF Yield
<1>7. CASE Requeue \/ Requeued
  BY <1>7, BufferHead DEF Requeue, Requeued
<1>8. CASE UNCHANGED vars
  BY <1>8 DEF vars, settleVars, iterVars
<1> QED BY <1>1, <1>2, <1>3, <1>4, <1>5, <1>6, <1>7, <1>8, StepKinds DEF SettleOnly

\* Nothing changes what LiveHasReader is about but the iterator and the channel.
LEMMA LiveKept ==
  ASSUME LiveHasReader, mode' = mode, channel' => channel, \/ UNCHANGED buffer
                                                          \/ \A i \in DOMAIN buffer' :
                                                                buffer'[i] = Stale,
         UNCHANGED <<asked, tag, iter, closer, stranded, consumers>>
  PROVE  LiveHasReader'
BY DEF LiveHasReader

\* A message comes into the buffer of a consumer with an owner, and an owner
\* that goes takes the messages with it, or is stranded.
LEMMA LiveIterateOnly ==
  ASSUME TypeOK, OwnerInv, LiveHasReader, IterateOnly, UNCHANGED settleVars
  PROVE  LiveHasReader'
<1> USE DEF LiveHasReader, CloseReturns
<1>1. /\ UNCHANGED <<channel, mode>>
      /\ consumers \subseteq Consumers /\ 0 \notin Consumers
  BY DEF settleVars, TypeOK, Consumers
<1>2. CASE StartConsume \/ Anext \/ AnextTimeout
  BY <1>1, <1>2 DEF StartConsume, Anext, AnextTimeout
<1>3. CASE Consumed
  BY <1>1, <1>3 DEF Consumed
<1>4. CASE ConsumeOk
  BY <1>1, <1>4 DEF ConsumeOk
<1>5. CASE ConsumeAgain \/ ConsumeCancelled
  BY <1>1, <1>5 DEF ConsumeAgain, ConsumeCancelled
<1>6. CASE Close
  BY <1>1, <1>6 DEF Close, BeginClose
<1>7. CASE AnextCancelled
  BY <1>1, <1>7 DEF AnextCancelled, BeginClose
<1>8. CASE Cancelled \/ CancelOk
  BY <1>1, <1>8 DEF Cancelled, CancelOk
<1>9. CASE Drained \/ RequeueStale \/ CloseAborted
  <2>1. Drained => \A i \in DOMAIN buffer' : buffer'[i] = Stale
    BY DEF Drained
  <2> QED BY <1>1, <1>9, <2>1 DEF Drained, RequeueStale, CloseAborted
<1> QED BY <1>2, <1>3, <1>4, <1>5, <1>6, <1>7, <1>8, <1>9 DEF IterateOnly

LEMMA LiveStep ==
  ASSUME TypeOK, OwnerInv, StaleWhenClosed, LiveHasReader, [Next]_vars
  PROVE  LiveHasReader'
<1>1. CASE Restore
  BY <1>1 DEF Restore, ReopenChannel, StaleWhenClosed, LiveHasReader
<1>2. CASE BrokerSteps
  <2>1. mode' = mode /\ (channel' => channel)
    BY <1>2 DEF BrokerSteps, ReadFrame, CloseChannel, Commit, Rollback,
       NotTransactional, ChannelGone, Answers
  <2>2. CASE channel'
    BY <1>2, <2>1, <2>2, LiveKept DEF BrokerSteps
  <2>3. CASE ~channel'
    BY <2>3 DEF LiveHasReader
  <2> QED BY <2>2, <2>3
<1>3. CASE Settle
  <2>1. ASSUME NEW m \in Msgs, Get(m) PROVE mode' = mode /\ (channel' => channel)
    BY <2>1 DEF Get, Deliver
  <2>2. ASSUME NEW d \in DOMAIN message, Handle(d)
        PROVE  mode' = mode /\ (channel' => channel)
    BY <2>2, HandleKeeps
  <2>3. Select => mode' = mode /\ (channel' => channel)
    BY DEF Select
  <2> QED BY <1>3, <2>1, <2>2, <2>3, LiveKept DEF Settle, iterVars
<1>4. ASSUME NEW m \in Msgs, Receive(m) PROVE LiveHasReader'
  <2>1. consumers # {} /\ consumers \subseteq Consumers /\ 0 \notin Consumers
    BY <1>4 DEF Receive, TypeOK, Consumers
  <2> QED BY <1>4, <2>1 DEF Receive, OwnerInv, ConsumerHasOwner, LiveHasReader
<1>5. CASE Yield
  BY <1>5, BufferHead DEF Yield, LiveHasReader
<1>6. CASE Requeue
  BY <1>6 DEF Requeue, LiveHasReader
<1>7. CASE Requeued
  BY <1>7 DEF Requeued, LiveHasReader
<1>8. CASE UNCHANGED vars
  BY <1>8 DEF vars, settleVars, iterVars, LiveHasReader
<1> QED BY <1>1, <1>2, <1>3, <1>4, <1>5, <1>6, <1>7, <1>8, StepKinds, LiveIterateOnly
        DEF SettleOnly

-----------------------------------------------------------------------------
(* Who has a delivery. *)

\* A step of a handler leaves the messages in the buffer to the iterator.
LEMMA HandleBuffered ==
  ASSUME TypeOK, BufferHolds, NEW d \in DOMAIN message, Handle(d)
  PROVE  /\ handler[d] # "buffer" /\ handler'[d] # "buffer"
         /\ \A e \in Deliveries : e # d => /\ handler'[e] = handler[e]
                                          /\ other'[e] = other[e]
<1>1. d \in Deliveries /\ SettleTypeOK
  BY FrameTypes, TypeParts
<1>2. handler[d] # "buffer"
  BY <1>1 DEF BufferHolds, Handle, BodyEnds, BodySettles, BodySettled, BodyCancelled,
     ExitEnds, OtherSettles, OtherSettled
<1>3. handler'[d] # "buffer"
  BY <1>1, <1>2 DEF SettleTypeOK, Handle, BodyEnds, Exit, ExitUnchanged, BodySettles,
     BodySettled, BodyCancelled, ExitEnds, OtherSettles, OtherSettled
<1>4. \A e \in Deliveries : e # d => handler'[e] = handler[e] /\ other'[e] = other[e]
  BY <1>1 DEF SettleTypeOK, Handle, BodyEnds, Exit, ExitUnchanged, BodySettles,
     BodySettled, BodyCancelled, ExitEnds, OtherSettles, OtherSettled
<1> QED BY <1>2, <1>3, <1>4

\* A new message goes to the end of the buffer, or straight to its handler.
LEMMA DeliverHolds ==
  ASSUME TypeOK, BufferHolds, FreshIsFree, NEW m \in Msgs, NEW n,
         n = Len(message) + 1, NEW where \in HandlerStates, Deliver(m, where),
         \/ where # "buffer" /\ buffer' = buffer
         \/ where = "buffer" /\ buffer' = Append(buffer, n),
         UNCHANGED <<closer, closing>>
  PROVE  BufferHolds' /\ Taken' = Taken
<1>1. /\ DOMAIN message' = DOMAIN message \cup {n} /\ n \notin DOMAIN message
      /\ n \in Deliveries /\ DOMAIN message \subseteq Deliveries /\ n # Stale
  BY DeliverTypes, FrameTypes, BufferTypes
<1>2. /\ handler'[n] = where /\ other' = other /\ other[n] = "no"
      /\ \A d \in Deliveries : d # n => handler'[d] = handler[d]
  BY <1>1, TypeParts DEF Deliver, SettleTypeOK, FreshIsFree
<1>3. /\ \A i \in DOMAIN buffer : buffer[i] # n
      /\ DOMAIN buffer = 1..Len(buffer) /\ Len(buffer) \in Nat
      /\ \A i \in DOMAIN buffer : buffer[i] = Stale \/ buffer[i] \in DOMAIN message
  BY <1>1, BufferTypes
<1>4. CASE where # "buffer" /\ buffer' = buffer
  <2>1. Taken' = Taken
    BY <1>1, <1>2, <1>4 DEF Taken
  <2>2. \A i \in DOMAIN buffer : buffer[i] # Stale => handler'[buffer[i]] = "buffer"
    BY <1>1, <1>2, <1>3 DEF BufferHolds
  <2> QED BY <1>1, <1>2, <1>4, <2>1, <2>2 DEF BufferHolds
<1>5. CASE where = "buffer" /\ buffer' = Append(buffer, n)
  <2>1. /\ DOMAIN buffer' = 1..(Len(buffer) + 1) /\ buffer'[Len(buffer) + 1] = n
        /\ \A i \in DOMAIN buffer : buffer'[i] = buffer[i]
    <3>1. buffer \in Seq({Stale} \cup DOMAIN message)
      BY BufferTypes
    <3>2. buffer \in Seq(Nat) /\ n \in Nat
      BY <1>1, <3>1, FrameTypes, SeqMonotonic, TypeParts DEF Stale, Deliveries
    <3> QED BY <1>3, <1>5, <3>2, AppendProperties
  <2>2. Taken' = Taken
    <3>1. \A d \in DOMAIN message :
             (\A i \in DOMAIN buffer' : buffer'[i] # d)
                <=> (\A i \in DOMAIN buffer : buffer[i] # d)
      BY <1>1, <1>3, <2>1
    <3>2. n \notin Taken'
      BY <1>3, <2>1 DEF Taken
    <3> QED BY <1>1, <1>2, <3>1, <3>2 DEF Taken
  <2>3. \A i, j \in DOMAIN buffer' :
           buffer'[i] = buffer'[j] /\ buffer'[i] # Stale => i = j
    BY <1>3, <2>1 DEF BufferHolds
  <2>4. \A i \in DOMAIN buffer' : buffer'[i] # Stale => handler'[buffer'[i]] = "buffer"
    <3>1. ASSUME NEW i \in DOMAIN buffer, buffer[i] # Stale
          PROVE  handler'[buffer[i]] = "buffer"
      BY <1>1, <1>2, <1>3, <3>1 DEF BufferHolds
    <3>2. \A i \in DOMAIN buffer' : i \in DOMAIN buffer \/ i = Len(buffer) + 1
      BY <1>3, <2>1
    <3>3. handler'[n] = "buffer"
      BY <1>2, <1>5
    <3> QED BY <2>1, <3>1, <3>2, <3>3
  <2>5. \A d \in Deliveries : handler'[d] = "buffer" => other'[d] = "no"
    BY <1>2 DEF BufferHolds
  <2> QED BY <2>2, <2>3, <2>4, <2>5 DEF BufferHolds
<1> QED BY <1>4, <1>5

\* The oldest message leaves the buffer: what is left is in it once.
LEMMA TailHolds ==
  ASSUME TypeOK, BufferHolds, buffer # << >>, buffer' = Tail(buffer)
  PROVE  /\ \A i, j \in DOMAIN buffer' :
              buffer'[i] = buffer'[j] /\ buffer'[i] # Stale => i = j
         /\ \A i \in DOMAIN buffer' :
              buffer'[i] # Stale => /\ handler[buffer'[i]] = "buffer"
                                    /\ buffer'[i] \in DOMAIN message
                                    /\ buffer'[i] # Head(buffer)
         /\ \A d : d # Head(buffer) =>
              ((\A i \in DOMAIN buffer' : buffer'[i] # d)
                  <=> (\A i \in DOMAIN buffer : buffer[i] # d))
<1>1. /\ Len(buffer') \in Nat /\ Len(buffer) = Len(buffer') + 1
      /\ DOMAIN buffer' = 1..Len(buffer') /\ DOMAIN buffer = 1..Len(buffer)
      /\ \A i \in DOMAIN buffer' : i + 1 \in DOMAIN buffer /\ buffer'[i] = buffer[i + 1]
      /\ Head(buffer) = buffer[1] /\ 1 \in DOMAIN buffer
  BY BufferHead, BufferTypes
<1>2. ASSUME NEW i \in DOMAIN buffer', NEW j \in DOMAIN buffer',
             buffer'[i] = buffer'[j], buffer'[i] # Stale
      PROVE  i = j
  <2>1. i + 1 = j + 1
    BY <1>1, <1>2 DEF BufferHolds
  <2> QED BY <1>1, <2>1
<1>3. ASSUME NEW i \in DOMAIN buffer', buffer'[i] # Stale
      PROVE  /\ handler[buffer'[i]] = "buffer" /\ buffer'[i] \in DOMAIN message
             /\ buffer'[i] # Head(buffer)
  <2>1. i + 1 # 1
    BY <1>1
  <2> QED BY <1>1, <1>3, <2>1, BufferTypes DEF BufferHolds
<1>4. ASSUME NEW d, d # Head(buffer), NEW i \in DOMAIN buffer, buffer[i] = d
      PROVE  \E j \in DOMAIN buffer' : buffer'[j] = d
  <2>1. i # 1 /\ i - 1 \in DOMAIN buffer' /\ (i - 1) + 1 = i
    BY <1>1, <1>4
  <2> QED BY <1>1, <1>4, <2>1
<1>5. ASSUME NEW d, NEW i \in DOMAIN buffer', buffer'[i] = d
      PROVE  \E j \in DOMAIN buffer : buffer[j] = d
  BY <1>1, <1>5
<1> QED BY <1>2, <1>3, <1>4, <1>5

-----------------------------------------------------------------------------
(* Settlements of the iterator and of the handlers. *)

\* The set of deliveries that may have a settlement, as Clean() takes it.
Settling == Touched \cup Taken

\* A set that does not change with the state stands for it.
LEMMA CleanSettling ==
  /\ \A T : T = Settling => (Clean(T) <=> Clean(Touched \cup Taken))
  /\ \A T : (\A d \in DOMAIN message' \ torn' : d \in T <=> d \in Settling') =>
           (Clean(T)' <=> Clean(Touched \cup Taken)')
BY DEF Clean, CleanFor, Settling

\* close() that ends leaves nothing in the buffer that could be settled, and
\* the other steps of the iterator leave the deliveries alone.
LEMMA HoldsIterateOnly ==
  ASSUME TypeOK, BufferHolds, StaleWhenClosed, NoAckProcessed,
         Clean(Touched \cup Taken), IterateOnly, UNCHANGED settleVars
  PROVE  BufferHolds' /\ Clean(Touched \cup Taken)'
<1> USE DEF CloseReturns
<1>1. \/ buffer' = buffer
      \/ buffer' = << >> /\ (buffer = << >> \/ ~channel \/ mode.no_ack)
      \/ buffer # << >> /\ buffer' = Tail(buffer) /\ Head(buffer) = Stale
  BY DEF IterateOnly, StartConsume, Consumed, ConsumeOk, ConsumeAgain,
     ConsumeCancelled, Anext, AnextTimeout, AnextCancelled, Close, Cancelled,
     CancelOk, Drained, RequeueStale, CloseAborted
<1>2. closer' = "nack" => closer = "nack" /\ closing' = closing /\ buffer' = buffer
  BY DEF IterateOnly, StartConsume, Consumed, ConsumeOk, ConsumeAgain,
     ConsumeCancelled, Anext, AnextTimeout, AnextCancelled, Close, BeginClose,
     Cancelled, CancelOk, Drained, RequeueStale, CloseAborted
<1>3. UNCHANGED <<mode, channel, message, frames, unacked, torn, processed, handler, other>>
  BY DEF settleVars
<1>4. Stale \notin DOMAIN message
  BY BufferTypes, FrameTypes
<1>5. /\ \A i, j \in DOMAIN buffer' :
           buffer'[i] = buffer'[j] /\ buffer'[i] # Stale => i = j
      /\ \A i \in DOMAIN buffer' : buffer'[i] # Stale => handler[buffer'[i]] = "buffer"
  <2>1. CASE buffer' = buffer
    BY <2>1 DEF BufferHolds
  <2>2. CASE buffer' = << >>
    BY <2>2
  <2>3. CASE buffer # << >> /\ buffer' = Tail(buffer)
    BY <2>3, TailHolds
  <2> QED BY <1>1, <2>1, <2>2, <2>3
<1>6. buffer' = buffer => Taken' = Taken
  BY <1>3 DEF Taken
<1>7. BufferHolds'
  BY <1>2, <1>3, <1>5, <1>6 DEF BufferHolds
<1>8. PICK T : T = Settling
  OBVIOUS
<1>9. Settling' = T
  <2>1. CASE buffer' = buffer
    BY <1>3, <1>6, <1>8, <2>1 DEF Settling, Touched
  <2>2. CASE buffer # << >> /\ buffer' = Tail(buffer) /\ Head(buffer) = Stale
    <3>1. Taken' = Taken
      <4>1. \A d \in DOMAIN message :
               (\A i \in DOMAIN buffer' : buffer'[i] # d)
                  <=> (\A i \in DOMAIN buffer : buffer[i] # d)
        BY <1>4, <2>2, TailHolds
      <4> QED BY <1>3, <4>1 DEF Taken
    <3> QED BY <1>3, <1>8, <3>1 DEF Settling, Touched
  <2>3. CASE buffer = << >> /\ buffer' = << >>
    BY <2>1, <2>3
  <2>4. CASE ~channel
    BY <1>3, <1>8, <2>4 DEF StaleWhenClosed, Settling, Touched, Taken
  <2>5. CASE mode.no_ack
    BY <1>3, <1>8, <2>5 DEF NoAckProcessed, Settling, Touched, Taken
  <2> QED BY <1>1, <2>1, <2>2, <2>3, <2>4, <2>5
<1>10. Clean(T)
  BY <1>8, CleanSettling
<1>11. Clean(T)'
  BY <1>3, <1>10, QuietClean
<1> QED BY <1>7, <1>9, <1>11, CleanSettling

\* The handlers of messages, which are not in the buffer any more.
LEMMA HoldsSettle ==
  ASSUME TypeOK, BufferHolds, NoAckProcessed, FreshIsFree,
         Clean(Touched \cup Taken), Settle
  PROVE  BufferHolds' /\ Clean(Touched \cup Taken)'
<1>0. PICK T, T2 : T = Settling /\ T2 = Settling'
  OBVIOUS
<1>1. Clean(T) /\ SettleTypeOK /\ UNCHANGED <<buffer, closer, closing>>
  BY <1>0, CleanSettling, TypeParts DEF Settle, iterVars
<1>2. SUFFICES BufferHolds' /\ Clean(T2)'
  BY <1>0, CleanSettling
<1>3. ASSUME NEW m \in Msgs, Get(m) PROVE BufferHolds' /\ Clean(T2)'
  <2>1. Deliver(m, "body") /\ "body" \in HandlerStates
    BY <1>3 DEF Get, HandlerStates
  <2>2. PICK n : n = Len(message) + 1
    OBVIOUS
  <2>3. BufferHolds' /\ Taken' = Taken
    BY <1>1, <2>1, <2>2, DeliverHolds
  <2>4. /\ DOMAIN message' = DOMAIN message \cup {n} /\ n \notin DOMAIN message
        /\ n \in Deliveries /\ DOMAIN message \subseteq Deliveries
    BY <1>1, <2>1, <2>2, DeliverTypes, FrameTypes
  <2>5. /\ \A e \in DOMAIN message : handler'[e] = handler[e]
        /\ handler'[n] = "body" /\ other' = other /\ other[n] = "no"
    BY <1>1, <2>1, <2>2, <2>4 DEF Deliver, SettleTypeOK, FreshIsFree
  <2>6. /\ \A e \in DOMAIN message : e \in processed' <=> e \in processed
        /\ n \in processed' <=> mode.no_ack
    BY <1>1, <2>1, <2>2, <2>4 DEF Deliver, SettleTypeOK
  <2>7. T2 \cap DOMAIN message = T \cap DOMAIN message
    BY <1>0, <2>3, <2>4, <2>5, <2>6 DEF Settling, Touched
  <2>8. n \in T2 <=> mode.no_ack
    BY <1>0, <2>3, <2>4, <2>5, <2>6 DEF Settling, Touched, Taken
  <2>9. Clean(T2)'
    BY <1>1, <2>1, <2>2, <2>7, <2>8, DeliverClean
  <2> QED BY <2>3, <2>9
<1>4. ASSUME NEW d \in DOMAIN message, Handle(d) PROVE BufferHolds' /\ Clean(T2)'
  <2>1. /\ handler[d] # "buffer" /\ handler'[d] # "buffer"
        /\ \A e \in Deliveries : e # d => handler'[e] = handler[e] /\ other'[e] = other[e]
        /\ message' = message /\ DOMAIN message \subseteq Deliveries
    BY <1>1, <1>4, HandleBuffered, HandleKeeps, FrameTypes
  <2>2. Taken' = Taken
    BY <1>1, <2>1 DEF Taken
  <2>3. BufferHolds'
    <3>1. \A i \in DOMAIN buffer : buffer[i] # Stale => buffer[i] \in Deliveries
      BY <2>1, BufferTypes
    <3>2. \A i \in DOMAIN buffer : buffer[i] # Stale => buffer[i] # d
      BY <2>1 DEF BufferHolds
    <3> QED BY <1>1, <2>1, <2>2, <3>1, <3>2 DEF BufferHolds
  <2>4. PICK U : U = T \cup Touched'
    OBVIOUS
  <2>5. Touched \subseteq T /\ T \cap {d} \subseteq Touched
    BY <1>0, <2>1 DEF Settling, Taken
  <2>6. Clean(U)'
    BY <1>1, <1>4, <2>4, <2>5, HandleClean
  <2>7. \A e : e \notin torn' => (e \in U <=> e \in T2)
    BY <1>0, <1>1, <1>4, <2>2, <2>4, TouchedStays DEF Settling
  <2>8. Clean(T2)'
    BY <2>6, <2>7 DEF Clean, CleanFor
  <2> QED BY <2>3, <2>8
<1>5. CASE Select
  <2>1. UNCHANGED <<message, frames, unacked, torn, processed, handler, other>>
    BY <1>5 DEF Select
  <2>2. T2 = T /\ Taken' = Taken
    BY <1>0, <1>1, <2>1 DEF Settling, Touched, Taken
  <2>3. Clean(T2)'
    BY <1>1, <2>1, <2>2, QuietClean
  <2>4. BufferHolds'
    BY <1>1, <2>1, <2>2 DEF BufferHolds
  <2> QED BY <2>3, <2>4
<1> QED BY <1>3, <1>4, <1>5 DEF Settle

\* The broker reads a settlement, and the channel closes and comes back.
LEMMA HoldsBroker ==
  ASSUME TypeOK, BufferHolds, StaleWhenClosed, Clean(Touched \cup Taken),
         BrokerSteps \/ Restore
  PROVE  BufferHolds' /\ Clean(Touched \cup Taken)'
<1>0. PICK T : T = Settling
  OBVIOUS
<1>1. Clean(T) /\ SettleTypeOK
  BY <1>0, CleanSettling, TypeParts
<1>2. CASE DOMAIN message' = {} /\ BrokerSteps /\ ~channel'
  <2>1. \A d \in Deliveries : handler'[d] = "buffer" => other'[d] = "no"
    <3>1. CASE ChannelGone
      BY <3>1 DEF ChannelGone
    <3>2. CASE UNCHANGED <<handler, other>>
      BY <3>2 DEF BufferHolds
    <3> QED BY <1>2, <3>1, <3>2 DEF BrokerSteps, ReadFrame, CloseChannel, Commit,
            Rollback, NotTransactional
  <2>2. buffer' = [i \in DOMAIN buffer |-> Stale] /\ UNCHANGED closer
        /\ (closer = "nack" => closing' = Stale)
    BY <1>2 DEF BrokerSteps
  <2> QED BY <1>2, <2>1, <2>2 DEF BufferHolds, Clean
<1>3. CASE /\ UNCHANGED <<message, processed, handler, other, buffer, closer, closing>>
           /\ Clean(T)'
  <2>1. Settling' = T /\ Taken' = Taken
    BY <1>0, <1>3 DEF Settling, Touched, Taken
  <2>2. BufferHolds'
    BY <1>3, <2>1 DEF BufferHolds
  <2> QED BY <1>3, <2>1, <2>2, CleanSettling
<1>4. CASE Restore
  <2>1. UNCHANGED <<message, processed, handler, other, buffer, closer, closing>>
    BY <1>4 DEF Restore, ReopenChannel
  <2>2. Clean(T)'
    BY <1>1, <1>4, TearClean DEF Restore, ReopenChannel
  <2> QED BY <1>3, <2>1, <2>2
<1>5. CASE BrokerSteps
  <2>1. \/ DOMAIN message' = {} /\ ~channel'
        \/ channel' /\ UNCHANGED <<message, processed, handler, other>>
    BY <1>1, <1>5, ChannelGoneTypes DEF BrokerSteps, ReadFrame, CloseChannel, Commit,
       Rollback, NotTransactional, Answers, StaleWhenClosed
  <2>2. Clean(T)' \/ DOMAIN message' = {}
    BY <1>1, <1>5, ReadFrameClean, BrokerClean DEF BrokerSteps
  <2>3. Clean(T)'
    BY <2>2 DEF Clean
  <2> QED BY <1>2, <1>3, <1>5, <2>1, <2>3 DEF BrokerSteps
<1> QED BY <1>4, <1>5

\* A message is received: nobody settles it yet.
LEMMA HoldsReceive ==
  ASSUME TypeOK, BufferHolds, FreshIsFree, Clean(Touched \cup Taken),
         NEW m \in Msgs, Receive(m)
  PROVE  BufferHolds' /\ Clean(Touched \cup Taken)'
<1>0. PICK T, T2, n : T = Settling /\ T2 = Settling' /\ n = Len(message) + 1
  OBVIOUS
<1>1. Clean(T) /\ SettleTypeOK /\ Deliver(m, "buffer") /\ "buffer" \in HandlerStates
  BY <1>0, CleanSettling, TypeParts DEF Receive, HandlerStates
<1>2. BufferHolds' /\ Taken' = Taken
  BY <1>0, <1>1, DeliverHolds DEF Receive
<1>3. /\ DOMAIN message' = DOMAIN message \cup {n} /\ n \notin DOMAIN message
      /\ n \in Deliveries /\ DOMAIN message \subseteq Deliveries
  BY <1>0, <1>1, DeliverTypes, FrameTypes
<1>4. /\ \A e \in DOMAIN message : handler'[e] = handler[e]
      /\ handler'[n] = "buffer" /\ other' = other /\ other[n] = "no"
  BY <1>0, <1>1, <1>3 DEF Deliver, SettleTypeOK, FreshIsFree
<1>5. /\ \A e \in DOMAIN message : e \in processed' <=> e \in processed
      /\ n \in processed' <=> mode.no_ack
  BY <1>0, <1>1, <1>3 DEF Deliver, SettleTypeOK
<1>6. T2 \cap DOMAIN message = T \cap DOMAIN message
  BY <1>0, <1>2, <1>3, <1>4, <1>5 DEF Settling, Touched
<1>7. n \in T2 <=> mode.no_ack
  <2>1. n \notin Taken
    BY <1>3 DEF Taken
  <2> QED BY <1>0, <1>2, <1>3, <1>4, <1>5, <2>1 DEF Settling, Touched
<1>8. Clean(T2)'
  BY <1>0, <1>1, <1>6, <1>7, DeliverClean
<1> QED BY <1>0, <1>2, <1>8, CleanSettling

\* The oldest message goes to its handler, unsettled.
LEMMA HoldsYield ==
  ASSUME TypeOK, BufferHolds, Clean(Touched \cup Taken), Yield
  PROVE  BufferHolds' /\ Clean(Touched \cup Taken)'
<1>0. PICK T, h : T = Settling /\ h = Head(buffer)
  OBVIOUS
<1>1. /\ Clean(T) /\ DOMAIN message \subseteq Deliveries
      /\ buffer # << >> /\ buffer' = Tail(buffer)
      /\ UNCHANGED <<message, frames, unacked, torn, processed, other, closer, closing>>
  BY <1>0, CleanSettling, TypeParts, FrameTypes DEF Yield
<1>2. /\ \A d \in Deliveries : handler'[d] = IF d = h THEN "body" ELSE handler[d]
      /\ 1 \in DOMAIN buffer /\ h = buffer[1]
  BY <1>0, <1>1, BufferHead DEF Yield
<1>3. Taken' = Taken
  <2>1. \A d : d # h => ((\A i \in DOMAIN buffer' : buffer'[i] # d)
                         <=> (\A i \in DOMAIN buffer : buffer[i] # d))
    BY <1>0, <1>1, TailHolds
  <2>2. h \notin Taken /\ h \notin Taken'
    BY <1>1, <1>2 DEF Taken
  <2>3. ASSUME NEW d \in DOMAIN message, d # h PROVE d \in Taken' <=> d \in Taken
    BY <1>1, <1>2, <2>1, <2>3 DEF Taken
  <2> QED BY <1>1, <2>2, <2>3 DEF Taken
<1>4. BufferHolds'
  <2>1. \A i, j \in DOMAIN buffer' :
           buffer'[i] = buffer'[j] /\ buffer'[i] # Stale => i = j
    BY <1>1, TailHolds
  <2>2. \A i \in DOMAIN buffer' : buffer'[i] # Stale => handler'[buffer'[i]] = "buffer"
    BY <1>0, <1>1, <1>2, TailHolds
  <2>3. \A d \in Deliveries : handler'[d] = "buffer" => other'[d] = "no"
    BY <1>1, <1>2 DEF BufferHolds
  <2> QED BY <1>1, <1>3, <2>1, <2>2, <2>3 DEF BufferHolds
<1>5. \A d \in DOMAIN message : d \in Settling' <=> d \in T
  <2>1. handler[h] = "buffer" \/ h \notin DOMAIN message
    BY <1>1, <1>2, BufferTypes DEF BufferHolds
  <2> QED BY <1>0, <1>1, <1>2, <1>3, <2>1 DEF Settling, Touched
<1>6. Clean(T)'
  BY <1>1, QuietClean
<1> QED BY <1>1, <1>4, <1>5, <1>6, CleanSettling

\* close() settles the oldest message, which nobody else has.
LEMMA HoldsRequeue ==
  ASSUME TypeOK, BufferHolds, Clean(Touched \cup Taken), Requeue
  PROVE  BufferHolds' /\ Clean(Touched \cup Taken)'
<1>0. PICK T, h : T = Settling /\ h = Head(buffer)
  OBVIOUS
<1>1. /\ Clean(T) /\ DOMAIN message \subseteq Deliveries
      /\ buffer # << >> /\ buffer' = Tail(buffer) /\ h # Stale
      /\ UNCHANGED <<message, unacked, torn, processed, handler, other>>
      /\ Send(h, "requeue") /\ closing' = h /\ h \notin processed
  BY <1>0, CleanSettling, TypeParts, FrameTypes DEF Requeue, Send, CanSettle
<1>2. 1 \in DOMAIN buffer /\ h = buffer[1] /\ h \in DOMAIN message
  BY <1>0, <1>1, BufferHead, BufferTypes
<1>3. h \notin T
  <2>1. handler[h] = "buffer" /\ other[h] = "no"
    BY <1>1, <1>2 DEF BufferHolds
  <2> QED BY <1>0, <1>1, <1>2, <2>1 DEF Settling, Touched, Taken
<1>4. Taken' = Taken \cup {h}
  <2>1. \A d : d # h => ((\A i \in DOMAIN buffer' : buffer'[i] # d)
                         <=> (\A i \in DOMAIN buffer : buffer[i] # d))
    BY <1>0, <1>1, TailHolds
  <2>2. handler[h] = "buffer"
    BY <1>1, <1>2 DEF BufferHolds
  <2>3. \A i \in DOMAIN buffer' : buffer'[i] # h
    BY <1>0, <1>1, TailHolds
  <2>4. h \in Taken'
    BY <1>1, <1>2, <2>2, <2>3 DEF Taken
  <2>5. ASSUME NEW d \in DOMAIN message, d # h PROVE d \in Taken' <=> d \in Taken
    BY <1>1, <2>1, <2>5 DEF Taken
  <2> QED BY <1>1, <1>2, <2>4, <2>5 DEF Taken
<1>5. BufferHolds'
  BY <1>1, <1>4, TailHolds DEF BufferHolds
<1>6. Clean(T \cup {h})'
  BY <1>1, <1>2, <1>3, SendClean, TypeParts
<1>7. Settling' = T \cup {h}
  BY <1>0, <1>1, <1>4 DEF Settling, Touched
<1> QED BY <1>5, <1>6, <1>7, CleanSettling

\* ... and the message is processed then.
LEMMA HoldsRequeued ==
  ASSUME TypeOK, BufferHolds, Clean(Touched \cup Taken), Requeued
  PROVE  BufferHolds' /\ Clean(Touched \cup Taken)'
<1>0. PICK T, c : T = Settling /\ c = closing
  OBVIOUS
<1>1. /\ Clean(T) /\ DOMAIN message \subseteq Deliveries /\ Stale \notin DOMAIN message
      /\ UNCHANGED <<message, frames, unacked, torn, other, buffer>>
      /\ c \in {Stale} \cup Taken /\ closer' = "drain"
      /\ processed' = IF c = Stale THEN processed ELSE processed \cup {c}
  BY <1>0, CleanSettling, TypeParts, FrameTypes, BufferTypes
     DEF Requeued, BufferHolds, Settled
<1>2. \A d \in Deliveries : handler'[d] = IF d = c THEN "over" ELSE handler[d]
  BY <1>0 DEF Requeued
<1>3. \A d \in DOMAIN message : d \in Settling' <=> d \in T
  BY <1>0, <1>1, <1>2 DEF Settling, Touched, Taken
<1>4. BufferHolds'
  <2>1. \A i \in DOMAIN buffer : buffer[i] # Stale => /\ buffer[i] \in DOMAIN message
                                                    /\ buffer[i] # c
    BY <1>1, BufferTypes DEF Taken
  <2> QED BY <1>1, <1>2, <2>1 DEF BufferHolds
<1>5. Clean(T)'
  BY <1>1, QuietClean
<1> QED BY <1>1, <1>3, <1>4, <1>5, CleanSettling

-----------------------------------------------------------------------------
(* The invariant and what follows from it. *)

LEMMA HoldsStep ==
  ASSUME TypeOK, BufferHolds, StaleWhenClosed, NoAckProcessed, FreshIsFree,
         Clean(Touched \cup Taken), [Next]_vars
  PROVE  BufferHolds' /\ Clean(Touched \cup Taken)'
<1>1. ASSUME UNCHANGED vars PROVE BufferHolds' /\ Clean(Touched \cup Taken)'
  BY <1>1 DEF vars, settleVars, iterVars, BufferHolds, Touched, Taken, Clean, CleanFor,
     HasFrame, FramedOnce
<1> QED BY <1>1, StepKinds, HoldsIterateOnly, HoldsSettle, HoldsBroker, HoldsReceive,
        HoldsYield, HoldsRequeue, HoldsRequeued DEF SettleOnly

\* A message that the iterator handles itself is processed and free as any other.
LEMMA SettlementStep ==
  ASSUME TypeOK, NoAckProcessed, FreshIsFree, [Next]_vars
  PROVE  NoAckProcessed' /\ FreshIsFree'
<1>1. CASE [SettleNext]_settleVars
  BY <1>1, NoAckStep, FreshStep, TypeParts
<1>2. ASSUME NEW m \in Msgs, Receive(m) PROVE NoAckProcessed' /\ FreshIsFree'
  <2>1. Deliver(m, "buffer") /\ "buffer" \in HandlerStates /\ SettleTypeOK
    BY <1>2, TypeParts DEF Receive, HandlerStates
  <2> QED BY <2>1, DeliverTypes DEF Deliver, NoAckProcessed, FreshIsFree
<1>3. CASE Yield \/ Requeue
  BY <1>3 DEF Yield, Requeue, NoAckProcessed, FreshIsFree
<1>4. CASE Requeued
  BY <1>4 DEF Requeued, Settled, NoAckProcessed, FreshIsFree
<1>5. UNCHANGED vars => UNCHANGED settleVars
  BY DEF vars
<1> QED BY <1>1, <1>2, <1>3, <1>4, <1>5, StepKinds

LEMMA IterInvInit == Init => IterInv
<1> SUFFICES ASSUME Init PROVE IterInv
  OBVIOUS
<1>1. SettleTypeOK /\ NoAckProcessed /\ FreshIsFree /\ DOMAIN message = {}
      /\ \A d \in Deliveries : handler[d] # "buffer"
  BY SettleInvInit DEF Init, SettleInit, SettleInv
<1>2. TypeOK
  <2>1. SettleTypeOK
    BY <1>1
  <2>2. 0 \in 0..MaxConsumers /\ << >> \in Seq({Stale} \cup DOMAIN message)
    BY IteratorAssumption
  <2>3. IterTypeOK
    BY <2>2 DEF Init, IterTypeOK, IterStates, CloserStates
  <2> QED BY <2>1, <2>3, TypeParts
<1> QED BY <1>1, <1>2 DEF Init, IterInv, BufferHolds, StaleWhenClosed, NoTagYet,
        RecordedHasOwner, ConsumerHasOwner, LiveHasReader, Clean

\* The inductive invariant of the iterator: a delivery is in the buffer, or in
\* the hands of close(), or with one handler, and it is touched at most once;
\* whatever the broker feeds has an owner, so that messages come into a buffer
\* only while somebody reads it.
THEOREM IteratorInvariant == Spec => []IterInv
<1>1. IterInv /\ [Next]_vars => IterInv'
  <2> SUFFICES ASSUME IterInv, [Next]_vars PROVE IterInv'
    OBVIOUS
  <2>1. TypeOK'
    BY IterTypeStep DEF IterInv
  <2>2. NoAckProcessed' /\ FreshIsFree'
    BY SettlementStep DEF IterInv
  <2>3. BufferHolds' /\ Clean(Touched \cup Taken)'
    BY HoldsStep DEF IterInv
  <2>4. StaleWhenClosed'
    BY StaleStep DEF IterInv
  <2>5. NoTagYet' /\ RecordedHasOwner' /\ ConsumerHasOwner'
    BY OwnerStep DEF IterInv, OwnerInv
  <2>6. LiveHasReader'
    BY LiveStep DEF IterInv, OwnerInv
  <2> QED BY <2>1, <2>2, <2>3, <2>4, <2>5, <2>6 DEF IterInv
<1> QED BY IterInvInit, <1>1, PTL DEF Spec

\* The state of the iterator is always well formed: what its buffer holds is
\* stale or a delivery of the channel that is open.
THEOREM IteratorTypes == Spec => []TypeOK
<1>1. IterInv => TypeOK
  BY DEF IterInv
<1> QED BY IteratorInvariant, <1>1, PTL

\* The broker never feeds a consumer nobody can cancel, over any number of
\* closed and restored channels.
THEOREM ConsumerHasOwnerHolds == Spec => []ConsumerHasOwner
<1>1. IterInv => ConsumerHasOwner
  BY DEF IterInv
<1> QED BY IteratorInvariant, <1>1, PTL

\* A closed iterator has given every live message of its buffer back.
THEOREM BufferReturnedHolds == Spec => []BufferReturned
<1>1. IterInv => BufferReturned
  BY DEF IterInv, LiveHasReader, BufferReturned
<1> QED BY IteratorInvariant, <1>1, PTL

\* The messages of an iterator are settled at most once too: what close()
\* requeues no handler has, and the other way round.
THEOREM IteratorSettlesOnce == Spec => []SettledOnce
<1>1. IterInv => SettledOnce
  BY CleanSettlesOnce, TypeParts DEF IterInv
<1> QED BY IteratorInvariant, <1>1, PTL

\* A message of the iterator whose object says processed is settled, or its
\* settlement is on its way.
THEOREM IteratorProcessedIsSettled == Spec => []ProcessedIsSettled
<1>1. IterInv => ProcessedIsSettled
  <2>1. SettleTypeOK => processed \subseteq Touched \cup Taken
    BY DEF SettleTypeOK, Touched
  <2> QED BY <2>1, CleanProcessedIsSettled, TypeParts DEF IterInv
<1> QED BY IteratorInvariant, <1>1, PTL

-----------------------------------------------------------------------------
(* The converse of ConsumerHasOwner. *)

\* An iterator that has a tag is fed: by a consumer of the broker while the
\* channel is open, and of the next channel when it is closed, since a restore
\* makes the consumer again.
OwnerHasConsumer == tag # 0 => tag \in recorded /\ (channel => tag \in consumers)

\* What close() cancels is an earlier consumer than the one the iterator has,
\* or asks for, by now.
ClosingIsOld ==
    closer \in {"cancel", "cancelled"} =>
       /\ closing # tag
       /\ closing <= asked
       /\ iter \in {"consume", "consumed"} => closing # asked

FedInv == OwnerHasConsumer /\ ClosingIsOld /\ tag <= asked

\* The steps of the iterator: the answer that gives it a tag finds the consumer
\* recorded, and close() takes the tag before the consumer goes.
LEMMA FedIterateOnly ==
  ASSUME TypeOK, NoTagYet, FedInv, IterateOnly, UNCHANGED channel
  PROVE  FedInv'
<1> USE DEF FedInv, OwnerHasConsumer, ClosingIsOld, NoTagYet, CloseReturns
<1>1. asked \in Nat /\ tag \in Nat /\ closing \in Nat
  BY IteratorAssumption DEF TypeOK
<1>2. CASE StartConsume
  BY <1>1, <1>2 DEF StartConsume
<1>3. CASE Consumed
  BY <1>1, <1>3 DEF Consumed
<1>4. CASE ConsumeOk
  BY <1>1, <1>4 DEF ConsumeOk
<1>5. CASE ConsumeAgain \/ ConsumeCancelled
  BY <1>1, <1>5 DEF ConsumeAgain, ConsumeCancelled
<1>6. CASE Anext \/ AnextTimeout
  BY <1>1, <1>6 DEF Anext, AnextTimeout
<1>7. CASE Close
  BY <1>1, <1>7 DEF Close, BeginClose
<1>8. CASE AnextCancelled
  BY <1>1, <1>8 DEF AnextCancelled, BeginClose
<1>9. CASE Cancelled \/ CancelOk
  BY <1>1, <1>9 DEF Cancelled, CancelOk
<1>10. CASE Drained \/ RequeueStale \/ CloseAborted
  BY <1>1, <1>10 DEF Drained, RequeueStale, CloseAborted
<1> QED BY <1>2, <1>3, <1>4, <1>5, <1>6, <1>7, <1>8, <1>9, <1>10 DEF IterateOnly

\* A channel that closes is not open, and a restore makes again what is recorded.
LEMMA FedStep ==
  ASSUME TypeOK, NoTagYet, FedInv, [Next]_vars
  PROVE  FedInv'
<1> USE DEF FedInv, OwnerHasConsumer, ClosingIsOld
<1>1. CASE IterateOnly /\ UNCHANGED settleVars
  BY <1>1, FedIterateOnly DEF settleVars
<1>2. CASE Restore
  BY <1>2 DEF Restore
<1>3. CASE BrokerSteps
  <2>1. channel' => channel
    BY <1>3 DEF BrokerSteps, ReadFrame, CloseChannel, Commit, Rollback, NotTransactional,
                ChannelGone, Answers
  <2> QED BY <1>3, <2>1 DEF BrokerSteps
<1>4. CASE UNCHANGED <<consumers, recorded, asked, tag, iter, closer, closing>>
           /\ (channel' => channel)
  BY <1>4
<1>5. CASE Settle
  <2>1. ASSUME NEW m \in Msgs, Get(m) PROVE channel' = channel
    BY <2>1 DEF Get, Deliver
  <2>2. ASSUME NEW d \in DOMAIN message, Handle(d) PROVE channel' = channel
    BY <2>2, HandleKeeps
  <2>3. Select => channel' = channel
    BY DEF Select
  <2> QED BY <1>4, <1>5, <2>1, <2>2, <2>3 DEF Settle, iterVars
<1>6. ASSUME NEW m \in Msgs, Receive(m) PROVE FedInv'
  BY <1>4, <1>6 DEF Receive, Deliver
<1>7. CASE Yield
  BY <1>7 DEF Yield
<1>8. CASE Requeue \/ Requeued
  BY <1>8 DEF Requeue, Requeued
<1>9. CASE UNCHANGED vars
  BY <1>4, <1>9 DEF vars, settleVars, iterVars
<1> QED BY <1>1, <1>2, <1>3, <1>5, <1>6, <1>7, <1>8, <1>9, StepKinds DEF SettleOnly

\* An iterator that waits for messages is always fed, over any number of closed
\* and restored channels and close() calls of other tasks.
THEOREM OwnerHasConsumerHolds == Spec => []OwnerHasConsumer
<1>1. Init => FedInv
  BY DEF Init, FedInv, OwnerHasConsumer, ClosingIsOld
<1>2. IterInv /\ FedInv /\ [Next]_vars => FedInv'
  BY FedStep DEF IterInv
<1>3. FedInv => OwnerHasConsumer
  BY DEF FedInv
<1> QED BY IteratorInvariant, <1>1, <1>2, <1>3, PTL DEF Spec
=============================================================================
