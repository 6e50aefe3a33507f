-------------------------- MODULE SettlementProofs --------------------------
(***************************************************************************)
(* Proofs about Settlement.tla, for any messages, any number of deliveries *)
(* and any modes and kinds of settlement.                                  *)
(*                                                                         *)
(* The lemmas about single steps are stated for any set of deliveries that *)
(* may have a settlement, so that QueueIteratorProofs.tla can use them for *)
(* the settlements of close() too.                                         *)
(***************************************************************************)
EXTENDS Settlement, SequenceTheorems, TLAPS

HasFrame(d) == \E i \in DOMAIN frames : frames[i].delivery = d

FramedOnce(d) ==
    \A i, j \in DOMAIN frames :
       frames[i].delivery = d /\ frames[j].delivery = d => i = j

\* The deliveries that are settled, or that a task is settling.
Touched ==
    {d \in DOMAIN message :
        d \in processed \/ handler[d] \in {"call", "exit"} \/ other[d] = "call"}

\* The broker waits for a delivery nobody in T touched, and no settlement of it
\* is sent; for one in T it waits exactly as long as the settlement is on its
\* way, and that is the only one.
CleanFor(T, d) ==
    /\ d \notin T => d \in unacked /\ ~HasFrame(d)
    /\ d \in T => (d \in unacked <=> HasFrame(d))
    /\ FramedOnce(d)

Clean(T) == \A d \in DOMAIN message \ torn : CleanFor(T, d)

\* Without acknowledgements every message is processed from the start.
NoAckProcessed == mode.no_ack => DOMAIN message \subseteq processed

\* Nobody settles a delivery before it is made.
FreshIsFree == \A d \in Deliveries \ DOMAIN message : other[d] = "no"

SettleInv == SettleTypeOK /\ NoAckProcessed /\ FreshIsFree /\ Clean(Touched)

Frame == [delivery: DOMAIN message, kind: Kinds]

-----------------------------------------------------------------------------
(* Types. *)

\* What SettleTypeOK says of the queue of settlements and of the deliveries.
LEMMA FrameTypes ==
  ASSUME SettleTypeOK
  PROVE  /\ DOMAIN message = 1..Len(message) /\ Len(message) \in Nat
         /\ DOMAIN message \subseteq Deliveries
         /\ DOMAIN frames = 1..Len(frames) /\ Len(frames) \in Nat
         /\ frames \in Seq(Frame)
         /\ \A i \in DOMAIN frames : frames[i] \in Frame
<1>1. frames \in Seq(Frame)
  BY DEF SettleTypeOK, Frame
<1>2. /\ DOMAIN frames = 1..Len(frames) /\ Len(frames) \in Nat
      /\ \A i \in DOMAIN frames : frames[i] \in Frame
  BY <1>1
<1>3. DOMAIN message = 1..Len(message) /\ Len(message) \in Nat
  BY DEF SettleTypeOK
<1>4. DOMAIN message \subseteq Deliveries
  BY <1>3, SettlementAssumption DEF SettleTypeOK, Deliveries
<1> QED BY <1>1, <1>2, <1>3, <1>4

LEMMA MessagesOfTypes ==
  ASSUME SettleTypeOK, NEW ds \in SUBSET DOMAIN message
  PROVE  MessagesOf(ds) \subseteq Msgs
BY DEF SettleTypeOK, MessagesOf

LEMMA SuspendedTypes ==
  ASSUME SettleTypeOK
  PROVE  Suspended \subseteq DOMAIN message
BY DEF SettleTypeOK, Suspended

\* A closed channel leaves nothing of its deliveries.
LEMMA ChannelGoneTypes ==
  ASSUME SettleTypeOK, ChannelGone
  PROVE  SettleTypeOK' /\ ~channel' /\ DOMAIN message' = {} /\ Touched' = {}
<1>1. MessagesOf(unacked \cup Suspended) \subseteq Msgs
  BY MessagesOfTypes, SuspendedTypes DEF SettleTypeOK
<1>2. store' \in [Msgs -> {"ready", "out", "acked", "dropped"}]
  BY DEF ChannelGone, SettleTypeOK
<1>3. /\ message' = << >> /\ message' \in Seq(Msgs) /\ Len(message') <= MaxDeliveries
      /\ DOMAIN message' = {}
  BY SettlementAssumption DEF ChannelGone
<1>4. frames' \in Seq([delivery: DOMAIN message', kind: Kinds])
  BY DEF ChannelGone
<1>5. /\ handler' \in [Deliveries -> HandlerStates]
      /\ other' \in [Deliveries -> {"no", "call", "done"}]
  BY DEF ChannelGone, HandlerStates
<1>6. channel' \in BOOLEAN /\ tx' \in BOOLEAN
  BY DEF ChannelGone
<1> QED BY <1>1, <1>2, <1>3, <1>4, <1>5, <1>6 DEF ChannelGone, SettleTypeOK, Touched

\* What the broker does with settlements keeps its store well formed.
LEMMA AfterTypes ==
  ASSUME SettleTypeOK, NEW fs \in SUBSET Frame, After(fs)
  PROVE  /\ store' \in [Msgs -> {"ready", "out", "acked", "dropped"}]
         /\ marked' \subseteq Msgs
<1> DEFINE Of(kind) == MessagesOf({f.delivery : f \in {g \in fs : g.kind = kind}})
<1>1. \A kind \in Kinds : Of(kind) \subseteq Msgs
  BY MessagesOfTypes DEF Frame
<1>2. marked' = marked \cup Of("requeue")
  BY DEF After
<1>3. store' \in [Msgs -> {"ready", "out", "acked", "dropped"}]
  BY DEF After, SettleTypeOK
<1> QED BY <1>1, <1>2, <1>3 DEF SettleTypeOK, Kinds

\* A settlement that is sent is about a delivery of this channel.
LEMMA SendTypes ==
  ASSUME SettleTypeOK, NEW d \in DOMAIN message, NEW kind \in Kinds, Send(d, kind)
  PROVE  frames' \in Seq([delivery: DOMAIN message, kind: Kinds])
BY DEF Send, SettleTypeOK

\* The one that __aexit__() sends is one of the three.
LEMMA ExitKindTypes == \A d, ok : ExitKind(d, ok) \in Kinds
BY DEF ExitKind, Kinds

\* A delivery adds a message to the channel.
LEMMA DeliverTypes ==
  ASSUME SettleTypeOK, NEW m \in Msgs, NEW where \in HandlerStates, Deliver(m, where)
  PROVE  /\ SettleTypeOK'
         /\ Len(message') = Len(message) + 1
         /\ Len(message) + 1 \in Deliveries
         /\ DOMAIN message' = DOMAIN message \cup {Len(message) + 1}
         /\ Len(message) + 1 \notin DOMAIN message
<1> USE SettlementAssumption
<1>1. /\ message' \in Seq(Msgs) /\ Len(message') = Len(message) + 1
      /\ Len(message') <= MaxDeliveries
      /\ DOMAIN message' = DOMAIN message \cup {Len(message) + 1}
      /\ Len(message) + 1 \notin DOMAIN message
  BY AppendProperties DEF SettleTypeOK, Deliver
<1>2. Len(message) + 1 \in Deliveries
  BY <1>1 DEF SettleTypeOK, Deliveries
<1>3. frames' \in Seq([delivery: DOMAIN message', kind: Kinds])
  <2> DEFINE Frames == [delivery: DOMAIN message', kind: Kinds]
  <2>1. Frame \subseteq Frames /\ frames' = frames /\ frames \in Seq(Frame)
    BY <1>1, FrameTypes DEF Frame, Deliver
  <2> HIDE DEF Frames
  <2>2. frames' \in Seq(Frames)
    BY <2>1, SeqMonotonic
  <2> QED BY <2>2 DEF Frames
<1>4. /\ store' \in [Msgs -> {"ready", "out", "acked", "dropped"}]
      /\ handler' \in [Deliveries -> HandlerStates]
      /\ processed' \subseteq DOMAIN message' /\ unacked' \subseteq DOMAIN message'
      /\ redelivered' \subseteq DOMAIN message'
  BY <1>1, <1>2 DEF SettleTypeOK, Deliver
<1>5. suspended' \subseteq [delivery: DOMAIN message', kind: Kinds]
  BY <1>1 DEF SettleTypeOK, Deliver
<1> QED BY <1>1, <1>2, <1>3, <1>4, <1>5 DEF SettleTypeOK, Deliver

\* What no step of a handler touches.
LEMMA HandleKeeps ==
  ASSUME NEW d, Handle(d)
  PROVE  UNCHANGED <<mode, channel, store, marked, unacked, tx, started, suspended,
                     message, redelivered>>
BY DEF Handle, BodyEnds, ExitUnchanged, BodySettles, BodySettled, BodyCancelled,
   ExitEnds, OtherSettles, OtherSettled

\* A handler or another task takes a step with a message.
LEMMA HandleTypes ==
  ASSUME SettleTypeOK, NEW d \in DOMAIN message, Handle(d)
  PROVE  SettleTypeOK'
<1>1. d \in Deliveries
  BY FrameTypes
<1>2. Own \subseteq Kinds /\ Shared \subseteq Kinds
  BY SettlementAssumption
<1>3. frames' \in Seq([delivery: DOMAIN message, kind: Kinds])
  <2>1. CASE UNCHANGED frames
    BY <2>1 DEF SettleTypeOK
  <2>2. CASE \E kind \in Kinds : Send(d, kind)
    BY <2>2, SendTypes
  <2> QED BY <1>2, <2>1, <2>2, ExitKindTypes DEF Handle, BodyEnds, Exit, BodySettles,
          BodySettled, BodyCancelled, ExitEnds, OtherSettles, OtherSettled
<1>4. /\ handler' \in [Deliveries -> HandlerStates]
      /\ other' \in [Deliveries -> {"no", "call", "done"}]
      /\ torn' \subseteq DOMAIN message
      /\ processed' \subseteq DOMAIN message
  BY <1>1 DEF SettleTypeOK, Handle, BodyEnds, Exit, ExitUnchanged, BodySettles,
     BodySettled, BodyCancelled, ExitEnds, OtherSettles, OtherSettled, Settled,
     HandlerStates
<1>5. UNCHANGED <<mode, channel, store, marked, unacked, tx, started, suspended, message,
                  redelivered>>
  BY HandleKeeps
<1> QED BY <1>3, <1>4, <1>5 DEF SettleTypeOK

\* The broker reads a settlement.
LEMMA ReadFrameTypes ==
  ASSUME SettleTypeOK, ReadFrame
  PROVE  SettleTypeOK'
<1> DEFINE f == Head(frames)
<1>1. CASE f.delivery \notin unacked
  BY <1>1, ChannelGoneTypes DEF ReadFrame
<1>2. CASE f.delivery \in unacked
  <2>1. f \in Frame /\ frames' \in Seq([delivery: DOMAIN message, kind: Kinds])
    <3>1. frames \in Seq(Frame) /\ frames # << >> /\ frames' = Tail(frames)
      BY <1>2, FrameTypes DEF ReadFrame
    <3>2. f \in Frame /\ frames' \in Seq(Frame)
      BY <3>1, HeadTailProperties
    <3> QED BY <3>2 DEF Frame
  <2>2. /\ store' \in [Msgs -> {"ready", "out", "acked", "dropped"}]
        /\ marked' \subseteq Msgs
        /\ suspended' \subseteq [delivery: DOMAIN message, kind: Kinds]
    <3>1. CASE tx
      <4>1. suspended' = suspended \cup {f} /\ UNCHANGED <<store, marked>>
        BY <1>2, <3>1 DEF ReadFrame
      <4> QED BY <2>1, <4>1 DEF SettleTypeOK, Frame
    <3>2. CASE ~tx
      BY <1>2, <2>1, <3>2, AfterTypes DEF ReadFrame, SettleTypeOK
    <3> QED BY <3>1, <3>2
  <2> QED BY <1>2, <2>1, <2>2 DEF ReadFrame, SettleTypeOK
<1> QED BY <1>1, <1>2

\* Transactions, and the loss and the restore of the channel.
LEMMA BrokerTypes ==
  ASSUME SettleTypeOK, CloseChannel \/ ReopenChannel \/ Select \/ Commit \/ Rollback
  PROVE  SettleTypeOK'
<1>1. CASE ChannelGone
  BY <1>1, ChannelGoneTypes
<1>2. CASE ReopenChannel \/ Select
  BY <1>2 DEF ReopenChannel, Select, SettleTypeOK
<1>3. CASE Commit /\ ~NotTransactional
  <2>1. After(suspended)
    BY <1>3 DEF Commit
  <2>2. /\ store' \in [Msgs -> {"ready", "out", "acked", "dropped"}]
        /\ marked' \subseteq Msgs
    BY <2>1, AfterTypes DEF SettleTypeOK, Frame
  <2> QED BY <1>3, <2>2 DEF Commit, SettleTypeOK
<1>4. CASE Rollback /\ ~NotTransactional
  BY <1>4, SuspendedTypes DEF Rollback, SettleTypeOK
<1> QED BY <1>1, <1>2, <1>3, <1>4 DEF CloseChannel, NotTransactional, Commit, Rollback

LEMMA SettleTypeStep == SettleTypeOK /\ [SettleNext]_settleVars => SettleTypeOK'
<1>1. ASSUME SettleTypeOK, UNCHANGED settleVars PROVE SettleTypeOK'
  BY <1>1 DEF SettleTypeOK, settleVars
<1>2. ASSUME SettleTypeOK, NEW m \in Msgs, Get(m) PROVE SettleTypeOK'
  BY <1>2, DeliverTypes DEF Get, HandlerStates
<1> QED BY <1>1, <1>2, HandleTypes, ReadFrameTypes, BrokerTypes DEF SettleNext

LEMMA SettleTypeInit == SettleInit => SettleTypeOK
<1> SUFFICES ASSUME SettleInit PROVE SettleTypeOK
  OBVIOUS
<1>1. message \in Seq(Msgs) /\ Len(message) <= MaxDeliveries /\ DOMAIN message = {}
  BY SettlementAssumption DEF SettleInit
<1>2. frames \in Seq([delivery: DOMAIN message, kind: Kinds])
  BY DEF SettleInit
<1>3. /\ store \in [Msgs -> {"ready", "out", "acked", "dropped"}]
      /\ handler \in [Deliveries -> HandlerStates]
      /\ other \in [Deliveries -> {"no", "call", "done"}]
  BY DEF SettleInit, HandlerStates
<1>4. channel \in BOOLEAN /\ tx \in BOOLEAN /\ started \in BOOLEAN
  BY Zenon DEF SettleInit
<1> QED BY <1>1, <1>2, <1>3, <1>4 DEF SettleInit, SettleTypeOK

-----------------------------------------------------------------------------
(* What the steps do to deliveries that are clean. *)

\* A settlement of a delivery that nobody touched is its only one.
LEMMA SendClean ==
  ASSUME SettleTypeOK, NEW T, NEW d \in DOMAIN message, NEW kind, Clean(T),
         Send(d, kind), torn \subseteq torn', d \in T => d \in torn',
         UNCHANGED <<message, unacked>>
  PROVE  Clean(T \cup {d})'
<1>1. /\ frames \in Seq(Frame) /\ Len(frames') = Len(frames) + 1
      /\ DOMAIN frames = 1..Len(frames) /\ DOMAIN frames' = 1..Len(frames')
      /\ \A i \in 1..Len(frames) : frames'[i] = frames[i]
      /\ frames'[Len(frames) + 1] = [delivery |-> d, kind |-> kind]
      /\ Len(frames) \in Nat
  BY FrameTypes DEF Send
<1>2. frames'[Len(frames) + 1].delivery = d
  BY <1>1
<1>3. ASSUME NEW e \in DOMAIN message', e \notin torn', e # d
      PROVE  CleanFor(T \cup {d}, e)'
  <2>1. CleanFor(T, e)
    BY <1>3 DEF Clean
  <2>2. HasFrame(e)' <=> HasFrame(e)
    BY <1>1, <1>2, <1>3 DEF HasFrame
  <2>3. FramedOnce(e)'
    BY <1>1, <1>2, <1>3, <2>1 DEF CleanFor, FramedOnce
  <2> QED BY <1>3, <2>1, <2>2, <2>3 DEF CleanFor
<1>4. ASSUME d \notin torn' PROVE CleanFor(T \cup {d}, d)'
  <2>1. d \in unacked /\ ~HasFrame(d)
    BY <1>4 DEF Clean, CleanFor
  <2>2. HasFrame(d)'
    BY <1>1, <1>2 DEF HasFrame
  <2>3. FramedOnce(d)'
    BY <1>1, <2>1 DEF FramedOnce, HasFrame
  <2> QED BY <2>1, <2>2, <2>3 DEF CleanFor
<1> QED BY <1>3, <1>4 DEF Clean

\* The broker reads the only settlement of a delivery it waits for, or closes
\* the channel.
LEMMA ReadFrameClean ==
  ASSUME SettleTypeOK, NEW T, Clean(T), ReadFrame
  PROVE  Clean(T)' \/ DOMAIN message' = {}
<1> DEFINE f == Head(frames)
<1>1. CASE f.delivery \notin unacked
  BY <1>1, ChannelGoneTypes DEF ReadFrame
<1>2. CASE f.delivery \in unacked
  <2>1. /\ Len(frames) \in Nat \ {0} /\ frames' = Tail(frames) /\ f = frames[1]
        /\ DOMAIN frames = 1..Len(frames) /\ DOMAIN frames' = 1..Len(frames')
        /\ Len(frames') = Len(frames) - 1
        /\ \A i \in 1..Len(frames') : frames'[i] = frames[i + 1]
    <3>1. /\ frames \in Seq(Frame) /\ frames # << >> /\ frames' = Tail(frames)
          /\ Len(frames) \in Nat /\ DOMAIN frames = 1..Len(frames)
      BY <1>2, FrameTypes DEF ReadFrame
    <3>2. /\ Tail(frames) \in Seq(Frame) /\ Len(Tail(frames)) = Len(frames) - 1
          /\ \A i \in 1..Len(Tail(frames)) : Tail(frames)[i] = frames[i + 1]
      BY <3>1, HeadTailProperties
    <3>3. Len(frames) \in Nat \ {0} /\ f = frames[1]
      BY <3>1
    <3> QED BY <3>1, <3>2, <3>3
  <2>2. /\ unacked' = unacked \ {f.delivery}
        /\ UNCHANGED <<message, torn>>
    BY <1>2 DEF ReadFrame
  <2>3. ASSUME NEW e \in DOMAIN message', e \notin torn' PROVE CleanFor(T, e)'
    <3>1. CleanFor(T, e)
      BY <2>2, <2>3 DEF Clean
    <3>2. CASE e = f.delivery
      <4>1. HasFrame(e)
        BY <2>1, <3>2 DEF HasFrame
      <4>2. ~HasFrame(e)'
        <5>1. ASSUME NEW i \in DOMAIN frames', frames'[i].delivery = e PROVE FALSE
          <6>1. i + 1 \in DOMAIN frames /\ 1 \in DOMAIN frames /\ i + 1 # 1
            BY <2>1
          <6>2. frames[i + 1].delivery = e /\ frames[1].delivery = e
            BY <2>1, <3>2, <5>1
          <6> QED BY <3>1, <6>1, <6>2 DEF CleanFor, FramedOnce
        <5> QED BY <5>1 DEF HasFrame
      <4> QED BY <2>2, <3>1, <3>2, <4>1, <4>2 DEF CleanFor, FramedOnce, HasFrame
    <3>3. CASE e # f.delivery
      <4>1. HasFrame(e)' <=> HasFrame(e)
        <5>1. ASSUME NEW i \in DOMAIN frames, frames[i].delivery = e
              PROVE  i - 1 \in DOMAIN frames' /\ frames'[i - 1].delivery = e
          <6>1. i # 1
            BY <2>1, <3>3, <5>1
          <6> QED BY <2>1, <5>1, <6>1
        <5>2. ASSUME NEW i \in DOMAIN frames', frames'[i].delivery = e
              PROVE  i + 1 \in DOMAIN frames /\ frames[i + 1].delivery = e
          BY <2>1, <5>2
        <5> QED BY <5>1, <5>2 DEF HasFrame
      <4>2. FramedOnce(e)'
        <5>1. ASSUME NEW i \in DOMAIN frames', NEW j \in DOMAIN frames',
                     frames'[i].delivery = e, frames'[j].delivery = e
              PROVE  i = j
          <6>1. /\ i + 1 \in DOMAIN frames /\ frames[i + 1].delivery = e
                /\ j + 1 \in DOMAIN frames /\ frames[j + 1].delivery = e
            BY <2>1, <5>1
          <6>2. i + 1 = j + 1
            BY <3>1, <6>1 DEF CleanFor, FramedOnce
          <6> QED BY <2>1, <6>2
        <5> QED BY <5>1 DEF FramedOnce
      <4> QED BY <2>2, <3>1, <3>3, <4>1, <4>2 DEF CleanFor
    <3> QED BY <3>2, <3>3
  <2> QED BY <2>3 DEF Clean
<1> QED BY <1>1, <1>2

\* Steps that only tear deliveries, or leave the channel without any.
LEMMA TearClean ==
  ASSUME NEW T, Clean(T), torn \subseteq torn', UNCHANGED <<message, frames>>,
         \A d \in DOMAIN message \ torn' : d \in unacked' <=> d \in unacked
  PROVE  Clean(T)'
BY DEF Clean, CleanFor, HasFrame, FramedOnce

LEMMA BrokerClean ==
  ASSUME SettleTypeOK, NEW T, Clean(T),
         CloseChannel \/ ReopenChannel \/ Select \/ Commit \/ Rollback
  PROVE  Clean(T)' \/ DOMAIN message' = {}
<1>1. CASE ChannelGone
  BY <1>1, ChannelGoneTypes
<1>2. CASE ReopenChannel \/ Select
  BY <1>2, TearClean DEF ReopenChannel, Select
<1>3. CASE (Commit \/ Rollback) /\ ~NotTransactional
  BY <1>3, TearClean DEF Commit, Rollback
<1> QED BY <1>1, <1>2, <1>3 DEF CloseChannel, NotTransactional, Commit, Rollback

\* A new delivery is waited for, and nobody touched it.
LEMMA DeliverClean ==
  ASSUME SettleTypeOK, NEW T, NEW m \in Msgs, NEW where \in HandlerStates, Clean(T),
         Deliver(m, where), NEW T2, T2 \cap DOMAIN message = T \cap DOMAIN message,
         Len(message) + 1 \in T2 <=> mode.no_ack
  PROVE  Clean(T2)'
\* A name for the delivery that does not change with the state.
<1>0. PICK n : n = Len(message) + 1
  OBVIOUS
<1>1. /\ DOMAIN message' = DOMAIN message \cup {n} /\ n \notin DOMAIN message
      /\ UNCHANGED <<frames, torn>>
  BY <1>0, DeliverTypes DEF Deliver
<1>2. ~HasFrame(n)' /\ FramedOnce(n)'
  <2>1. \A i \in DOMAIN frames : frames[i].delivery # n
    BY <1>1, FrameTypes DEF Frame
  <2> QED BY <1>1, <2>1 DEF HasFrame, FramedOnce
<1>3. n \in unacked' <=> ~mode.no_ack
  BY <1>0, <1>1 DEF Deliver, SettleTypeOK
<1>4. CleanFor(T2, n)'
  <2>1. CASE mode.no_ack
    BY <1>0, <1>2, <1>3, <2>1 DEF CleanFor
  <2>2. CASE ~mode.no_ack
    BY <1>0, <1>2, <1>3, <2>2 DEF CleanFor
  <2> QED BY <2>1, <2>2
<1>5. ASSUME NEW e \in DOMAIN message \ torn PROVE CleanFor(T2, e)'
  <2>1. CleanFor(T, e) /\ e # n /\ (e \in T2 <=> e \in T)
    BY <1>1 DEF Clean
  <2>2. e \in unacked' <=> e \in unacked
    BY <1>0, <2>1 DEF Deliver
  <2>3. (HasFrame(e)' <=> HasFrame(e)) /\ (FramedOnce(e)' <=> FramedOnce(e))
    BY <1>1 DEF HasFrame, FramedOnce
  <2> QED BY <2>1, <2>2, <2>3 DEF CleanFor
<1>6. \A e \in DOMAIN message' \ torn' : e = n \/ e \in DOMAIN message \ torn
  BY <1>1
<1> QED BY <1>4, <1>5, <1>6 DEF Clean

\* Steps that send nothing.
LEMMA QuietClean ==
  ASSUME NEW T, NEW T2, Clean(T), torn \subseteq torn',
         UNCHANGED <<message, frames, unacked>>,
         \A d \in DOMAIN message \ torn' : d \in T2 <=> d \in T
  PROVE  Clean(T2)'
BY DEF Clean, CleanFor, HasFrame, FramedOnce

\* One step of a handler or of another task: it settles a delivery nobody
\* touched, or tears it, or sends nothing.
LEMMA HandleClean ==
  ASSUME SettleTypeOK, NoAckProcessed, NEW T, NEW T2, NEW d \in DOMAIN message,
         Clean(T), Touched \subseteq T, T \cap {d} \subseteq Touched,
         T2 = T \cup Touched', Handle(d)
  PROVE  Clean(T2)'
<1> USE DEF Touched
<1>1. d \in Deliveries
  BY FrameTypes
<1>2. UNCHANGED <<message, unacked>> /\ torn \subseteq torn'
  BY DEF Handle, BodyEnds, Exit, ExitUnchanged, BodySettles, BodySettled,
     BodyCancelled, ExitEnds, OtherSettles, OtherSettled
<1>3. \A e \in DOMAIN message : e # d => (e \in T2 <=> e \in T)
  <2>1. \A e \in DOMAIN message : e # d =>
            (e \in processed' <=> e \in processed) /\ handler'[e] = handler[e]
            /\ other'[e] = other[e]
    BY <1>1, FrameTypes DEF SettleTypeOK, Handle, BodyEnds, Exit, ExitUnchanged,
       BodySettles, BodySettled, BodyCancelled, ExitEnds, OtherSettles, OtherSettled,
       Settled
  <2> QED BY <1>2, <2>1
\* With a settlement.
<1>4. ASSUME NEW kind, Send(d, kind), d \in T => d \in torn', d \in Touched'
      PROVE  Clean(T2)'
  <2>1. Clean(T \cup {d})'
    BY <1>2, <1>4, SendClean
  <2>2. \A e \in DOMAIN message' : e \in T \cup {d} <=> e \in T2
    BY <1>2, <1>3, <1>4
  <2> QED BY <2>1, <2>2 DEF Clean, CleanFor
\* Without one.
<1>5. ASSUME UNCHANGED frames, d \in T2 => d \in T \/ d \in torn' PROVE Clean(T2)'
  BY <1>2, <1>3, <1>5, QuietClean
<1>6. ASSUME NEW ok \in BOOLEAN, BodyEnds(d, ok) PROVE Clean(T2)'
  <2>1. CASE Send(d, ExitKind(d, ok)) /\ handler' = [handler EXCEPT ![d] = "exit"]
             /\ torn' = IF other[d] = "call" THEN torn \cup {d} ELSE torn
    <3>1. d \notin processed /\ handler[d] = "body"
      BY <1>6, <2>1 DEF BodyEnds, Send, CanSettle
    <3>2. handler'[d] = "exit"
      BY <1>1, <2>1 DEF SettleTypeOK
    <3> QED BY <1>2, <1>4, <2>1, <3>1, <3>2
  <2>2. CASE handler' = [handler EXCEPT ![d] = "over"] /\ UNCHANGED <<frames, torn>>
    <3>1. handler[d] = "body" /\ handler'[d] = "over" /\ UNCHANGED <<processed, other>>
      BY <1>1, <1>6, <2>2 DEF SettleTypeOK, BodyEnds, ExitUnchanged
    <3> QED BY <1>5, <2>2, <3>1
  <2> QED BY <1>6, <2>1, <2>2 DEF BodyEnds, Exit
<1>7. ASSUME NEW kind \in Own, BodySettles(d, kind) PROVE Clean(T2)'
  <2>1. d \notin processed /\ handler[d] = "body" /\ handler'[d] = "call"
    BY <1>1, <1>7 DEF SettleTypeOK, BodySettles, Send, CanSettle
  <2> QED BY <1>2, <1>4, <1>7, <2>1 DEF BodySettles
<1>8. CASE BodySettled(d)
  BY <1>5, <1>8 DEF BodySettled
<1>9. CASE BodyCancelled(d)
  <2>1. handler[d] = "call" /\ d \in T /\ UNCHANGED <<processed, other>>
    BY <1>9 DEF BodyCancelled, ExitUnchanged
  <2>2. CASE Send(d, ExitKind(d, FALSE)) /\ handler' = [handler EXCEPT ![d] = "exit"]
             /\ torn' = torn \cup {d}
    <3>1. handler'[d] = "exit"
      BY <1>1, <2>2 DEF SettleTypeOK
    <3> QED BY <1>2, <1>4, <2>2, <3>1
  <2>3. CASE UNCHANGED frames
    BY <1>5, <2>1, <2>3
  <2> QED BY <1>9, <2>2, <2>3 DEF BodyCancelled
<1>10. CASE ExitEnds(d)
  BY <1>5, <1>10 DEF ExitEnds
<1>11. ASSUME NEW kind \in Shared, OtherSettles(d, kind) PROVE Clean(T2)'
  <2>1. /\ d \notin processed /\ other[d] = "no" /\ other'[d] = "call"
        /\ torn' = IF handler[d] \in {"call", "exit"} THEN torn \cup {d} ELSE torn
    BY <1>1, <1>11 DEF SettleTypeOK, OtherSettles, Send, CanSettle
  <2> QED BY <1>2, <1>4, <1>11, <2>1 DEF OtherSettles
<1>12. CASE OtherSettled(d)
  BY <1>5, <1>12 DEF OtherSettled
<1> QED BY <1>6, <1>7, <1>8, <1>9, <1>10, <1>11, <1>12 DEF Handle

\* Who receives with no_ack holds processed messages only.
LEMMA NoAckStep ==
  ASSUME SettleTypeOK, NoAckProcessed, [SettleNext]_settleVars
  PROVE  NoAckProcessed'
<1>1. ASSUME NEW m \in Msgs, Get(m) PROVE NoAckProcessed'
  BY <1>1, DeliverTypes DEF Get, Deliver, HandlerStates, NoAckProcessed
<1>2. ASSUME NEW d \in DOMAIN message, Handle(d) PROVE NoAckProcessed'
  BY <1>2 DEF Handle, BodyEnds, ExitUnchanged, BodySettles, BodySettled,
     BodyCancelled, ExitEnds, OtherSettles, OtherSettled, Settled, NoAckProcessed
<1>3. CASE ChannelGone
  BY <1>3, ChannelGoneTypes DEF ChannelGone, NoAckProcessed
<1>4. CASE UNCHANGED <<mode, message, processed>>
  BY <1>4 DEF NoAckProcessed
<1> QED BY <1>1, <1>2, <1>3, <1>4 DEF SettleNext, ReadFrame, CloseChannel,
        ReopenChannel, Select, Commit, Rollback, NotTransactional, settleVars

\* What was touched stays so, or is torn.
LEMMA TouchedStays ==
  ASSUME SettleTypeOK, NoAckProcessed, NEW d \in DOMAIN message, Handle(d)
  PROVE  Touched \subseteq Touched' \cup torn'
<1>1. d \in Deliveries /\ message' = message /\ DOMAIN message \subseteq Deliveries
  BY FrameTypes, HandleKeeps
<1>2. CASE BodyCancelled(d)
  <2>1. mode.no_ack => d \in processed
    BY DEF NoAckProcessed
  <2>2. d \in processed \/ handler'[d] = "exit"
    BY <1>1, <1>2, <2>1 DEF BodyCancelled, CanSettle, Send, SettleTypeOK
  <2>3. \A e \in DOMAIN message : e # d => handler'[e] = handler[e]
    BY <1>1, <1>2 DEF BodyCancelled, SettleTypeOK
  <2> QED BY <1>1, <1>2, <2>2, <2>3 DEF BodyCancelled, ExitUnchanged, Touched
<1>3. CASE ~BodyCancelled(d)
  BY <1>1, <1>3 DEF SettleTypeOK, Handle, BodyEnds, Exit, ExitUnchanged, BodySettles,
     BodySettled, ExitEnds, OtherSettles, OtherSettled, Settled, Touched
<1> QED BY <1>2, <1>3

\* Only what was touched before is touched after a step that settles nothing.
LEMMA CleanStep ==
  ASSUME SettleInv, [SettleNext]_settleVars
  PROVE  Clean(Touched)'
<1> USE DEF SettleInv
<1>0. PICK T, T2 : T = Touched /\ T2 = Touched'
  OBVIOUS
<1>1. Clean(T)
  BY <1>0
<1>2. SUFFICES Clean(T2)'
  BY <1>0 DEF Clean, CleanFor
<1>3. ASSUME NEW d \in DOMAIN message, Handle(d) PROVE Clean(T2)'
  <2>1. PICK U : U = T \cup Touched'
    OBVIOUS
  <2>2. Clean(U)'
    BY <1>0, <1>1, <1>3, <2>1, HandleClean
  <2>3. \A e : e \notin torn' => (e \in U <=> e \in T2)
    BY <1>0, <1>3, <2>1, TouchedStays
  <2> QED BY <2>2, <2>3 DEF Clean, CleanFor
<1>4. ASSUME NEW m \in Msgs, Get(m) PROVE Clean(T2)'
  <2>1. Deliver(m, "body") /\ "body" \in HandlerStates
    BY <1>4 DEF Get, HandlerStates
  <2>2. PICK n : n = Len(message) + 1
    OBVIOUS
  <2>3. /\ DOMAIN message' = DOMAIN message \cup {n} /\ n \notin DOMAIN message
        /\ n \in Deliveries /\ DOMAIN message \subseteq Deliveries
    BY <2>1, <2>2, DeliverTypes, FrameTypes
  <2>4. /\ \A e \in DOMAIN message : handler'[e] = handler[e]
        /\ handler'[n] = "body" /\ other' = other
    BY <2>1, <2>2, <2>3 DEF Deliver, SettleTypeOK
  <2>5. /\ \A e \in DOMAIN message : e \in processed' <=> e \in processed
        /\ n \in processed' <=> mode.no_ack
    BY <2>1, <2>2, <2>3 DEF Deliver, SettleTypeOK
  <2>6. T2 \cap DOMAIN message = T \cap DOMAIN message
    BY <1>0, <2>3, <2>4, <2>5 DEF Touched
  <2>7. other[n] # "call" => (n \in T2 <=> mode.no_ack)
    BY <1>0, <2>3, <2>4, <2>5 DEF Touched
  <2> QED BY <1>1, <2>1, <2>2, <2>3, <2>6, <2>7, DeliverClean DEF FreshIsFree
<1>5. CASE DOMAIN message' = {}
  BY <1>5 DEF Clean
<1>6. ASSUME Clean(T)', UNCHANGED <<message, processed, handler, other>>
      PROVE  Clean(T2)'
  <2>1. T2 = T
    BY <1>0, <1>6 DEF Touched
  <2> QED BY <1>6, <2>1
<1>7. CASE ReadFrame
  <2>1. DOMAIN message' = {} \/ UNCHANGED <<message, processed, handler, other>>
    BY <1>7, ChannelGoneTypes DEF ReadFrame
  <2> QED BY <1>1, <1>5, <1>6, <1>7, <2>1, ReadFrameClean
<1>8. CASE CloseChannel \/ ReopenChannel \/ Select \/ Commit \/ Rollback
  <2>1. DOMAIN message' = {} \/ UNCHANGED <<message, processed, handler, other>>
    BY <1>8, ChannelGoneTypes DEF CloseChannel, ReopenChannel, Select, Commit,
       Rollback, NotTransactional
  <2> QED BY <1>1, <1>5, <1>6, <1>8, <2>1, BrokerClean
<1>9. CASE UNCHANGED settleVars
  BY <1>1, <1>6, <1>9, TearClean DEF settleVars
<1> QED BY <1>3, <1>4, <1>7, <1>8, <1>9 DEF SettleNext

LEMMA FreshStep ==
  ASSUME SettleTypeOK, FreshIsFree, [SettleNext]_settleVars
  PROVE  FreshIsFree'
<1>1. ASSUME NEW m \in Msgs, Get(m) PROVE FreshIsFree'
  BY <1>1, DeliverTypes DEF Get, Deliver, HandlerStates, FreshIsFree
<1>2. ASSUME NEW d \in DOMAIN message, Handle(d) PROVE FreshIsFree'
  <2>1. message' = message /\ \A e \in Deliveries : e # d => other'[e] = other[e]
    BY <1>2 DEF SettleTypeOK, Handle, BodyEnds, ExitUnchanged, BodySettles,
       BodySettled, BodyCancelled, ExitEnds, OtherSettles, OtherSettled
  <2> QED BY <2>1 DEF FreshIsFree
<1>3. CASE ChannelGone
  BY <1>3 DEF ChannelGone, FreshIsFree
<1>4. CASE UNCHANGED <<message, other>>
  BY <1>4 DEF FreshIsFree
<1> QED BY <1>1, <1>2, <1>3, <1>4 DEF SettleNext, ReadFrame, CloseChannel,
        ReopenChannel, Select, Commit, Rollback, NotTransactional, settleVars

\* A channel without deliveries satisfies the invariant.
LEMMA SettleInvInit == SettleInit => SettleInv
<1> SUFFICES ASSUME SettleInit PROVE SettleInv
  OBVIOUS
<1>1. DOMAIN message = {}
  BY DEF SettleInit
<1> QED BY <1>1, SettleTypeInit DEF SettleInit, SettleInv, NoAckProcessed, FreshIsFree,
        Clean

-----------------------------------------------------------------------------
(* What clean deliveries promise, whoever touched them. *)

LEMMA CleanSettlesOnce ==
  ASSUME SettleTypeOK, NEW T, Clean(T)
  PROVE  SettledOnce
<1> SUFFICES ASSUME NEW i \in DOMAIN frames, frames[i].delivery \notin torn
             PROVE  /\ frames[i].delivery \in unacked
                    /\ \A j \in DOMAIN frames :
                          frames[i].delivery = frames[j].delivery => i = j
  BY DEF SettledOnce
<1>1. PICK d : d = frames[i].delivery
  OBVIOUS
<1>2. d \in DOMAIN message \ torn
  BY <1>1, FrameTypes DEF Frame
<1>3. CleanFor(T, d) /\ HasFrame(d)
  BY <1>1, <1>2 DEF Clean, HasFrame
<1> QED BY <1>1, <1>3 DEF CleanFor, FramedOnce

LEMMA CleanProcessedIsSettled ==
  ASSUME SettleTypeOK, NEW T, Clean(T), processed \subseteq T
  PROVE  ProcessedIsSettled
BY DEF SettleTypeOK, ProcessedIsSettled, Clean, CleanFor, HasFrame

\* The inductive invariant holds: between the look at the processed flag and
\* its setting a delivery counts as touched, and whoever settles a touched one
\* tears it; untouched ones have no settlement and touched ones at most one.
THEOREM SettlementInvariant == SettleSpec => []SettleInv
<1>1. SettleInv /\ [SettleNext]_settleVars => SettleInv'
  BY SettleTypeStep, NoAckStep, FreshStep, CleanStep DEF SettleInv
<1> QED BY SettleInvInit, <1>1, PTL DEF SettleSpec

\* The state is always well formed: every settlement under way and every
\* suspended one is about a delivery of the channel that is open.
THEOREM SettlementTypes == SettleSpec => []SettleTypeOK
<1>1. SettleInv => SettleTypeOK
  BY DEF SettleInv
<1> QED BY SettlementInvariant, <1>1, PTL

\* No delivery is settled twice, and so no client closes its own channel, but
\* for overlapping and cancelled settlements and rollbacks.
THEOREM SettledOnceHolds == SettleSpec => []SettledOnce
<1>1. SettleInv => SettledOnce
  BY CleanSettlesOnce DEF SettleInv
<1> QED BY SettlementInvariant, <1>1, PTL

\* A message whose object says processed is settled, or its settlement is on
\* its way to the broker, but for the same exceptions.
THEOREM ProcessedIsSettledHolds == SettleSpec => []ProcessedIsSettled
<1>1. SettleInv => ProcessedIsSettled
  BY CleanProcessedIsSettled DEF SettleInv, SettleTypeOK, Touched
<1> QED BY SettlementInvariant, <1>1, PTL

-----------------------------------------------------------------------------
(* Handlers that end. *)

\* A handler that ended left nothing to settle: its delivery is processed, or
\* another task is settling it.
OverIsTouched == \A d \in DOMAIN message \ torn : handler[d] = "over" => d \in Touched

\* process() settles, whatever its body did: a message whose handler ended is
\* unacknowledged only while its settlement is on its way, but for overlapping
\* and cancelled settlements and rollbacks.
OverIsSettled ==
    \A d \in DOMAIN message \ torn : handler[d] = "over" /\ d \in unacked => HasFrame(d)

\* __aexit__() settles what nobody settled before it lets a handler end.
LEMMA HandleEndsTouched ==
  ASSUME SettleTypeOK, NoAckProcessed, OverIsTouched, NEW d \in DOMAIN message, Handle(d)
  PROVE  OverIsTouched'
<1>1. d \in Deliveries /\ message' = message /\ DOMAIN message \subseteq Deliveries
  BY FrameTypes, HandleKeeps
<1>2. mode.no_ack => d \in processed
  BY DEF NoAckProcessed
<1>3. /\ torn \subseteq torn' /\ processed \subseteq processed'
      /\ \A e \in Deliveries : e # d => handler'[e] = handler[e]
  BY <1>1 DEF SettleTypeOK, Handle, BodyEnds, Exit, ExitUnchanged, BodySettles, BodySettled,
     BodyCancelled, ExitEnds, OtherSettles, OtherSettled, Settled
<1>4. handler'[d] = "over" /\ handler[d] # "over" => d \in processed' \cup torn'
  BY <1>1, <1>2 DEF SettleTypeOK, Handle, BodyEnds, Exit, ExitUnchanged, BodySettles, BodySettled,
     BodyCancelled, ExitEnds, OtherSettles, OtherSettled, Settled, CanSettle
<1>5. Touched \subseteq Touched' \cup torn'
  BY TouchedStays
<1>6. SUFFICES ASSUME NEW e \in DOMAIN message \ torn', handler'[e] = "over"
               PROVE  e \in Touched'
  BY <1>1 DEF OverIsTouched
<1>7. CASE handler[e] = "over"
  BY <1>3, <1>5, <1>6, <1>7 DEF OverIsTouched
<1>8. CASE handler[e] # "over"
  <2>1. e = d
    BY <1>1, <1>3, <1>6, <1>8
  <2>2. e \in processed'
    BY <1>4, <1>6, <1>8, <2>1
  <2> QED BY <1>1, <1>6, <2>2 DEF Touched
<1> QED BY <1>7, <1>8

\* No handler ends and leaves its message unacknowledged: the delivery would be
\* lost to every consumer as long as the channel is open.
THEOREM OverIsSettledHolds == SettleSpec => []OverIsSettled
<1>1. SettleInit => OverIsTouched
  BY DEF SettleInit, OverIsTouched
<1>2. SettleInv /\ OverIsTouched /\ [SettleNext]_settleVars => OverIsTouched'
  <2> SUFFICES ASSUME SettleInv, OverIsTouched, [SettleNext]_settleVars PROVE OverIsTouched'
    OBVIOUS
  <2> USE DEF SettleInv
  <2>1. ASSUME NEW m \in Msgs, Get(m) PROVE OverIsTouched'
    <3>0. PICK n : n = Len(message) + 1
      OBVIOUS
    <3>1. /\ DOMAIN message' = DOMAIN message \cup {n} /\ n \in Deliveries
          /\ DOMAIN message \subseteq Deliveries /\ n \notin DOMAIN message
      BY <2>1, <3>0, DeliverTypes, FrameTypes DEF Get, HandlerStates
    <3>2. /\ \A e \in Deliveries : handler'[e] = IF e = n THEN "body" ELSE handler[e]
          /\ torn' = torn /\ processed \subseteq processed' /\ other' = other
      BY <2>1, <3>0 DEF Get, Deliver, SettleTypeOK
    <3> QED BY <3>1, <3>2 DEF OverIsTouched, Touched
  <2>2. ASSUME NEW d \in DOMAIN message, Handle(d) PROVE OverIsTouched'
    BY <2>2, HandleEndsTouched
  <2>3. CASE ChannelGone
    BY <2>3, ChannelGoneTypes DEF OverIsTouched
  <2>4. CASE \/ (ReadFrame \/ Commit \/ Rollback) /\ ~ChannelGone
             \/ ReopenChannel \/ Select \/ UNCHANGED settleVars
    <3>1. UNCHANGED <<message, processed, handler, other>> /\ torn \subseteq torn'
      BY <2>4 DEF ReadFrame, Commit, Rollback, NotTransactional, ReopenChannel, Select, settleVars
    <3> QED BY <3>1 DEF OverIsTouched, Touched
  <2> QED BY <2>1, <2>2, <2>3, <2>4 DEF SettleNext, CloseChannel
<1>3. SettleInv /\ OverIsTouched => OverIsSettled
  BY DEF SettleInv, Clean, CleanFor, OverIsTouched, OverIsSettled
<1> QED BY SettlementInvariant, <1>1, <1>2, <1>3, PTL DEF SettleSpec
=============================================================================
