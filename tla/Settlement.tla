----------------------------- MODULE Settlement -----------------------------
(***************************************************************************)
(* The messages a client receives and how it settles them:                 *)
(* IncomingMessage and ProcessContext (aio_pika/message.py), Queue.get()   *)
(* and the consumer callback (queue.py), Master.on_message()               *)
(* (patterns/master.py) and Transaction (transaction.py).                  *)
(*                                                                         *)
(* Every delivery makes an IncomingMessage of its own, named here by its   *)
(* delivery tag; its handler runs "async with message.process(...)", and   *)
(* another task that got hold of the message may settle it too.  A         *)
(* settlement looks at the processed flag, writes a frame, waits until the *)
(* frame is sent and only then sets the flag.  The broker is external: it  *)
(* reads the frames in order, closes a channel that settles a delivery     *)
(* twice, and delivers again what was unacknowledged on a closed channel.  *)
(* Tags are counted from 1 on each underlay channel; a message of a closed *)
(* one is forgotten here, since every settlement of it raises (the channel *)
(* property) and its handler can change nothing any more.                  *)
(***************************************************************************)
EXTENDS Naturals, Sequences, FiniteSets

CONSTANTS
    Msgs,              \* the messages of one queue
    MaxDeliveries,     \* bound: deliveries on one underlay channel
    PublisherConfirms, \* publisher_confirms of the channel
    Modes,             \* the ways to receive and to process that are used
    Own,               \* the settlements bodies make themselves
    Shared             \* the settlements other tasks than the handler make

\* The arguments of process() and the no_ack flag of the consumer.
Kinds == {"ack", "drop", "requeue"}
AllModes == [requeue: BOOLEAN, reject_on_redelivered: BOOLEAN,
             ignore_processed: BOOLEAN, no_ack: BOOLEAN]

ASSUME SettlementAssumption ==
    /\ MaxDeliveries \in Nat
    /\ PublisherConfirms \in BOOLEAN
    /\ Modes \subseteq AllModes
    /\ Own \subseteq Kinds
    /\ Shared \subseteq Kinds

Deliveries == 1..MaxDeliveries

VARIABLES
    mode,        \* how this consumer receives and processes, see Modes
    channel,     \* whether the channel is open
    store,       \* broker: "ready", "out" (delivered), "acked" or "dropped"
    marked,      \* broker: the messages whose next delivery is a redelivery
    unacked,     \* broker: the deliveries it waits for on this channel
    frames,      \* the settlements sent and not read yet, oldest first
    tx,          \* broker: whether the channel is transactional
    started,     \* whether select() of the client's Transaction has returned
    suspended,   \* broker: the settlements that wait for the commit
    message,     \* the message of each delivery on this channel
    redelivered, \* IncomingMessage.redelivered
    processed,   \* IncomingMessage.__processed (and locked)
    handler,     \* where the handler of each delivery is, see HandlerStates
    other,       \* whether another task settles it: "no", "call" or "done"
    torn         \* history: the deliveries with overlapping or cancelled
                 \* settlements, or settlements that were rolled back

settleVars == <<mode, channel, store, marked, unacked, frames, tx, started, suspended,
                message, redelivered, processed, handler, other, torn>>

\* "buffer": received and not handled yet.  "call": the body awaits ack(),
\* reject() or nack().  "exit": __aexit__() awaits one.  "over": it ended.
HandlerStates == {"none", "buffer", "body", "call", "exit", "over"}

SettleInit ==
    /\ mode \in Modes
    /\ channel = TRUE
    /\ store = [m \in Msgs |-> "ready"]
    /\ marked = {}
    /\ unacked = {}
    /\ frames = << >>
    /\ tx = FALSE
    /\ started = FALSE
    /\ suspended = {}
    /\ message = << >>
    /\ redelivered = {}
    /\ processed = {}
    /\ handler = [d \in Deliveries |-> "none"]
    /\ other = [d \in Deliveries |-> "no"]
    /\ torn = {}

-----------------------------------------------------------------------------
(* The broker. *)

\* A delivery of message m, whose object goes where: the IncomingMessage of a
\* consumer with no_ack is processed from the start, and the broker forgets
\* the message.
Deliver(m, where) ==
    LET d == Len(message) + 1 IN
    /\ channel
    /\ d <= MaxDeliveries
    /\ store[m] = "ready"
    /\ message' = Append(message, m)
    /\ redelivered' = IF m \in marked THEN redelivered \cup {d} ELSE redelivered
    /\ handler' = [handler EXCEPT ![d] = where]
    /\ IF mode.no_ack
       THEN /\ store' = [store EXCEPT ![m] = "acked"]
            /\ processed' = processed \cup {d}
            /\ UNCHANGED unacked
       ELSE /\ store' = [store EXCEPT ![m] = "out"]
            /\ unacked' = unacked \cup {d}
            /\ UNCHANGED processed
    /\ UNCHANGED <<mode, channel, marked, frames, tx, started, suspended, other,
                   torn>>

\* The messages of the deliveries in ds.
MessagesOf(ds) == {message[d] : d \in ds}

Suspended == {f.delivery : f \in suspended}

\* Faulty ChannelGone: settlements that were not sent outlive their channel.
ChannelGoneFrames ==
    LET back == MessagesOf(unacked \cup Suspended) IN
    /\ channel' = FALSE
    /\ unacked' = {}
    /\ suspended' = {}
    /\ tx' = FALSE
    /\ store' = [m \in Msgs |-> IF m \in back THEN "ready" ELSE store[m]]
    /\ marked' = marked \cup back
    /\ message' = << >>
    /\ redelivered' = {}
    /\ processed' = {}
    /\ handler' = [d \in Deliveries |-> "none"]
    /\ other' = [d \in Deliveries |-> "no"]
    /\ torn' = {}
    /\ UNCHANGED <<mode, started, frames>>

\* The channel closes: the broker takes everything back that was not settled.
ChannelGone ==
    LET back == MessagesOf(unacked \cup Suspended) IN
    /\ channel' = FALSE
    /\ unacked' = {}
    /\ frames' = << >>
    /\ suspended' = {}
    /\ tx' = FALSE
    /\ store' = [m \in Msgs |-> IF m \in back THEN "ready" ELSE store[m]]
    /\ marked' = marked \cup back
    /\ message' = << >>
    /\ redelivered' = {}
    /\ processed' = {}
    /\ handler' = [d \in Deliveries |-> "none"]
    /\ other' = [d \in Deliveries |-> "no"]
    /\ torn' = {}
    /\ UNCHANGED <<mode, started>>

\* What the settlements fs do to the messages.
After(fs) ==
    LET Of(kind) == MessagesOf({f.delivery : f \in {g \in fs : g.kind = kind}})
    IN  /\ store' = [m \in Msgs |->
                       IF m \in Of("ack") THEN "acked"
                       ELSE IF m \in Of("drop") THEN "dropped"
                       ELSE IF m \in Of("requeue") THEN "ready"
                       ELSE store[m]]
        /\ marked' = marked \cup Of("requeue")

\* The broker reads a settlement.  Within a transaction it waits for the
\* commit; a delivery that is not waited for is an error of the channel.
ReadFrame ==
    /\ frames # << >>
    /\ LET f == Head(frames) IN
       IF f.delivery \notin unacked
       THEN ChannelGone
       ELSE /\ unacked' = unacked \ {f.delivery}
            /\ frames' = Tail(frames)
            /\ IF tx
               THEN suspended' = suspended \cup {f} /\ UNCHANGED <<store, marked>>
               ELSE After({f}) /\ UNCHANGED suspended
            /\ UNCHANGED <<mode, channel, tx, started, message, redelivered,
                           processed, handler, other, torn>>

CloseChannel == channel /\ ChannelGone

\* A robust channel is restored.
ReopenChannel ==
    /\ ~channel
    /\ channel' = TRUE
    /\ UNCHANGED <<mode, store, marked, unacked, frames, tx, started, suspended,
                   message, redelivered, processed, handler, other, torn>>

-----------------------------------------------------------------------------
(* IncomingMessage: ack(), reject(), nack(). *)

\* Faulty CanSettle: the processed flag is not looked at.
CanSettleAgain(d) == ~mode.no_ack

\* The checks before the first await; a settlement that does not pass them
\* raises and changes nothing.
CanSettle(d) == ~mode.no_ack /\ d \notin processed

\* Faulty Send: the frame is never written.
SendNothing(d, kind) == CanSettle(d) /\ UNCHANGED frames

\* ... up to the await: the frame is written.
Send(d, kind) ==
    /\ CanSettle(d)
    /\ frames' = Append(frames, [delivery |-> d, kind |-> kind])

\* ... and after it.
Settled(d) == processed' = processed \cup {d}

\* Another task that has the message settles it.
OtherSettles(d, kind) ==
    /\ handler[d] \in {"body", "call", "exit", "over"}
    /\ other[d] = "no"
    /\ Send(d, kind)
    /\ other' = [other EXCEPT ![d] = "call"]
    /\ torn' = IF handler[d] \in {"call", "exit"} THEN torn \cup {d} ELSE torn
    /\ UNCHANGED <<mode, channel, store, marked, unacked, tx, started, suspended,
                   message, redelivered, processed, handler>>

OtherSettled(d) ==
    /\ other[d] = "call"
    /\ other' = [other EXCEPT ![d] = "done"]
    /\ Settled(d)
    /\ UNCHANGED <<mode, channel, store, marked, unacked, frames, tx, started,
                   suspended, message, redelivered, handler, torn>>

-----------------------------------------------------------------------------
(* ProcessContext: "async with message.process(...)". *)

\* How __aexit__() settles the message of a body that ended without (ok) or
\* with an exception.
ExitKind(d, ok) ==
    IF ok THEN "ack"
    ELSE IF mode.requeue /\ ~(mode.reject_on_redelivered /\ d \in redelivered)
    THEN "requeue" ELSE "drop"

\* Faulty Exit: with ignore_processed it never settles.
ExitIgnores(d, ok) ==
    \/ /\ ~mode.ignore_processed
       /\ Send(d, ExitKind(d, ok))
       /\ handler' = [handler EXCEPT ![d] = "exit"]
       /\ torn' = IF other[d] = "call" THEN torn \cup {d} ELSE torn
    \/ /\ ~CanSettle(d) \/ mode.ignore_processed
       /\ handler' = [handler EXCEPT ![d] = "over"]
       /\ UNCHANGED <<frames, torn>>

\* __aexit__() up to its await.  Where the settlement raises (already
\* processed and not ignore_processed, no_ack, channel closed) the error goes
\* on to the caller, and so it ends as when there is nothing to do.
Exit(d, ok) ==
    \/ /\ Send(d, ExitKind(d, ok))
       /\ handler' = [handler EXCEPT ![d] = "exit"]
       /\ torn' = IF other[d] = "call" THEN torn \cup {d} ELSE torn
    \/ /\ ~CanSettle(d)
       /\ handler' = [handler EXCEPT ![d] = "over"]
       /\ UNCHANGED <<frames, torn>>

ExitUnchanged == UNCHANGED <<mode, channel, store, marked, unacked, tx, started,
                             suspended, message, redelivered, processed, other>>

\* The body returns, raises or is cancelled.
BodyEnds(d, ok) ==
    /\ handler[d] = "body"
    /\ Exit(d, ok)
    /\ ExitUnchanged

\* The body settles the message itself, as Master.on_message() does when the
\* task raises RejectMessage or NackMessage.
BodySettles(d, kind) ==
    /\ handler[d] = "body"
    /\ Send(d, kind)
    /\ handler' = [handler EXCEPT ![d] = "call"]
    /\ torn' = IF other[d] = "call" THEN torn \cup {d} ELSE torn
    /\ UNCHANGED <<mode, channel, store, marked, unacked, tx, started, suspended,
                   message, redelivered, processed, other>>

BodySettled(d) ==
    /\ handler[d] = "call"
    /\ handler' = [handler EXCEPT ![d] = "body"]
    /\ Settled(d)
    /\ UNCHANGED <<mode, channel, store, marked, unacked, frames, tx, started,
                   suspended, message, redelivered, other, torn>>

\* The body is cancelled while it settles, or the channel closed meanwhile:
\* the flag is not set, and __aexit__() sees an exception.
BodyCancelled(d) ==
    /\ handler[d] = "call"
    /\ \/ /\ Send(d, ExitKind(d, FALSE))
          /\ handler' = [handler EXCEPT ![d] = "exit"]
          /\ torn' = torn \cup {d}
       \/ /\ ~CanSettle(d)
          /\ handler' = [handler EXCEPT ![d] = "over"]
          /\ UNCHANGED <<frames, torn>>
    /\ ExitUnchanged

\* The settlement of __aexit__() is sent, or is cancelled.
ExitEnds(d) ==
    /\ handler[d] = "exit"
    /\ handler' = [handler EXCEPT ![d] = "over"]
    /\ \/ Settled(d) /\ UNCHANGED torn
       \/ torn' = torn \cup {d} /\ UNCHANGED processed
    /\ UNCHANGED <<mode, channel, store, marked, unacked, frames, tx, started,
                   suspended, message, redelivered, other>>

\* Queue.get() and the callback of a consumer: the message goes straight to
\* its handler.
Get(m) == Deliver(m, "body")

-----------------------------------------------------------------------------
(* Transaction: select(), commit(), rollback(). *)

\* The broker answers in the order it is asked: it has read every settlement.
Answers == channel /\ frames = << >>

\* Channel.transaction() refuses a channel with publisher confirms.
CanSelect == ~PublisherConfirms

Select ==
    /\ CanSelect
    /\ Answers
    /\ tx' = TRUE
    /\ started' = TRUE
    /\ UNCHANGED <<mode, channel, store, marked, unacked, frames, suspended,
                   message, redelivered, processed, handler, other, torn>>

\* A commit or a rollback on a channel that was reopened after select(): the
\* restore does not select again, and the broker closes the channel.
NotTransactional ==
    /\ started
    /\ ~tx
    /\ Answers
    /\ ChannelGone

Commit ==
    \/ NotTransactional
    \/ /\ tx
       /\ Answers
       /\ After(suspended)
       /\ suspended' = {}
       /\ UNCHANGED <<mode, channel, unacked, frames, tx, started, message,
                      redelivered, processed, handler, other, torn>>

\* The broker waits again for what was settled; the client's objects stay
\* processed.
Rollback ==
    \/ NotTransactional
    \/ /\ tx
       /\ Answers
       /\ unacked' = unacked \cup Suspended
       /\ torn' = torn \cup Suspended
       /\ suspended' = {}
       /\ UNCHANGED <<mode, channel, store, marked, frames, tx, started, message,
                      redelivered, processed, handler, other>>

-----------------------------------------------------------------------------
Handle(d) ==
    \/ \E ok \in BOOLEAN : BodyEnds(d, ok)
    \/ \E kind \in Own : BodySettles(d, kind)
    \/ BodySettled(d)
    \/ BodyCancelled(d)
    \/ ExitEnds(d)
    \/ \E kind \in Shared : OtherSettles(d, kind)
    \/ OtherSettled(d)

SettleNext ==
    \/ \E m \in Msgs : Get(m)
    \/ \E d \in DOMAIN message : Handle(d)
    \/ ReadFrame
    \/ CloseChannel
    \/ ReopenChannel
    \/ Select
    \/ Commit
    \/ Rollback

SettleSpec == SettleInit /\ [][SettleNext]_settleVars

\* Bodies end, frames are sent, and the broker reads them.
SettleFairness ==
    /\ WF_settleVars(ReadFrame)
    /\ \A d \in Deliveries :
          /\ WF_settleVars(\E ok \in BOOLEAN : BodyEnds(d, ok))
          /\ WF_settleVars(BodySettled(d) \/ BodyCancelled(d))
          /\ WF_settleVars(ExitEnds(d))
          /\ WF_settleVars(OtherSettled(d))

SettleFairSpec == SettleSpec /\ SettleFairness

-----------------------------------------------------------------------------
SettleTypeOK ==
    /\ mode \in Modes
    /\ channel \in BOOLEAN
    /\ store \in [Msgs -> {"ready", "out", "acked", "dropped"}]
    /\ marked \subseteq Msgs
    /\ message \in Seq(Msgs)
    /\ Len(message) <= MaxDeliveries
    /\ unacked \subseteq DOMAIN message
    /\ frames \in Seq([delivery: DOMAIN message, kind: Kinds])
    /\ suspended \subseteq [delivery: DOMAIN message, kind: Kinds]
    /\ tx \in BOOLEAN
    /\ started \in BOOLEAN
    /\ redelivered \subseteq DOMAIN message
    /\ processed \subseteq DOMAIN message
    /\ handler \in [Deliveries -> HandlerStates]
    /\ other \in [Deliveries -> {"no", "call", "done"}]
    /\ torn \subseteq DOMAIN message

\* A delivery is settled at most once, and so the client never gets its own
\* channel closed, except in the two ways the code leaves open between the
\* look at the processed flag and its setting: settlements that overlap, and
\* one that is cancelled after its frame was written.
SettledOnce ==
    \A i \in DOMAIN frames :
       \/ frames[i].delivery \in torn
       \/ /\ frames[i].delivery \in unacked
          /\ \A j \in DOMAIN frames :
                frames[i].delivery = frames[j].delivery => i = j

\* A locked message tells the truth: when its object says processed, the
\* broker does not wait for it, or the settlement is on its way; only a
\* transaction that was rolled back leaves it processed and unacknowledged.
ProcessedIsSettled ==
    \A d \in processed \ torn :
       d \in unacked => \E i \in DOMAIN frames : frames[i].delivery = d

\* process() settles: a message whose body is running does not stay
\* unacknowledged on an open channel, whatever the body does, unless a
\* rollback takes its settlement back.
HandledIsSettled ==
    \A d \in Deliveries :
       handler[d] = "body" ~> (d \notin unacked \/ d \in torn)
=============================================================================
