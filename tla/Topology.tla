------------------------------ MODULE Topology ------------------------------
(***************************************************************************)
(* What a robust channel remembers for its restore, and what the broker    *)
(* holds: RobustChannel, RobustExchange and RobustQueue with the parts of  *)
(* Channel, Exchange and Queue they extend (aio_pika/robust_channel.py,    *)
(* robust_exchange.py, robust_queue.py, channel.py, exchange.py, queue.py).*)
(*                                                                         *)
(* A request and its answer are one step here: a channel has one request   *)
(* under way at a time, and the task that made it records the answer       *)
(* before the next one starts.  What may come between is the loss of the   *)
(* channel: then the broker did it, the request raises, and nothing is     *)
(* recorded (Interrupted).  A restore is a sequence of such steps, and the *)
(* user's requests on queues and exchanges come between them, for only the *)
(* methods of the channel wait until it is restored.                       *)
(*                                                                         *)
(* Exchanges, queues, bindings and consumers are named by what identifies  *)
(* them at the broker.  The user keeps one object per exchange and queue;  *)
(* the channel holds it weakly.                                            *)
(***************************************************************************)
EXTENDS Naturals, FiniteSets, SequencesExt

CONSTANTS
    Exchanges,   \* names of exchanges
    Queues,      \* names of queues
    Bindings,    \* records [source, key, dest]: the bindings that are used
    Consumers,   \* records [queue, tag]: the consumers that are used
    Prefetches,  \* prefetch_count values of set_qos(), 0 is the default
    Durable,     \* the exchanges and queues that survive any loss
    Passive,     \* declared passively, as get_exchange() and get_queue() do
    NotRobust,   \* declared, bound, consumed with robust=False, or internal
    Deletes,     \* the deletions used: pairs of a kind, see AllDeletes, and a name
    MaxLosses,   \* bound: times the open channel is lost
    MaxSetbacks  \* bound: times a restore is disturbed, see Counted

Items == Exchanges \cup Queues

\* Deletion by the object (Exchange.delete, Queue.delete) or by the channel
\* (exchange_delete, queue_delete).
AllDeletes == {"Exchange", "Queue", "exchange_delete", "queue_delete"}

ASSUME TopologyAssumption ==
    /\ Exchanges \cap Queues = {}
    /\ Items \cap (Bindings \cup Consumers) = {}
    /\ Bindings \subseteq [source: Exchanges, key: STRING, dest: Items]
    /\ Consumers \subseteq [queue: Queues, tag: STRING]
    /\ Prefetches \subseteq Nat
    /\ Durable \subseteq Items
    /\ Passive \subseteq Durable
    /\ Deletes \subseteq AllDeletes \X Items
    /\ MaxLosses \in Nat
    /\ MaxSetbacks \in Nat

VARIABLES
    \* the broker
    exists,      \* exchanges and queues
    bound,       \* bindings
    consuming,   \* consumers of the channel
    prefetch,    \* prefetch count of the channel
    \* the client
    channel,     \* "open" (and restored), "lost" or "restoring"
    restorer,    \* who restores it, see Restorers
    todo,        \* what the restore still has to restore, in order
    steps,       \* what it still has to bind and consume for the current one
    held,        \* the exchanges and queues whose object lives
    detached,    \* the exchanges whose object has no channel any more
    exchanges,   \* the names in RobustChannel._exchanges, in the order of their
                 \* first declaration; one whose object is gone stays a name
    queues,      \* RobustChannel._queues
    recorded,    \* the _bindings and _consumers of the objects
    qos,         \* RobustChannel._prefetch_count
    \* history
    wants,       \* what the user was told is bound and consumed
    superseded,  \* the bindings of wants whose record another one has taken
    absent,      \* what the user never made, or was told is unbound, cancelled
                 \* or deleted
    revivable,   \* what of it a restore makes again all the same, see Revives
    losses,      \* see MaxLosses
    setbacks     \* see MaxSetbacks

\* The task of the channel's close callback, when the channel alone was lost, or
\* the factory of the connection.  Nobody restores an open channel, nor one whose
\* closer failed: its error is swallowed, until the connection goes too.
Restorers == {"nobody", "closer", "factory"}

broker == <<exists, bound, consuming, prefetch>>
objects == <<held, detached, exchanges, queues, recorded, qos>>
restoring == <<channel, restorer, todo, steps>>
history == <<wants, superseded, absent, revivable>>
counted == <<losses, setbacks>>
vars == <<broker, restoring, objects, history, counted>>

Init ==
    /\ exists = Passive
    /\ bound = {}
    /\ consuming = {}
    /\ prefetch = 0
    /\ channel = "open"
    /\ restorer = "nobody"
    /\ todo = << >>
    /\ steps = {}
    /\ held = {}
    /\ detached = {}
    /\ exchanges = << >>
    /\ queues = << >>
    /\ recorded = {}
    /\ qos = 0
    /\ wants = {}
    /\ superseded = {}
    /\ absent = (Items \ Passive) \cup Bindings \cup Consumers
    /\ revivable = {}
    /\ losses = 0
    /\ setbacks = 0

\* The names in keep, in their order.
Kept(names, keep) ==
    LET kept[n \in 0..Len(names)] ==
          IF n = 0 THEN << >>
          ELSE IF names[n] \in keep THEN Append(kept[n - 1], names[n])
                                   ELSE kept[n - 1]
    IN  kept[Len(names)]

\* What the object of i may remember: its bindings, and the consumers of a queue.
OfDest(i) == {b \in Bindings : b.dest = i}
OfQueue(i) == {c \in Consumers : c.queue = i}
Of(i) == OfDest(i) \cup OfQueue(i)
Touching(i) == OfDest(i) \cup OfQueue(i) \cup {b \in Bindings : b.source = i}

-----------------------------------------------------------------------------
(* Losing the channel. *)

\* The losses of the open channel are counted; those of one that is being restored
\* are so together with what the user does under the restore.
Counted ==
    IF channel = "open"
    THEN losses < MaxLosses /\ losses' = losses + 1 /\ UNCHANGED setbacks
    ELSE setbacks < MaxSetbacks /\ setbacks' = setbacks + 1 /\ UNCHANGED losses

\* The channel is gone, and with it its consumers.
ChannelGone ==
    /\ channel' = "lost"
    /\ todo' = << >>
    /\ steps' = {}
    /\ prefetch' = 0
    /\ Counted

\* Who restores a channel that is lost alone: its closer, unless it was being
\* restored.  Then that restore raises, and only the factory tries again.
Successor ==
    CASE channel = "open" -> "closer"
      [] restorer = "factory" -> "factory"
      [] OTHER -> "nobody"

\* With the channel, the connection or a restart of the broker may go what does
\* not survive it.
BrokerForgets ==
    \E gone \in {{}, exists \ Durable} :
       /\ exists' = exists \ gone
       /\ bound' = {b \in bound : b.source \notin gone /\ b.dest \notin gone}

\* The broker closes the channel, or the connection is lost.
Lost ==
    /\ channel # "lost"
    /\ ChannelGone
    /\ restorer' \in {Successor, "factory"}
    /\ consuming' = {}
    /\ BrokerForgets
    /\ UNCHANGED <<objects, history>>

\* The connection is lost after the channel: the factory takes over from the
\* closer, or from nobody.
LostAfterwards ==
    /\ channel = "lost"
    /\ restorer # "factory"
    /\ restorer' = "factory"
    /\ BrokerForgets
    /\ UNCHANGED <<consuming, prefetch, channel, todo, steps, objects, history, counted>>

-----------------------------------------------------------------------------
(* Requests: what the broker does when it can, and what it refuses. *)

CanDeclare(i) == i \in Passive => i \in exists
CanBind(b) == b.source \in exists /\ b.dest \in exists
CanConsume(c) == c.queue \in exists /\ c \notin consuming

\* A request on what does not exist: the broker closes the channel and the
\* request raises.
Refused(possible) ==
    /\ ~possible
    /\ ChannelGone
    /\ restorer' = Successor
    /\ consuming' = {}
    /\ UNCHANGED <<exists, bound, objects, history>>

\* The channel or the connection closes before the answer to a request that the
\* broker met, which may have made what is in new.
Interrupted(new, exists2, bound2) ==
    /\ ChannelGone
    /\ restorer' \in {Successor, "factory"}
    /\ exists' = exists2
    /\ bound' = bound2
    /\ consuming' = {}
    /\ absent' = absent \ new
    /\ revivable' = revivable \ new
    /\ UNCHANGED <<objects, wants, superseded>>

\* ready(): the methods of the channel wait for the restore.
Ready == channel = "open"

\* get_underlay_channel(): those of exchanges and queues do not.
Underlay == channel # "lost"

-----------------------------------------------------------------------------
(* RobustChannel. *)

\* What the user makes, or removes so that no restore can make it again.
IsMade(r) == absent' = absent \ {r} /\ revivable' = revivable \ {r}
IsRemoved(r) == absent' = absent \cup {r} /\ revivable' = revivable \ {r}

\* Channel.declare_exchange(), declare_queue(), get_exchange(), get_queue(): the
\* broker has it, and the user a new object.
Made(i) ==
    /\ CanDeclare(i)
    /\ exists' = exists \cup {i}
    /\ held' = held \cup {i}
    /\ detached' = detached \ {i}
    /\ IsMade(i)
    /\ UNCHANGED <<bound, consuming, prefetch, restoring, recorded, qos, wants,
                   superseded, counted>>

NotMade(i) ==
    \/ Refused(CanDeclare(i))
    \/ CanDeclare(i) /\ Interrupted({i}, exists \cup {i}, bound)

\* The names after a declaration: a dictionary keeps the place of a name.
Named(names, i) ==
    IF i \in NotRobust \/ i \in ToSet(names) THEN names ELSE Append(names, i)

\* Those of a robust channel record the object, unless it is not robust.
DeclareExchange(x) ==
    /\ Ready
    /\ x \notin held
    /\ \/ NotMade(x)
       \/ /\ Made(x)
          /\ exchanges' = Named(exchanges, x)
          /\ UNCHANGED queues

DeclareQueue(q) ==
    /\ Ready
    /\ q \notin held
    /\ \/ NotMade(q)
       \/ /\ Made(q)
          /\ queues' = Named(queues, q)
          /\ UNCHANGED exchanges

\* The broker deletes i with the bindings and consumers it has.
Deleted(i) ==
    /\ exists' = exists \ {i}
    /\ bound' = bound \ Touching(i)
    /\ consuming' = consuming \ Touching(i)
    /\ wants' = wants \ Touching(i)
    /\ superseded' = superseded \ Touching(i)

\* exchange_delete(), queue_delete(): the record of that name goes, the object
\* the user has stays.
DeletedByName(i) ==
    /\ Deleted(i)
    /\ IsRemoved(i)
    /\ UNCHANGED <<prefetch, restoring, held, detached, recorded, qos, counted>>

ExchangeDelete(x) ==
    /\ Ready
    /\ <<"exchange_delete", x>> \in Deletes
    /\ \/ Interrupted({}, exists \ {x}, bound \ Touching(x))
       \/ /\ DeletedByName(x)
          /\ exchanges' = Kept(exchanges, Exchanges \ {x})
          /\ UNCHANGED queues

QueueDelete(q) ==
    /\ Ready
    /\ <<"queue_delete", q>> \in Deletes
    /\ \/ Interrupted({}, exists \ {q}, bound \ Touching(q))
       \/ /\ DeletedByName(q)
          /\ queues' = Kept(queues, Queues \ {q})
          /\ UNCHANGED exchanges

\* basic.qos on the channel.
BasicQos(n) == prefetch' = n

\* set_qos(): recorded before the request.
SetQos(n) ==
    /\ Ready
    /\ qos' = n
    /\ \/ /\ BasicQos(n)
          /\ UNCHANGED <<exists, bound, consuming, restoring, counted>>
       \/ /\ ChannelGone
          /\ restorer' \in {Successor, "factory"}
          /\ consuming' = {}
          /\ UNCHANGED <<exists, bound>>
    /\ UNCHANGED <<held, detached, exchanges, queues, recorded, history>>

-----------------------------------------------------------------------------
(* Exchange, Queue and their robust forms. *)

\* The bindings of an exchange are remembered by their source: a second one
\* from the same source takes the place of the first.
SameRecord(b) ==
    IF b.dest \in Exchanges THEN {a \in OfDest(b.dest) : a.source = b.source}
                            ELSE {b}

\* The records after a binding or a consumer was made.
Record(r) ==
    IF r \in NotRobust THEN recorded
    ELSE IF r \in Bindings THEN (recorded \ SameRecord(r)) \cup {r}
    ELSE recorded \cup {r}

\* A binding or consumer is restored when it and its object are robust.
Robust(r) ==
    /\ r \notin NotRobust
    /\ (IF r \in Bindings THEN r.dest ELSE r.queue) \notin NotRobust

\* The user wants what he is told, when it is robust.
Wanted(r) == IF Robust(r) THEN wants \cup {r} ELSE wants

\* A binding of an exchange that is made or goes takes with it the record of
\* every other one from the same source: the user is not told.
Superseded(b) ==
    superseded' = IF b \in NotRobust THEN superseded
                  ELSE (superseded \cup (SameRecord(b) \cap wants)) \ {b}

\* What the user does under a restore is counted.
CountedUnderRestore == IF channel = "restoring" THEN Counted ELSE UNCHANGED counted

\* bind() of a robust queue or exchange.
BindRequest(b) ==
    /\ Underlay
    /\ b.source \in held
    /\ \/ Refused(CanBind(b))
       \/ CanBind(b) /\ Interrupted({b}, exists, bound \cup {b})
       \/ /\ CanBind(b)
          /\ bound' = bound \cup {b}
          /\ recorded' = Record(b)
          /\ wants' = Wanted(b)
          /\ Superseded(b)
          /\ IsMade(b)
          /\ CountedUnderRestore
          /\ UNCHANGED <<exists, consuming, prefetch, restoring, held, detached,
                         exchanges, queues, qos>>

\* An exchange has a channel to ask until it is deleted, a queue has one always.
BindExchange(b) == b.dest \in (held \cap Exchanges) \ detached /\ BindRequest(b)
BindQueue(b) == b.dest \in held \cap Queues /\ BindRequest(b)

\* A restore makes again what it has copied before the user removed it.
Revives(r) ==
    /\ absent' = absent \cup {r}
    /\ revivable' = IF r \in steps THEN revivable \cup {r} ELSE revivable \ {r}

\* An exchange forgets whatever it remembered of the source.
Forgotten(b) == recorded \ SameRecord(b)

\* Faulty UnbindRequest: the record is kept.
UnbindRecorded(b) ==
    /\ Underlay
    /\ \/ Interrupted({}, exists, bound \ {b})
       \/ /\ bound' = bound \ {b}
          /\ wants' = wants \ {b}
          /\ superseded' = superseded \ {b}
          /\ Revives(b)
          /\ CountedUnderRestore
          /\ UNCHANGED <<exists, consuming, prefetch, restoring, held, detached,
                         exchanges, queues, recorded, qos>>

\* unbind() of a robust queue or exchange.
UnbindRequest(b) ==
    /\ Underlay
    /\ \/ Interrupted({}, exists, bound \ {b})
       \/ /\ bound' = bound \ {b}
          /\ recorded' = Forgotten(b)
          /\ wants' = wants \ {b}
          /\ superseded' = (superseded \cup (SameRecord(b) \cap wants)) \ {b}
          /\ Revives(b)
          /\ CountedUnderRestore
          /\ UNCHANGED <<exists, consuming, prefetch, restoring, held, detached,
                         exchanges, queues, qos>>

UnbindExchange(b) ==
    b.dest \in (held \cap Exchanges) \ detached /\ UnbindRequest(b)
UnbindQueue(b) == b.dest \in held \cap Queues /\ UnbindRequest(b)

\* consume() of a queue; the tag is not in use.
Consume(c) ==
    /\ Underlay
    /\ c.queue \in held
    /\ c \notin consuming
    /\ \/ Refused(CanConsume(c))
       \/ CanConsume(c) /\ Interrupted({}, exists, bound)
       \/ /\ CanConsume(c)
          /\ consuming' = consuming \cup {c}
          /\ recorded' = Record(c)
          /\ wants' = Wanted(c)
          /\ IsMade(c)
          /\ CountedUnderRestore
          /\ UNCHANGED <<exists, bound, prefetch, restoring, held, detached,
                         exchanges, queues, qos, superseded>>

\* cancel() of a queue.
Cancel(c) ==
    /\ Underlay
    /\ c.queue \in held
    /\ \/ Interrupted({}, exists, bound)
       \/ /\ consuming' = consuming \ {c}
          /\ recorded' = recorded \ {c}
          /\ wants' = wants \ {c}
          /\ Revives(c)
          /\ CountedUnderRestore
          /\ UNCHANGED <<exists, bound, prefetch, restoring, held, detached,
                         exchanges, queues, qos, superseded>>

\* Exchange.delete(): the object loses its channel and stays in the records.
DeleteExchange(x) ==
    /\ Underlay
    /\ <<"Exchange", x>> \in Deletes
    /\ x \in held \ detached
    /\ \/ Interrupted({}, exists \ {x}, bound \ Touching(x))
       \/ /\ Deleted(x)
          /\ detached' = detached \cup {x}
          /\ IsRemoved(x)
          /\ CountedUnderRestore
          /\ UNCHANGED <<prefetch, restoring, held, exchanges, queues, recorded,
                         qos>>

\* Queue.delete(): with if_unused or if_empty the broker may refuse, without them
\* it deletes what is in use too.  The queue stays in the records of the channel,
\* and the next restore makes it again, unless its name was forgotten.
DeleteQueue(q) ==
    /\ Underlay
    /\ <<"Queue", q>> \in Deletes
    /\ q \in held
    /\ \/ Refused(FALSE)
       \/ Interrupted({}, exists \ {q}, bound \ Touching(q))
       \/ /\ Deleted(q)
          /\ absent' = absent \cup {q}
          /\ revivable' = IF q \in ToSet(queues) THEN revivable \cup {q} ELSE revivable
          /\ CountedUnderRestore
          /\ UNCHANGED <<prefetch, restoring, objects>>

\* Faulty Forget: what the object remembered is kept.
ForgetRecorded(i) ==
    /\ channel # "restoring"
    /\ i \in held
    /\ held' = held \ {i}
    /\ detached' = detached \ {i}
    /\ wants' = wants \ Of(i)
    /\ superseded' = superseded \ Of(i)
    /\ UNCHANGED <<broker, restoring, exchanges, queues, recorded, qos, absent,
                   revivable, counted>>

\* The user lets go of an object, and it is collected: a binding of another
\* object that lives keeps it and so does a running restore, the channel keeps
\* its name only.
Forget(i) ==
    /\ channel # "restoring"
    /\ i \in held
    /\ \A b \in recorded \cap Bindings : b.source = i => b.dest = i
    /\ held' = held \ {i}
    /\ detached' = detached \ {i}
    /\ recorded' = recorded \ Of(i)
    /\ wants' = wants \ Of(i)
    /\ superseded' = superseded \ Of(i)
    /\ UNCHANGED <<broker, restoring, exchanges, queues, qos, absent, revivable,
                   counted>>

-----------------------------------------------------------------------------
(* RobustChannel._on_open(). *)

\* The names whose object lives.
Alive(names) == Kept(names, held)

\* The channel is reopened, sets its prefetch count, and lists what it will
\* restore: the exchanges and then the queues.
Reopen ==
    /\ channel = "lost"
    /\ restorer # "nobody"
    /\ channel' = "restoring"
    /\ todo' = Alive(exchanges \o queues)
    /\ BasicQos(qos)
    /\ UNCHANGED <<exists, bound, consuming, restorer, steps, objects, history, counted>>

\* Faulty RestoreItem: the next item is restored as a copy of its records, and
\* its consumers are left out.
RestoreItemBindings ==
    /\ channel = "restoring"
    /\ steps = {}
    /\ todo # << >>
    /\ Head(todo) \notin detached
    /\ CanDeclare(Head(todo))
    /\ exists' = exists \cup {Head(todo)}
    /\ steps' = recorded \cap OfDest(Head(todo))
    /\ todo' = Tail(todo)
    /\ UNCHANGED <<bound, consuming, prefetch, channel, restorer, objects, history,
                   counted>>

\* restore() of the next exchange or queue: it is declared, and what it has to
\* bind and consume is read from its records.
RestoreItem ==
    /\ channel = "restoring"
    /\ steps = {}
    /\ todo # << >>
    /\ Head(todo) \notin detached
    /\ CanDeclare(Head(todo))
    /\ exists' = exists \cup {Head(todo)}
    /\ steps' = recorded \cap Of(Head(todo))
    /\ todo' = Tail(todo)
    /\ UNCHANGED <<bound, consuming, prefetch, channel, restorer, objects, history,
                   counted>>

\* It binds, and records it again, which may supersede what was bound meanwhile.
RestoreBinding(b) ==
    /\ b \in steps
    /\ CanBind(b)
    /\ bound' = bound \cup {b}
    /\ recorded' = Record(b)
    /\ Superseded(b)
    /\ steps' = steps \ {b}
    /\ UNCHANGED <<exists, consuming, prefetch, channel, restorer, todo, held,
                   detached, exchanges, queues, qos, wants, absent, revivable,
                   counted>>

\* After the bindings it consumes, unless the tag is in use by now.
RestoreConsumer(c) ==
    /\ c \in steps
    /\ steps \subseteq Consumers
    /\ CanConsume(c)
    /\ consuming' = consuming \cup {c}
    /\ recorded' = Record(c)
    /\ steps' = steps \ {c}
    /\ UNCHANGED <<exists, bound, prefetch, channel, restorer, todo, held, detached,
                   exchanges, queues, qos, history, counted>>

\* What the restore asks for next does not exist or has its tag already, or the
\* object has no channel to ask.
CannotGoOn ==
    /\ channel = "restoring"
    /\ \/ /\ steps = {}
          /\ todo # << >>
          /\ Head(todo) \in detached \/ ~CanDeclare(Head(todo))
       \/ \E b \in steps \cap Bindings : ~CanBind(b)
       \/ \E c \in steps \cap Consumers : ~CanConsume(c)

\* It raises, and the channel is closed.
RestoreRaises ==
    /\ CannotGoOn
    /\ channel' = "lost"
    /\ todo' = << >>
    /\ steps' = {}
    /\ prefetch' = 0
    /\ consuming' = {}
    /\ BrokerForgets
    /\ UNCHANGED <<objects, history, counted>>

\* Faulty RestoreFails: the factory's error is swallowed as the closer's is.
RestoreFailsSilently == RestoreRaises /\ restorer' = "nobody"

\* The factory closes the connection and restores the channel on the next one;
\* the error of the closer is swallowed, and nobody tries again.
RestoreFails == RestoreRaises /\ restorer' = Successor

Restored ==
    /\ channel = "restoring"
    /\ todo = << >>
    /\ steps = {}
    /\ channel' = "open"
    /\ restorer' = "nobody"
    /\ UNCHANGED <<broker, todo, steps, objects, history, counted>>

Restore ==
    \/ Reopen
    \/ RestoreItem
    \/ \E b \in Bindings : RestoreBinding(b)
    \/ \E c \in Consumers : RestoreConsumer(c)
    \/ RestoreFails
    \/ Restored

Next ==
    \/ \E x \in Exchanges : DeclareExchange(x) \/ ExchangeDelete(x) \/ DeleteExchange(x)
    \/ \E q \in Queues : DeclareQueue(q) \/ QueueDelete(q) \/ DeleteQueue(q)
    \/ \E i \in Items : Forget(i)
    \/ \E n \in Prefetches : SetQos(n)
    \/ \E b \in Bindings :
          BindExchange(b) \/ BindQueue(b) \/ UnbindExchange(b) \/ UnbindQueue(b)
    \/ \E c \in Consumers : Consume(c) \/ Cancel(c)
    \/ Lost
    \/ LostAfterwards
    \/ Restore

Spec == Init /\ [][Next]_vars

\* Whoever restores the channel goes on, and the broker answers; a channel that
\* nobody restores stays lost.
FairSpec == Spec /\ WF_restoring(Restore)

-----------------------------------------------------------------------------
TypeOK ==
    /\ exists \subseteq Items
    /\ bound \subseteq Bindings
    /\ consuming \subseteq Consumers
    /\ channel \in {"open", "lost", "restoring"}
    /\ restorer \in Restorers
    /\ todo \in Seq(Items)
    /\ steps \subseteq Bindings \cup Consumers
    /\ held \subseteq Items
    /\ detached \subseteq held
    /\ exchanges \in Seq(Exchanges)
    /\ queues \in Seq(Queues)
    /\ recorded \subseteq UNION {Of(i) : i \in held}
    /\ prefetch \in Nat
    /\ qos \in Nat
    /\ wants \subseteq Bindings \cup Consumers
    /\ superseded \subseteq wants
    /\ absent \subseteq Items \cup Bindings \cup Consumers
    /\ revivable \subseteq absent
    /\ losses \in 0..MaxLosses
    /\ setbacks \in 0..MaxSetbacks

\* A channel that is open has at the broker, after any losses, every robust
\* binding and consumer the user was told of and did not remove, and the prefetch
\* count, except the superseded bindings: an exchange remembers one binding per
\* source, and forgets it when another key is bound or unbound.
WantedIsThere ==
    channel = "open" =>
       wants \ superseded \subseteq bound \cup consuming /\ prefetch = qos

\* What the user unbound, cancelled or deleted no restore brings back, except
\* what a restore under way had copied already, and a queue that was deleted
\* through its object: Queue.delete() leaves it in the records of the channel.
RemovedStaysAway ==
    (absent \ revivable) \cap (exists \cup bound \cup consuming) = {}

\* What keeps a restore from its end for good: a deleted exchange that is still
\* recorded, or a recorded binding whose source nobody declares before it.
Position(s, e) == CHOOSE i \in DOMAIN s : s[i] = e
Known == ToSet(exchanges) \cup ToSet(queues)
DeclaredBefore(b) ==
    \/ b.source \in exists
    \/ /\ b.source \in ToSet(exchanges) \cap held
       /\ b.dest \in Exchanges =>
             Position(exchanges, b.source) < Position(exchanges, b.dest)
Restorable ==
    /\ ToSet(exchanges) \cap detached = {}
    /\ Known \cap held \cap Passive \subseteq exists
    /\ \A b \in recorded \cap Bindings : b.dest \in Known => DeclaredBefore(b)

\* Every restore of the factory comes to its end, whatever the user does under it
\* and whatever is lost meanwhile, unless it cannot.  Of a channel that was lost
\* alone nothing is promised: when its closer fails, nobody restores it.
RestoreEnds == restorer = "factory" ~> channel = "open" \/ ~Restorable

\* The promise of a robust channel: after a loss of the connection it is restored
\* in the end, whatever the user did with exchanges and queues before.
AlwaysRestored == restorer = "factory" ~> channel = "open"
=============================================================================
