# aio-pika in TLA+

A verification project for aio-pika, the asyncio client for AMQP brokers: TLA+
modules translated from `src/aio_pika`, TLC runs on small instances, and TLAPS
proofs for every instance.

## 1. The system

aio-pika wraps `aiormq` (the protocol library, not in this repository) in an
object API. Everything runs in one asyncio event loop: a task runs without
interruption until an `await` that really suspends, so the interleavings that
matter are those of the pieces of code between such awaits. That is the grain of
every action in this project.

| Component | State | Operations | Interacts with |
|---|---|---|---|
| Pool (`pool.py`) | `__closed`, `__created`, `__item_set`, the queue `__items`, `__lock` | acquire, put (leaving the block), close | its clients, the constructor, the items' close() |
| Robust connection (`robust_connection.py`) | `__reconnection_task`, `__connection_close_event`, `__fail_fast_future`, `__channels`, `connection_attempt` | connect, reconnect, channel, close; the factory; `_on_connected`, `_on_connection_close` | underlay connection (calls, close callback), channels (`restore()`), user callbacks |
| Connection (`connection.py`) | `transport`, `connected`, `_closed`, `_close_called` | connect, close, channel | base class of the above |
| Underlay connection and channel (`abc.py`), `OneShotCallback` (`tools.py`) | the aiormq object, `finished`, the callback's task | connect, close | aiormq's `closing` future starts the callback |
| Callback collection (`tools.py`) | two sets of callbacks, a lock | add, discard, freeze, call | every component's callbacks |
| Channel, robust channel (`channel.py`, `robust_channel.py`) | `_channel`, `_closed`, `__restored`, `__restore_lock`, the records `_queues`, `_exchanges`, qos | initialize, close, restore, reopen, declare and delete | connection, queues, exchanges |
| Topology (`queue.py`, `exchange.py`, `robust_queue.py`, `robust_exchange.py`) | `_bindings`, `_consumers` | declare, bind, unbind, consume, cancel, delete, restore | the broker, through the channel |
| Queue iterator (`queue.py`) | buffer, consumer tag | consume, next, close | queue, messages |
| Incoming message (`message.py`) | `__processed`, lock flag | ack, reject, nack, process | channel |
| RPC (`patterns/rpc.py`) | `futures`, `routes`, `queues`, `consumer_tags` | call, register, unregister, close; result, return and close callbacks | channel, queues, messages |
| Master and worker (`patterns/master.py`) | consumer per worker | create_worker, create_task, close | queue, messages |
| Transaction (`transaction.py`) | `state` | select, commit, rollback | channel |

What is hard here: state read before an await and used after it
(`Pool._create_item`, `_on_connected`, `IncomingMessage.ack`), events set and
cleared by different tasks (`__connection_close_event`, `connected`,
`__restored`), a task that waits for what only it can provide (`restore()`
inside the factory), cancellation at every await, and callbacks of an old
connection that run when a new one exists. `PROJECT.json` lists every hazard with
its line.

What makes each component correct:

* Pool: never more than `max_size` items; an item has one place; none is lost
  while the pool is open; no wakeup is lost; waiters are served; a closed pool
  makes nothing.
* Robust connection: one underlay connection at a time; `connected` tells the
  truth; close() is final; fail-fast fails; a loss is always repaired.
* Robust channel: restored means usable; the restore lock is given back; no
  underlay channel is left open; close() and restore() do not wait for each other;
  a reconnect restores the channel; a channel its user closed stays closed.
* Topology: after a restore the broker holds what the client was told it holds;
  what was removed stays away; a restore ends.
* Messages: each delivery is settled at most once; `processed` tells the truth;
  `process()` settles, whatever its body does.
* Queue iterator: what was buffered at close goes back to the queue; no consumer
  is left that nobody can cancel; a waiting task is fed, over losses too.
* RPC: every call ends; a call is forgotten only when an answer to it was sent. Both with
  the exceptions that queues with `auto_delete` make.

## 2. Modules

| Module | What it is |
|---|---|
| `ItemAllocator` | abstract specification: what a pool promises |
| `Pool` | `pool.py`, with its properties and the refinement mapping to `ItemAllocator` |
| `PoolProofs` | theorems about `Pool` |
| `MCPool` | instances of `Pool` for TLC |
| `RobustConnection` | `robust_connection.py` on top of `connection.py`, `UnderlayConnection` and `OneShotCallback`, with its properties |
| `RobustConnectionProofs` | theorems about `RobustConnection` |
| `MCConnection` | instances of `RobustConnection` for TLC |
| `RobustChannel` | `robust_channel.py` on top of `channel.py`, `UnderlayChannel` and `OneShotCallback`, with its properties |
| `RobustChannelProofs` | theorems about `RobustChannel` |
| `MCChannel` | instances of `RobustChannel` for TLC |
| `Link` | abstract specification: what a reconnecting connection is to the channels on it |
| `Topology` | what a robust channel records (`robust_channel.py`, `robust_exchange.py`, `robust_queue.py` and their bases) and what the broker holds |
| `TopologyProofs` | theorems about `Topology` |
| `MCTopology` | instances of `Topology` for TLC |
| `Settlement` | `message.py`, the transactions (`transaction.py`) and the handlers of workers (`patterns/master.py`) |
| `SettlementProofs` | theorems about `Settlement` |
| `MCSettlement` | instances of `Settlement` for TLC |
| `QueueIterator` | `QueueIterator`, `RobustQueueIterator` and the consumer side of `RobustQueue`, composed with `Settlement` (EXTENDS) |
| `QueueIteratorProofs` | theorems about `QueueIterator`, on top of `SettlementProofs` |
| `MCConsumer` | instances of `QueueIterator` for TLC |
| `Rpc` | `patterns/rpc.py` as caller and as server |
| `RpcProofs` | theorems about `Rpc` |
| `MCRpc` | instances of `Rpc` for TLC |

Each component's module also holds some operators whose comment begins with "Faulty": variants of the next definition with a plausible bug. No
specification uses them; they show that a property depends on the line the bug
is in (`mutants` in `PROJECT.json`).

### Pool

`pc[t]` is where a task is suspended: `lock` (waits for `__lock`), `construct`
(awaits the constructor, owns the lock), `get` and `get_locked` (wait in
`__items.get()` without and with the lock), `woken`, `woken_locked` (the getter's
future is done, the task is not scheduled yet), `using` (inside the block),
`closing` (close() gathers). The items are the numbers `1 .. created`.

Two standard objects are external and modelled from how the pool uses them.
`asyncio.Lock` is handed to its oldest waiter. `asyncio.Queue.put_nowait()` wakes
the oldest getter, which looks at the queue again only when it runs; meanwhile a
task that did not wait may take the item. This is why the model separates `get`
from `woken`. A getter that is cancelled after it was woken passes the wakeup on
if there is an item.

Actions: `Acquire` is everything from `acquire()` to the first await that
suspends; `CreateItem` the code of `_create_item()` once the lock is granted;
`Constructed`, `ConstructorFailed` the two ends of the constructor; `GetterRuns` a
woken getter; `Release` the end of the block (`put()`, which raises on a closed
pool and loses the item); `Cancel` a cancellation at any of these awaits; `Close`,
`CloseLocked`, `ItemCloses`, `CloseReturns`, `CancelClose` the steps of close().

### Robust connection

`task` is where the factory is suspended, `user[u]` where a user's task is,
`conn[g]` how far the g-th underlay connection is in its life: `open`, `closing`
(aiormq's closing future is done), `callbacks` (`_on_connection_close()` runs the
close callbacks), `finished` (`OneShotCallback.finished`). `transport` holds the
number of a connection or 0.

| Action | Code |
|---|---|
| `Connect`, `FailFastDone`, `CancelConnect` | `connect()`, its two awaits, its cancellation |
| `Reconnect`, `ReconnectGoesOn` | `reconnect()` |
| `Channel` | `channel()`: the channel will be restored from now on |
| `Close`, `FactoryGathered`, `UnderlayClosed` | `close()`: cancel and gather the factory, then `Connection.close()`, then `UnderlayConnection.close()` |
| `FactoryLoop` | the head of the factory's loop up to the attempt |
| `AttemptFails`, `FailureHandled` | `UnderlayConnection.connect()` fails and runs the close handler itself; the `except` clauses |
| `AttemptSucceeds`, `ChannelReopened`, `ChannelRestored`, `Reconnected` | the connection is made, `_on_connected()` |
| `RestoreWaits` | `restore()` finds the connection lost and waits for `connected` |
| `RestoreRaises`, `RestoreCloses`, `RestoreGivesUp` | the `except` clause of `_on_connected()` |
| `FactoryCancelled` | the cancelled factory ends |
| `Lost`, `CloseStarts`, `CloseEnds` | an underlay connection goes down and its one-shot callback runs |

`channel.restore()` is abstract here: it succeeds, raises, or waits. `mishap` is a
history variable: it records that a connection went down while channels were
restored or reconnect callbacks ran, the two windows in which the code loses the
loss. No action reads it.

### Robust channel

One channel object on one reconnecting connection. Three kinds of tasks open it:
users (`initialize()`, `reopen()`), the connection's factory (`restore()` in
`_on_connected()`), and the *closers*: the task that `OneShotCallback` starts for
each underlay channel that closes, which runs `__close_callback()` and may restore
the channel too. The closer of underlay channel `n` is the task `n`. `restore()` runs
under `__restore_lock`; `initialize()` and `reopen()` do not.

`chan[n]` is the life of an underlay channel as for connections above; `current` is
`_channel`, `mine[t]` the local variable of `_open()` or `close()`. `pc[t]`: `call` (the factory is
about to restore), `lock` (waits for the lock, or has just been given it), `open` (in
`UnderlayChannel.create()`), `broken` (the same without a live transport: it will
raise), `setup` (in `_on_open()`), `ready` (waits there for the connection), `undo`
(`_open()` failed and waits for the closer of what it opened), `reopen_cb`, `raise`
(the factory got an error), `close` (in close()), `done` (a closer is through).

| Action | Code |
|---|---|
| `Initialize`, `Reopen`, `Close`, `CloseReturns` | the users' calls |
| `Restore` (an operator), `LockGranted`, `FactoryRestores` | `restore()` up to its first await; behind the lock; called by the factory |
| `Created`, `CreateFails` | `UnderlayChannel.create()` returns or raises |
| `SetUp`, `SetUpWaits`, `SetUpFails`, `Undone` | `_on_open()` ends, waits for the connection, raises; the `except` clause of `_open()` |
| `Reopened` | the reopen callbacks are through, `restore()` returns |
| `CloserStarts`, `CloserEnds` | `_on_close()` with `__close_callback()`; `finished` is set |
| `ChannelLost`, `LinkLost`, `LinkDown`, `LinkUp`, `FactoryGivesUp` | the broker closes the channel; the connection is lost, knows it, is made again; the factory closes it because restore() raised |

The declarations that `_on_open()` repeats are one step that succeeds or raises. No
two answers of the broker overtake the callbacks of a channel that closed: asyncio
runs those within the next turns of the loop (`Settled`). `mishap` records that two
tasks opened the channel at once or that it went down while reopen callbacks ran.
No action reads it.

`Link` is the seam between the two modules above. `RobustConnection` implements it with
`connected` and the state of the last underlay connection as `link`, the factory's place
in `_on_connected()` as `restore`. `RobustChannel` has the connection as part of its own
state, since the channel depends on when a loss is told; that this connection is a
`Link` too says that the channel asks nothing of it that `RobustConnection` does not give.

### Topology

The broker's side is `exists`, `bound`, `consuming`, `prefetch`; the client's is
`held` (objects that live), `exchanges` and `queues` (the names in the channel's
dictionaries, in their order), `recorded` (the `_bindings` and `_consumers` of the
objects) and `qos`. The dictionaries hold objects weakly: an object that is collected
leaves its name, which keeps its place when the name is declared again (`Forget`,
`Named`, `Alive`). `Kept` is the recursive function that takes names out of a list.

`restorer` says who restores the channel. When the channel alone is lost it is the
*closer* (`__close_callback()`), whose error is swallowed: `"nobody"` restores it from then
on, until the connection is lost too. When the connection is lost it is the *factory*, which
closes the connection after an error and restores on the next one.

Four history variables say what the user was told, and what the code makes of it.
`wants`: the robust bindings and consumers whose request was answered and which the user
did not remove (nor drop with their object). `superseded`: those of them that an exchange
has forgotten, because it remembers one binding per source (robust_exchange.py:87, :104).
`absent`: what was never made, or whose removal was answered. `revivable`: what of it the
code makes again, namely what a running restore had copied already, and a queue that was
deleted through its object (queue.py:344).

| Action | Code |
|---|---|
| `DeclareExchange`, `DeclareQueue` | `declare_exchange()`, `declare_queue()`, and with `Passive` `get_exchange()`, `get_queue()` |
| `ExchangeDelete`, `QueueDelete` | `exchange_delete()`, `queue_delete()` of the channel |
| `SetQos` | `set_qos()` |
| `BindExchange`, `BindQueue`, `UnbindExchange`, `UnbindQueue`, `Consume`, `Cancel` | the methods of the robust objects |
| `DeleteExchange`, `DeleteQueue` | `Exchange.delete()`, `Queue.delete()` (with any of its flags: refused or not), which leave the records as they are |
| `Reopen`, `RestoreItem`, `RestoreBinding`, `RestoreConsumer`, `Restored` | `_on_open()` and the two `restore()` methods, one request at a time |
| `RestoreFails` | a request of them is refused, finds its tag in use, or has no channel; `Successor` says who tries again |
| `Lost`, `LostAfterwards` | the channel goes, alone or with the connection, now or later; with it may go what the broker does not keep |

A request and its answer are one step: the user's task records the answer before
the channel carries another request of it. What may come between is the end of the
channel (`Interrupted`: the broker did it, the request raised, nothing is recorded).
A restore is not one step, and the requests of exchanges and queues, which do
not wait for it, come between its steps.

### Messages

Each delivery is an `IncomingMessage`. `handler[d]` says where the task that runs
`async with message.process(...)` is; `other[d]` is a second task that settles the same
message. `ack()`, `reject()` and `nack()` are three steps in the code and here: look at
`processed`, write the frame (`Send`), set `processed` when the write is through
(`BodySettled`, `ExitEnds`, `OtherSettled`). `frames` is the connection to the broker in
order. `torn` records the deliveries whose settlements overlapped, were cancelled
after their frame was written, or were rolled back. When a channel closes, its
deliveries are forgotten: a settlement of one of them raises
(`IncomingMessage.channel`) and changes nothing. For the same reason the branches
of `ProcessContext.__aexit__` that look at `is_closed` (message.py:569, :582) are never
taken with a closed channel: the property has raised before.

`Select`, `Commit`, `Rollback` hold settlements back (`suspended`). A channel that is
reopened under a transaction was never selected: the commit closes it
(`NotTransactional`).

### Queue iterator

`tag` is `_consumer_tag`, `callback` whether `close` is among the queue's close
callbacks, `buffer` the iterator's queue (`Stale` is a message of an earlier underlay
channel), `iter` the task that iterates, `closer` the task that runs `close()`: the same
one or another. `consumers` is the broker's side, `recorded` the queue's `_consumers`.
`stranded` records that a consume() or a close() broke off (timeout, cancellation,
channel lost, `KeyError` of a second close). The deliveries, the channel and the
handlers are those of `Settlement`; a delivery and its arrival in the buffer are one
step, since the client reads what was sent before it reads anything later.

### RPC

`call[c]` is where the caller's task is, `futures` the dictionary, `done` the calls whose
future is done. A future is resolved by `OnResult` (a result or a dead letter),
`OnReturned`, `OnClose`, `Unbound` (inside `close()`), or by its own cancellation
(`CallCancelled`); `DoRemove` is its done callback, which runs later. `rpc` is where
`close()` is. The server's `registered[f]`, `routed` and `consumers` separate the moment
the broker starts or ends delivering from the moment `register()` or
`unregister()` learns of it; `Serve`, `Replies`, `Acks`, `Rejects` are the pieces of
`on_call_message()`, and `StaleReplies` the same handler after its channel is gone.

`ServerLost` closes the server's channel and `ServerRestored` opens it again. A `register()`
or `unregister()` under way raises, and one that starts without a channel does too
(`UnregisterFails`); the restore may then find a queue or a consumer recorded that belongs
to no function any more (`leftover`, `Unowned`): it does as long as the error keeps the
queue object alive.

`register()` hands its keyword arguments to `declare_queue()`, and the callee of the
documentation (docs/source/examples/rpc-callee.py:21) passes `auto_delete=True`. Such a
queue goes with its last consumer, by `Unregister` or `ServerLost`, and its messages with
it, neither redelivered nor dead-lettered: `MethodGone` makes them `"dropped"`.
`astray` records the calls nobody can answer any more, each in a way the code leaves open.

## 3. Runs

| Run | Instance | Expectation |
|---|---|---|
| `pool` | 3 clients, 1 closer, `MaxSize` 2, 2 acquisitions each | all properties hold |
| `pool_close_race` | the same | `NoneMadeOnClosedPool` is violated |
| `connection` | 2 users, 1 channel, 3 connections, fail-fast, exceptions of both kinds | all properties hold |
| `lost_wakeup` | 1 user, no channel, 3 connections | `AlwaysReconnects` is violated |
| `channel` | 1 user, the factory, 2 underlay channels at once | all properties hold |
| `dead_channel` | the same | `ReconnectRestores` is violated |
| `reopened_channel` | the same | `ClosedByUser` is violated |
| `topology` | 2 exchanges (one durable and passive), 1 queue, 3 bindings (two keys of one source), 1 consumer, 4 deletions, 1 loss and 1 setback | all properties hold |
| `unrestorable` | 1 exchange, 1 queue, `Exchange.delete()`, 1 loss | `AlwaysRestored` is violated |
| `settlement` | 1 message, 2 deliveries per channel, 4 modes of `process()`, 2 settling tasks, transactions | all properties hold |
| `iterator` | 2 messages, 2 deliveries per channel, 2 consumers, with and without `no_ack` | all properties hold |
| `rpc` | 1 call with or without expiration, 2 functions for its method, queues that go with their consumers or stay, 1 loss | all properties hold |

What the passing runs show:

* `pool`: `ImplementsAllocator` (the pool refines `ItemAllocator`: the limit is kept by the
  second check under the lock, and an item has one place), `NothingLost`,
  `NoStrandedWaiter` (as many scheduled getters as free items while somebody waits),
  `WaiterServed` and `CloseGetsThrough` (liveness: a waiter gets
  its item or its error; a close() that queued on an open pool closes it).
* `connection`: `ConnectedIsLive`, `NothingOpenAfterClose`, `OnlyLostIsReplaced`,
  `ImplementsLink` (a connection comes up only after the end of the last one was told and
  its restore is over; a restore that raised leaves no connection up; nothing comes up
  after close() or the error of a fail-fast connect()), `NoneWaitsForNothing` (a factory
  that waits has a connection whose end will wake it, a waiting connect() has a factory
  that runs), and the liveness properties `Reconnects`
  (a loss is repaired, unless somebody closes or the loss fell into a window that
  `mishap` records), `CloseReturns`, `ConnectReturns`.
* `channel`: `RestoredIsUsable` (ready() returns on a channel that lives),
  `NoChannelLeaks`, `ImplementsLink` (the connection this module assumes is one that
  `RobustConnection` provides), `LockHeldInside` (every way out of restore() gives the lock to the
  next), and the liveness properties `RestoreEnds` and `CloseEnds` (a restore that
  waits for a closer, and a closer that waits for the lock, never meet) and `Recovers`
  (after a reconnect the channel is restored). They exclude what `mishap` records:
  there the first two are false, and two tasks that open the channel at once can even
  block each other: a user's reopen() sets `__restored` under the factory's restore();
  if that restore then fails, it waits with the lock for its closer, which no longer
  sees a restore under way and waits for the lock. The liveness properties also exclude a
  factory that waits for the connection it has to make (`FactoryWaits`), which is
  the second window of `lost_wakeup` below.

* `topology`: `WantedIsThere` (an open channel has at the broker every robust binding and
  consumer the user was told of and did not remove, and the prefetch count),
  `RemovedStaysAway` (what the user unbound, cancelled or deleted no restore brings back)
  and `RestoreEnds` (liveness: a channel that the factory restores is open in the end).
  Each has an exception, which the code makes and the property names. `WantedIsThere`
  does not hold of `superseded` bindings: a confirmed binding is not restored once another
  key of the same source was bound to the same exchange, or unbound from it.
  `RemovedStaysAway` does not hold of what is `revivable`: a queue deleted by
  `Queue.delete()` is declared again by the next restore, with its bindings and consumers,
  and what a running restore has copied it makes again. TLC violates either property when
  its exception is taken out. `RestoreEnds` excludes what can never be restored
  (`Restorable`): a recorded exchange that was deleted through its object, and a binding
  whose source is neither at the broker nor declared before its destination. It says
  nothing of the closer: of a channel that was lost alone and whose restore fails nobody
  takes care until the connection goes.
* `settlement`: `SettledOnce` (no second frame for one delivery, which the broker
  answers by closing the channel), `ProcessedIsSettled` (a locked message is settled or
  its frame is on its way) and `HandledIsSettled` (liveness: no handler leaves a
  message unacknowledged on an open channel). They exclude `torn`: two settlements that
  overlap are two frames, since `processed` is set after the await.
* `iterator`: `BufferReturned`, `ConsumerHasOwner` and `WaiterFed` (liveness), unless a
  consume() or close() broke off (`stranded`).
* `rpc`: `PendingIsReachable` (a call that waits can still be ended by somebody),
  `AnswerUnderWay` (until it is ended, its answer, its return or the loss is on its way,
  or the server has it),
  `AnsweredBeforeForgotten` (the broker forgets a call only after an answer to it was
  sent, or with an auto-delete queue of the method) and `WaitingEnds` (liveness: a call that
  expires, or whose method is served again and again, ends). `AnswerUnderWay` and `WaitingEnds` exclude
  `astray`: a return that reaches no handler since the channel was reopened, a call sent
  after `close()` has failed the futures, a call served without a route, an answer without
  a result queue, and a call that an auto-delete queue of the method took along while no
  handler would answer it. With the documented `auto_delete=True` a server that loses its
  channel, or unregisters, so leaves callers that wait for ever, with an expiration too;
  TLC finds this behaviour when the exclusion is taken out.

What the violations show (`findings` in `PROJECT.json`):

* `pool_close_race`: `_create_item()` checks `__closed` only before it waits for the
  lock. A task queued behind close() constructs an item on a closed pool, and
  nobody closes that item.
* `lost_wakeup`: `_on_connected()` clears the close event after its awaits. A loss
  in between sets the event first; the clear erases it and the factory waits for
  ever. The run has no channel and shows the window of the reconnect callbacks only. The
  other window, in which `restore()` waits for `connected`, which only the factory that
  calls it sets, no run shows.
* `dead_channel`: restore() sets `__restored` after the reopen callbacks, although the
  channel may have closed meanwhile. The next reconnect finds the event set and does
  not restore the channel.
* `reopened_channel`: a user closes the channel while its closer restores it; `_open()`
  ends and resets `_closed`.
* `unrestorable`: `Exchange.delete()` takes the channel from the object and leaves it in
  `RobustChannel._exchanges`; every restore raises `AttributeError` at it. After a loss of
  the connection the factory tries again and again, and the robust channel is never
  restored as long as somebody holds the object.

One constant of `RobustConnection` leads to a counterexample that no run repeats. With
`SlowCallbacks = TRUE` (close callbacks outlast `reconnect_interval`) `OnlyLostIsReplaced`
fails with four connections: a failed restore leaves the close event set, the factory goes
on, and the end of the old callbacks sets the event again under a live connection. Nothing
in the code bounds a callback by that interval, so the run `connection` shows the property
for quick callbacks only, and no theorem states it. `OtherErrors` is TRUE in that run:
exceptions outside `CONNECTION_EXCEPTIONS` are retried (robust_connection.py:157) although
fail_fast is set, and connect() waits on; `ConnectReturns` holds all the same.

### Bounds

* `Rounds` (pool): how often a client acquires. Two rounds let an item be made,
  released and taken by another client, and a client come back while others wait.
  It also excludes starvation by clients that barge in without end, which the code
  does not exclude; so `WaiterServed` says that a waiter is served when finitely
  many others arrive.
* Three clients and `MaxSize` 2: one client more than items, so that a client can
  wait under the lock while another waits for the lock and a third holds an item.
* `MaxConns`: connections made. A connection goes down (other than by close())
  only while another may still be made, so that the bound does not look like a
  factory that gave up. Three connections suffice for a loss during a reconnect;
  the stale callback described above needs four.
* `MaxChans` (channel): underlay channels that exist at once. A finished one that nobody
  refers to is used again, so the life of the channel is not bounded. Two are needed
  for a closer that restores into a new channel; the invariants were also checked
  once with three and two users, which is too slow for a run with liveness.
* Two users (connection): two close(), or a close() against a connect() or a reconnect().
* `MaxLosses`, `MaxSetbacks` (topology): how often the open channel is lost or a request of
  it breaks off, and how often a restore is disturbed: the channel is lost again, or the user
  binds, unbinds, consumes, cancels or deletes something under it. One of each lets a restore be
  disturbed at any step, fail, be repeated and come to its end, and the user
  go on afterwards; a second loss of the open channel starts a restore from records that a
  first one could have met as well. With two setbacks the invariants were checked once
  (780,376 states), which is too slow for a run with liveness. `Deletes` says which deletions are
  used: both kinds on one exchange and the queue. Two exchanges, one of which is declared
  first or second, and bindings of one source with two keys are what the order and the keys of
  the records need.
* `MaxDeliveries` (messages): deliveries on one underlay channel; the count starts again
  on the next one, so the number of channels is not bounded. Two are a delivery and its
  redelivery, which `reject_on_redelivered` needs.
* `MaxConsumers` (iterator): how often the iterator asks to consume; two let it be closed and
  used again.
* One call (rpc): a call meets another one only in the loops over `futures` and in the
  queue that takes all its calls along, which treat each alone; the theorems are for any number
  of calls. Two functions let the second register before the first has unregistered.
  `AutoDeletes` has two pairs of flags, both queues go or both stay: the result
  queue depends on the caller's channel and the method's on the server's, and no action reads
  both flags. `MaxLosses` counts the losses of both channels.

### Fairness

Weak fairness for tasks that can run, constructors and callbacks that end, and
clients that leave their block. `AttemptSucceeds` and `ChannelReopened` are strongly
fair: a broker that can be reached again and again is reached in the end. In the
channel the same holds for `Created` and `SetUp` of the factory. The
restore of a channel (its closer's `_on_open()` in `RobustChannel`, `Restore` in `Topology`,
`Restored` and `ServerRestored` in `Rpc`) is weakly fair: whoever restores goes on and the broker
answers. In `Topology` this makes no retry of its own: after an error the factory has a
next connection, and a closer has nothing (`restorer`). The settling tasks and handlers are
too, and so is the broker's reading of frames; `Receive` and `Serve` are strongly fair: a
queue with messages and a consumer delivers although the consumer comes and goes. No
user is forced to acquire, connect, close or cancel, and no loss has to happen.

## 4. Proofs

Every theorem is for every value of the constants: any sets of users, tasks, calls,
exchanges and messages, any bound on connections, channels, deliveries and losses. Each
safety invariant that a passing run checks is a theorem, and so are the refinements. The invariants of the runs are not inductive;
what has to be added to each is the content of the proof and is told below. Each
`...Invariant` theorem is the induction, and the others follow from it.

`PoolProofs`: `TypeOK`, `LockExclusion`, `NothingLost`, `NoStrandedWaiter`, `ImplementsAllocator`,
and with them `CapacityBound` and `Exclusive`, which no run lists because the allocator
says the same. The strengthening says where a task may be: the tasks in `__lock`'s queue are
suspended there and occur once, the getters are in `get` or `get_locked` and occur
once, whoever constructs or waits under the lock owns it, and while a task
constructs the pool is under its limit, which is what makes the step that counts
the item safe. `NoStrandedWaiter` compares the number of scheduled getters with the number of
items: the lemmas on `Scheduled` say what one step of one task adds to the set
or takes from it, and it is finite because a wakeup adds one element.

`RobustConnectionProofs`: `TypeOK`, `ConnectedIsLive`, `NoAttemptAfterClose` (no run lists it:
`ImplementsLink` has it) and `NoneWaitsForNothing` with callbacks of any length;
`NothingOpenAfterClose` and `ImplementsLink` under the assumption that no
close callback outlasts the pause before an attempt (`~SlowCallbacks`), which the code does
not enforce; without it `OnlyLostIsReplaced` is false (section 3), which for this reason is
only checked. `ConnInv` says that
every earlier connection is `finished`, so that only the last one can set the close
event; that an attempt is under way only when the last one is finished too; and
that an open connection is the transport, which is why close() finds it. `WaitInv`, for
`NoneWaitsForNothing`, follows the close event: only the end of `_on_connected()` clears it,
and until then the connection is up or a mishap is recorded; a factory that nobody
cancelled ends only with the error that connect() raises. The refinement has a lemma for
the mapping (`LinkMapping`) and shows for each action which step of `Link`, or which
stutter, it is.

`RobustChannelProofs`: `TypeOK`, `LockHeldInside`, `RestoredIsUsable`, `NoChannelLeaks`,
`ImplementsLink`, and two that only the proofs state, `NoRestoreDeadlock` and
`RestoresUnlessMishap`. `ChannelInv` adds to the
types that a closer runs only while the callback of its
channel does, that the lock's queue holds tasks that wait, each once and none of
them the owner, and that only the owner runs reopen callbacks. Four lemmas cover
what can happen to the lock (a task moves without it, takes it, gives it back, lines
up); each action is one of these. `UseInv` holds as long as no mishap does: one task opens
the channel at a time, what it holds is the channel in use, nothing is open while it asks
for one, and reopen callbacks run on an open channel that nobody opens again.
`NoRestoreDeadlock` is the safety side of `RestoreEnds` and `CloseEnds`: whoever undoes an
opening with the restore lock in its hands waits for a closer that does not wait for that
lock, because the owner of the lock opens an unrestored channel, and a closer
that sees a restore under way does not restore. `RestoresUnlessMishap` is what is true of
`ReconnectRestores` (section 3): the factory's restore() returns with the event set and the
channel usable, unless `mishap`; it needs that the factory is past the head of restore()
only with the lock in its hands.

`TopologyProofs`: `TypeOK`, `RemovedStaysAway`, `WantedIsThere`. The invariant relates three places:
the records of objects that live hold all that is wanted (`WantedIsRecorded`) and nothing that
was removed (`RemovedIsGone`); the channel knows those objects by name (`HeldIsNamed`); and
during a restore whatever is wanted and not there yet is still in its lists (`WantedSoon`).
Superseded bindings are left out of the first and the last, and what is revivable of `RemovedIsGone`
(`Away` is what is absent for good): these are the exceptions of the two properties, and the
proof shows that there is no other, for any records, losses and deletions. A
deleted exchange whose name stays behind does no harm to this, as it has no
channel to be restored on. What `Kept` leaves of a sequence is proved for sequences of any
length, by well-founded induction on a set of numbers (`SetInduction`).

`SettlementProofs`: `SettleTypeOK`, `SettledOnce`, `ProcessedIsSettled`. A delivery is `Touched` from the
moment a task has looked at its `processed` flag to settle it. Untouched deliveries that
are not torn are unacknowledged and without a frame; touched ones are unacknowledged exactly as
long as their only frame is on its way (`Clean`). A task that settles a touched delivery
tears it, which is the race these properties exclude. `OverIsSettled`, which only the proofs
state, is the safety side of `HandledIsSettled`: no handler ends and leaves a delivery untouched.

`QueueIteratorProofs` uses the same lemmas for a larger set of deliveries, with those that
close() has taken out of the buffer (`Clean(Touched \cup Taken)`): `TypeOK`, `BufferReturned`,
`ConsumerHasOwner`, `SettledOnce` and `ProcessedIsSettled` of the composed system. What is added:
the buffer holds each live message once and nobody else has it, a closed channel
leaves only stale ones, and a consumer or a record of one belongs to the tag of the iterator or to the
close() that cancels it. `OwnerHasConsumer`, which only the proofs state, is the converse and the
safety side of `WaiterFed`: an iterator with a tag has its consumer, on this
channel or in the records of the next restore, because close() cancels only earlier ones.

`RpcProofs`: `TypeOK`, `PendingIsReachable`, `AnswerUnderWay`, `AnsweredBeforeForgotten`. The invariant
adds that after close() has cancelled the consumer no restore brings it back, that
until then a restored channel listens, that a call being served is unacknowledged or was
dropped with its queue (`ServedIsUnacked`), and that the acknowledgement follows the answer; a call that a queue takes along is
then still being served, answered already, or astray (`DroppedTold`).

Only model-checked: the liveness properties (`WaiterServed`, `CloseGetsThrough`, `Reconnects`,
`CloseReturns`, `ConnectReturns`, `RestoreEnds`, `CloseEnds`, `Recovers`, `HandledIsSettled`,
`WaiterFed`, `WaitingEnds`), since the prover has neither fairness nor `ENABLED`, and
`OnlyLostIsReplaced`.
`NoStrandedWaiter`, `NoneWaitsForNothing`, `NoRestoreDeadlock`, `OwnerHasConsumer`, `OverIsSettled` and
`AnswerUnderWay` are what those of the pool, the connection, the channel, the iterator, the
messages and the RPC need of every single state: whoever waits has somebody to wake it. That the waker runs, and that this ends, is
what TLC checks. The properties that fail (section 3) have counterexamples and no theorem.

## 5. Not modelled

* Parsing of URLs and parameters, `update_secret()`, encoding of messages, headers and
  payloads, logging, proxies and the abstract classes: no state that a property is about.
* `aiormq`, the broker and asyncio are environment.
* `CallbackCollection` is sequential; its re-entrancy (a synchronous callback that changes
  its own collection blocks on the lock, tools.py:196) needs no state machine.
* Topology: purge(), `get_exchange()` and `get_queue()` with `ensure=False`, two objects of
  one name, the deletion of auto-delete exchanges and queues when their last user goes (`Rpc`
  has it for its queues).
* Messages: `multiple=True`; publishing of tasks and confirmation of publishing.
* RPC: two RPC objects on one channel; the requests of the restore of the result
  queue are one step (`Topology` has them one by one).

What the code leaves open and no property claims: a client that waits in `acquire()`
when the pool is closed is never woken; items that are dead go back to the pool;
connect() after a close() that found no transport waits for ever; `_reconnect_lock` is
never acquired, so `reconnecting` is always false; `_global_qos` is recorded and not
restored; a close() of an RPC object that raises after the consumer was cancelled
cannot be repeated; `unregister()` of a function that is not a coroutine does nothing, since
`register()` keeps its wrapper; an `unregister()` that a loss of the channel breaks off
leaves the route, and maybe a consumer that no function owns; calls go with an
auto-delete queue of their method and their callers wait for ever; a close of the iterator that breaks off leaves what it
had buffered unacknowledged until the channel closes; a confirmed binding is not restored
after another key of its source was bound or unbound; a queue deleted by `Queue.delete()`, and
what is removed under a restore that has copied it, come back; the error of a restore
by the channel's closer is swallowed, and the channel stays lost until the connection goes too.

## 6. Plan

1. Proofs: what `RestoreEnds` of `Topology` says of a single step: a restore fails only where
   it is not `Restorable`, or where the user deleted or consumed something under it, or
   passive items went. This needs the order of the two lists (`Position`) in the invariant.
2. Models: Worker.close() and create_task() of `patterns/master.py`, several RPC objects on one
   channel, `multiple=True`.
