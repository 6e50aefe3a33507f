------------------------------- MODULE Pool -------------------------------
(***************************************************************************)
(* The resource pool of aio_pika/pool.py: at most max_size items (usually  *)
(* connections or channels) shared by the tasks of one event loop.         *)
(*                                                                         *)
(* A task runs without interruption from one suspension point to the next, *)
(* so every action below is the code between two awaits that really        *)
(* suspend.  Two objects of the standard library are modelled from how     *)
(* pool.py uses them: asyncio.Lock (first come first served, handed over   *)
(* to the oldest waiter) and asyncio.Queue (put_nowait wakes the oldest    *)
(* getter, which looks at the queue again only when it is scheduled, so    *)
(* another task may have taken the item meanwhile).                        *)
(***************************************************************************)
EXTENDS Naturals, Sequences, FiniteSets

CONSTANTS
    Clients,   \* tasks that run "async with pool.acquire()"
    Closers,   \* tasks that run pool.close() or leave "async with pool"
    NoTask,    \* nobody: the lock is free
    MaxSize,   \* max_size; 0 stands for None too, both mean no limit
    Rounds     \* bound: how many times one client acquires

ASSUME PoolAssumption ==
    /\ Clients \cap Closers = {}
    /\ NoTask \notin Clients \cup Closers
    /\ MaxSize \in Nat
    /\ Rounds \in Nat

Tasks == Clients \cup Closers

VARIABLES
    closed,    \* Pool.__closed
    created,   \* Pool.__created; the items are numbered 1 .. created
    items,     \* Pool.__items: the released items, oldest first
    getters,   \* the tasks suspended in __items.get(), oldest first
    lock,      \* the task that owns Pool.__lock, or NoTask
    lockq,     \* the tasks waiting for Pool.__lock, oldest first
    pc,        \* where each task is suspended
    held,      \* PoolItemContextManager.item of each client, 0 for none
    toClose,   \* the item.close() tasks that each close() still gathers
    itemClosed,\* the items whose close() has run
    uses       \* how many times each client has acquired (bound)

vars == <<closed, created, items, getters, lock, lockq, pc, held, toClose,
          itemClosed, uses>>

ClientPC == {"idle", "lock", "construct", "get", "woken", "get_locked",
             "woken_locked", "using"}
CloserPC == {"idle", "lock", "closing"}

\* __item_set: every item ever constructed.
item_set == 1..created

Init ==
    /\ closed = FALSE
    /\ created = 0
    /\ items = << >>
    /\ getters = << >>
    /\ lock = NoTask
    /\ lockq = << >>
    /\ pc = [t \in Tasks |-> "idle"]
    /\ held = [c \in Clients |-> 0]
    /\ toClose = [k \in Closers |-> {}]
    /\ itemClosed = {}
    /\ uses = [c \in Clients |-> 0]

-----------------------------------------------------------------------------
has_released == items # << >>

is_overflow == \/ MaxSize > 0 /\ created >= MaxSize
               \/ has_released

\* asyncio.Lock.release(): the oldest waiter becomes the owner.
ReleaseLock ==
    IF lockq = << >>
    THEN lock' = NoTask /\ lockq' = lockq
    ELSE lock' = Head(lockq) /\ lockq' = Tail(lockq)

\* Sequence s without its element t (at most one), for a cancelled waiter.
Without(s, t) ==
    IF \E i \in 1..Len(s) : s[i] = t
    THEN LET i == CHOOSE i \in 1..Len(s) : s[i] = t
         IN  [j \in 1..(Len(s) - 1) |-> IF j < i THEN s[j] ELSE s[j + 1]]
    ELSE s

\* Queue.get() on a non-empty queue: returns without suspending.
TakeItem(c) ==
    /\ items # << >>
    /\ held' = [held EXCEPT ![c] = Head(items)]
    /\ items' = Tail(items)
    /\ pc' = [pc EXCEPT ![c] = "using"]
    /\ UNCHANGED getters

\* Queue.get() on an empty queue: suspends at the end of the getters.
WaitForItem(c, where) ==
    /\ items = << >>
    /\ getters' = Append(getters, c)
    /\ pc' = [pc EXCEPT ![c] = where]
    /\ UNCHANGED <<items, held>>

\* Queue._wakeup_next(): the oldest getter is scheduled, the others stay.
WakeNext(pcs) ==
    IF getters = << >>
    THEN pc' = pcs /\ getters' = getters
    ELSE /\ pc' = [pcs EXCEPT ![Head(getters)] =
                     IF @ = "get_locked" THEN "woken_locked" ELSE "woken"]
         /\ getters' = Tail(getters)

-----------------------------------------------------------------------------
\* acquire(), PoolItemContextManager.__aenter__(), _get() and _create_item()
\* up to the first await that suspends.  On a closed pool they raise and
\* change nothing.
Acquire(c) ==
    /\ pc[c] = "idle"
    /\ ~closed
    /\ uses[c] < Rounds
    /\ uses' = [uses EXCEPT ![c] = @ + 1]
    /\ \/ /\ is_overflow
          /\ TakeItem(c) \/ WaitForItem(c, "get")
          /\ UNCHANGED <<lock, lockq>>
       \/ /\ ~is_overflow
          /\ lock = NoTask
          /\ lock' = c
          /\ pc' = [pc EXCEPT ![c] = "construct"]
          /\ UNCHANGED <<lockq, items, getters, held>>
       \/ /\ ~is_overflow
          /\ lock # NoTask
          /\ lockq' = Append(lockq, c)
          /\ pc' = [pc EXCEPT ![c] = "lock"]
          /\ UNCHANGED <<lock, items, getters, held>>
    /\ UNCHANGED <<closed, created, toClose, itemClosed>>

\* Faulty CreateItem: does not look at the limit again under the lock.
CreateItemUnchecked(c) ==
    /\ pc[c] = "lock"
    /\ lock = c
    /\ pc' = [pc EXCEPT ![c] = "construct"]
    /\ UNCHANGED <<closed, created, items, getters, lock, lockq, held, toClose,
                   itemClosed, uses>>

\* _create_item() goes on once it owns the lock.  It looks at the released
\* items and at the limit again, but not at __closed.
CreateItem(c) ==
    /\ pc[c] = "lock"
    /\ lock = c
    /\ \/ /\ is_overflow
          /\ TakeItem(c)
          /\ ReleaseLock
       \/ /\ is_overflow
          /\ WaitForItem(c, "get_locked")
          /\ UNCHANGED <<lock, lockq>>
       \/ /\ ~is_overflow
          /\ pc' = [pc EXCEPT ![c] = "construct"]
          /\ UNCHANGED <<lock, lockq, items, getters, held>>
    /\ UNCHANGED <<closed, created, toClose, itemClosed, uses>>

\* Faulty Constructed: the item is neither counted nor remembered.
ConstructedUncounted(c) ==
    /\ pc[c] = "construct"
    /\ held' = [held EXCEPT ![c] = created + 1]
    /\ pc' = [pc EXCEPT ![c] = "using"]
    /\ ReleaseLock
    /\ UNCHANGED <<closed, created, items, getters, toClose, itemClosed, uses>>

\* The constructor returns an item.
Constructed(c) ==
    /\ pc[c] = "construct"
    /\ created' = created + 1
    /\ held' = [held EXCEPT ![c] = created + 1]
    /\ pc' = [pc EXCEPT ![c] = "using"]
    /\ ReleaseLock
    /\ UNCHANGED <<closed, items, getters, toClose, itemClosed, uses>>

\* Faulty ConstructorFailed: the error leaves the lock taken.
ConstructorFailedLocked(c) ==
    /\ pc[c] = "construct"
    /\ pc' = [pc EXCEPT ![c] = "idle"]
    /\ UNCHANGED <<closed, created, items, getters, lock, lockq, held, toClose,
                   itemClosed, uses>>

\* The constructor raises: "async with self.__lock" releases the lock and the
\* error goes to the caller.
ConstructorFailed(c) ==
    /\ pc[c] = "construct"
    /\ pc' = [pc EXCEPT ![c] = "idle"]
    /\ ReleaseLock
    /\ UNCHANGED <<closed, created, items, getters, held, toClose,
                   itemClosed, uses>>

\* A woken getter is scheduled: it takes an item or, when another task was
\* faster, waits again.
GetterRuns(c) ==
    /\ \/ /\ pc[c] = "woken"
          /\ TakeItem(c) \/ WaitForItem(c, "get")
          /\ UNCHANGED <<lock, lockq>>
       \/ /\ pc[c] = "woken_locked"
          /\ \/ TakeItem(c) /\ ReleaseLock
             \/ WaitForItem(c, "get_locked") /\ UNCHANGED <<lock, lockq>>
    /\ UNCHANGED <<closed, created, toClose, itemClosed, uses>>

\* Faulty Release: the client leaves without put().
ReleaseForgets(c) ==
    /\ pc[c] = "using"
    /\ held' = [held EXCEPT ![c] = 0]
    /\ pc' = [pc EXCEPT ![c] = "idle"]
    /\ UNCHANGED <<closed, created, items, getters, lock, lockq, toClose,
                   itemClosed, uses>>

\* Faulty Release: the item goes back, but nobody that waits is told.
ReleaseUnannounced(c) ==
    /\ pc[c] = "using"
    /\ held' = [held EXCEPT ![c] = 0]
    /\ items' = IF closed THEN items ELSE Append(items, held[c])
    /\ pc' = [pc EXCEPT ![c] = "idle"]
    /\ UNCHANGED <<closed, created, getters, lock, lockq, toClose, itemClosed, uses>>

\* PoolItemContextManager.__aexit__() and Pool.put().  On a closed pool put()
\* raises PoolInvalidStateError and the item is not released.
Release(c) ==
    /\ pc[c] = "using"
    /\ held' = [held EXCEPT ![c] = 0]
    /\ \/ /\ ~closed
          /\ items' = Append(items, held[c])
          /\ WakeNext([pc EXCEPT ![c] = "idle"])
       \/ /\ closed
          /\ pc' = [pc EXCEPT ![c] = "idle"]
          /\ UNCHANGED <<items, getters>>
    /\ UNCHANGED <<closed, created, lock, lockq, toClose, itemClosed, uses>>

\* A client that waits is cancelled (asyncio.wait_for, Task.cancel).  A getter
\* that was already woken passes the wakeup on when there is an item.
Cancel(c) ==
    LET idle == [pc EXCEPT ![c] = "idle"] IN
    /\ \/ /\ pc[c] = "lock"
          /\ pc' = idle
          /\ \/ lock = c /\ ReleaseLock
             \/ lock # c /\ lockq' = Without(lockq, c) /\ lock' = lock
          /\ UNCHANGED getters
       \/ /\ pc[c] = "construct"
          /\ pc' = idle
          /\ ReleaseLock
          /\ UNCHANGED getters
       \/ /\ pc[c] \in {"get", "get_locked"}
          /\ pc' = idle
          /\ getters' = Without(getters, c)
          /\ \/ pc[c] = "get" /\ UNCHANGED <<lock, lockq>>
             \/ pc[c] = "get_locked" /\ ReleaseLock
       \/ /\ pc[c] \in {"woken", "woken_locked"}
          /\ IF has_released
             THEN WakeNext(idle)
             ELSE pc' = idle /\ UNCHANGED getters
          /\ \/ pc[c] = "woken" /\ UNCHANGED <<lock, lockq>>
             \/ pc[c] = "woken_locked" /\ ReleaseLock
    /\ UNCHANGED <<closed, created, items, held, toClose, itemClosed, uses>>

-----------------------------------------------------------------------------
\* The body of close() under the lock: every item of __item_set gets a task
\* that closes it; with no item there is nothing to gather.
CloseItems(k, release) ==
    /\ closed' = TRUE
    /\ toClose' = [toClose EXCEPT ![k] = item_set]
    /\ IF item_set = {}
       THEN release /\ pc' = [pc EXCEPT ![k] = "idle"]
       ELSE /\ lock' = k
            /\ lockq' = lockq
            /\ pc' = [pc EXCEPT ![k] = "closing"]
    /\ UNCHANGED <<created, items, getters, held, itemClosed, uses>>

\* close() is called, directly or by Pool.__aexit__() on a pool that is not
\* closed yet (on a closed one __aexit__() returns at once).
Close(k) ==
    /\ pc[k] = "idle"
    /\ \/ lock = NoTask /\ CloseItems(k, UNCHANGED <<lock, lockq>>)
       \/ /\ lock # NoTask
          /\ lockq' = Append(lockq, k)
          /\ pc' = [pc EXCEPT ![k] = "lock"]
          /\ UNCHANGED <<closed, created, items, getters, lock, held, toClose,
                         itemClosed, uses>>

CloseLocked(k) ==
    /\ pc[k] = "lock"
    /\ lock = k
    /\ CloseItems(k, ReleaseLock)

\* One gathered item.close() ends, with or without an exception.
ItemCloses(k, i) ==
    /\ i \in toClose[k]
    /\ toClose' = [toClose EXCEPT ![k] = @ \ {i}]
    /\ itemClosed' = itemClosed \cup {i}
    /\ UNCHANGED <<closed, created, items, getters, lock, lockq, pc, held, uses>>

CloseReturns(k) ==
    /\ pc[k] = "closing"
    /\ toClose[k] = {}
    /\ pc' = [pc EXCEPT ![k] = "idle"]
    /\ ReleaseLock
    /\ UNCHANGED <<closed, created, items, getters, held, toClose, itemClosed,
                   uses>>

\* A close() is cancelled while it waits for the lock or for the items.
\* Cancelling gather() cancels the item.close() tasks it still waits for, and
\* __closed stays set.
CancelClose(k) ==
    /\ \/ /\ pc[k] = "lock"
          /\ lock # k
          /\ lockq' = Without(lockq, k)
          /\ lock' = lock
       \/ pc[k] = "lock" /\ lock = k /\ ReleaseLock
       \/ pc[k] = "closing" /\ ReleaseLock
    /\ pc' = [pc EXCEPT ![k] = "idle"]
    /\ toClose' = [toClose EXCEPT ![k] = {}]
    /\ UNCHANGED <<closed, created, items, getters, held, itemClosed, uses>>

-----------------------------------------------------------------------------
Next ==
    \/ \E c \in Clients :
          \/ Acquire(c)
          \/ CreateItem(c)
          \/ Constructed(c)
          \/ ConstructorFailed(c)
          \/ GetterRuns(c)
          \/ Release(c)
          \/ Cancel(c)
    \/ \E k \in Closers :
          \/ Close(k)
          \/ CloseLocked(k)
          \/ \E i \in toClose[k] : ItemCloses(k, i)
          \/ CloseReturns(k)
          \/ CancelClose(k)

Spec == Init /\ [][Next]_vars

\* The event loop runs every scheduled task, constructors and item.close()
\* return, and clients leave their "async with" block.  Nobody has to acquire,
\* close or cancel.
Fairness ==
    /\ \A c \in Clients :
          /\ WF_vars(CreateItem(c))
          /\ WF_vars(Constructed(c) \/ ConstructorFailed(c))
          /\ WF_vars(GetterRuns(c))
          /\ WF_vars(Release(c))
    /\ \A k \in Closers :
          /\ WF_vars(CloseLocked(k))
          /\ WF_vars(\E i \in item_set : ItemCloses(k, i))
          /\ WF_vars(CloseReturns(k))

FairSpec == Spec /\ Fairness

-----------------------------------------------------------------------------
\* The state of the pool and of its tasks is well formed.
TypeOK ==
    /\ closed \in BOOLEAN
    /\ created \in Nat
    /\ items \in Seq(item_set)
    /\ getters \in Seq(Clients)
    /\ lock \in Tasks \cup {NoTask}
    /\ lockq \in Seq(Tasks)
    /\ pc \in [Tasks -> ClientPC \cup CloserPC]
    /\ \A c \in Clients : pc[c] \in ClientPC
    /\ \A k \in Closers : pc[k] \in CloserPC
    /\ held \in [Clients -> {0} \cup item_set]
    /\ toClose \in [Closers -> SUBSET item_set]
    /\ itemClosed \subseteq item_set
    /\ uses \in [Clients -> 0..Rounds]

\* max_size is a bound: tasks that raced past the first _is_overflow look
\* again under the lock, so no two of them construct the last item.
CapacityBound == MaxSize > 0 => created <= MaxSize

\* The code between "async with self.__lock" and its end is never run by two
\* tasks: the owner of the lock is the only one constructing, waiting for an
\* item under the lock, or closing.
InsideLock(t) ==
    pc[t] \in {"construct", "get_locked", "woken_locked", "closing"}

LockExclusion == \A t \in Tasks : InsideLock(t) => lock = t

\* An item has one place: it is in the hands of one client or waits once in
\* __items, never both and never twice, however get(), put(), construction
\* and cancellation interleave.
Exclusive ==
    /\ \A c, d \in Clients : held[c] # 0 /\ held[c] = held[d] => c = d
    /\ \A i, j \in 1..Len(items) : items[i] = items[j] => i = j
    /\ \A c \in Clients, i \in 1..Len(items) : held[c] # items[i]

\* No item is lost while the pool is open: what was constructed is held or
\* can be acquired, whichever task was cancelled and wherever it waited.
NothingLost ==
    ~closed => \A n \in item_set :
                  \/ \E c \in Clients : held[c] = n
                  \/ \E i \in 1..Len(items) : items[i] = n

\* A wakeup is never lost: as long as tasks wait in __items.get(), there are
\* at least as many scheduled getters as released items.
NoStrandedWaiter ==
    getters # << >> =>
       Len(items) <= Cardinality({c \in Clients :
                                    pc[c] \in {"woken", "woken_locked"}})

\* A task that waits in acquire() gets its item or its error, unless the pool
\* is closed meanwhile.
WaiterServed ==
    \A c \in Clients :
       (pc[c] \notin {"idle", "using"}) ~> (pc[c] \in {"idle", "using"} \/ closed)

\* A close() that queued for the lock of an open pool closes it (or is
\* cancelled): the clients ahead of it, the ones waiting for an item with the
\* lock in their hands too, let it through.
CloseGetsThrough ==
    \A k \in Closers : (pc[k] = "lock" /\ ~closed) ~> (closed \/ pc[k] = "idle")

\* The pool is an item allocator (ItemAllocator.tla): the lock, the queue, the
\* wakeups and the cancellations implement it, the released items being the
\* ones in __items.
Allocator == INSTANCE ItemAllocator WITH
    Limit <- MaxSize, shut <- closed, made <- created, holder <- held,
    free <- {items[i] : i \in 1..Len(items)}

ImplementsAllocator == Allocator!Spec

\* What _create_item() says of itself ("create item operation on closed pool"
\* is an error) and the tests say of close() (afterwards every instance is
\* closed): a closed pool constructs no item.
NoneMadeOnClosedPool == [][closed => created' = created]_vars
=============================================================================
