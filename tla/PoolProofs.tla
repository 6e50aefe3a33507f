---------------------------- MODULE PoolProofs ----------------------------
(***************************************************************************)
(* Proofs about Pool.tla, for any number of tasks and any max_size.        *)
(***************************************************************************)
EXTENDS Pool, SequenceTheorems, FiniteSetTheorems, TLAPS

\* No element of s appears in it twice.
Distinct(s) == \A i, j \in 1..Len(s) : s[i] = s[j] => i = j

\* A task waits in __items.get() exactly while its pc says so, and once.
GettersWait ==
    /\ Distinct(getters)
    /\ \A i \in 1..Len(getters) : pc[getters[i]] \in {"get", "get_locked"}

\* A client has an item exactly while it is in the body of "async with".
HeldWhileUsing == \A c \in Clients : held[c] # 0 <=> pc[c] = "using"

\* A task that constructs an item has room for it, and keeps it.
RoomToConstruct ==
    \A c \in Clients : pc[c] = "construct" /\ MaxSize > 0 => created < MaxSize

-----------------------------------------------------------------------------
\* Removing a cancelled waiter leaves a queue of waiters.
LEMMA WithoutType ==
  ASSUME NEW S, NEW s \in Seq(S), NEW t
  PROVE  Without(s, t) \in Seq(S)
<1>1. CASE \E i \in 1..Len(s) : s[i] = t
  <2> DEFINE i == CHOOSE i \in 1..Len(s) : s[i] = t
  <2>1. i \in 1..Len(s)
    BY <1>1
  <2>2. [j \in 1..(Len(s) - 1) |-> IF j < i THEN s[j] ELSE s[j + 1]] \in Seq(S)
    BY <2>1
  <2> QED BY <1>1, <2>2 DEF Without
<1>2. CASE ~ \E i \in 1..Len(s) : s[i] = t
  BY <1>2 DEF Without
<1> QED BY <1>1, <1>2

\* Removing a waiter removes it, and no other waiter.
LEMMA WithoutElements ==
  ASSUME NEW S, NEW s \in Seq(S), NEW t, Distinct(s)
  PROVE  /\ Distinct(Without(s, t))
         /\ \A i \in 1..Len(Without(s, t)) :
               /\ Without(s, t)[i] # t
               /\ \E j \in 1..Len(s) : Without(s, t)[i] = s[j]
<1>1. CASE \E i \in 1..Len(s) : s[i] = t
  <2> DEFINE i == CHOOSE i \in 1..Len(s) : s[i] = t
             w == [j \in 1..(Len(s) - 1) |-> IF j < i THEN s[j] ELSE s[j + 1]]
  <2>1. i \in 1..Len(s) /\ s[i] = t
    BY <1>1
  <2>2. Without(s, t) = w
    BY <1>1 DEF Without
  <2>3. Len(w) = Len(s) - 1 /\ DOMAIN w = 1..(Len(s) - 1)
    BY <2>1
  <2>4. \A j \in 1..Len(w) : w[j] = IF j < i THEN s[j] ELSE s[j + 1]
    BY <2>3
  <2> HIDE DEF i, w
  <2>5. \A j \in 1..Len(w) : w[j] # t /\ \E m \in 1..Len(s) : w[j] = s[m]
    BY <2>1, <2>3, <2>4 DEF Distinct
  <2>6. Distinct(w)
    BY <2>1, <2>3, <2>4 DEF Distinct
  <2> QED BY <2>2, <2>5, <2>6
<1>2. CASE ~ \E i \in 1..Len(s) : s[i] = t
  BY <1>2 DEF Without
<1> QED BY <1>1, <1>2

-----------------------------------------------------------------------------
\* A sequence over a set is one over every larger set.
LEMMA SeqLarger ==
  ASSUME NEW S, NEW T, S \subseteq T, NEW s \in Seq(S)
  PROVE  s \in Seq(T)
BY LenProperties

\* Handing over the lock keeps it with a task or free.
LEMMA ReleaseLockType ==
  ASSUME TypeOK, ReleaseLock
  PROVE  lock' \in Tasks \cup {NoTask} /\ lockq' \in Seq(Tasks)
<1>1. lockq \in Seq(Tasks)
  BY DEF TypeOK
<1>2. lockq # << >> => Head(lockq) \in Tasks /\ Tail(lockq) \in Seq(Tasks)
  BY <1>1, HeadTailProperties
<1> QED BY <1>1, <1>2 DEF ReleaseLock

\* What pc is after task t moved to v, for a client or a closer.
LEMMA PcType ==
  ASSUME TypeOK, NEW t \in Tasks, NEW v,
         t \in Clients => v \in ClientPC,
         t \in Closers => v \in CloserPC,
         pc' = [pc EXCEPT ![t] = v]
  PROVE  /\ pc' \in [Tasks -> ClientPC \cup CloserPC]
         /\ \A d \in Clients : pc'[d] \in ClientPC
         /\ \A k \in Closers : pc'[k] \in CloserPC
BY DEF TypeOK, Tasks

\* Getting an item keeps the types of what it changes.
LEMMA GetType ==
  ASSUME TypeOK, NEW c \in Clients, NEW w \in {"get", "get_locked"},
         UNCHANGED created, TakeItem(c) \/ WaitForItem(c, w)
  PROVE  /\ items' \in Seq(item_set')
         /\ getters' \in Seq(Clients)
         /\ pc' \in [Tasks -> ClientPC \cup CloserPC]
         /\ \A d \in Clients : pc'[d] \in ClientPC
         /\ \A k \in Closers : pc'[k] \in CloserPC
         /\ held' \in [Clients -> {0} \cup item_set']
<1>1. item_set' = item_set
  BY DEF item_set
<1>2. /\ items \in Seq(item_set)
      /\ getters \in Seq(Clients)
      /\ held \in [Clients -> {0} \cup item_set]
  BY DEF TypeOK
<1>3. c \in Tasks /\ c \notin Closers
  BY PoolAssumption DEF Tasks
<1>4. CASE TakeItem(c)
  <2>1. Head(items) \in item_set /\ Tail(items) \in Seq(item_set)
    BY <1>2, <1>4, HeadTailProperties DEF TakeItem
  <2>2. "using" \in ClientPC
    BY DEF ClientPC
  <2> QED BY <1>1, <1>2, <1>3, <1>4, <2>1, <2>2, PcType DEF TakeItem
<1>5. CASE WaitForItem(c, w)
  <2>1. Append(getters, c) \in Seq(Clients)
    BY <1>2, AppendProperties
  <2>2. w \in ClientPC
    BY DEF ClientPC
  <2> QED BY <1>1, <1>2, <1>3, <1>5, <2>1, <2>2, PcType DEF WaitForItem
<1> QED BY <1>4, <1>5

\* Waking a getter keeps the types of what it changes.
LEMMA WakeType ==
  ASSUME TypeOK, NEW c \in Clients, WakeNext([pc EXCEPT ![c] = "idle"])
  PROVE  /\ getters' \in Seq(Clients)
         /\ pc' \in [Tasks -> ClientPC \cup CloserPC]
         /\ \A d \in Clients : pc'[d] \in ClientPC
         /\ \A k \in Closers : pc'[k] \in CloserPC
<1>1. getters \in Seq(Clients)
  BY DEF TypeOK
<1>2. getters # << >> => Head(getters) \in Clients /\ Tail(getters) \in Seq(Clients)
  BY <1>1, HeadTailProperties
<1>3. {"idle", "woken", "woken_locked"} \subseteq ClientPC
  BY DEF ClientPC
<1>4. CASE getters = << >>
  BY <1>1, <1>3, <1>4, PoolAssumption DEF TypeOK, WakeNext, Tasks
<1>5. CASE getters # << >>
  <2> DEFINE h == Head(getters)
             v == IF [pc EXCEPT ![c] = "idle"][h] = "get_locked"
                  THEN "woken_locked" ELSE "woken"
  <2>1. pc' = [[pc EXCEPT ![c] = "idle"] EXCEPT ![h] = v]
    BY <1>5 DEF WakeNext
  <2>2. getters' = Tail(getters)
    BY <1>5 DEF WakeNext
  <2>3. h \in Clients /\ v \in ClientPC
    BY <1>2, <1>3, <1>5
  <2> HIDE DEF h, v
  <2> QED BY <1>2, <1>3, <1>5, <2>1, <2>2, <2>3, PoolAssumption DEF TypeOK, Tasks
<1> QED BY <1>4, <1>5

\* Every step keeps the state well formed.
LEMMA TypeStep == TypeOK /\ HeldWhileUsing /\ [Next]_vars => TypeOK'
<1> SUFFICES ASSUME TypeOK, HeldWhileUsing, [Next]_vars PROVE TypeOK'
  OBVIOUS
<1> USE PoolAssumption
<1>0. /\ \A c \in Clients : c \in Tasks /\ c \notin Closers
      /\ \A k \in Closers : k \in Tasks /\ k \notin Clients
  BY DEF Tasks
<1>1. ASSUME NEW c \in Clients, Acquire(c) PROVE TypeOK'
  <2>1. created' = created /\ item_set' = item_set
    BY <1>1 DEF Acquire, item_set
  <2>2. uses' \in [Clients -> 0..Rounds]
    BY <1>1 DEF Acquire, TypeOK
  <2>3. CASE TakeItem(c) \/ WaitForItem(c, "get")
    <3>1. UNCHANGED <<lock, lockq>>
      BY <1>1, <2>3 DEF Acquire, TakeItem, WaitForItem
    <3> QED BY <1>1, <2>1, <2>2, <2>3, <3>1, GetType DEF Acquire, TypeOK
  <2>4. CASE ~is_overflow
    <3>1. /\ lock' \in Tasks \cup {NoTask}
          /\ lockq' \in Seq(Tasks)
      <4>1. lockq \in Seq(Tasks) /\ lock \in Tasks \cup {NoTask} /\ c \in Tasks
        BY <1>0 DEF TypeOK
      <4>2. Append(lockq, c) \in Seq(Tasks)
        BY <4>1, AppendProperties
      <4> QED BY <1>1, <2>4, <4>1, <4>2 DEF Acquire
    <3>2. "construct" \in ClientPC /\ "lock" \in ClientPC
      BY DEF ClientPC
    <3>3. pc' = [pc EXCEPT ![c] = "construct"] \/ pc' = [pc EXCEPT ![c] = "lock"]
      BY <1>1, <2>4 DEF Acquire
    <3>4. UNCHANGED <<closed, created, items, getters, held, toClose, itemClosed>>
      BY <1>1, <2>4 DEF Acquire
    <3> QED BY <1>0, <2>1, <2>2, <3>1, <3>2, <3>3, <3>4, PcType DEF TypeOK
  <2> QED BY <1>1, <2>3, <2>4 DEF Acquire
<1>2. ASSUME NEW c \in Clients, CreateItem(c) PROVE TypeOK'
  <2>1. created' = created /\ item_set' = item_set
    BY <1>2 DEF CreateItem, item_set
  <2>2. /\ lock' \in Tasks \cup {NoTask}
        /\ lockq' \in Seq(Tasks)
    BY <1>2, ReleaseLockType DEF CreateItem, TypeOK
  <2>3. CASE TakeItem(c) \/ WaitForItem(c, "get_locked")
    BY <1>2, <2>1, <2>2, <2>3, GetType DEF CreateItem, TypeOK
  <2>4. CASE /\ pc' = [pc EXCEPT ![c] = "construct"]
             /\ UNCHANGED <<items, getters, held>>
    <3>1. "construct" \in ClientPC
      BY DEF ClientPC
    <3> QED BY <1>0, <1>2, <2>1, <2>2, <2>4, <3>1, PcType DEF CreateItem, TypeOK
  <2> QED BY <1>2, <2>3, <2>4 DEF CreateItem
<1>3. ASSUME NEW c \in Clients, Constructed(c) PROVE TypeOK'
  <2>1. item_set' = item_set \cup {created + 1} /\ created' \in Nat
    BY <1>3 DEF Constructed, item_set, TypeOK
  <2>2. items' \in Seq(item_set')
    BY <1>3, <2>1, SeqLarger DEF Constructed, TypeOK
  <2>3. /\ lock' \in Tasks \cup {NoTask}
        /\ lockq' \in Seq(Tasks)
    BY <1>3, ReleaseLockType DEF Constructed
  <2>4. "using" \in ClientPC
    BY DEF ClientPC
  <2>5. held' \in [Clients -> {0} \cup item_set']
    BY <1>3, <2>1 DEF Constructed, TypeOK
  <2>6. toClose' \in [Closers -> SUBSET item_set']
    BY <1>3, <2>1 DEF Constructed, TypeOK
  <2> QED BY <1>0, <1>3, <2>1, <2>2, <2>3, <2>4, <2>5, <2>6, PcType
          DEF Constructed, TypeOK
<1>4. ASSUME NEW c \in Clients, ConstructorFailed(c) PROVE TypeOK'
  <2>1. "idle" \in ClientPC
    BY DEF ClientPC
  <2> QED BY <1>0, <1>4, <2>1, PcType, ReleaseLockType
          DEF ConstructorFailed, TypeOK, item_set
<1>5. ASSUME NEW c \in Clients, GetterRuns(c) PROVE TypeOK'
  <2>1. created' = created /\ item_set' = item_set
    BY <1>5 DEF GetterRuns, item_set
  <2>2. /\ lock' \in Tasks \cup {NoTask}
        /\ lockq' \in Seq(Tasks)
    BY <1>5, ReleaseLockType DEF GetterRuns, TypeOK
  <2>3. TakeItem(c) \/ WaitForItem(c, "get") \/ WaitForItem(c, "get_locked")
    BY <1>5 DEF GetterRuns
  <2> QED BY <1>5, <2>1, <2>2, <2>3, GetType DEF GetterRuns, TypeOK
<1>6. ASSUME NEW c \in Clients, Release(c) PROVE TypeOK'
  <2>1. created' = created /\ item_set' = item_set
    BY <1>6 DEF Release, item_set
  <2>2. held' \in [Clients -> {0} \cup item_set']
    BY <1>6, <2>1 DEF Release, TypeOK
  <2>3. CASE ~closed
    <3>1. held[c] \in item_set
      BY <1>6 DEF Release, HeldWhileUsing, TypeOK
    <3>2. items \in Seq(item_set)
      BY DEF TypeOK
    <3>3. items' \in Seq(item_set')
      BY <1>6, <2>1, <2>3, <3>1, <3>2, AppendProperties DEF Release
    <3> QED BY <1>6, <2>1, <2>2, <2>3, <3>3, WakeType DEF Release, TypeOK
  <2>4. CASE closed
    <3>1. "idle" \in ClientPC
      BY DEF ClientPC
    <3> QED BY <1>0, <1>6, <2>1, <2>2, <2>4, <3>1, PcType DEF Release, TypeOK
  <2> QED BY <2>3, <2>4 DEF TypeOK
<1>7. ASSUME NEW c \in Clients, Cancel(c) PROVE TypeOK'
  <2>1. item_set' = item_set
    BY <1>7 DEF Cancel, item_set
  <2>2. "idle" \in ClientPC
    BY DEF ClientPC
  <2>3. /\ lock' \in Tasks \cup {NoTask}
        /\ lockq' \in Seq(Tasks)
    BY <1>7, ReleaseLockType, WithoutType DEF Cancel, TypeOK
  <2>4. CASE WakeNext([pc EXCEPT ![c] = "idle"])
    BY <1>7, <2>1, <2>3, <2>4, WakeType DEF Cancel, TypeOK
  <2>5. CASE pc' = [pc EXCEPT ![c] = "idle"]
    <3>1. getters \in Seq(Clients) /\ Without(getters, c) \in Seq(Clients)
      BY WithoutType DEF TypeOK
    <3>2. WakeNext([pc EXCEPT ![c] = "idle"]) => getters' \in Seq(Clients)
      BY WakeType
    <3>3. getters' \in Seq(Clients)
      BY <1>7, <3>1, <3>2 DEF Cancel
    <3> QED BY <1>0, <1>7, <2>1, <2>2, <2>3, <2>5, <3>3, PcType DEF Cancel, TypeOK
  <2> QED BY <1>7, <2>4, <2>5 DEF Cancel
<1>8. ASSUME NEW k \in Closers,
             Close(k) \/ CloseLocked(k) \/ CloseReturns(k) \/ CancelClose(k)
      PROVE  TypeOK'
  <2>1. created' = created /\ item_set' = item_set
    BY <1>8 DEF Close, CloseLocked, CloseItems, CloseReturns, CancelClose, item_set
  <2>2. /\ lock' \in Tasks \cup {NoTask}
        /\ lockq' \in Seq(Tasks)
    <3>1. lockq \in Seq(Tasks) /\ lock \in Tasks \cup {NoTask} /\ k \in Tasks
      BY <1>0 DEF TypeOK
    <3>2. Append(lockq, k) \in Seq(Tasks) /\ Without(lockq, k) \in Seq(Tasks)
      BY <3>1, AppendProperties, WithoutType
    <3> QED BY <1>8, <3>1, <3>2, ReleaseLockType
            DEF Close, CloseLocked, CloseItems, CloseReturns, CancelClose
  <2>3. {"idle", "lock", "closing"} \subseteq CloserPC
    BY DEF CloserPC
  <2>4. \E v \in CloserPC : pc' = [pc EXCEPT ![k] = v]
    BY <1>8, <2>3 DEF Close, CloseLocked, CloseItems, CloseReturns, CancelClose
  <2>5. closed' \in BOOLEAN /\ toClose' \in [Closers -> SUBSET item_set]
    <3>1. closed' = closed \/ closed' = TRUE
      BY <1>8 DEF Close, CloseLocked, CloseItems, CloseReturns, CancelClose
    <3>2. \/ toClose' = toClose
          \/ toClose' = [toClose EXCEPT ![k] = item_set]
          \/ toClose' = [toClose EXCEPT ![k] = {}]
      BY <1>8 DEF Close, CloseLocked, CloseItems, CloseReturns, CancelClose
    <3>3. closed' \in BOOLEAN
      BY <3>1, Zenon DEF TypeOK
    <3>4. toClose' \in [Closers -> SUBSET item_set]
      BY <3>2 DEF TypeOK
    <3> QED BY <3>3, <3>4
  <2>6. UNCHANGED <<items, getters, held, itemClosed, uses>>
    BY <1>8 DEF Close, CloseLocked, CloseItems, CloseReturns, CancelClose
  <2> QED BY <1>0, <2>1, <2>2, <2>4, <2>5, <2>6, PcType DEF TypeOK
<1>9. ASSUME NEW k \in Closers, NEW i \in toClose[k], ItemCloses(k, i) PROVE TypeOK'
  BY <1>9 DEF ItemCloses, TypeOK, item_set
<1>10. CASE UNCHANGED vars
  BY <1>10 DEF vars, TypeOK, item_set
<1> QED BY <1>1, <1>2, <1>3, <1>4, <1>5, <1>6, <1>7, <1>8, <1>9, <1>10 DEF Next

-----------------------------------------------------------------------------
\* Waking a getter moves that getter, and the queue of getters stays one of
\* tasks that wait.
LEMMA WakeEffect ==
  ASSUME TypeOK, GettersWait, NEW c \in Clients,
         pc[c] \notin {"get", "get_locked"},
         WakeNext([pc EXCEPT ![c] = "idle"])
  PROVE  /\ pc'[c] = "idle"
         /\ \A t \in Tasks \ {c} :
               \/ pc'[t] = pc[t]
               \/ pc[t] = "get" /\ pc'[t] = "woken"
               \/ pc[t] = "get_locked" /\ pc'[t] = "woken_locked"
         /\ GettersWait'
<1>1. getters \in Seq(Clients) /\ pc \in [Tasks -> ClientPC \cup CloserPC] /\ c \in Tasks
  BY DEF TypeOK, Tasks
<1>2. CASE getters = << >>
  BY <1>1, <1>2 DEF WakeNext, GettersWait, Distinct
<1>3. CASE getters # << >>
  <2> DEFINE h == Head(getters)
             v == IF [pc EXCEPT ![c] = "idle"][h] = "get_locked"
                  THEN "woken_locked" ELSE "woken"
  <2>1. pc' = [[pc EXCEPT ![c] = "idle"] EXCEPT ![h] = v] /\ getters' = Tail(getters)
    BY <1>3 DEF WakeNext
  <2>2. /\ Len(getters) \in Nat \ {0}
        /\ h = getters[1] /\ h \in Clients
        /\ Len(getters') = Len(getters) - 1
        /\ \A i \in 1..Len(getters') : getters'[i] = getters[i + 1]
    BY <1>1, <1>3, <2>1, HeadTailProperties, EmptySeq
  <2>3. pc[h] \in {"get", "get_locked"} /\ h # c
    BY <2>2 DEF GettersWait
  <2>4. v = IF pc[h] = "get_locked" THEN "woken_locked" ELSE "woken"
    BY <1>1, <2>3, <2>2 DEF Tasks
  <2> HIDE DEF h, v
  <2>5. /\ pc'[c] = "idle"
        /\ pc'[h] = v
        /\ \A t \in Tasks \ {c, h} : pc'[t] = pc[t]
    BY <1>1, <2>1, <2>2, <2>3 DEF Tasks
  <2>6. \A i \in 1..Len(getters') :
           /\ i + 1 \in 1..Len(getters)
           /\ getters'[i] = getters[i + 1]
           /\ getters'[i] \in Clients \ {c, h}
    BY <1>1, <2>2, <2>3, ElementOfSeq DEF GettersWait, Distinct
  <2>7. Distinct(getters')
    BY <2>2, <2>6 DEF GettersWait, Distinct
  <2>8. \A i \in 1..Len(getters') : pc'[getters'[i]] \in {"get", "get_locked"}
    BY <2>5, <2>6 DEF GettersWait, Tasks
  <2> QED BY <2>3, <2>4, <2>5, <2>7, <2>8 DEF GettersWait
<1> QED BY <1>2, <1>3

\* Getting an item: the getters that wait stay as they are.
LEMMA GetEffect ==
  ASSUME TypeOK, GettersWait, NEW c \in Clients, NEW w \in {"get", "get_locked"},
         pc[c] \notin {"get", "get_locked"},
         TakeItem(c) \/ WaitForItem(c, w)
  PROVE  GettersWait'
<1>1. getters \in Seq(Clients) /\ pc \in [Tasks -> ClientPC \cup CloserPC] /\ c \in Tasks
  BY DEF TypeOK, Tasks
<1>2. \A i \in 1..Len(getters) : getters[i] # c /\ getters[i] \in Tasks
  BY <1>1, ElementOfSeq DEF GettersWait, Tasks
<1>3. CASE TakeItem(c)
  BY <1>1, <1>2, <1>3 DEF TakeItem, GettersWait, Distinct
<1>4. CASE WaitForItem(c, w)
  <2>1. /\ Len(getters') = Len(getters) + 1
        /\ \A i \in 1..Len(getters) : getters'[i] = getters[i]
        /\ getters'[Len(getters) + 1] = c
    BY <1>1, <1>4, AppendProperties DEF WaitForItem
  <2>2. pc' = [pc EXCEPT ![c] = w]
    BY <1>4 DEF WaitForItem
  <2>3. Len(getters) \in Nat
    BY <1>1, LenProperties
  <2> QED BY <1>1, <1>2, <2>1, <2>2, <2>3 DEF GettersWait, Distinct
<1> QED BY <1>3, <1>4

\* A task that is not a getter moves: the getters stay as they are.
LEMMA OtherMoves ==
  ASSUME TypeOK, GettersWait, NEW t \in Tasks, NEW v,
         pc[t] \notin {"get", "get_locked"},
         pc' = [pc EXCEPT ![t] = v], UNCHANGED getters
  PROVE  GettersWait'
<1>1. getters \in Seq(Clients) /\ pc \in [Tasks -> ClientPC \cup CloserPC]
  BY DEF TypeOK
<1>2. \A i \in 1..Len(getters) : getters[i] # t /\ getters[i] \in Tasks
  BY <1>1, ElementOfSeq DEF GettersWait, Tasks
<1> QED BY <1>1, <1>2 DEF GettersWait, Distinct

\* Every step keeps the queue of getters in line with the tasks' places.
LEMMA GettersStep == TypeOK /\ GettersWait /\ [Next]_vars => GettersWait'
<1> SUFFICES ASSUME TypeOK, GettersWait, [Next]_vars PROVE GettersWait'
  OBVIOUS
<1>0. Clients \subseteq Tasks /\ Closers \subseteq Tasks
  BY DEF Tasks
<1>1. ASSUME NEW c \in Clients, Acquire(c) PROVE GettersWait'
  BY <1>0, <1>1, GetEffect, OtherMoves DEF Acquire
<1>2. ASSUME NEW c \in Clients, CreateItem(c) PROVE GettersWait'
  BY <1>0, <1>2, GetEffect, OtherMoves DEF CreateItem
<1>3. ASSUME NEW c \in Clients, Constructed(c) \/ ConstructorFailed(c) PROVE GettersWait'
  BY <1>0, <1>3, OtherMoves DEF Constructed, ConstructorFailed
<1>4. ASSUME NEW c \in Clients, GetterRuns(c) PROVE GettersWait'
  BY <1>4, GetEffect DEF GetterRuns
<1>5. ASSUME NEW c \in Clients, Release(c) PROVE GettersWait'
  BY <1>0, <1>5, WakeEffect, OtherMoves DEF Release
<1>6. ASSUME NEW c \in Clients, Cancel(c) PROVE GettersWait'
  <2>1. CASE pc[c] \notin {"get", "get_locked"}
    BY <1>0, <1>6, <2>1, WakeEffect, OtherMoves DEF Cancel
  <2>2. CASE pc[c] \in {"get", "get_locked"}
    <3>1. pc' = [pc EXCEPT ![c] = "idle"] /\ getters' = Without(getters, c)
      BY <1>6, <2>2 DEF Cancel
    <3>2. /\ getters \in Seq(Clients) /\ getters' \in Seq(Clients)
          /\ pc \in [Tasks -> ClientPC \cup CloserPC]
      BY <3>1, WithoutType DEF TypeOK
    <3>3. /\ Distinct(getters')
          /\ \A i \in 1..Len(getters') :
                /\ getters'[i] # c
                /\ \E j \in 1..Len(getters) : getters'[i] = getters[j]
      BY <3>1, <3>2, WithoutElements DEF GettersWait
    <3>4. \A i \in 1..Len(getters') : getters'[i] \in Tasks
      BY <1>0, <3>2, ElementOfSeq
    <3> QED BY <1>0, <3>1, <3>2, <3>3, <3>4 DEF GettersWait
  <2> QED BY <2>1, <2>2
<1>7. ASSUME NEW k \in Closers,
             Close(k) \/ CloseLocked(k) \/ CloseReturns(k) \/ CancelClose(k)
      PROVE  GettersWait'
  <2>1. pc[k] \notin {"get", "get_locked"} /\ UNCHANGED getters
    BY <1>7 DEF Close, CloseLocked, CloseItems, CloseReturns, CancelClose
  <2>2. \E v \in {"idle", "lock", "closing"} : pc' = [pc EXCEPT ![k] = v]
    BY <1>7 DEF Close, CloseLocked, CloseItems, CloseReturns, CancelClose
  <2> QED BY <1>0, <2>1, <2>2, OtherMoves
<1>8. ASSUME NEW k \in Closers, NEW i \in toClose[k], ItemCloses(k, i) PROVE GettersWait'
  BY <1>8 DEF ItemCloses, GettersWait, Distinct
<1>9. CASE UNCHANGED vars
  BY <1>9 DEF vars, GettersWait, Distinct
<1> QED BY <1>1, <1>2, <1>3, <1>4, <1>5, <1>6, <1>7, <1>8, <1>9 DEF Next

-----------------------------------------------------------------------------
\* How the place of a client that does not step can change: a getter may be
\* woken.
Woken(t) ==
    \/ pc'[t] = pc[t]
    \/ pc[t] = "get" /\ pc'[t] = "woken"
    \/ pc[t] = "get_locked" /\ pc'[t] = "woken_locked"

\* A step moves one task and otherwise at most wakes getters.
LEMMA OneMoves ==
  ASSUME TypeOK, GettersWait
  PROVE  /\ \A c \in Clients :
              \/ Acquire(c) \/ CreateItem(c) \/ Constructed(c)
              \/ ConstructorFailed(c) \/ GetterRuns(c) \/ Release(c) \/ Cancel(c)
              => \A t \in Tasks \ {c} : Woken(t)
         /\ \A k \in Closers :
              \/ Close(k) \/ CloseLocked(k) \/ CloseReturns(k) \/ CancelClose(k)
              => \A t \in Tasks \ {k} : Woken(t)
<1>1. pc \in [Tasks -> ClientPC \cup CloserPC]
  BY DEF TypeOK
<1>2. ASSUME NEW t \in Tasks, NEW v, pc' = [pc EXCEPT ![t] = v]
      PROVE  \A u \in Tasks \ {t} : Woken(u)
  BY <1>1, <1>2 DEF Woken
<1>3. ASSUME NEW c \in Clients,
             \/ Acquire(c) \/ CreateItem(c) \/ Constructed(c)
             \/ ConstructorFailed(c) \/ GetterRuns(c) \/ Release(c) \/ Cancel(c)
      PROVE  \A t \in Tasks \ {c} : Woken(t)
  <2>1. \/ \E v \in ClientPC : pc' = [pc EXCEPT ![c] = v]
        \/ /\ pc[c] \notin {"get", "get_locked"}
           /\ WakeNext([pc EXCEPT ![c] = "idle"])
    BY <1>3 DEF Acquire, CreateItem, Constructed, ConstructorFailed, GetterRuns,
                Release, Cancel, TakeItem, WaitForItem, ClientPC
  <2> QED BY <1>2, <2>1, WakeEffect DEF Woken, Tasks
<1>4. ASSUME NEW k \in Closers,
             Close(k) \/ CloseLocked(k) \/ CloseReturns(k) \/ CancelClose(k)
      PROVE  \A t \in Tasks \ {k} : Woken(t)
  <2>1. \E v \in CloserPC : pc' = [pc EXCEPT ![k] = v]
    BY <1>4 DEF Close, CloseLocked, CloseItems, CloseReturns, CancelClose, CloserPC
  <2> QED BY <1>2, <2>1 DEF Tasks
<1> QED BY <1>3, <1>4

\* Every step keeps the items with the tasks that use them.
LEMMA HeldStep ==
  TypeOK /\ GettersWait /\ HeldWhileUsing /\ [Next]_vars => HeldWhileUsing'
<1> SUFFICES ASSUME TypeOK, GettersWait, HeldWhileUsing, [Next]_vars
             PROVE  HeldWhileUsing'
  OBVIOUS
<1> USE PoolAssumption
<1>0. /\ pc \in [Tasks -> ClientPC \cup CloserPC]
      /\ held \in [Clients -> {0} \cup item_set]
      /\ created \in Nat
      /\ Clients \subseteq Tasks
  BY DEF TypeOK, Tasks
<1>1. ASSUME NEW c \in Clients,
             \/ Acquire(c) \/ CreateItem(c) \/ Constructed(c)
             \/ ConstructorFailed(c) \/ GetterRuns(c) \/ Release(c) \/ Cancel(c)
      PROVE  HeldWhileUsing'
  <2>1. \A d \in Clients \ {c} : held'[d] = held[d]
    BY <1>0, <1>1 DEF Acquire, CreateItem, Constructed, ConstructorFailed,
          GetterRuns, Release, Cancel, TakeItem, WaitForItem
  <2>2. \A d \in Clients \ {c} : pc'[d] = "using" <=> pc[d] = "using"
    BY <1>0, <1>1, OneMoves DEF Woken
  <2>3. held'[c] # 0 <=> pc'[c] = "using"
    <3>1. CASE TakeItem(c)
      <4>1. Head(items) \in item_set
        BY <3>1, HeadTailProperties DEF TakeItem, TypeOK
      <4> QED BY <1>0, <3>1, <4>1 DEF TakeItem, item_set
    <3>2. CASE Constructed(c)
      BY <1>0, <3>2 DEF Constructed
    <3>3. CASE Release(c) \/ Cancel(c)
      <4>1. pc'[c] = "idle"
        BY <1>0, <3>3, WakeEffect DEF Release, Cancel
      <4>2. held'[c] = 0
        BY <1>0, <3>3 DEF Release, Cancel, HeldWhileUsing
      <4> QED BY <4>1, <4>2
    <3>4. CASE /\ held' = held
               /\ pc[c] # "using"
               /\ \E v \in ClientPC \ {"using"} : pc' = [pc EXCEPT ![c] = v]
      BY <1>0, <3>4 DEF HeldWhileUsing
    <3>5. \/ TakeItem(c) \/ Constructed(c) \/ Release(c) \/ Cancel(c)
          \/ /\ held' = held
             /\ pc[c] # "using"
             /\ \E v \in ClientPC \ {"using"} : pc' = [pc EXCEPT ![c] = v]
      BY <1>1 DEF Acquire, CreateItem, ConstructorFailed, GetterRuns,
                  WaitForItem, ClientPC
    <3> QED BY <3>1, <3>2, <3>3, <3>4, <3>5
  <2> QED BY <2>1, <2>2, <2>3 DEF HeldWhileUsing
<1>2. ASSUME NEW k \in Closers,
             Close(k) \/ CloseLocked(k) \/ CloseReturns(k) \/ CancelClose(k)
      PROVE  HeldWhileUsing'
  <2>1. held' = held
    BY <1>2 DEF Close, CloseLocked, CloseItems, CloseReturns, CancelClose
  <2>2. \A d \in Clients : pc'[d] = "using" <=> pc[d] = "using"
    BY <1>0, <1>2, OneMoves DEF Woken
  <2> QED BY <2>1, <2>2 DEF HeldWhileUsing
<1>3. ASSUME NEW k \in Closers, NEW i \in toClose[k], ItemCloses(k, i)
      PROVE  HeldWhileUsing'
  BY <1>3 DEF ItemCloses, HeldWhileUsing
<1>4. CASE UNCHANGED vars
  BY <1>4 DEF vars, HeldWhileUsing
<1> QED BY <1>1, <1>2, <1>3, <1>4 DEF Next

\* Every step keeps the code under the lock to the owner of the lock.
LEMMA LockStep ==
  TypeOK /\ GettersWait /\ LockExclusion /\ [Next]_vars => LockExclusion'
<1> SUFFICES ASSUME TypeOK, GettersWait, LockExclusion, [Next]_vars
             PROVE  LockExclusion'
  OBVIOUS
<1> USE PoolAssumption
<1>0. /\ pc \in [Tasks -> ClientPC \cup CloserPC]
      /\ Clients \subseteq Tasks /\ Closers \subseteq Tasks
      /\ NoTask \notin Tasks
  BY DEF TypeOK, Tasks
<1>a. ASSUME NEW t \in Tasks, \A u \in Tasks \ {t} : Woken(u),
             \/ lock' = lock
             \/ lock = NoTask
             \/ lock = t,
             InsideLock(t)' => lock' = t,
             lock' = lock \/ \A u \in Tasks \ {t} : ~InsideLock(u)
      PROVE  LockExclusion'
  BY <1>a DEF LockExclusion, InsideLock, Woken
<1>1. ASSUME NEW c \in Clients,
             \/ Acquire(c) \/ CreateItem(c) \/ Constructed(c)
             \/ ConstructorFailed(c) \/ GetterRuns(c) \/ Release(c) \/ Cancel(c)
      PROVE  LockExclusion'
  <2>1. \A u \in Tasks \ {c} : Woken(u)
    BY <1>1, OneMoves
  <2>2. lock' = lock \/ lock = NoTask \/ lock = c
    BY <1>0, <1>1 DEF Acquire, CreateItem, Constructed, ConstructorFailed, GetterRuns,
          Release, Cancel, LockExclusion, InsideLock
  <2>3. lock' = lock \/ \A u \in Tasks \ {c} : ~InsideLock(u)
    BY <1>0, <2>2 DEF LockExclusion
  <2>4. InsideLock(c)' => lock' = c
    <3>1. CASE Release(c) \/ Cancel(c)
      BY <1>0, <3>1, WakeEffect DEF Release, Cancel, InsideLock
    <3>2. CASE Acquire(c) \/ CreateItem(c) \/ Constructed(c) \/ ConstructorFailed(c)
               \/ GetterRuns(c)
      BY <1>0, <3>2 DEF Acquire, CreateItem, Constructed, ConstructorFailed,
            GetterRuns, TakeItem, WaitForItem, LockExclusion, InsideLock
    <3> QED BY <1>1, <3>1, <3>2
  <2> QED BY <1>0, <1>a, <2>1, <2>2, <2>3, <2>4
<1>2. ASSUME NEW k \in Closers,
             Close(k) \/ CloseLocked(k) \/ CloseReturns(k) \/ CancelClose(k)
      PROVE  LockExclusion'
  <2>1. \A u \in Tasks \ {k} : Woken(u)
    BY <1>2, OneMoves
  <2>2. lock' = lock \/ lock = NoTask \/ lock = k
    BY <1>0, <1>2 DEF Close, CloseLocked, CloseItems, CloseReturns, CancelClose,
          LockExclusion, InsideLock
  <2>3. lock' = lock \/ \A u \in Tasks \ {k} : ~InsideLock(u)
    BY <1>0, <2>2 DEF LockExclusion
  <2>4. InsideLock(k)' => lock' = k
    BY <1>0, <1>2 DEF Close, CloseLocked, CloseItems, CloseReturns, CancelClose,
          InsideLock
  <2> QED BY <1>0, <1>a, <2>1, <2>2, <2>3, <2>4
<1>3. ASSUME NEW k \in Closers, NEW i \in toClose[k], ItemCloses(k, i)
      PROVE  LockExclusion'
  BY <1>3 DEF ItemCloses, LockExclusion, InsideLock
<1>4. CASE UNCHANGED vars
  BY <1>4 DEF vars, LockExclusion, InsideLock
<1> QED BY <1>1, <1>2, <1>3, <1>4 DEF Next

-----------------------------------------------------------------------------
\* Every step keeps the number of items within max_size: nobody else can
\* construct while a task that found room holds the lock.
LEMMA RoomStep ==
  /\ TypeOK /\ GettersWait /\ LockExclusion /\ RoomToConstruct /\ CapacityBound
  /\ [Next]_vars
  => RoomToConstruct' /\ CapacityBound'
<1> SUFFICES ASSUME TypeOK, GettersWait, LockExclusion, RoomToConstruct,
                    CapacityBound, [Next]_vars
             PROVE  RoomToConstruct' /\ CapacityBound'
  OBVIOUS
<1> USE PoolAssumption
<1>0. /\ pc \in [Tasks -> ClientPC \cup CloserPC]
      /\ Clients \subseteq Tasks
      /\ created \in Nat
  BY DEF TypeOK, Tasks
<1>1. ASSUME NEW c \in Clients, Constructed(c)
      PROVE  RoomToConstruct' /\ CapacityBound'
  <2>1. \A d \in Clients : pc'[d] # "construct"
    BY <1>0, <1>1 DEF Constructed, LockExclusion, InsideLock
  <2>2. MaxSize > 0 => created + 1 <= MaxSize
    BY <1>0, <1>1 DEF Constructed, RoomToConstruct
  <2> QED BY <1>1, <2>1, <2>2 DEF Constructed, RoomToConstruct, CapacityBound
<1>2. ASSUME NEW c \in Clients,
             \/ Acquire(c) \/ CreateItem(c) \/ ConstructorFailed(c)
             \/ GetterRuns(c) \/ Release(c) \/ Cancel(c)
      PROVE  RoomToConstruct' /\ CapacityBound'
  <2>1. created' = created
    BY <1>2 DEF Acquire, CreateItem, ConstructorFailed, GetterRuns, Release, Cancel
  <2>2. \A d \in Clients \ {c} : pc'[d] = "construct" => pc[d] = "construct"
    BY <1>0, <1>2, OneMoves DEF Woken
  <2>3. pc'[c] = "construct" => ~is_overflow
    <3>1. CASE Release(c) \/ Cancel(c)
      BY <1>0, <3>1, WakeEffect DEF Release, Cancel
    <3>2. CASE Acquire(c) \/ CreateItem(c) \/ ConstructorFailed(c) \/ GetterRuns(c)
      BY <1>0, <3>2 DEF Acquire, CreateItem, ConstructorFailed, GetterRuns, TakeItem,
            WaitForItem
    <3> QED BY <1>2, <3>1, <3>2
  <2> QED BY <1>0, <2>1, <2>2, <2>3 DEF RoomToConstruct, CapacityBound, is_overflow
<1>3. ASSUME NEW k \in Closers,
             Close(k) \/ CloseLocked(k) \/ CloseReturns(k) \/ CancelClose(k)
      PROVE  RoomToConstruct' /\ CapacityBound'
  <2>1. created' = created
    BY <1>3 DEF Close, CloseLocked, CloseItems, CloseReturns, CancelClose
  <2>2. \A d \in Clients : pc'[d] = "construct" => pc[d] = "construct"
    BY <1>0, <1>3, OneMoves DEF Woken
  <2> QED BY <2>1, <2>2 DEF RoomToConstruct, CapacityBound
<1>4. ASSUME NEW k \in Closers, NEW i \in toClose[k], ItemCloses(k, i)
      PROVE  RoomToConstruct' /\ CapacityBound'
  BY <1>4 DEF ItemCloses, RoomToConstruct, CapacityBound
<1>5. CASE UNCHANGED vars
  BY <1>5 DEF vars, RoomToConstruct, CapacityBound
<1> QED BY <1>1, <1>2, <1>3, <1>4, <1>5 DEF Next

-----------------------------------------------------------------------------
\* The released items as a set: what ItemAllocator calls free.
Released == {items[i] : i \in 1..Len(items)}

\* What a step does to the items is one of the allocator's steps, or nothing.
ItemsStep ==
    \/ \E c \in Clients :
          \/ Allocator!Make(c)
          \/ \E i \in Released : Allocator!Take(c, i)
          \/ Allocator!Give(c)
          \/ Allocator!Abandon(c)
    \/ Allocator!Shut
    \/ UNCHANGED <<closed, created, items, held>>

\* Taking the oldest released item takes it out of the set of them.
LEMMA TakeIsTake ==
  ASSUME TypeOK, HeldWhileUsing, Exclusive, NEW c \in Clients, pc[c] # "using",
         TakeItem(c), UNCHANGED <<closed, created>>
  PROVE  \E i \in Released : Allocator!Take(c, i)
<1>1. /\ items \in Seq(item_set) /\ items # << >> /\ items' = Tail(items)
      /\ held' = [held EXCEPT ![c] = Head(items)]
  BY DEF TypeOK, TakeItem
<1>2. /\ Len(items) \in Nat \ {0}
      /\ Head(items) = items[1]
      /\ Len(items') = Len(items) - 1
      /\ \A i \in 1..Len(items') : items'[i] = items[i + 1]
  BY <1>1, HeadTailProperties, EmptySeq
<1>3. Released' = Released \ {Head(items)} /\ Head(items) \in Released
  <2>1. Head(items) \in Released
    BY <1>2 DEF Released
  <2>2. \A x : x \in Released' => x \in Released /\ x # Head(items)
    BY <1>2 DEF Released, Exclusive
  <2>3. \A x \in Released : x # Head(items) => x \in Released'
    <3> SUFFICES ASSUME NEW j \in 1..Len(items), items[j] # Head(items)
                 PROVE  items[j] \in Released'
      BY DEF Released
    <3>1. j - 1 \in 1..Len(items') /\ items'[j - 1] = items[j]
      BY <1>2
    <3> QED BY <3>1 DEF Released
  <2> QED BY <2>1, <2>2, <2>3
<1>4. held[c] = 0
  BY DEF HeldWhileUsing
<1> QED BY <1>1, <1>3, <1>4 DEF Allocator!Take, Released

\* Every step of the pool is a step of the allocator.
LEMMA ItemsStepLemma ==
  ASSUME TypeOK, HeldWhileUsing, RoomToConstruct, Exclusive, [Next]_vars
  PROVE  ItemsStep
<1>1. ASSUME NEW c \in Clients, Constructed(c) PROVE ItemsStep
  <2>1. Allocator!Make(c)
    BY <1>1 DEF Constructed, HeldWhileUsing, RoomToConstruct, Allocator!Make
  <2> QED BY <2>1 DEF ItemsStep
<1>2. ASSUME NEW c \in Clients, Acquire(c) \/ CreateItem(c) \/ GetterRuns(c)
      PROVE  ItemsStep
  <2>1. pc[c] # "using" /\ UNCHANGED <<closed, created>>
    BY <1>2 DEF Acquire, CreateItem, GetterRuns
  <2>2. TakeItem(c) \/ UNCHANGED <<items, held>>
    BY <1>2 DEF Acquire, CreateItem, GetterRuns, WaitForItem
  <2> QED BY <2>1, <2>2, TakeIsTake DEF ItemsStep
<1>3. ASSUME NEW c \in Clients, Release(c) PROVE ItemsStep
  <2>1. held[c] # 0 /\ held[c] \in item_set
    BY <1>3 DEF Release, HeldWhileUsing, TypeOK
  <2>2. CASE closed
    <3>1. Allocator!Abandon(c)
      BY <1>3, <2>1, <2>2 DEF Release, Allocator!Abandon
    <3> QED BY <3>1 DEF ItemsStep
  <2>3. CASE ~closed
    <3>1. items \in Seq(item_set) /\ items' = Append(items, held[c])
      BY <1>3, <2>3 DEF Release, TypeOK
    <3>2. /\ Len(items) \in Nat
          /\ Len(items') = Len(items) + 1
          /\ \A i \in 1..Len(items) : items'[i] = items[i]
          /\ items'[Len(items) + 1] = held[c]
      BY <2>1, <3>1, AppendProperties, LenProperties
    <3>3. Released' = Released \cup {held[c]}
      <4>1. \A x \in Released' : x \in Released \/ x = held[c]
        BY <3>2 DEF Released
      <4>2. \A x \in Released : x \in Released'
        BY <3>2 DEF Released
      <4>3. held[c] \in Released'
        BY <3>2 DEF Released
      <4> QED BY <4>1, <4>2, <4>3
    <3>4. Allocator!Give(c)
      BY <1>3, <2>1, <2>3, <3>3 DEF Release, Allocator!Give, Released
    <3> QED BY <3>4 DEF ItemsStep
  <2> QED BY <2>2, <2>3
<1>4. ASSUME NEW c \in Clients, ConstructorFailed(c) \/ Cancel(c) PROVE ItemsStep
  BY <1>4 DEF ConstructorFailed, Cancel, ItemsStep
<1>5. ASSUME NEW k \in Closers,
             \/ Close(k) \/ CloseLocked(k) \/ CloseReturns(k) \/ CancelClose(k)
             \/ \E i \in toClose[k] : ItemCloses(k, i)
      PROVE  ItemsStep
  <2>1. /\ closed' = closed \/ closed' = TRUE
        /\ UNCHANGED <<created, items, held>>
    BY <1>5 DEF Close, CloseLocked, CloseItems, CloseReturns, CancelClose, ItemCloses
  <2> QED BY <2>1 DEF ItemsStep, Allocator!Shut
<1>6. CASE UNCHANGED vars
  BY <1>6 DEF vars, ItemsStep
<1> QED BY <1>1, <1>2, <1>3, <1>4, <1>5, <1>6 DEF Next

-----------------------------------------------------------------------------
\* Every step keeps each item in one place, and loses none of an open pool.
LEMMA PlacesStep ==
  ASSUME TypeOK, HeldWhileUsing, Exclusive, NothingLost, [Next]_vars
  PROVE  Exclusive' /\ NothingLost'
<1>0. /\ items \in Seq(item_set) /\ created \in Nat /\ Len(items) \in Nat
      /\ held \in [Clients -> {0} \cup item_set]
      /\ \A i \in 1..Len(items) : items[i] \in item_set
  <2>1. items \in Seq(item_set) /\ created \in Nat
        /\ held \in [Clients -> {0} \cup item_set]
    BY DEF TypeOK
  <2> QED BY <2>1, LenProperties, ElementOfSeq
<1>1. ASSUME NEW c \in Clients, Constructed(c) PROVE Exclusive' /\ NothingLost'
  <2>1. /\ held' = [held EXCEPT ![c] = created + 1]
        /\ created' = created + 1
        /\ UNCHANGED <<closed, items>>
        /\ held[c] = 0
    BY <1>1 DEF Constructed, HeldWhileUsing
  <2>2. /\ created + 1 \notin item_set /\ created + 1 # 0
        /\ item_set' = item_set \cup {created + 1}
    BY <1>0, <2>1 DEF item_set
  <2>3. Exclusive'
    BY <1>0, <2>1, <2>2 DEF Exclusive
  <2>4. NothingLost'
    <3> SUFFICES ASSUME ~closed, NEW n \in item_set'
                 PROVE  \/ \E d \in Clients : held'[d] = n
                        \/ \E i \in 1..Len(items) : items[i] = n
      BY <2>1 DEF NothingLost
    <3>1. CASE n = created + 1
      BY <1>0, <2>1, <3>1
    <3>2. CASE n \in item_set
      <4>1. n # 0
        BY <3>2 DEF item_set
      <4> QED BY <1>0, <2>1, <3>2, <4>1 DEF NothingLost
    <3> QED BY <2>2, <3>1, <3>2
  <2> QED BY <2>3, <2>4
<1>2. ASSUME NEW c \in Clients, TakeItem(c), pc[c] # "using",
             UNCHANGED <<closed, created>>
      PROVE  Exclusive' /\ NothingLost'
  <2>1. /\ held' = [held EXCEPT ![c] = items[1]]
        /\ Len(items) > 0
        /\ Len(items') = Len(items) - 1
        /\ \A i \in 1..Len(items') : items'[i] = items[i + 1]
        /\ item_set' = item_set
    <3>1. items # << >> /\ items' = Tail(items)
          /\ held' = [held EXCEPT ![c] = Head(items)] /\ item_set' = item_set
      BY <1>2 DEF TakeItem, item_set
    <3> QED BY <1>0, <3>1, HeadTailProperties, EmptySeq
  <2>2. held[c] = 0
    BY <1>2 DEF HeldWhileUsing
  <2>3. Exclusive'
    <3>1. \A i \in 1..Len(items') : i + 1 \in 1..Len(items) /\ items'[i] # items[1]
      BY <1>0, <2>1 DEF Exclusive
    <3> QED BY <1>0, <2>1, <3>1 DEF Exclusive
  <2>4. NothingLost'
    <3> SUFFICES ASSUME ~closed, NEW n \in item_set
                 PROVE  \/ \E d \in Clients : held'[d] = n
                        \/ \E i \in 1..Len(items') : items'[i] = n
      BY <1>2, <2>1 DEF NothingLost
    <3>0. n # 0
      BY DEF item_set
    <3>1. CASE \E d \in Clients : held[d] = n
      BY <1>0, <2>1, <2>2, <3>0, <3>1
    <3>2. CASE \E i \in 1..Len(items) : items[i] = n
      <4> PICK i \in 1..Len(items) : items[i] = n
        BY <3>2
      <4>1. CASE i = 1
        BY <1>0, <2>1, <4>1
      <4>2. CASE i # 1
        <5>1. i - 1 \in 1..Len(items') /\ items'[i - 1] = items[i]
          BY <1>0, <2>1, <4>2
        <5> QED BY <5>1
      <4> QED BY <4>1, <4>2
    <3> QED BY <3>1, <3>2 DEF NothingLost
  <2> QED BY <2>3, <2>4
<1>3. ASSUME NEW c \in Clients, Release(c) PROVE Exclusive' /\ NothingLost'
  <2>0. /\ held[c] # 0 /\ held[c] \in item_set
        /\ held' = [held EXCEPT ![c] = 0]
        /\ closed' = closed /\ item_set' = item_set
    BY <1>0, <1>3 DEF Release, HeldWhileUsing, item_set
  <2>a. \A i \in 1..Len(items) : items[i] # 0
    BY <1>0 DEF item_set
  <2>1. CASE closed
    BY <1>0, <1>3, <2>0, <2>a, <2>1 DEF Release, Exclusive, NothingLost
  <2>2. CASE ~closed
    <3>1. items' = Append(items, held[c])
      BY <1>3, <2>2 DEF Release
    <3>2. /\ Len(items') = Len(items) + 1
          /\ \A i \in 1..Len(items) : items'[i] = items[i]
          /\ items'[Len(items) + 1] = held[c]
      BY <1>0, <2>0, <3>1, AppendProperties
    <3>3. Exclusive'
      BY <1>0, <2>0, <2>a, <3>2 DEF Exclusive
    <3>4. NothingLost'
      <4> SUFFICES ASSUME NEW n \in item_set
                   PROVE  \/ \E d \in Clients : held'[d] = n
                          \/ \E i \in 1..Len(items') : items'[i] = n
        BY <2>0 DEF NothingLost
      <4>1. CASE \E d \in Clients : held[d] = n
        <5> PICK d \in Clients : held[d] = n
          BY <4>1
        <5>1. CASE d = c
          <6>1. Len(items) + 1 \in 1..Len(items')
            BY <1>0, <3>2
          <6> QED BY <3>2, <5>1, <6>1
        <5>2. CASE d # c
          BY <1>0, <2>0, <5>2
        <5> QED BY <5>1, <5>2
      <4>2. CASE \E i \in 1..Len(items) : items[i] = n
        BY <1>0, <3>2, <4>2
      <4> QED BY <2>2, <4>1, <4>2 DEF NothingLost
    <3> QED BY <3>3, <3>4
  <2> QED BY <2>1, <2>2
<1>4. CASE UNCHANGED <<created, items, held>> /\ (closed => closed')
  BY <1>4 DEF Exclusive, NothingLost, item_set
<1>5. ASSUME NEW c \in Clients, Acquire(c) \/ CreateItem(c) \/ GetterRuns(c)
      PROVE  Exclusive' /\ NothingLost'
  <2>1. pc[c] # "using" /\ UNCHANGED <<closed, created>>
    BY <1>5 DEF Acquire, CreateItem, GetterRuns
  <2>2. TakeItem(c) \/ UNCHANGED <<items, held>>
    BY <1>5 DEF Acquire, CreateItem, GetterRuns, WaitForItem
  <2> QED BY <1>2, <1>4, <2>1, <2>2
<1>6. ASSUME NEW c \in Clients, ConstructorFailed(c) \/ Cancel(c)
      PROVE  Exclusive' /\ NothingLost'
  BY <1>4, <1>6 DEF ConstructorFailed, Cancel
<1>7. ASSUME NEW k \in Closers,
             \/ Close(k) \/ CloseLocked(k) \/ CloseReturns(k) \/ CancelClose(k)
             \/ \E i \in toClose[k] : ItemCloses(k, i)
      PROVE  Exclusive' /\ NothingLost'
  <2>1. (closed => closed') /\ UNCHANGED <<created, items, held>>
    BY <1>7 DEF Close, CloseLocked, CloseItems, CloseReturns, CancelClose, ItemCloses
  <2> QED BY <1>4, <2>1
<1>8. CASE UNCHANGED vars
  BY <1>4, <1>8 DEF vars
<1> QED BY <1>1, <1>3, <1>5, <1>6, <1>7, <1>8 DEF Next

-----------------------------------------------------------------------------
(* Wakeups. *)

\* The getters that were woken and did not run yet.
Scheduled == {c \in Clients : pc[c] \in {"woken", "woken_locked"}}

\* NoStrandedWaiter, counted over a finite set.
WakeupsKept == IsFiniteSet(Scheduled) /\ NoStrandedWaiter

LEMMA WakeupsCounted ==
  /\ NoStrandedWaiter <=> (getters # << >> => Len(items) <= Cardinality(Scheduled))
  /\ NoStrandedWaiter' <=> (getters' # << >> => Len(items') <= Cardinality(Scheduled'))
BY DEF NoStrandedWaiter, Scheduled

\* A task that moves is scheduled no more, unless it is a getter that is woken.
LEMMA ScheduledMoves ==
  ASSUME TypeOK, NEW t \in Tasks, NEW v, pc' = [pc EXCEPT ![t] = v],
         v \notin {"woken", "woken_locked"}
  PROVE  Scheduled' = Scheduled \ {t}
BY DEF TypeOK, Tasks, Scheduled

\* A getter that gets an item takes one wakeup and one item, and one that does
\* not saw that there are none.
LEMMA GetKeepsWakeups ==
  ASSUME TypeOK, WakeupsKept, NEW c \in Clients, NEW w \in {"get", "get_locked"},
         TakeItem(c) \/ WaitForItem(c, w)
  PROVE  WakeupsKept'
<1>1. c \in Tasks /\ items \in Seq(item_set)
  BY DEF TypeOK, Tasks
<1>2. Scheduled' = Scheduled \ {c}
  BY <1>1, ScheduledMoves DEF TakeItem, WaitForItem
<1>3. /\ IsFiniteSet(Scheduled) /\ IsFiniteSet(Scheduled')
      /\ Cardinality(Scheduled) \in Nat /\ Cardinality(Scheduled') \in Nat
      /\ Cardinality(Scheduled') >= Cardinality(Scheduled) - 1
  BY <1>2, FS_RemoveElement, FS_CardinalityType DEF WakeupsKept
<1>4. CASE TakeItem(c)
  <2>1. Len(items) \in Nat /\ Len(items') = Len(items) - 1 /\ getters' = getters
    BY <1>1, <1>4, HeadTailProperties DEF TakeItem
  <2> QED BY <1>3, <2>1, WakeupsCounted DEF WakeupsKept
<1>5. CASE WaitForItem(c, w)
  <2>1. Len(items') = 0
    BY <1>5 DEF WaitForItem
  <2> QED BY <1>3, <2>1, WakeupsCounted DEF WakeupsKept
<1> QED BY <1>4, <1>5

\* put() wakes one getter for its item, and a cancelled getter that was woken
\* wakes another one.
LEMMA WakeKeepsWakeups ==
  ASSUME TypeOK, GettersWait, WakeupsKept, NEW c \in Clients,
         pc[c] \notin {"get", "get_locked"},
         WakeNext([pc EXCEPT ![c] = "idle"]),
         Len(items') = Len(items) + (IF c \in Scheduled THEN 0 ELSE 1)
  PROVE  WakeupsKept'
<1>1. /\ getters \in Seq(Clients) /\ c \in Tasks /\ Len(items) \in Nat
      /\ pc \in [Tasks -> ClientPC \cup CloserPC]
  BY DEF TypeOK, Tasks
<1>2. CASE getters = << >>
  <2>1. Scheduled' = Scheduled \ {c} /\ getters' = << >>
    BY <1>1, <1>2, ScheduledMoves DEF WakeNext
  <2> QED BY <2>1, FS_RemoveElement, WakeupsCounted DEF WakeupsKept
<1>3. CASE getters # << >>
  <2>1. PICK h : h = Head(getters)
    OBVIOUS
  <2>2. h \in Clients /\ h \in Tasks /\ pc[h] \in {"get", "get_locked"} /\ h # c
    BY <1>1, <1>3, <2>1, HeadTailProperties DEF GettersWait, Tasks
  <2>3. /\ \A t \in Tasks \ {c, h} : pc'[t] = pc[t]
        /\ pc'[c] = "idle" /\ pc'[h] \in {"woken", "woken_locked"}
    BY <1>1, <1>3, <2>1, <2>2 DEF WakeNext
  <2>4. Scheduled' = (Scheduled \ {c}) \cup {h} /\ h \notin Scheduled \ {c}
    BY <2>2, <2>3 DEF Scheduled, Tasks
  <2>5. PICK rest : rest = Scheduled \ {c}
    OBVIOUS
  <2>6. /\ IsFiniteSet(rest) /\ Cardinality(Scheduled) \in Nat
        /\ Cardinality(rest) = Cardinality(Scheduled) - (IF c \in Scheduled THEN 1 ELSE 0)
    BY <2>5, FS_RemoveElement, FS_CardinalityType DEF WakeupsKept
  <2>7. IsFiniteSet(Scheduled') /\ Cardinality(Scheduled') = Cardinality(rest) + 1
    BY <2>4, <2>5, <2>6, FS_AddElement
  <2> QED BY <1>1, <1>3, <2>6, <2>7, WakeupsCounted DEF WakeupsKept
<1> QED BY <1>2, <1>3

\* A task that was not woken moves, and no item is released.
LEMMA OthersKeepWakeups ==
  ASSUME TypeOK, WakeupsKept, NEW t \in Tasks, NEW v, pc' = [pc EXCEPT ![t] = v],
         t \notin Scheduled, v \notin {"woken", "woken_locked"},
         UNCHANGED items, getters' # << >> => getters # << >>
  PROVE  WakeupsKept'
<1>1. Scheduled' = Scheduled
  BY ScheduledMoves
<1> QED BY <1>1, WakeupsCounted DEF WakeupsKept

\* Every step keeps a wakeup for each released item that somebody waits for.
LEMMA WakeupsStep == TypeOK /\ GettersWait /\ WakeupsKept /\ [Next]_vars => WakeupsKept'
<1> SUFFICES ASSUME TypeOK, GettersWait, WakeupsKept, [Next]_vars PROVE WakeupsKept'
  OBVIOUS
<1>0. Clients \subseteq Tasks /\ Closers \subseteq Tasks /\ Clients \cap Closers = {}
  BY PoolAssumption DEF Tasks
<1>1. ASSUME NEW c \in Clients, Acquire(c) PROVE WakeupsKept'
  <2>1. c \notin Scheduled
    BY <1>1 DEF Acquire, Scheduled
  <2> QED BY <1>0, <1>1, <2>1, GetKeepsWakeups, OthersKeepWakeups DEF Acquire
<1>2. ASSUME NEW c \in Clients, CreateItem(c) PROVE WakeupsKept'
  <2>1. c \notin Scheduled
    BY <1>2 DEF CreateItem, Scheduled
  <2> QED BY <1>0, <1>2, <2>1, GetKeepsWakeups, OthersKeepWakeups DEF CreateItem
<1>3. ASSUME NEW c \in Clients, Constructed(c) \/ ConstructorFailed(c) PROVE WakeupsKept'
  <2>1. c \notin Scheduled
    BY <1>3 DEF Constructed, ConstructorFailed, Scheduled
  <2> QED BY <1>0, <1>3, <2>1, OthersKeepWakeups DEF Constructed, ConstructorFailed
<1>4. ASSUME NEW c \in Clients, GetterRuns(c) PROVE WakeupsKept'
  BY <1>4, GetKeepsWakeups DEF GetterRuns
<1>5. ASSUME NEW c \in Clients, Release(c) PROVE WakeupsKept'
  <2>1. c \notin Scheduled /\ pc[c] \notin {"get", "get_locked"}
    BY <1>5 DEF Release, Scheduled
  <2>2. CASE items' = Append(items, held[c]) /\ WakeNext([pc EXCEPT ![c] = "idle"])
    <3>1. Len(items') = Len(items) + 1
      BY <2>2, AppendProperties DEF TypeOK
    <3> QED BY <2>1, <2>2, <3>1, WakeKeepsWakeups
  <2> QED BY <1>0, <1>5, <2>1, <2>2, OthersKeepWakeups DEF Release
<1>6. ASSUME NEW c \in Clients, Cancel(c) PROVE WakeupsKept'
  <2>1. UNCHANGED items /\ Len(items) \in Nat
    BY <1>6 DEF Cancel, TypeOK
  <2>2. CASE c \notin Scheduled
    <3>1. /\ pc' = [pc EXCEPT ![c] = "idle"]
          /\ getters' = getters \/ getters' = Without(getters, c)
      BY <1>6, <2>2 DEF Cancel, Scheduled
    <3>2. Without(<< >>, c) = << >>
      BY DEF Without
    <3>3. getters' # << >> => getters # << >>
      BY <3>1, <3>2
    <3>4. c \in Tasks /\ items' = items /\ pc' = [pc EXCEPT ![c] = "idle"]
      BY <1>0, <2>1, <3>1
    <3>5. "idle" \notin {"woken", "woken_locked"}
      OBVIOUS
    <3>6. PICK v : v = "idle"
      OBVIOUS
    <3>7. pc' = [pc EXCEPT ![c] = v] /\ v \notin {"woken", "woken_locked"}
      BY <3>4, <3>5, <3>6
    <3>8. c \in Tasks /\ UNCHANGED items
      BY <3>4
    <3>9. Scheduled' = Scheduled \ {c}
      BY <3>7, <3>8, ScheduledMoves
    <3> QED BY <2>2, <3>3, <3>8, <3>9, WakeupsCounted DEF WakeupsKept
  <2>3. CASE c \in Scheduled
    <3>1. pc[c] \in {"woken", "woken_locked"}
      BY <2>3 DEF Scheduled
    <3>2. CASE has_released
      <4>1. WakeNext([pc EXCEPT ![c] = "idle"])
        BY <1>6, <3>1, <3>2 DEF Cancel
      <4> QED BY <2>1, <2>3, <3>1, <4>1, WakeKeepsWakeups
    <3>3. CASE ~has_released
      <4>1. Len(items') = 0 /\ pc' = [pc EXCEPT ![c] = "idle"]
        BY <1>6, <3>1, <3>3, <2>1 DEF Cancel, has_released
      <4>2. Scheduled' = Scheduled \ {c}
        BY <1>0, <4>1, ScheduledMoves
      <4>3. IsFiniteSet(Scheduled') /\ Cardinality(Scheduled') \in Nat
        BY <4>2, FS_RemoveElement, FS_CardinalityType DEF WakeupsKept
      <4> QED BY <4>1, <4>3, WakeupsCounted DEF WakeupsKept
    <3> QED BY <3>2, <3>3
  <2> QED BY <2>2, <2>3
<1>7. ASSUME NEW k \in Closers,
             Close(k) \/ CloseLocked(k) \/ CloseReturns(k) \/ CancelClose(k)
      PROVE  WakeupsKept'
  <2>1. k \notin Scheduled /\ UNCHANGED <<items, getters>>
    BY <1>0, <1>7 DEF Close, CloseLocked, CloseItems, CloseReturns, CancelClose, Scheduled
  <2>2. \E v \in {"idle", "lock", "closing"} : pc' = [pc EXCEPT ![k] = v]
    BY <1>7 DEF Close, CloseLocked, CloseItems, CloseReturns, CancelClose
  <2> QED BY <1>0, <2>1, <2>2, OthersKeepWakeups
<1>8. ASSUME UNCHANGED <<items, getters, pc>> PROVE WakeupsKept'
  BY <1>8, WakeupsCounted DEF WakeupsKept, Scheduled
<1>9. ASSUME NEW k \in Closers, NEW i \in toClose[k], ItemCloses(k, i) PROVE WakeupsKept'
  BY <1>8, <1>9 DEF ItemCloses
<1>10. CASE UNCHANGED vars
  BY <1>8, <1>10 DEF vars
<1> QED BY <1>1, <1>2, <1>3, <1>4, <1>5, <1>6, <1>7, <1>9, <1>10 DEF Next

-----------------------------------------------------------------------------
\* The inductive invariant.
PoolInv ==
    /\ TypeOK
    /\ GettersWait
    /\ HeldWhileUsing
    /\ LockExclusion
    /\ RoomToConstruct
    /\ CapacityBound
    /\ Exclusive
    /\ NothingLost
    /\ WakeupsKept

\* A new pool satisfies the invariant.
LEMMA PoolInit == Init => PoolInv
<1> SUFFICES ASSUME Init PROVE PoolInv
  OBVIOUS
<1> USE PoolAssumption
<1>1. TypeOK
  <2>1. "idle" \in ClientPC /\ "idle" \in CloserPC
    BY DEF ClientPC, CloserPC
  <2>2. /\ items \in Seq(item_set) /\ getters \in Seq(Clients)
        /\ lockq \in Seq(Tasks)
    BY EmptySeq DEF Init
  <2>3. closed \in BOOLEAN
    BY Zenon DEF Init
  <2>4. /\ pc \in [Tasks -> ClientPC \cup CloserPC]
        /\ \A c \in Clients : pc[c] \in ClientPC
        /\ \A k \in Closers : pc[k] \in CloserPC
    BY <2>1 DEF Init, Tasks
  <2>5. /\ created \in Nat /\ lock \in Tasks \cup {NoTask}
        /\ held \in [Clients -> {0} \cup item_set]
        /\ toClose \in [Closers -> SUBSET item_set]
        /\ itemClosed \subseteq item_set
        /\ uses \in [Clients -> 0..Rounds]
    BY DEF Init
  <2> QED BY <2>2, <2>3, <2>4, <2>5 DEF TypeOK
<1>2. GettersWait
  BY DEF Init, GettersWait, Distinct
<1>3. HeldWhileUsing /\ LockExclusion /\ RoomToConstruct
  BY DEF Init, HeldWhileUsing, LockExclusion, InsideLock, RoomToConstruct, Tasks
<1>4. CapacityBound /\ Exclusive /\ NothingLost
  BY DEF Init, CapacityBound, Exclusive, NothingLost, item_set
<1>5. WakeupsKept
  <2>1. Scheduled = {} /\ getters = << >>
    BY DEF Init, Scheduled, Tasks
  <2> QED BY <2>1, FS_EmptySet, WakeupsCounted DEF WakeupsKept
<1> QED BY <1>1, <1>2, <1>3, <1>4, <1>5 DEF PoolInv

\* Every step of a client, a closer or an item's close() keeps the invariant.
LEMMA PoolStep == PoolInv /\ [Next]_vars => PoolInv'
BY TypeStep, GettersStep, HeldStep, LockStep, RoomStep, PlacesStep, WakeupsStep
DEF PoolInv

\* The invariant holds throughout, for any number of tasks and any max_size.
THEOREM PoolInvariant == Spec => []PoolInv
BY PoolInit, PoolStep, PTL DEF Spec

\* The pool's state is always well formed.
THEOREM PoolTypes == Spec => []TypeOK
BY PoolInvariant, PTL DEF PoolInv

\* The pool never has more than max_size items, although _get() decides with
\* stale numbers and waits for the lock before it constructs.
THEOREM PoolCapacity == Spec => []CapacityBound
BY PoolInvariant, PTL DEF PoolInv

\* The code under the lock is run by the owner of the lock only.
THEOREM PoolLock == Spec => []LockExclusion
BY PoolInvariant, PTL DEF PoolInv

\* No item is handed to two clients, or handed out while it is queued.
THEOREM PoolExclusive == Spec => []Exclusive
BY PoolInvariant, PTL DEF PoolInv

\* No cancellation and no error of a constructor loses an item.
THEOREM PoolNothingLost == Spec => []NothingLost
BY PoolInvariant, PTL DEF PoolInv

\* No wakeup is lost, whoever is cancelled: for any number of tasks there are as
\* many scheduled getters as released items while others wait.
THEOREM PoolNoStrandedWaiter == Spec => []NoStrandedWaiter
BY PoolInvariant, PTL DEF PoolInv, WakeupsKept

\* The pool implements the item allocator.
THEOREM PoolRefinement == Spec => ImplementsAllocator
<1>1. Init => Allocator!Init
  BY DEF Init, Allocator!Init
<1>2. PoolInv /\ [Next]_vars
      => [Allocator!Next]_<<closed, created, {items[i] : i \in 1..Len(items)}, held>>
  <2> SUFFICES ASSUME PoolInv, [Next]_vars
               PROVE  [Allocator!Next]_<<closed, created,
                                         {items[i] : i \in 1..Len(items)}, held>>
    OBVIOUS
  <2>1. ItemsStep
    BY ItemsStepLemma DEF PoolInv
  <2> QED BY <2>1 DEF ItemsStep, Released, Allocator!Next
<1> QED BY <1>1, <1>2, PoolInvariant, PTL
        DEF Spec, ImplementsAllocator, Allocator!Spec
=============================================================================
