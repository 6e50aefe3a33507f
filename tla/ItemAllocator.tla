--------------------------- MODULE ItemAllocator ---------------------------
(***************************************************************************)
(* What the pool of aio_pika/pool.py promises to its clients, without the  *)
(* lock, the queue and the waiting: items are numbered as they are made,   *)
(* never more than Limit of them (0: no limit), and each one is free or    *)
(* held by one client.  Shutting the pool stops items from coming back;    *)
(* a client that was already waiting may still be served, which is what    *)
(* pool.py does: it looks at __closed only before it waits.                *)
(***************************************************************************)
EXTENDS Naturals

CONSTANTS Clients, Limit

VARIABLES
    shut,     \* whether the pool was closed
    made,     \* how many items were made
    free,     \* the items nobody holds
    holder    \* the item each client holds, 0 for none

Init ==
    /\ shut = FALSE
    /\ made = 0
    /\ free = {}
    /\ holder = [c \in Clients |-> 0]

Make(c) ==
    /\ holder[c] = 0
    /\ Limit > 0 => made < Limit
    /\ made' = made + 1
    /\ holder' = [holder EXCEPT ![c] = made + 1]
    /\ UNCHANGED <<shut, free>>

Take(c, i) ==
    /\ holder[c] = 0
    /\ i \in free
    /\ free' = free \ {i}
    /\ holder' = [holder EXCEPT ![c] = i]
    /\ UNCHANGED <<shut, made>>

Give(c) ==
    /\ ~shut
    /\ holder[c] # 0
    /\ free' = free \cup {holder[c]}
    /\ holder' = [holder EXCEPT ![c] = 0]
    /\ UNCHANGED <<shut, made>>

\* put() on a closed pool raises: the item does not come back.
Abandon(c) ==
    /\ shut
    /\ holder[c] # 0
    /\ holder' = [holder EXCEPT ![c] = 0]
    /\ UNCHANGED <<shut, made, free>>

Shut == shut' = TRUE /\ UNCHANGED <<made, free, holder>>

Next ==
    \/ \E c \in Clients :
          \/ Make(c)
          \/ \E i \in free : Take(c, i)
          \/ Give(c)
          \/ Abandon(c)
    \/ Shut

Spec == Init /\ [][Next]_<<shut, made, free, holder>>
============================================================================
