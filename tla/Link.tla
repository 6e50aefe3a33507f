-------------------------------- MODULE Link --------------------------------
(***************************************************************************)
(* What the reconnecting connection of robust_connection.py is to the      *)
(* channels that live on it, and what they may rely on: it comes up only   *)
(* after its end has been told, the restore of the channels that follows   *)
(* runs once per connection and never into the next one, a restore that    *)
(* fails leaves no connection up, and a factory that stopped connects no   *)
(* more.                                                                   *)
(***************************************************************************)
VARIABLES
    link,     \* the connection: "up", "lost" (nobody told yet) or "down"
    restore,  \* the factory's restore of the channels: "idle", "running", "failed"
    stopped   \* whether the factory ended

vars == <<link, restore, stopped>>

Init ==
    /\ link \in {"up", "down"}
    /\ restore = "idle"
    /\ stopped = FALSE

\* A new connection; the factory restores the channels, if there are any.
Up ==
    /\ link = "down"
    /\ restore = "idle"
    /\ ~stopped
    /\ link' = "up"
    /\ restore' \in {"idle", "running"}
    /\ UNCHANGED stopped

Lost == link = "up" /\ link' = "lost" /\ UNCHANGED <<restore, stopped>>

Down == link = "lost" /\ link' = "down" /\ UNCHANGED <<restore, stopped>>

RestoreReturns ==
    /\ restore = "running"
    /\ restore' = "idle"
    /\ UNCHANGED <<link, stopped>>

RestoreRaises ==
    /\ restore = "running"
    /\ restore' = "failed"
    /\ UNCHANGED <<link, stopped>>

\* The factory gives up a connection on which it could not restore.
GiveUp ==
    /\ restore = "failed"
    /\ restore' = "idle"
    /\ link' = IF link = "up" THEN "lost" ELSE link
    /\ UNCHANGED stopped

\* Somebody closes the connection, or a fail-fast connect() fails.
Stop == stopped' = TRUE /\ restore' = "idle" /\ UNCHANGED link

Next == Up \/ Lost \/ Down \/ RestoreReturns \/ RestoreRaises \/ GiveUp \/ Stop

Spec == Init /\ [][Next]_vars
=============================================================================
