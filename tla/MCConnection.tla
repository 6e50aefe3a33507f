--------------------------- MODULE MCConnection ---------------------------
(* Instances of the reconnecting connection for TLC. *)
EXTENDS RobustConnection, TLC

\* The users are interchangeable, and so are the channels (for the runs that
\* check no liveness).
Symmetry == Permutations(Users) \cup Permutations(Channels)
===========================================================================
