------------------------------ MODULE MCPool ------------------------------
(* Instances of the pool for TLC. *)
EXTENDS Pool, TLC

\* The clients are interchangeable, and so are the tasks that close (for the
\* runs that check no liveness).
Symmetry == Permutations(Clients) \cup Permutations(Closers)
===========================================================================
