----------------------------- MODULE MCChannel -----------------------------
(* Instances of the robust channel for TLC. *)
EXTENDS RobustChannel, TLC

\* The users are interchangeable (for the runs that check no liveness).
Symmetry == Permutations(Users)
============================================================================
