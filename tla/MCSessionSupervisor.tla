------------------------ MODULE MCSessionSupervisor ------------------------
(* Bounds for model-checking SessionSupervisor. *)
EXTENDS SessionSupervisor, TLC

\* Workers are numbered in the order they register, sessions in the order they
\* start: neither is symmetric.  The two modes are, and the properties checked
\* with this symmetry are safety properties.
ModeSymmetry == Permutations(Modes)
=============================================================================
