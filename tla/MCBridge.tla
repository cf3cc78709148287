------------------------------ MODULE MCBridge ------------------------------
(* Instances of Bridge: every process may become every kind of process. *)
EXTENDS Bridge, TLC

Symmetric == Permutations(Pids) \cup Permutations(Containers)
=============================================================================
