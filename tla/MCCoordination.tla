--------------------------- MODULE MCCoordination ---------------------------
(* Instances of Coordination for TLC. *)
EXTENDS Coordination, TLC

CONSTANTS m1, m2, m3, e1     \* processes
CONSTANTS h1, h2             \* hosts

OneHost == [p \in Proc |-> h1]
\* m2 runs on another host that shares the state directory.
TwoHosts == [p \in Proc |-> IF p = m2 THEN h2 ELSE h1]

MutatorSymmetry == Permutations(Mutators)
=============================================================================
