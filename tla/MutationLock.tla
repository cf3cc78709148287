---------------------------- MODULE MutationLock ----------------------------
(***************************************************************************)
(* What the workspace lock promises to the commands that mutate a          *)
(* workspace (up, build, run): a command body runs at most once, and no    *)
(* two bodies overlap.  A command may be refused, or die, at any moment.   *)
(* Coordination.tla is shown to implement this specification.              *)
(***************************************************************************)
CONSTANT Mutators          \* the invocations of mutating commands

VARIABLE phase             \* phase[p] = "before", "in" or "after" its body

Init == phase = [p \in Mutators |-> "before"]

\* The lock is granted: nobody else is inside a body.
Enter(p) ==
  /\ phase[p] = "before"
  /\ \A q \in Mutators : phase[q] # "in"
  /\ phase' = [phase EXCEPT ![p] = "in"]

\* The body returns, or its process dies.
Leave(p) ==
  /\ phase[p] = "in"
  /\ phase' = [phase EXCEPT ![p] = "after"]

\* The command ends without having run its body.
Refuse(p) ==
  /\ phase[p] = "before"
  /\ phase' = [phase EXCEPT ![p] = "after"]

Next == \E p \in Mutators : Enter(p) \/ Leave(p) \/ Refuse(p)

Spec == Init /\ [][Next]_phase
=============================================================================
