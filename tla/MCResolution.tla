---------------------------- MODULE MCResolution ----------------------------
(* Instances of Resolution: one feature from a registry and one tarball. *)
EXTENDS Resolution, TLC

CONSTANTS registry, tarball, bare, both

\* One configuration enables no remote feature, the other both, which cannot be
\* put together if they are the same.
MCWants == [i \in Inputs |-> IF i = bare THEN {} ELSE {registry, tarball}]
MCClashing == {both} \X {pins \in Pins : pins[registry] = pins[tarball]}

Symmetric == Permutations(Digests)
=============================================================================
