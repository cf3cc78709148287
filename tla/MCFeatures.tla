------------------------------ MODULE MCFeatures -----------------------------
(* Two commands, a local feature, one of a registry and a tarball. *)
EXTENDS Features, TLC

CONSTANTS p1, p2, d1, d2

MCWants == (p1 :> Sources) @@ (p2 :> {2})

G(d, a) == [dependsOn |-> [s \in Sources |-> {r[2] : r \in {x \in d : x[1] = s}}],
            installsAfter |-> [s \in Sources |-> {r[2] : r \in {x \in a : x[1] = s}}]]

MCGraphs ==
  { G({<<1, 3>>}, {<<3, 3>>}),    \* against the order of the IDs, after itself
    G({<<2, 3>>}, {<<3, 2>>}) }   \* a cycle, and a dependency that p2 lacks

(* An image pinned to a digest that its tag has left, a tarball that has     *)
(* changed since it was pinned, or nothing pinned.                           *)
MCLockfiles ==
  { [s \in Sources |-> IF s \in Locals THEN None ELSE d] : d \in {d2, None} }

MCUpstream == [s \in Sources |-> d1]

MCCaches ==
  { [e \in Entries |-> {}],
    [e \in Entries |-> {"install"}],
    [e \in Entries |-> IF e \in {<<2, d1>>, <<2, d2>>, <<3, d2>>} THEN Complete ELSE {}] }
=============================================================================
