---------------------------- MODULE FeatureStore ----------------------------
(***************************************************************************)
(* What the feature cache promises to the commands that resolve features   *)
(* (ResolveSource): directories of features, each there as a whole or not  *)
(* at all, which stay, and from which alone the commands take features,    *)
(* but for what somebody else does to a directory.  Features implements    *)
(* it, and Resolution relies on it.                                        *)
(***************************************************************************)
CONSTANTS
  Procs,     \* commands
  Entries    \* the directories there can be: a source and a digest

VARIABLES
  stored,    \* the directories that are there as a whole
  spoilt,    \* those that somebody else has touched
  taken      \* what each command has resolved

Init ==
  /\ stored \subseteq Entries
  /\ spoilt = {}
  /\ taken = [p \in Procs |-> {}]

\* A directory appears.
Store(e) ==
  /\ stored' = stored \cup {e}
  /\ UNCHANGED <<spoilt, taken>>

\* A command resolves a feature.
Take(p, e) ==
  /\ e \in stored \cup spoilt
  /\ taken' = [taken EXCEPT ![p] = @ \cup {e}]
  /\ UNCHANGED <<stored, spoilt>>

\* A command fails.
Drop(p) ==
  /\ taken' = [taken EXCEPT ![p] = {}]
  /\ UNCHANGED <<stored, spoilt>>

\* Nothing is promised of a directory that somebody else has touched.
Spoil(e) ==
  /\ spoilt' = spoilt \cup {e}
  /\ stored' \in {stored, stored \cup {e}, stored \ {e}}
  /\ UNCHANGED taken

Next ==
  \/ \E e \in Entries : Store(e) \/ Spoil(e) \/ \E p \in Procs : Take(p, e)
  \/ \E p \in Procs : Drop(p)

Spec == Init /\ [][Next]_<<stored, spoilt, taken>>
=============================================================================
