------------------------------ MODULE Metadata ------------------------------
(***************************************************************************)
(* The devcontainer metadata of an image, a feature or a configuration,    *)
(* and how lists of it merge.  An entry is what one of them says: the      *)
(* commands of its hooks, a user, what it mounts at one place, and the     *)
(* privileges it asks for.  The label of an image or a container holds a   *)
(* list of entries (MetadataLabelValue, MetadataFromLabel), least          *)
(* important first.                                                        *)
(***************************************************************************)
EXTENDS Naturals, Sequences, FiniteSetsExt

CONSTANTS
  Hooks,        \* what a devcontainer.json can say
  Features,     \* contents of the feature it can enable
  Versions,     \* versions of the source image in its registry
  Labelled,     \* those versions that carry a metadata label
  Users, Mounts, Privileges,
  UserOf,       \* the user that an entry names, or None
  MountOf,      \* what it mounts, or None
  PrivilegesOf, \* what it asks for
  None

Entry == ({"source"} \X Versions) \cup ({"feature"} \X Features)
           \cup ({"config"} \X Hooks)

ASSUME MetadataAssumption ==
  /\ Labelled \subseteq Versions
  /\ None \notin Hooks \cup Features \cup Versions \cup Users \cup Mounts
  /\ UserOf \in [Entry -> Users \cup {None}]
  /\ MountOf \in [Entry -> Mounts \cup {None}]
  /\ PrivilegesOf \in [Entry -> SUBSET Privileges]

SourceMetadata(v) == IF v \in Labelled THEN << <<"source", v>> >> ELSE << >>

FeaturesMetadata(f) == IF f = None THEN << >> ELSE << <<"feature", f>> >>

\* ConfigMetadata, when it says anything.
ConfigMetadata(h) == IF h = None THEN << >> ELSE << <<"config", h>> >>

\* The list behind MergeMetadata: the configuration has the last word.
MergeMetadata(h, entries) == entries \o ConfigMetadata(h)

\* pickLastString, pickLastBool and mergeMounts at one target.
PickLast(pick, entries) ==
  LET says == {i \in DOMAIN entries : pick[entries[i]] # None} IN
    IF says = {} THEN None ELSE pick[entries[Max(says)]]

\* unionStrings, the order left out.
Union(pick, entries) == UNION {pick[entries[i]] : i \in DOMAIN entries}

SettingsOf == [user : Users \cup {None}, mount : Mounts \cup {None},
               privileges : SUBSET Privileges]

\* The merged configuration, but for the hooks.
Settings(entries) ==
  [user |-> PickLast(UserOf, entries), mount |-> PickLast(MountOf, entries),
   privileges |-> Union(PrivilegesOf, entries)]

\* collectCommands: the hooks run in the order of the entries, once for each.
Commands(entries) == entries
=============================================================================
