---------------------------- MODULE ImagesProofs ----------------------------
(***************************************************************************)
(* Theorems of module Images about metadata, types and trust: how lists of *)
(* metadata merge, type correctness, and that what is trusted has been     *)
(* approved, for any images, features and files and any number of commands. *)
(***************************************************************************)
EXTENDS Images, WellFoundedInduction, TLAPS

-----------------------------------------------------------------------------
(* How lists of metadata merge. *)

\* A set of numbers that is not empty has a least one.
LEMMA LeastExists ==
  ASSUME NEW T, T \subseteq Nat, T # {}
  PROVE  \E s \in T : \A r \in T : s <= r
<1> DEFINE R == {ss \in Nat \X Nat : ss[1] < ss[2]}
<1>1. IsWellFoundedOn(R, Nat)
  BY NatLessThanWellFounded DEF OpToRel
<1> HIDE DEF R
<1>2. PICK s \in T : \A r \in T : <<r, s>> \notin R
  BY <1>1, WFMin
<1>3. ASSUME NEW r \in T PROVE s <= r
  <2>1. r \in Nat /\ s \in Nat /\ <<r, s>> \notin R
    BY <1>2
  <2>2. ~(r < s)
    BY <2>1 DEF R
  <2>3. QED
    BY <2>1, <2>2
<1>4. QED
  BY <1>3

\* The last of the places that say something.
LEMMA LastExists ==
  ASSUME NEW n \in Nat, NEW S, S \subseteq 1..n, S # {}
  PROVE  Max(S) \in S /\ \A y \in S : Max(S) >= y
<1> DEFINE T == {n - i : i \in S}
<1>1. T \subseteq Nat
  <2>1. \A i \in S : i \in 1..n /\ n - i \in Nat
    OBVIOUS
  <2>2. QED
    BY <2>1
<1>2. PICK s \in T : \A r \in T : s <= r
  <2>1. T # {}
    OBVIOUS
  <2>2. QED
    BY <1>1, <2>1, LeastExists
<1>3. PICK x \in S : s = n - x
  OBVIOUS
<1>4. ASSUME NEW y \in S PROVE x >= y
  <2>1. n - y \in T
    OBVIOUS
  <2>2. n - x <= n - y
    BY <1>2, <1>3, <2>1
  <2>3. QED
    BY <2>2
<1>5. QED
  BY <1>4 DEF Max

\* What is at least as large as all the others is the last one.
LEMMA LastIs ==
  ASSUME NEW S, S \subseteq Nat, NEW x \in S, \A y \in S : x >= y
  PROVE  Max(S) = x
<1>1. Max(S) \in S /\ \A y \in S : Max(S) >= y
  BY DEF Max
<1>2. Max(S) \in Nat /\ x \in Nat /\ Max(S) >= x /\ x >= Max(S)
  BY <1>1
<1>3. QED
  BY <1>2

\* The second of two lists has the last word.
LEMMA PickLastConcat ==
  ASSUME NEW pick, NEW a \in Seq(Entry), NEW b \in Seq(Entry)
  PROVE  PickLast(pick, a \o b) = IF PickLast(pick, b) # None THEN PickLast(pick, b)
                                  ELSE PickLast(pick, a)
<1> DEFINE n == Len(a)
           m == Len(b)
           A == {i \in DOMAIN a : pick[a[i]] # None}
           B == {i \in DOMAIN b : pick[b[i]] # None}
           C == {i \in DOMAIN (a \o b) : pick[(a \o b)[i]] # None}
<1>1. /\ n \in Nat /\ m \in Nat /\ DOMAIN a = 1..n /\ DOMAIN b = 1..m
      /\ DOMAIN (a \o b) = 1..n + m
      /\ \A i \in 1..n : (a \o b)[i] = a[i]
      /\ \A i \in 1..m : (a \o b)[n + i] = b[i]
      /\ a \o b \in Seq(Entry)
  OBVIOUS
<1>2. /\ PickLast(pick, a) = IF A = {} THEN None ELSE pick[a[Max(A)]]
      /\ PickLast(pick, b) = IF B = {} THEN None ELSE pick[b[Max(B)]]
      /\ PickLast(pick, a \o b) = IF C = {} THEN None ELSE pick[(a \o b)[Max(C)]]
  BY DEF PickLast
<1>3. B # {} => Max(B) \in B /\ \A i \in B : Max(B) >= i
  <2>1. B \subseteq 1..m
    BY <1>1
  <2>2. QED
    BY <1>1, <2>1, LastExists
<1> HIDE DEF n, m
<1>4. ASSUME NEW i \in 1..n + m PROVE i \in 1..n \/ (i - n \in 1..m /\ i = n + (i - n))
  BY <1>1
<1>5. CASE B # {}
  <2>1. n + Max(B) \in C
    BY <1>1, <1>3, <1>5
  <2>2. ASSUME NEW i \in C PROVE n + Max(B) >= i
    <3>1. i \in 1..n \/ i - n \in B
      BY <1>1, <1>4
    <3>2. CASE i \in 1..n
      BY <1>1, <1>3, <1>5, <3>2
    <3>3. CASE i - n \in B
      <4>1. Max(B) >= i - n /\ Max(B) \in 1..m /\ i \in 1..n + m
        BY <1>1, <1>3, <1>5, <3>3
      <4>2. QED
        BY <1>1, <4>1
    <3>4. QED
      BY <3>1, <3>2, <3>3
  <2>3. C \subseteq Nat
    BY <1>1
  <2>4. Max(C) = n + Max(B)
    BY <2>1, <2>2, <2>3, LastIs
  <2>5. (a \o b)[Max(C)] = b[Max(B)] /\ pick[b[Max(B)]] # None /\ C # {}
    BY <1>1, <1>3, <1>5, <2>1, <2>4
  <2> HIDE DEF A, B, C
  <2>6. QED
    BY <1>2, <1>5, <2>5
<1>6. CASE B = {}
  <2>1. C = A
    <3>1. ASSUME NEW i \in C PROVE i \in A
      <4>1. i \in 1..n
        BY <1>1, <1>4, <1>6
      <4>2. QED
        BY <1>1, <4>1
    <3>2. ASSUME NEW i \in A PROVE i \in C
      BY <1>1
    <3>3. QED
      BY <3>1, <3>2
  <2>2. A # {} => Max(A) \in 1..n
    <3>1. A \subseteq 1..n
      BY <1>1
    <3>2. QED
      BY <1>1, <3>1, LastExists
  <2> HIDE DEF A, B, C
  <2>3. QED
    BY <1>1, <1>2, <1>6, <2>1, <2>2
<1>7. QED
  BY <1>5, <1>6

\* A list asks for what its parts ask for.
LEMMA UnionConcat ==
  ASSUME NEW pick, NEW a \in Seq(Entry), NEW b \in Seq(Entry)
  PROVE  Union(pick, a \o b) = Union(pick, a) \cup Union(pick, b)
<1> DEFINE n == Len(a)
           m == Len(b)
<1>1. /\ n \in Nat /\ m \in Nat /\ DOMAIN a = 1..n /\ DOMAIN b = 1..m
      /\ DOMAIN (a \o b) = 1..n + m
      /\ \A i \in 1..n : (a \o b)[i] = a[i]
      /\ \A i \in 1..m : (a \o b)[n + i] = b[i]
  OBVIOUS
<1> HIDE DEF n, m
<1>2. \A i \in 1..n + m : i \in 1..n \/ (i - n \in 1..m /\ i = n + (i - n))
  BY <1>1
<1>3. \A i \in 1..n : i \in 1..n + m
  BY <1>1
<1>4. \A i \in 1..m : n + i \in 1..n + m
  BY <1>1
<1>5. ASSUME NEW x \in Union(pick, a \o b) PROVE x \in Union(pick, a) \cup Union(pick, b)
  <2>1. PICK i \in 1..n + m : x \in pick[(a \o b)[i]]
    BY <1>1 DEF Union
  <2>2. CASE i \in 1..n
    BY <1>1, <2>1, <2>2 DEF Union
  <2>3. CASE i - n \in 1..m /\ i = n + (i - n)
    <3>1. (a \o b)[i] = b[i - n]
      BY <1>1, <2>3
    <3>2. QED
      BY <1>1, <2>1, <2>3, <3>1 DEF Union
  <2>4. QED
    BY <1>2, <2>2, <2>3
<1>6. ASSUME NEW x \in Union(pick, a) \cup Union(pick, b) PROVE x \in Union(pick, a \o b)
  <2>1. CASE x \in Union(pick, a)
    BY <1>1, <1>3, <2>1 DEF Union
  <2>2. CASE x \in Union(pick, b)
    <3>1. PICK i \in 1..m : x \in pick[b[i]]
      BY <1>1, <2>2 DEF Union
    <3>2. n + i \in DOMAIN (a \o b) /\ (a \o b)[n + i] = b[i]
      BY <1>1, <1>4
    <3>3. QED
      BY <3>1, <3>2 DEF Union
  <2>3. QED
    BY <1>6, <2>1, <2>2
<1>7. QED
  BY <1>5, <1>6

\* Merging what comes first twice changes no setting.
LEMMA FirstTwice ==
  ASSUME NEW a \in Seq(Entry), NEW b \in Seq(Entry)
  PROVE  Settings(a \o (a \o b)) = Settings(a \o b)
<1>1. a \o b \in Seq(Entry)
  OBVIOUS
<1>2. \A pick : PickLast(pick, a \o (a \o b)) = PickLast(pick, a \o b)
  <2>1. ASSUME NEW pick PROVE PickLast(pick, a \o (a \o b)) = PickLast(pick, a \o b)
    <3>1. PickLast(pick, a \o (a \o b)) = IF PickLast(pick, a \o b) # None
             THEN PickLast(pick, a \o b) ELSE PickLast(pick, a)
      BY <1>1, PickLastConcat
    <3>2. PickLast(pick, a \o b) = IF PickLast(pick, b) # None
             THEN PickLast(pick, b) ELSE PickLast(pick, a)
      BY PickLastConcat
    <3>3. QED
      BY <3>1, <3>2
  <2>2. QED
    BY <2>1
<1>3. Union(PrivilegesOf, a \o (a \o b)) = Union(PrivilegesOf, a \o b)
  <2>1. \A c \in Seq(Entry) :
          Union(PrivilegesOf, a \o c) = Union(PrivilegesOf, a) \cup Union(PrivilegesOf, c)
    BY UnionConcat
  <2>2. Union(PrivilegesOf, a \o b) = Union(PrivilegesOf, a) \cup Union(PrivilegesOf, b)
    BY UnionConcat
  <2>3. QED
    BY <1>1, <2>1, <2>2
<1>4. QED
  BY <1>2, <1>3 DEF Settings

\* And so does merging what comes last twice.
LEMMA LastTwice ==
  ASSUME NEW a \in Seq(Entry), NEW b \in Seq(Entry)
  PROVE  Settings((a \o b) \o b) = Settings(a \o b)
<1>1. a \o b \in Seq(Entry)
  OBVIOUS
<1>2. \A pick : PickLast(pick, (a \o b) \o b) = PickLast(pick, a \o b)
  <2>1. ASSUME NEW pick PROVE PickLast(pick, (a \o b) \o b) = PickLast(pick, a \o b)
    <3>1. PickLast(pick, (a \o b) \o b) = IF PickLast(pick, b) # None
             THEN PickLast(pick, b) ELSE PickLast(pick, a \o b)
      BY <1>1, PickLastConcat
    <3>2. PickLast(pick, a \o b) = IF PickLast(pick, b) # None
             THEN PickLast(pick, b) ELSE PickLast(pick, a)
      BY PickLastConcat
    <3>3. QED
      BY <3>1, <3>2
  <2>2. QED
    BY <2>1
<1>3. Union(PrivilegesOf, (a \o b) \o b) = Union(PrivilegesOf, a \o b)
  <2>1. Union(PrivilegesOf, (a \o b) \o b) = Union(PrivilegesOf, a \o b) \cup Union(PrivilegesOf, b)
    BY <1>1, UnionConcat
  <2>2. Union(PrivilegesOf, a \o b) = Union(PrivilegesOf, a) \cup Union(PrivilegesOf, b)
    BY UnionConcat
  <2>3. QED
    BY <2>1, <2>2
<1>4. QED
  BY <1>2, <1>3 DEF Settings

\* The settings are settings.
LEMMA SettingsTyped ==
  ASSUME NEW entries \in Seq(Entry)
  PROVE  Settings(entries) \in SettingsOf
<1>1. Len(entries) \in Nat /\ DOMAIN entries = 1..Len(entries)
      /\ \A i \in DOMAIN entries : entries[i] \in Entry
  OBVIOUS
<1>2. ASSUME NEW V, NEW pick \in [Entry -> V \cup {None}]
      PROVE  PickLast(pick, entries) \in V \cup {None}
  <2> DEFINE says == {i \in DOMAIN entries : pick[entries[i]] # None}
  <2>1. says # {} => Max(says) \in says
    <3>1. says \subseteq 1..Len(entries)
      BY <1>1
    <3>2. QED
      BY <1>1, <3>1, LastExists
  <2>2. PickLast(pick, entries) = IF says = {} THEN None ELSE pick[entries[Max(says)]]
    BY DEF PickLast
  <2>3. says # {} => entries[Max(says)] \in Entry
    BY <1>1, <2>1
  <2> HIDE DEF says
  <2>4. QED
    BY <2>2, <2>3
<1>3. Union(PrivilegesOf, entries) \in SUBSET Privileges
  <2>1. \A i \in DOMAIN entries : PrivilegesOf[entries[i]] \subseteq Privileges
    BY <1>1, MetadataAssumption
  <2>2. QED
    BY <2>1 DEF Union
<1>4. PickLast(UserOf, entries) \in Users \cup {None}
  BY <1>2, MetadataAssumption
<1>5. PickLast(MountOf, entries) \in Mounts \cup {None}
  BY <1>2, MetadataAssumption
<1>6. QED
  BY <1>3, <1>4, <1>5 DEF Settings, SettingsOf

-----------------------------------------------------------------------------
(* Types. *)

\* What there is to merge is a list of entries.
LEMMA EntriesTyped ==
  /\ \A v : SourceMetadata(v) \in Seq(Entry)
  /\ \A f \in Features \cup {None} : FeaturesMetadata(f) \in Seq(Entry)
  /\ \A h \in Hooks \cup {None} : ConfigMetadata(h) \in Seq(Entry)
<1>1. ASSUME NEW v PROVE SourceMetadata(v) \in Seq(Entry)
  <2>1. v \in Labelled => <<"source", v>> \in Entry
    BY MetadataAssumption DEF Entry
  <2>2. QED
    BY <2>1 DEF SourceMetadata
<1>2. ASSUME NEW f \in Features \cup {None} PROVE FeaturesMetadata(f) \in Seq(Entry)
  <2>1. f # None => <<"feature", f>> \in Entry
    BY DEF Entry
  <2>2. QED
    BY <2>1 DEF FeaturesMetadata
<1>3. ASSUME NEW h \in Hooks \cup {None} PROVE ConfigMetadata(h) \in Seq(Entry)
  <2>1. h # None => <<"config", h>> \in Entry
    BY DEF Entry
  <2>2. QED
    BY <2>1 DEF ConfigMetadata
<1>4. QED
  BY <1>1, <1>2, <1>3

\* What the resolution leaves is a list of entries.
LEMMA ResolvedTyped ==
  ASSUME NEW c \in Config
  PROVE  ResolvedMetadata(c) \in Seq(Entry)
<1>1. c.features \in Features \cup {None} /\ c.hooks \in Hooks \cup {None}
  BY DEF Config
<1>2. FeaturesMetadata(c.features) \in Seq(Entry) /\ ConfigMetadata(c.hooks) \in Seq(Entry)
  BY <1>1, EntriesTyped
<1>3. QED
  BY <1>2 DEF ResolvedMetadata, MergeMetadata

\* A key is one.
LEMMA KeyTyped ==
  ASSUME NEW c \in Config, NEW disk \in Config
  PROVE  ManagedImageKey(c, disk) \in Key
BY DEF ManagedImageKey, Key, Config

\* What is pulled is an image.
LEMMA PulledTyped ==
  ASSUME NEW v \in Versions
  PROVE  Pulled(v) \in Image
BY EntriesTyped DEF Pulled, Image, Made

\* An image that exists is one.
LEMMA ImageTyped ==
  ASSUME TypeOK, NEW t \in Tags
  PROVE  /\ Exists(t) => /\ images[t] \in Image /\ images[t].label \in Seq(Entry)
                         /\ images[t].key \in Key \cup {None} /\ images[t].made \in Made
         /\ Label(t) \in Seq(Entry)
<1>1. images[t] \in Image \cup {None}
  BY DEF TypeOK
<1>2. Exists(t) => images[t] \in Image
  BY <1>1 DEF Exists
<1>3. \A i \in Image : i.label \in Seq(Entry) /\ i.key \in Key \cup {None} /\ i.made \in Made
  BY DEF Image
<1>4. QED
  BY <1>2, <1>3 DEF Label

\* So is what a Dockerfile starts from.
LEMMA ParentTyped ==
  ASSUME TypeOK
  PROVE  /\ Parent \in Image /\ Parent.label \in Seq(Entry) /\ Parent.made \in Made
<1>1. Parent \in Image
  <2>1. upstream \in Versions /\ "source" \in Tags
    BY DEF TypeOK, Tags
  <2>2. QED
    BY <2>1, ImageTyped, PulledTyped DEF Parent
<1>2. QED
  BY <1>1 DEF Image

\* What is merged is a list of entries.
LEMMA MergedTyped ==
  ASSUME TypeOK, NEW c \in Config, NEW t \in Tags \cup {None}
  PROVE  MergedConfig(c, t) \in Seq(Entry)
<1>1. c.features \in Features \cup {None} /\ c.hooks \in Hooks \cup {None}
  BY DEF Config
<1>2. FeaturesMetadata(c.features) \in Seq(Entry) /\ ConfigMetadata(c.hooks) \in Seq(Entry)
  BY <1>1, EntriesTyped
<1>3. Label("source") \in Seq(Entry)
  BY ImageTyped DEF Tags
<1>4. ASSUME t # None, Exists(t) PROVE WithSourceMetadata(c, t, images[t].label) \in Seq(Entry)
  <2>1. images[t].label \in Seq(Entry)
    BY <1>4, ImageTyped
  <2>2. QED
    BY <1>3, <2>1 DEF WithSourceMetadata
<1> DEFINE entries == IF t = None THEN FeaturesMetadata(c.features)
                      ELSE IF ~Exists(t) THEN FeaturesMetadata(c.features)
                      ELSE WithSourceMetadata(c, t, images[t].label)
<1>5. entries \in Seq(Entry)
  BY <1>2, <1>4
<1>6. MergedConfig(c, t) = IF Managed(t) THEN entries ELSE MergeMetadata(c.hooks, entries)
  BY DEF MergedConfig
<1> HIDE DEF entries
<1>7. MergeMetadata(c.hooks, entries) \in Seq(Entry)
  BY <1>2, <1>5 DEF MergeMetadata
<1>8. QED
  BY <1>5, <1>6, <1>7

\* At most three of the four numbers are taken.
LEMMA FreshTyped == FreshId \in Ids
<1> DEFINE S == {i \in Ids : /\ container # None => i # container.id
                             /\ i # state.id /\ i # run.tracker.id}
<1>1. S \subseteq Nat
  BY DEF Ids
<1>2. S # {}
  <2>1. {0, 1, 2, 3} \subseteq Ids
    BY DEF Ids
  <2>2. \A a, b, c : \E i \in {0, 1, 2, 3} : i # a /\ i # b /\ i # c
    OBVIOUS
  <2>3. PICK i \in {0, 1, 2, 3} : i # container.id /\ i # state.id /\ i # run.tracker.id
    BY <2>2
  <2>4. i \in S
    BY <2>1, <2>3
  <2>5. QED
    BY <2>4
<1>3. PICK x \in S : \A y \in S : x <= y
  BY <1>1, <1>2, LeastExists
<1>4. FreshId \in S
  BY <1>3 DEF FreshId, Min
<1>5. QED
  BY <1>4

\* The types, and a command has read a configuration.
Typed == TypeOK /\ (run.pc # "idle" => run.config \in Config)

\* The fields of the command are typed.
LEMMA RunTyped ==
  ASSUME TypeOK
  PROVE  /\ run.pc \in Pcs /\ run.cmd \in {"up", "build", "run"} /\ run.recreate \in BOOLEAN
         /\ run.config \in Config \cup {None} /\ run.trust \subseteq Ref
         /\ run.tracker \in State /\ run.key \in Key \cup {None}
         /\ run.merged \in Seq(Entry) /\ run.created \in BOOLEAN /\ run.loaded \subseteq Ref
         /\ run.touched \subseteq {"edit", "event"} /\ run.before \in Settled \cup {None}
         /\ run.ran \in BOOLEAN /\ run.made \in Made \cup {None}
         /\ run.source \in Versions \cup {None}
BY DEF TypeOK, Run

\* The images that a command uses.
LEMMA TargetTyped ==
  ASSUME NEW c
  PROVE  /\ TargetImage(c) \in {"source", "service", "target"}
         /\ PreparedImage(c) \in {"source", "target", None}
BY DEF TargetImage, PreparedImage

\* The policy trusts references only.
LEMMA ApplyTyped ==
  ASSUME NEW trust, trust \subseteq Ref, NEW ref, NEW needed, NEW verdict,
         verdict = "yes" => ref \in Ref
  PROVE  Apply(trust, ref, needed, verdict).trust \subseteq Ref
BY DEF Apply

\* The initial states are typed.
LEMMA InitTyped == Init => Typed
<1> SUFFICES ASSUME Init PROVE Typed
  OBVIOUS
<1>1. NoState \in State
  BY DEF NoState, State
<1>2. << >> \in Seq(Entry)
  OBVIOUS
<1>3. Nothing \in Run
  BY <1>1, <1>2 DEF Nothing, Run, Pcs, Idle
<1>4. images \in [Tags -> Image \cup {None}]
  BY PulledTyped DEF Init
<1>5. QED
  BY <1>1, <1>3, <1>4 DEF Init, Typed, TypeOK, Nothing

\* An approval is counted and remembered.
LEMMA ApproveTyped ==
  ASSUME NEW ref, NEW verdict, NEW what \in Nat, verdict = "yes" => ref \in Ref,
         approved \subseteq Ref, bounds \in [runs : Nat, changes : Nat],
         Approve(ref, verdict, what)
  PROVE  approved' \subseteq Ref /\ bounds' \in [runs : Nat, changes : Nat]
<1>1. PICK changes \in Nat :
        bounds' = [bounds EXCEPT !.runs = bounds.runs + what, !.changes = changes]
  <2>1. bounds.changes \in Nat /\ bounds.changes + 1 \in Nat
    OBVIOUS
  <2>2. CASE verdict = "yes"
    BY <2>1, <2>2 DEF Approve
  <2>3. CASE verdict # "yes"
    BY <2>1, <2>3 DEF Approve
  <2>4. QED
    BY <2>2, <2>3
<1>2. bounds' \in [runs : Nat, changes : Nat]
  <2>1. bounds.runs + what \in Nat
    OBVIOUS
  <2>2. QED
    BY <1>1, <2>1
<1>3. QED
  BY <1>2 DEF Approve

\* Every step keeps the types.
LEMMA TypedStep == Typed /\ [Next]_vars => Typed'
<1> SUFFICES ASSUME Typed, [Next]_vars PROVE Typed'
  OBVIOUS
<1>0. TypeOK /\ (run.pc # "idle" => run.config \in Config)
  BY DEF Typed
<1>a. /\ config \in Config /\ upstream \in Versions /\ run \in Run /\ state \in State
      /\ images \in [Tags -> Image \cup {None}] /\ container \in Container \cup {None}
      /\ bounds \in [runs : Nat, changes : Nat] /\ approved \subseteq Ref
      /\ origin \in [hooks : Hooks \cup {None}, edit : BOOLEAN, blind : BOOLEAN]
      /\ settled \in Settled \cup {None}
  BY <1>0 DEF TypeOK
<1>b. /\ run.config \in Config \cup {None} /\ run.trust \subseteq Ref /\ run.tracker \in State
      /\ run.key \in Key \cup {None} /\ run.merged \in Seq(Entry)
      /\ run.touched \subseteq {"edit", "event"}
      /\ run.made \in Made \cup {None} /\ run.source \in Versions \cup {None}
      /\ run.cmd \in {"up", "build", "run"} /\ run.trust \subseteq Ref
  BY <1>0, RunTyped
<1>c. NoState \in State /\ Nothing \in Run
  <2>1. NoState \in State
    BY DEF NoState, State
  <2>2. << >> \in Seq(Entry)
    OBVIOUS
  <2>3. QED
    BY <2>1, <2>2 DEF Nothing, Run, Pcs, Idle
<1>1. ASSUME NEW cmd \in {"up", "build", "run"}, Start(cmd) PROVE Typed'
  <2>1. PICK recreate \in BOOLEAN, verdict \in Verdict(state.trusted, config.features) :
          LET a == Apply(state.trusted, config.features, TRUE, verdict) IN
            /\ Approve(config.features, verdict, 1)
            /\ run' = [Nothing EXCEPT
                 !.pc = [up |-> "observe", build |-> "plan", run |-> "enrich"][cmd],
                 !.cmd = cmd, !.recreate = recreate, !.config = config,
                 !.trust = a.trust, !.loaded = state.trusted, !.before = settled]
    BY <1>1 DEF Start
  <2> DEFINE trust == Apply(state.trusted, config.features, TRUE, verdict).trust
             pc == [up |-> "observe", build |-> "plan", run |-> "enrich"][cmd]
  <2>2. state.trusted \subseteq Ref
    BY <1>a DEF State
  <2>3. verdict = "yes" => config.features \in Ref
    BY <1>a, <2>1 DEF Verdict, Config, Ref
  <2>4. trust \subseteq Ref
    BY <2>2, <2>3, ApplyTyped
  <2>5. pc \in {"observe", "plan", "enrich"}
    BY <1>1
  <2>6. run' = [Nothing EXCEPT !.pc = pc,
                 !.cmd = cmd, !.recreate = recreate, !.config = config,
                 !.trust = trust, !.loaded = state.trusted, !.before = settled]
    BY <2>1
  <2> HIDE DEF trust, pc
  <2>7. run' \in Run /\ run'.config = config
    <3>1. pc \in Pcs
      BY <2>5 DEF Pcs
    <3>2. run' = [pc |-> pc, cmd |-> cmd, recreate |-> recreate, config |-> config,
                  trust |-> trust, tracker |-> NoState, key |-> None, merged |-> << >>,
                  created |-> FALSE, loaded |-> state.trusted, touched |-> {},
                  before |-> settled, ran |-> FALSE, made |-> None, source |-> None]
      BY <2>6 DEF Nothing
    <3>3. << >> \in Seq(Entry)
      OBVIOUS
    <3>4. QED
      BY <1>1, <1>a, <1>c, <2>2, <2>4, <3>1, <3>2, <3>3 DEF Run
  <2>8. approved' \subseteq Ref /\ bounds' \in [runs : Nat, changes : Nat]
    <3>1. Approve(config.features, verdict, 1)
      BY <2>1
    <3>2. QED
      BY <1>a, <2>3, <3>1, ApproveTyped
  <2>9. settled' \in Settled \cup {None}
    BY <1>1, <1>a DEF Start
  <2>10. UNCHANGED <<config, upstream, images, container, state, origin>>
    BY <1>1 DEF Start
  <2>11. QED
    BY <1>a, <2>7, <2>8, <2>9, <2>10 DEF Typed, TypeOK
<1>2. CASE Observe
  <2> DEFINE s == IF container = None \/ (state.id # None /\ (container = None \/ container.id # state.id))
                  THEN NoState ELSE state
             tracker == IF container = None THEN s ELSE [s EXCEPT !.id = container.id]
             pc == IF run.cmd = "run" THEN "lifecycle" ELSE "plan"
  <2>1. s \in State
    BY <1>a, <1>c
  <2>2. container # None => container.id \in Ids
    BY <1>a DEF Container
  <2> HIDE DEF s
  <2>3. tracker \in State
    BY <2>1, <2>2 DEF State
  <2>4. run' = [run EXCEPT !.tracker = tracker, !.pc = pc]
    BY <1>2 DEF Observe, s
  <2>5. pc \in Pcs
    BY DEF Pcs
  <2> HIDE DEF tracker, pc
  <2>6. run' \in Run /\ run'.config = run.config
    BY <1>a, <2>3, <2>4, <2>5 DEF Run
  <2>7. run.pc = "observe"
    BY <1>2 DEF Observe
  <2>8. QED
    BY <1>2, <1>0, <2>6, <2>7 DEF Observe, Typed, TypeOK, history
<1>3. CASE Plan
  <2> DEFINE key == IF BuildMode(run.config) \in {"features", "build"}
                    THEN ManagedImageKey(run.config, config) ELSE None
             pc == IF Reusable(key) THEN "enrich" ELSE FirstStep(run.config)
  <2>1. run.pc = "plan" /\ run.config \in Config
    BY <1>0, <1>3 DEF Plan
  <2>2. key \in Key \cup {None}
    BY <1>a, <2>1, KeyTyped
  <2>3. pc \in Pcs
    <3>1. BuildMode(run.config) \in {"features", "none", "project", "build"}
      BY DEF BuildMode
    <3>2. FirstStep(run.config) \in {"source", "service", "target", "verify", "base"}
      BY <3>1 DEF FirstStep
    <3>3. QED
      BY <3>2 DEF Pcs
  <2>4. run' = [run EXCEPT !.key = key, !.pc = pc]
    BY <1>3 DEF Plan
  <2> HIDE DEF key, pc
  <2>5. run' \in Run /\ run'.config = run.config
    BY <1>a, <2>2, <2>3, <2>4 DEF Run
  <2>6. QED
    BY <1>3, <1>0, <2>1, <2>5 DEF Plan, Typed, TypeOK, history
<1>4. CASE PrepareSource
  <2>1. PICK verdict \in Verdict(run.trust, "source") :
          LET a == Apply(run.trust, "source", FALSE, verdict) IN
            /\ Approve("source", verdict, 0)
            /\ run' = [run EXCEPT !.trust = a.trust,
                 !.pc = IF BuildMode(run.config) = "none" THEN "enrich" ELSE "target"]
    BY <1>4 DEF PrepareSource
  <2> DEFINE trust == Apply(run.trust, "source", FALSE, verdict).trust
             pc == IF BuildMode(run.config) = "none" THEN "enrich" ELSE "target"
  <2>2. "source" \in Ref
    BY DEF Ref
  <2>3. trust \subseteq Ref /\ pc \in Pcs
    BY <1>b, <2>2, ApplyTyped DEF Pcs
  <2>4. run' = [run EXCEPT !.trust = trust, !.pc = pc]
    BY <2>1
  <2> HIDE DEF trust, pc
  <2>5. run' \in Run /\ run'.config = run.config
    BY <1>a, <2>3, <2>4 DEF Run
  <2>6. approved' \subseteq Ref /\ bounds' \in [runs : Nat, changes : Nat]
    <3>1. Approve("source", verdict, 0)
      BY <2>1
    <3>2. QED
      BY <1>a, <2>2, <3>1, ApproveTyped
  <2>7. images' \in [Tags -> Image \cup {None}]
    BY <1>4, <1>a, PulledTyped DEF PrepareSource
  <2>8. UNCHANGED <<config, upstream, container, state, origin, settled>> /\ run.config \in Config
    BY <1>0, <1>4 DEF PrepareSource
  <2>9. QED
    BY <1>a, <2>5, <2>6, <2>7, <2>8 DEF Typed, TypeOK
<1>5. CASE BuildBase
  <2> DEFINE label == IF run.pc = "base" THEN ResolvedMetadata(run.config) ELSE << >>
             written == IF label = << >> THEN Parent.label ELSE label
             made == [Parent.made EXCEPT !.files = config.files]
             pc == IF BuildMode(run.config) = "features" THEN "target" ELSE "enrich"
  <2>1. run.pc \in {"service", "base"} /\ run.config \in Config
    BY <1>0, <1>5 DEF BuildBase
  <2>2. label \in Seq(Entry)
    BY <2>1, ResolvedTyped
  <2> HIDE DEF label
  <2>3. written \in Seq(Entry)
    BY <1>0, <2>2, ParentTyped
  <2>4. made \in Made
    BY <1>0, <1>a, ParentTyped DEF Made, Config
  <2>5. images' = [images EXCEPT ![run.pc] = [label |-> written, key |-> None, made |-> made]]
    BY <1>5 DEF BuildBase, label
  <2>6. run' = [run EXCEPT !.pc = pc] /\ pc \in Pcs
    BY <1>5 DEF BuildBase, Pcs
  <2> HIDE DEF written, made, pc
  <2>7. [label |-> written, key |-> None, made |-> made] \in Image
    BY <2>3, <2>4 DEF Image
  <2>8. images' \in [Tags -> Image \cup {None}]
    BY <1>a, <2>5, <2>7
  <2>9. run' \in Run /\ run'.config = run.config
    BY <1>a, <2>6 DEF Run
  <2>10. QED
    BY <1>5, <1>a, <2>1, <2>8, <2>9 DEF BuildBase, Typed, TypeOK, history
<1>6. CASE BuildTarget
  <2> DEFINE c == run.config
             featured == c.features # None
             base == BaseImage(c)
             label == IF featured THEN FeaturesLabel(c) ELSE ResolvedMetadata(c)
             from == IF featured /\ base # "source" THEN images[base] ELSE Parent
             written == IF label = << >> THEN from.label ELSE label
             files == IF featured THEN from.made.files ELSE config.files
             made == [source |-> from.made.source, features |-> c.features, files |-> files]
  <2>1. run.pc = "target" /\ c \in Config
    BY <1>0, <1>6 DEF BuildTarget
  <2>2. base \in {"source", "service", "base"} /\ base \in Tags
    BY DEF BaseImage, Tags
  <2>3. ResolvedMetadata(c) \in Seq(Entry) /\ c.features \in Features \cup {None}
        /\ c.hooks \in Hooks \cup {None}
    BY <2>1, ResolvedTyped DEF Config
  <2>4. Exists(base) => images[base].label \in Seq(Entry) /\ images[base] \in Image
    BY <1>0, <2>2, ImageTyped
  <2>5. FeaturesLabel(c) \in Seq(Entry)
    BY <2>3, <2>4 DEF FeaturesLabel
  <2>6. from \in Image
    <3>1. featured /\ base # "source" => Exists(base)
      BY <1>6 DEF BuildTarget
    <3>2. QED
      BY <1>0, <2>4, <3>1, ParentTyped
  <2>7. images' = [images EXCEPT !["target"] = [label |-> written, key |-> run.key, made |-> made]]
    BY <1>6 DEF BuildTarget
  <2>8. origin' = [hooks |-> c.hooks, edit |-> "edit" \in run.touched,
                   blind |-> featured /\ ~Exists(base)]
    BY <1>6 DEF BuildTarget
  <2>9. label \in Seq(Entry)
    BY <2>3, <2>5
  <2> HIDE DEF label, from
  <2>10. written \in Seq(Entry) /\ from.made \in Made
    BY <2>6, <2>9 DEF Image
  <2>11. made \in Made
    BY <1>a, <2>3, <2>10 DEF Made, Config
  <2> HIDE DEF written, made
  <2>12. [label |-> written, key |-> run.key, made |-> made] \in Image
    BY <1>b, <2>10, <2>11 DEF Image
  <2>13. images' \in [Tags -> Image \cup {None}]
    BY <1>a, <2>7, <2>12
  <2>14. origin' \in [hooks : Hooks \cup {None}, edit : BOOLEAN, blind : BOOLEAN]
    BY <2>3, <2>8
  <2>15. run' \in Run /\ run'.config = run.config
    BY <1>6, <1>a DEF BuildTarget, Run, Pcs
  <2>16. UNCHANGED <<config, upstream, container, state, bounds, approved, settled>>
    BY <1>6 DEF BuildTarget
  <2>17. QED
    BY <1>a, <2>1, <2>13, <2>14, <2>15, <2>16 DEF Typed, TypeOK
<1>7. CASE Enrich
  <2> DEFINE c == run.config
             t == IF run.cmd = "run" THEN PreparedImage(c) ELSE TargetImage(c)
             merged == MergedConfig(c, t)
             made == IF t # None /\ Exists(t) THEN images[t].made ELSE None
             src == IF Exists("source") THEN images["source"].made.source ELSE None
             pc == [up |-> "container", build |-> "finish", run |-> "observe"][run.cmd]
  <2>1. run.pc = "enrich" /\ c \in Config
    BY <1>0, <1>7 DEF Enrich
  <2>2. t \in Tags \cup {None} /\ "source" \in Tags
    BY TargetTyped DEF Tags
  <2>3. run' = [run EXCEPT !.merged = merged, !.made = made, !.source = src, !.pc = pc]
    BY <1>7 DEF Enrich
  <2> HIDE DEF t
  <2>4. merged \in Seq(Entry)
    BY <1>0, <2>1, <2>2, MergedTyped
  <2>5. made \in Made \cup {None}
    BY <1>0, <2>2, ImageTyped
  <2>6. src \in Versions \cup {None}
    <3>1. Exists("source") => images["source"].made \in Made
      BY <1>0, <2>2, ImageTyped
    <3>2. QED
      BY <3>1 DEF Made
  <2>7. pc \in Pcs
    BY <1>b DEF Pcs
  <2> HIDE DEF merged, made, src, pc
  <2>8. run' \in Run /\ run'.config = c
    BY <1>a, <2>3, <2>4, <2>5, <2>6, <2>7 DEF Run
  <2>9. QED
    BY <1>7, <1>0, <2>1, <2>8 DEF Enrich, Typed, TypeOK, history
<1>8. CASE ReconcileContainer
  <2> DEFINE t == TargetImage(run.config)
             key == DesiredContainerKey
             seen == run.tracker.id
             kept == ~run.recreate /\ container # None /\ container.key = key
             from == IF t = "source" THEN Parent ELSE images[t]
             label == IF run.merged = << >> THEN from.label ELSE run.merged
             hooks == IF t = "target" THEN origin.hooks ELSE run.config.hooks
             touched == run.touched \cup {w \in {"edit", "blind"} : t = "target" /\ origin[w]}
             made == from.made
             created == ~kept
             tracker == ApplyContainer(run.tracker, IF kept THEN seen ELSE FreshId, key, ~kept)
  <2>1. run.pc = "container" /\ run.config \in Config
    BY <1>0, <1>8 DEF ReconcileContainer
  <2>2. t \in {"source", "service", "target"} /\ t \in Tags
    BY TargetTyped DEF Tags
  <2>3. key \in Identity
    <3>1. Settings(run.merged) \in SettingsOf
      BY <1>b, SettingsTyped
    <3>2. QED
      BY <1>b, <2>2, <3>1 DEF DesiredContainerKey, Identity, SettingsOf
  <2>4. ~kept => from \in Image
    <3>1. ~kept /\ t # "source" => Exists(t)
      BY <1>8 DEF ReconcileContainer
    <3>2. QED
      BY <1>0, <2>2, <3>1, ParentTyped, ImageTyped
  <2>5. ~kept => container' = [id |-> FreshId, key |-> key, made |-> made, label |-> label,
                               hooks |-> hooks, source |-> run.source, touched |-> touched]
    BY <1>8 DEF ReconcileContainer
  <2>6. kept => container' = container
    BY <1>8 DEF ReconcileContainer
  <2>7. /\ state' = tracker
        /\ run' = [run EXCEPT !.tracker = tracker, !.created = created, !.pc = "lifecycle"]
    BY <1>8 DEF ReconcileContainer
  <2>8. images' = IF ~kept /\ t = "source" THEN [images EXCEPT ![t] = from] ELSE images
    BY <1>8 DEF ReconcileContainer
  <2>9. ~kept => label \in Seq(Entry) /\ made \in Made
    BY <1>b, <2>4 DEF Image
  <2>10. hooks \in Hooks \cup {None}
    BY <1>a, <2>1 DEF Config
  <2>11. touched \in SUBSET {"edit", "event", "blind"}
    BY <1>b
  <2>12. tracker \in State
    <3>1. (IF kept THEN seen ELSE FreshId) \in Ids \cup {None}
      BY <1>b, FreshTyped DEF State
    <3>2. key \in Identity \cup {None}
      BY <2>3
    <3> HIDE DEF kept, seen, key
    <3>3. QED
      BY <1>b, <3>1, <3>2 DEF ApplyContainer, State
  <2>13. UNCHANGED <<config, upstream, bounds, approved, origin, settled>>
    BY <1>8 DEF ReconcileContainer, history
  <2>18. created \in BOOLEAN
    OBVIOUS
  <2> HIDE DEF kept, created, key, label, made, hooks, touched, tracker, from
  <2>14. container' \in Container \cup {None}
    BY <1>a, <1>b, <2>3, <2>5, <2>6, <2>9, <2>10, <2>11, FreshTyped DEF Container
  <2>15. images' \in [Tags -> Image \cup {None}]
    BY <1>a, <2>2, <2>4, <2>8
  <2>16. run' \in Run /\ run'.config = run.config
    BY <1>a, <2>7, <2>12, <2>18 DEF Run, Pcs
  <2>17. QED
    BY <1>a, <2>1, <2>7, <2>12, <2>13, <2>14, <2>15, <2>16 DEF Typed, TypeOK
<1>9. CASE Lifecycle
  <2> DEFINE s == [run.tracker EXCEPT !.lifecycle = DesiredLifecycleKey]
             ran == \/ run.cmd = "run" \/ run.created
                    \/ run.tracker.lifecycle # DesiredLifecycleKey
             pc == IF run.cmd = "run" THEN "done" ELSE "finish"
  <2>1. DesiredLifecycleKey \in LifecycleKey
    <3>1. run.tracker.key \in Identity \cup {None}
      BY <1>b DEF State
    <3>2. QED
      BY <1>b, <3>1 DEF DesiredLifecycleKey, LifecycleKey, Commands
  <2>2. s \in State
    BY <1>b, <2>1 DEF State
  <2>3. state' = s /\ run' = [run EXCEPT !.tracker = s, !.ran = ran, !.pc = pc]
    BY <1>9 DEF Lifecycle
  <2>4. ran \in BOOLEAN /\ pc \in Pcs
    BY <1>b, RunTyped, <1>0 DEF Pcs, Idle
  <2>5. UNCHANGED <<config, upstream, images, container, bounds, approved, origin, settled>>
        /\ run.config \in Config
    BY <1>0, <1>9 DEF Lifecycle, history
  <2> HIDE DEF s, ran, pc
  <2>6. run' \in Run /\ run'.config = run.config
    BY <1>a, <2>2, <2>3, <2>4 DEF Run
  <2>7. QED
    BY <1>a, <2>2, <2>3, <2>5, <2>6 DEF Typed, TypeOK
<1>10. CASE Finish
  <2>1. run' = [run EXCEPT !.pc = "done"] /\ run.config \in Config
        /\ UNCHANGED <<config, upstream, images, container, bounds, approved, origin>>
    BY <1>0, <1>10 DEF Finish
  <2>2. run' \in Run /\ run'.config = run.config
    BY <1>a, <2>1 DEF Run, Pcs, Idle
  <2>3. state' \in State
    <3>1. (IF run.cmd = "up" THEN run.tracker ELSE state) \in State
      BY <1>a, <1>b
    <3>2. QED
      BY <1>10, <1>b, <3>1 DEF Finish, Persisted, State
  <2>4. settled' \in Settled \cup {None}
    BY <1>10, <1>a, <1>b DEF Finish, Settled
  <2>5. QED
    BY <1>a, <2>1, <2>2, <2>3, <2>4 DEF Typed, TypeOK
<1>11. CASE Fail
  <2>1. Nothing.pc = "idle"
    BY DEF Nothing
  <2>2. QED
    BY <1>11, <1>a, <1>c, <2>1 DEF Fail, Typed, TypeOK
<1>12. ASSUME NEW what \in {"edit", "event"}, Touched(what)
       PROVE  /\ run' \in Run /\ bounds' \in [runs : Nat, changes : Nat]
              /\ settled' = None /\ UNCHANGED <<approved, origin>>
              /\ run'.pc # "idle" => run'.config \in Config
  <2>1. bounds' = [bounds EXCEPT !.changes = bounds.changes + 1] /\ settled' = None
        /\ UNCHANGED <<approved, origin>>
    BY <1>12 DEF Touched
  <2>2. CASE Busy
    <3>1. run' = [run EXCEPT !.touched = run.touched \cup {what}]
      BY <1>12, <2>2 DEF Touched
    <3>2. run' \in Run /\ run'.pc = run.pc /\ run'.config = run.config
      BY <1>a, <1>b, <3>1 DEF Run
    <3>3. QED
      BY <1>0, <1>a, <2>1, <3>2
  <2>3. CASE ~Busy
    <3>1. run' = run
      BY <1>12, <2>3 DEF Touched
    <3>2. QED
      BY <1>0, <1>a, <2>1, <3>1
  <2>4. QED
    BY <2>2, <2>3
<1>13. CASE Edit
  <2>1. config' \in Config
    BY <1>13, <1>a DEF Edit, Config
  <2>2. UNCHANGED <<upstream, images, container, state>> /\ Touched("edit")
    BY <1>13 DEF Edit
  <2>3. QED
    BY <1>a, <1>12, <2>1, <2>2 DEF Typed, TypeOK
<1>14. CASE Publish
  <2>1. upstream' \in Versions /\ images' \in [Tags -> Image \cup {None}]
    BY <1>14, <1>a, PulledTyped DEF Publish
  <2>2. UNCHANGED <<config, container, state>> /\ Touched("event")
    BY <1>14 DEF Publish
  <2>3. QED
    BY <1>a, <1>12, <2>1, <2>2 DEF Typed, TypeOK
<1>15. CASE RemoveImage
  <2>1. images' \in [Tags -> Image \cup {None}]
    BY <1>15, <1>a DEF RemoveImage
  <2>2. UNCHANGED <<config, upstream, container, state>> /\ Touched("event")
    BY <1>15 DEF RemoveImage
  <2>3. QED
    BY <1>a, <1>12, <2>1, <2>2 DEF Typed, TypeOK
<1>16. CASE ReplaceContainer
  <2> DEFINE t == IF config.kind = "composeBuild" THEN "service" ELSE "source"
  <2>1. t \in Tags
    BY DEF Tags
  <2>2. Exists(t) => images[t].label \in Seq(Entry) /\ images[t].made \in Made
    BY <1>0, <2>1, ImageTyped
  <2>3. \/ container' = None
        \/ /\ Exists(t)
           /\ container' = [id |-> FreshId, key |-> None,
                            label |-> images[t].label, made |-> images[t].made,
                            hooks |-> None, source |-> None, touched |-> {}]
    BY <1>16 DEF ReplaceContainer
  <2> HIDE DEF t
  <2>4. container' \in Container \cup {None}
    BY <2>2, <2>3, FreshTyped DEF Container
  <2>5. UNCHANGED <<config, upstream, images, state>> /\ Touched("event")
    BY <1>16 DEF ReplaceContainer
  <2>6. QED
    BY <1>a, <1>12, <2>4, <2>5 DEF Typed, TypeOK
<1>17. CASE UNCHANGED vars
  BY <1>17, <1>0 DEF vars, history, Typed, TypeOK
<1>18. QED
  BY <1>1, <1>2, <1>3, <1>4, <1>5, <1>6, <1>7, <1>8, <1>9, <1>10, <1>11, <1>13,
     <1>14, <1>15, <1>16, <1>17 DEF Next, CommandStep, WorldStep

\* It holds in every reachable state.
LEMMA TypedAlways == Spec => []Typed
BY InitTyped, TypedStep, PTL DEF Spec

\* Every variable keeps its type, and a container always finds an ID that
\* neither the engine nor the state file knows.
THEOREM TypeCorrect == Spec => []TypeOK
<1>1. Typed => TypeOK
  BY DEF Typed
<1>2. QED
  BY <1>1, TypedAlways, PTL

-----------------------------------------------------------------------------
(* Trust. *)

\* The records have the fields that trust is kept in.
Fields ==
  /\ {"trust", "tracker"} \subseteq DOMAIN run
  /\ "trusted" \in DOMAIN state /\ "trusted" \in DOMAIN run.tracker

\* Whatever is trusted has been approved.
Given ==
  /\ state.trusted \subseteq approved
  /\ run.trust \subseteq approved
  /\ run.tracker.trusted \subseteq approved

TrustInv == Fields /\ Given

\* It is so at first.
LEMMA InitTrust == Init => TrustInv
BY DEF Init, TrustInv, Fields, Given, Nothing, NoState

\* Every step keeps it.
LEMMA TrustStep == TrustInv /\ [Next]_vars => TrustInv'
<1> SUFFICES ASSUME TrustInv, [Next]_vars PROVE TrustInv'
  OBVIOUS
<1> USE DEF TrustInv, Fields, Given, history
<1>1. ASSUME NEW cmd \in {"up", "build", "run"}, Start(cmd) PROVE TrustInv'
  <2>1. PICK verdict \in Verdict(state.trusted, config.features), recreate \in BOOLEAN :
          LET a == Apply(state.trusted, config.features, TRUE, verdict) IN
            /\ Approve(config.features, verdict, 1)
            /\ run' = [Nothing EXCEPT
                 !.pc = [up |-> "observe", build |-> "plan", run |-> "enrich"][cmd],
                 !.cmd = cmd, !.recreate = recreate, !.config = config,
                 !.trust = a.trust, !.loaded = state.trusted, !.before = settled]
    BY <1>1 DEF Start
  <2> DEFINE t == Apply(state.trusted, config.features, TRUE, verdict).trust
  <2>0. t = IF verdict = "yes" THEN state.trusted \cup {config.features}
            ELSE state.trusted
    BY DEF Apply
  <2>1a. run' = [Nothing EXCEPT
           !.pc = [up |-> "observe", build |-> "plan", run |-> "enrich"][cmd],
           !.cmd = cmd, !.recreate = recreate, !.config = config,
           !.trust = t, !.loaded = state.trusted, !.before = settled]
    BY <2>1
  <2> HIDE DEF t
  <2>2. /\ run'.trust = t
        /\ run'.tracker = NoState /\ {"trust", "tracker"} \subseteq DOMAIN run'
    BY <2>1a, <1>1 DEF Nothing
  <2>3. approved' = IF verdict = "yes" THEN approved \cup {config.features} ELSE approved
    BY <2>1 DEF Approve
  <2>4. state' = state
    BY <1>1 DEF Start
  <2>5. QED
    BY <2>0, <2>2, <2>3, <2>4 DEF NoState
<1>2. CASE Observe
  BY <1>2 DEF Observe, NoState
<1>3. CASE Plan
  BY <1>3 DEF Plan
<1>4. CASE PrepareSource
  <2>1. PICK verdict \in Verdict(run.trust, "source") :
          LET a == Apply(run.trust, "source", FALSE, verdict) IN
            /\ Approve("source", verdict, 0)
            /\ run' = [run EXCEPT !.trust = a.trust,
                 !.pc = IF BuildMode(run.config) = "none" THEN "enrich" ELSE "target"]
    BY <1>4 DEF PrepareSource
  <2> DEFINE t == Apply(run.trust, "source", FALSE, verdict).trust
             next == IF BuildMode(run.config) = "none" THEN "enrich" ELSE "target"
  <2>0. t = IF verdict = "yes" THEN run.trust \cup {"source"} ELSE run.trust
    BY DEF Apply
  <2>1a. run' = [run EXCEPT !.trust = t, !.pc = next]
    BY <2>1
  <2> HIDE DEF t, next
  <2>2. /\ run'.trust = t
        /\ run'.tracker = run.tracker
        /\ DOMAIN run' = DOMAIN run
    BY <2>1a
  <2>3. approved' = IF verdict = "yes" THEN approved \cup {"source"} ELSE approved
    BY <2>1 DEF Approve
  <2>4. state' = state
    BY <1>4 DEF PrepareSource
  <2>5. QED
    BY <2>0, <2>2, <2>3, <2>4
<1>5. CASE BuildBase
  BY <1>5 DEF BuildBase
<1>6. CASE BuildTarget
  BY <1>6 DEF BuildTarget
<1>7. CASE Enrich
  BY <1>7 DEF Enrich
<1>8. CASE ReconcileContainer
  BY <1>8 DEF ReconcileContainer, ApplyContainer
<1>9. CASE Lifecycle
  BY <1>9 DEF Lifecycle
<1>10. CASE Finish
  BY <1>10 DEF Finish, Persisted
<1>11. CASE Fail
  BY <1>11 DEF Fail, Nothing, NoState
<1>12. CASE WorldStep
  <2>1. UNCHANGED <<state, approved>> /\ \E what \in {"edit", "event"} : Touched(what)
    BY <1>12 DEF WorldStep, Edit, Publish, RemoveImage, ReplaceContainer, Touched
  <2>2. QED
    BY <2>1 DEF Touched
<1>13. CASE UNCHANGED vars
  BY <1>13 DEF vars
<1>14. QED
  BY <1>1, <1>2, <1>3, <1>4, <1>5, <1>6, <1>7, <1>8, <1>9, <1>10, <1>11, <1>12,
     <1>13 DEF Next, CommandStep

\* It holds in every reachable state.
LEMMA Inductive == Spec => []TrustInv
BY InitTrust, TrustStep, PTL DEF Spec

\* Nothing is trusted that nobody has agreed to trust, however often commands
\* fail, drop the state of a lost container and load the state file again.
THEOREM TrustIsGiven == Spec => []TrustWasGiven
<1>1. TrustInv => TrustWasGiven
  BY DEF TrustInv, Given, TrustWasGiven
<1>2. QED
  BY <1>1, Inductive, PTL
=============================================================================
