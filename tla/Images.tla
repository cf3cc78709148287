------------------------------- MODULE Images -------------------------------
(***************************************************************************)
(* The image of a workspace: which one up and build use, when they build   *)
(* it, what its labels say, the configuration that is merged from these    *)
(* labels, the container that is created from it, and which unsigned       *)
(* images and features have been trusted.  One command at a time mutates   *)
(* the workspace (Coordination); people edit devcontainer.json and the     *)
(* files of the build, pull and remove images and replace the container at *)
(* any moment.                                                             *)
(*                                                                         *)
(* The engine keeps four images of interest: the one that the              *)
(* configuration, the compose file or the Dockerfile names ("source"), the *)
(* one built from the Dockerfile for the features to be put on ("base"),   *)
(* the one that compose builds ("service") and the one that hatchctl       *)
(* labels with a key ("target", resolved.ImageName).                       *)
(***************************************************************************)
EXTENDS Metadata

CONSTANTS
  Kinds,        \* the kinds of configuration in this instance
  Files,        \* what a build reads: the Dockerfile and its context
  MaxRuns,      \* bound: commands
  MaxChanges    \* bound: edits, approvals, and what happens to the images,
                \* the registry and the container

AllKinds == {"image", "dockerfile", "context", "composeImage", "composeBuild"}

ASSUME ImagesAssumption ==
  /\ Kinds \subseteq AllKinds
  /\ None \notin Files
  /\ Versions # {} /\ MaxRuns \in Nat /\ MaxChanges \in Nat

VARIABLES
  config,     \* the configuration and the files on disk
  upstream,   \* the version of the source image in its registry
  images,     \* the images of the engine
  container,  \* the container of the workspace
  state,      \* the state file, as far as it matters here
  run,        \* the command that holds the workspace lock
  bounds,     \* how often each bounded thing has happened
  \* history, read by no action:
  approved,   \* what somebody has agreed to trust
  origin,     \* how the target image was made
  settled     \* the last up that nothing has disturbed since

history == <<approved, origin, settled>>
vars == <<config, upstream, images, container, state, run, bounds, history>>

Tags == {"source", "base", "service", "target"}
Ids == 0 .. 3
Ref == {"source"} \cup Features

\* The kind never changes.  "context" has its build context elsewhere: it
\* does not contain devcontainer.json, as the default context does.
Config == [kind : Kinds, hooks : Hooks \cup {None},
           features : Features \cup {None}, files : Files]

Compose(c) == c.kind \in {"composeImage", "composeBuild"}

\* What ManagedImageKey hashes.
Key == [features : Features \cup {None}, files : Files \cup {None},
        hooks : Hooks \cup {None}]

\* What is in an image.
Made == [source : Versions, features : Features \cup {None},
         files : Files \cup {None}]

Image == [label : Seq(Entry), key : Key \cup {None}, made : Made]

\* What ContainerKey hashes: the key of the image, or else its name, and
\* what the container is created with, to which the remote user does not belong.
Identity == [tag : Tags, key : Key \cup {None}, mount : Mounts \cup {None},
             privileges : SUBSET Privileges]

LifecycleKey == [container : Identity \cup {None}, commands : Seq(Entry)]

\* hooks, source and touched are history.
Container == [id : Ids, key : Identity \cup {None}, label : Seq(Entry),
              made : Made, hooks : Hooks \cup {None},
              source : Versions \cup {None},
              touched : SUBSET {"edit", "event", "blind"}]

State == [id : Ids \cup {None}, key : Identity \cup {None},
          lifecycle : LifecycleKey \cup {None}, trusted : SUBSET Ref]

NoState == [id |-> None, key |-> None, lifecycle |-> None, trusted |-> {}]

\* What an up that ended well leaves behind (history).
Settled == [merged : Seq(Entry), made : Made \cup {None},
            source : Versions \cup {None}]

\* None stands for nothing: it is no image, container or configuration.
ASSUME NoneAssumption ==
  None \notin Tags \cup Key \cup Made \cup Image \cup Identity \cup Container \cup Config

Idle == {"idle", "done"}
Pcs == Idle \cup {"observe", "plan", "source", "verify", "service", "base",
                  "target", "enrich", "container", "lifecycle", "finish"}

Run == [pc : Pcs, cmd : {"up", "build", "run"},
        recreate : BOOLEAN, config : Config \cup {None},
        trust : SUBSET Ref, tracker : State, key : Key \cup {None},
        merged : Seq(Entry), created : BOOLEAN,
        \* history:
        loaded : SUBSET Ref, touched : SUBSET {"edit", "event"},
        before : Settled \cup {None}, ran : BOOLEAN,
        made : Made \cup {None}, source : Versions \cup {None}]

Nothing == [pc |-> "idle", cmd |-> "build", recreate |-> FALSE,
            config |-> None, trust |-> {}, tracker |-> NoState, key |-> None, merged |-> << >>,
            created |-> FALSE, loaded |-> {}, touched |-> {},
            before |-> None, ran |-> FALSE, made |-> None, source |-> None]

Pulled(v) ==
  [label |-> SourceMetadata(v), key |-> None,
   made |-> [source |-> v, features |-> None, files |-> None]]

Init ==
  /\ config \in Config
  /\ upstream \in Versions
  /\ \E local \in {None, Pulled(upstream)} :
       images = [t \in Tags |-> IF t = "source" THEN local ELSE None]
  /\ container = None
  /\ state = NoState
  /\ run = Nothing
  /\ bounds = [runs |-> 0, changes |-> 0]
  /\ approved = {}
  /\ origin = [hooks |-> None, edit |-> FALSE, blind |-> FALSE]
  /\ settled = None

Busy == run.pc \notin Idle
Exists(t) == images[t] # None
FreshId ==
  Min({i \in Ids : /\ container # None => i # container.id
                   /\ i # state.id /\ i # run.tracker.id})
MayChange == bounds.changes < MaxChanges

-----------------------------------------------------------------------------
(* Trust. *)

Verdicts == {"verified", "strict", "yes", "no"}

\* Mutant: whatever passes is remembered.
ApplyAll(trust, ref, needed, verdict) ==
  [go |-> verdict = "verified" \/ (verdict # "strict" /\ (ref \in trust \/ ~needed)),
   trust |-> trust \cup {ref}]

\* Mutant: what is declined is remembered as well.
ApplyForgiving(trust, ref, needed, verdict) ==
  CASE verdict = "verified" -> [go |-> TRUE, trust |-> trust]
    [] verdict = "strict" -> [go |-> FALSE, trust |-> trust]
    [] OTHER -> [go |-> ref \in trust \/ ~needed \/ verdict = "yes",
                 trust |-> trust \cup {ref}]

\* apply: what the policy makes of a signature that is verified, of one that
\* is not where the policy is strict, and of one that somebody accepts or that
\* nobody does.  An unsigned feature needs trust, an unsigned image only a
\* warning.
Apply(trust, ref, needed, verdict) ==
  CASE verdict = "verified" -> [go |-> TRUE, trust |-> trust]
    [] verdict = "strict" -> [go |-> FALSE, trust |-> trust]
    [] OTHER -> [go |-> ref \in trust \/ ~needed \/ verdict = "yes",
                 trust |-> IF verdict = "yes" THEN trust \cup {ref} ELSE trust]

\* Nobody is asked about what is trusted already.
Verdict(trust, ref) ==
  IF ref = None THEN {"verified"}
  ELSE IF ref \in trust \/ ~MayChange THEN Verdicts \ {"yes"} ELSE Verdicts

Approve(ref, verdict, what) ==
  /\ approved' = IF verdict = "yes" THEN approved \cup {ref} ELSE approved
  /\ bounds' = [bounds EXCEPT !.runs = @ + what,
                             !.changes = IF verdict = "yes" THEN @ + 1 ELSE @]

\* SetTrustedRefs: what Up and Build write back at their end.
Persisted(s, trust) == [s EXCEPT !.trusted = trust]

-----------------------------------------------------------------------------
(* The image of a configuration. *)

\* planDesiredImage.
BuildMode(c) ==
  CASE c.features # None -> "features"
    [] c.features = None /\ c.kind \in {"image", "composeImage"} -> "none"
    [] c.features = None /\ c.kind = "composeBuild" -> "project"
    [] OTHER -> "build"

TargetImage(c) ==
  CASE BuildMode(c) = "none" -> "source"
    [] BuildMode(c) = "project" -> "service"
    [] OTHER -> "target"

\* preparedImage: what run and config take for the image; none for compose.
PreparedImage(c) ==
  CASE c.kind = "image" -> "source"
    [] Compose(c) -> None
    [] OTHER -> "target"

\* Mutant: the context directory is not hashed.
KeyWithoutContext(c, disk) ==
  [features |-> c.features, files |-> None, hooks |-> None]

\* Mutant: the features are not hashed.
KeyWithoutFeatures(c, disk) ==
  [features |-> None,
   files |-> IF Compose(c) THEN None ELSE disk.files,
   hooks |-> IF c.kind \in {"image", "dockerfile"} THEN disk.hooks ELSE None]

\* ManagedImageKey, for the features that were resolved and what is on disk
\* now.  With compose only the compose files are hashed, and devcontainer.json
\* is hashed where the build context contains it.
ManagedImageKey(c, disk) ==
  [features |-> c.features,
   files |-> IF Compose(c) THEN None ELSE disk.files,
   hooks |-> IF c.kind \in {"image", "dockerfile"} THEN disk.hooks ELSE None]

\* Where the features go.
BaseImage(c) ==
  CASE c.kind \in {"image", "composeImage"} -> "source"
    [] c.kind = "composeBuild" -> "service"
    [] OTHER -> "base"

Managed(t) == t \in {"target", "base"}

\* The image that a Dockerfile starts from: docker takes the local one, or
\* the one of the registry.
Parent == IF Exists("source") THEN images["source"] ELSE Pulled(upstream)

Label(t) == IF Exists(t) THEN images[t].label ELSE << >>

\* mergeSourceImageMetadata.
WithSourceMetadata(c, t, entries) ==
  IF c.kind # "image" \/ t = "source" THEN entries
  ELSE Label("source") \o entries

\* Mutant: the configuration is replayed on managed images.
MergedReplayed(c, t) ==
  MergeMetadata(c.hooks,
                IF t = None THEN FeaturesMetadata(c.features)
                ELSE IF ~Exists(t) THEN FeaturesMetadata(c.features)
                ELSE WithSourceMetadata(c, t, images[t].label))

\* runtimeMetadataFromImage and mergedConfigWithRuntimeMetadata, which take
\* the entry of the configuration from the label of a managed image.
MergedConfig(c, t) ==
  LET entries == IF t = None THEN FeaturesMetadata(c.features)
                 ELSE IF ~Exists(t) THEN FeaturesMetadata(c.features)
                 ELSE WithSourceMetadata(c, t, images[t].label)
  IN  IF Managed(t) THEN entries ELSE MergeMetadata(c.hooks, entries)

\* What the resolution leaves in Merged.
ResolvedMetadata(c) == MergeMetadata(c.hooks, FeaturesMetadata(c.features))

-----------------------------------------------------------------------------
(* A command: up, build, or run with the phase all. *)

\* prepareVerificationPolicy, Materialize and VerifyResolvedFeatures: the
\* configuration is read, what the state file trusts is loaded, and the
\* feature has to be trusted.
Start(cmd) ==
  /\ ~Busy /\ bounds.runs < MaxRuns
  /\ \E recreate \in IF cmd = "up" THEN BOOLEAN ELSE {FALSE},
        verdict \in Verdict(state.trusted, config.features) :
       LET a == Apply(state.trusted, config.features, TRUE, verdict) IN
         /\ a.go
         /\ Approve(config.features, verdict, 1)
         /\ run' = [Nothing EXCEPT
              !.pc = [up |-> "observe", build |-> "plan", run |-> "enrich"][cmd],
              !.cmd = cmd, !.recreate = recreate, !.config = config,
              !.trust = a.trust, !.loaded = state.trusted, !.before = settled]
  /\ settled' = IF cmd = "build" THEN settled ELSE None
  /\ UNCHANGED <<config, upstream, images, container, state, origin>>

\* observedTargetState: what the state file says of another container is
\* forgotten.  run needs a container.
Observe ==
  /\ run.pc = "observe"
  /\ run.cmd = "run" => container # None
  /\ LET other == state.id # None /\ (container = None \/ container.id # state.id)
         s == IF container = None \/ other THEN NoState ELSE state
     IN  run' = [run EXCEPT
                   !.tracker = IF container = None THEN s
                               ELSE [s EXCEPT !.id = container.id],
                   !.pc = IF run.cmd = "run" THEN "lifecycle" ELSE "plan"]
  /\ UNCHANGED <<config, upstream, images, container, state, bounds, history>>

\* PlanImage: a target with the desired key is used as it is.
Reusable(key) ==
  key # None /\ Exists("target") /\ images["target"].key = key

\* What has to be done before the target is built, or instead.
FirstStep(c) ==
  CASE BuildMode(c) = "none" -> "source"
    [] BuildMode(c) = "project" -> "service"
    [] BuildMode(c) = "build" -> "target"
    [] BuildMode(c) = "features" ->
         CASE c.kind = "image" -> "source"
           [] c.kind = "composeImage" -> "verify"
           [] c.kind = "composeBuild" -> "service"
           [] OTHER -> "base"

Plan ==
  /\ run.pc = "plan"
  /\ LET key == IF BuildMode(run.config) \in {"features", "build"}
                THEN ManagedImageKey(run.config, config) ELSE None
     IN  run' = [run EXCEPT !.key = key,
                   !.pc = IF Reusable(key) THEN "enrich" ELSE FirstStep(run.config)]
  /\ UNCHANGED <<config, upstream, images, container, state, bounds, history>>

\* verifyImageReference and, but for the image of a compose service that gets
\* features, ensureLocalImage.
PrepareSource ==
  /\ run.pc \in {"source", "verify"}
  /\ \E verdict \in Verdict(run.trust, "source") :
       LET a == Apply(run.trust, "source", FALSE, verdict) IN
         /\ a.go
         /\ Approve("source", verdict, 0)
         /\ run' = [run EXCEPT !.trust = a.trust,
              !.pc = IF BuildMode(run.config) = "none" THEN "enrich" ELSE "target"]
  /\ images' = IF run.pc = "source" /\ ~Exists("source")
               THEN [images EXCEPT !["source"] = Pulled(upstream)] ELSE images
  /\ UNCHANGED <<config, upstream, container, state, origin, settled>>

\* BuildProject, and buildDockerfileImage for the base of the features.  An
\* empty label is not written, so that the one of the parent shows.
BuildBase ==
  /\ run.pc \in {"service", "base"}
  /\ LET label == IF run.pc = "base" THEN ResolvedMetadata(run.config) ELSE << >>
     IN  images' = [images EXCEPT ![run.pc] =
                      [label |-> IF label = << >> THEN Parent.label ELSE label,
                       key |-> None,
                       made |-> [Parent.made EXCEPT !.files = config.files]]]
  /\ run' = [run EXCEPT !.pc = IF BuildMode(run.config) = "features"
                               THEN "target" ELSE "enrich"]
  /\ UNCHANGED <<config, upstream, container, state, bounds, history>>

\* Mutant: the metadata of the base image is forgotten.
FeaturesLabelAlone(c) == ResolvedMetadata(c)

\* What ensureFeaturesImageFromBase writes to the label.
FeaturesLabel(c) ==
  LET base == BaseImage(c) IN
    IF ~Exists(base) THEN ResolvedMetadata(c)
    ELSE IF Managed(base) THEN images[base].label
    ELSE images[base].label \o ResolvedMetadata(c)

\* ensureFeaturesImageFromBase, or buildDockerfileImage: what is built is
\* what is on disk now.
BuildTarget ==
  /\ run.pc = "target"
  /\ LET c == run.config
         featured == c.features # None
         base == BaseImage(c)
         label == IF featured THEN FeaturesLabel(c) ELSE ResolvedMetadata(c)
         from == IF featured /\ base # "source" THEN images[base] ELSE Parent
     IN  /\ featured /\ base # "source" => Exists(base)
         /\ images' = [images EXCEPT !["target"] =
              [label |-> IF label = << >> THEN from.label ELSE label,
               key |-> run.key,
               made |-> [source |-> from.made.source, features |-> c.features,
                         files |-> IF featured THEN from.made.files
                                   ELSE config.files]]]
         /\ origin' = [hooks |-> c.hooks, edit |-> "edit" \in run.touched,
                       blind |-> featured /\ ~Exists(base)]
  /\ run' = [run EXCEPT !.pc = "enrich"]
  /\ UNCHANGED <<config, upstream, container, state, bounds, approved, settled>>

\* EnrichMergedConfig.
Enrich ==
  /\ run.pc = "enrich"
  /\ LET c == run.config
         t == IF run.cmd = "run" THEN PreparedImage(c) ELSE TargetImage(c)
     IN  /\ t = "source" /\ c.kind = "image" => Exists("source")
         /\ run' = [run EXCEPT
              !.merged = MergedConfig(c, t),
              !.made = IF t # None /\ Exists(t) THEN images[t].made ELSE None,
              !.source = IF Exists("source") THEN images["source"].made.source
                         ELSE None,
              !.pc = [up |-> "container", build |-> "finish",
                      run |-> "observe"][run.cmd]]
  /\ UNCHANGED <<config, upstream, images, container, state, bounds, history>>

\* desiredContainerKey.
DesiredContainerKey ==
  [tag |-> TargetImage(run.config), key |-> run.key,
   mount |-> Settings(run.merged).mount,
   privileges |-> Settings(run.merged).privileges]

\* Mutant: the container counts as a new one.
ApplyContainerAgain(s, id, key, created) ==
  [s EXCEPT !.id = id, !.key = key, !.lifecycle = None]

\* ApplyContainer: a container that was created has run no hook.
ApplyContainer(s, id, key, created) ==
  [s EXCEPT !.id = id, !.key = key,
            !.lifecycle = IF created THEN None ELSE s.lifecycle]

\* ReconcileContainer and the first record of it: a container with the
\* desired key is kept, any other replaced.  The engine pulls a source image
\* that is gone.  If the container is not the one that was observed, the
\* command fails.
ReconcileContainer ==
  /\ run.pc = "container"
  /\ LET key == DesiredContainerKey
         t == TargetImage(run.config)
         seen == run.tracker.id
         kept == ~run.recreate /\ container # None /\ container.key = key
         id == FreshId
         from == IF t = "source" THEN Parent ELSE images[t]
     IN  /\ (seen = None) = (container = None)
         /\ seen # None => container.id = seen
         /\ IF kept THEN UNCHANGED container
            ELSE /\ t # "source" => Exists(t)
                 /\ container' =
                      [id |-> id, key |-> key, made |-> from.made,
                       label |-> IF run.merged = << >> THEN from.label
                                 ELSE run.merged,
                       hooks |-> IF t = "target" THEN origin.hooks
                                 ELSE run.config.hooks,
                       source |-> run.source,
                       touched |-> run.touched \cup
                         {w \in {"edit", "blind"} : t = "target" /\ origin[w]}]
         /\ state' = ApplyContainer(run.tracker, IF kept THEN seen ELSE id, key, ~kept)
         /\ run' = [run EXCEPT !.tracker = state', !.created = ~kept,
                               !.pc = "lifecycle"]
         /\ images' = IF ~kept /\ t = "source"
                      THEN [images EXCEPT ![t] = from] ELSE images
  /\ UNCHANGED <<config, upstream, bounds, history>>

\* LifecycleKey: the container as it is recorded and the commands.
DesiredLifecycleKey == [container |-> run.tracker.key, commands |-> Commands(run.merged)]

\* runUpLifecycle and the same part of RunLifecycle: up runs the create hooks
\* unless they have been run with this key, run always runs them.
Lifecycle ==
  /\ run.pc = "lifecycle"
  /\ LET s == [run.tracker EXCEPT !.lifecycle = DesiredLifecycleKey] IN
       /\ state' = s
       /\ run' = [run EXCEPT !.tracker = s,
                    !.ran = \/ run.cmd = "run" \/ run.created
                            \/ run.tracker.lifecycle # DesiredLifecycleKey,
                    !.pc = IF run.cmd = "run" THEN "done" ELSE "finish"]
  /\ UNCHANGED <<config, upstream, images, container, bounds, history>>

\* The end of Up and Build.
Finish ==
  /\ run.pc = "finish"
  /\ state' = Persisted(IF run.cmd = "up" THEN run.tracker ELSE state, run.trust)
  /\ run' = [run EXCEPT !.pc = "done"]
  /\ settled' = IF run.cmd = "build" THEN settled
                ELSE IF run.touched # {} THEN None
                ELSE [merged |-> run.merged, made |-> run.made,
                      source |-> run.source]
  /\ UNCHANGED <<config, upstream, images, container, bounds, approved, origin>>

\* The command fails or is killed.
Fail ==
  /\ Busy
  /\ run' = Nothing
  /\ settled' = None
  /\ UNCHANGED <<config, upstream, images, container, state, bounds, approved,
                 origin>>

\* Mutant: the source image has the word after the label of the container.
ExecConfigReversed ==
  MergeMetadata(config.hooks,
    container.label \o (IF config.kind = "image" THEN Label("source") ELSE << >>))

\* enrichExecResolvedConfig: exec merges the label of the container, the
\* metadata of the source image and the configuration.
ExecConfig ==
  MergeMetadata(config.hooks,
    (IF config.kind = "image" THEN Label("source") ELSE << >>) \o container.label)

-----------------------------------------------------------------------------
(* The world around the commands. *)

Touched(what) ==
  /\ MayChange /\ bounds' = [bounds EXCEPT !.changes = @ + 1]
  /\ run' = IF Busy THEN [run EXCEPT !.touched = @ \cup {what}] ELSE run
  /\ settled' = None
  /\ UNCHANGED <<approved, origin>>

\* Somebody edits devcontainer.json, or what the build reads.
Edit ==
  /\ \/ \E h \in Hooks \cup {None} : config' = [config EXCEPT !.hooks = h]
     \/ \E f \in Features \cup {None} : config' = [config EXCEPT !.features = f]
     \/ \E d \in Files : config' = [config EXCEPT !.files = d]
  /\ config' # config
  /\ Touched("edit")
  /\ UNCHANGED <<upstream, images, container, state>>

\* Another version of the source image appears in the registry, or is pulled.
Publish ==
  /\ \/ /\ upstream' \in Versions \ {upstream}
        /\ UNCHANGED images
     \/ /\ images' = [images EXCEPT !["source"] = Pulled(upstream)]
        /\ images' # images
        /\ UNCHANGED upstream
  /\ Touched("event")
  /\ UNCHANGED <<config, container, state>>

\* Somebody removes an image.
RemoveImage ==
  /\ \E t \in Tags : Exists(t) /\ images' = [images EXCEPT ![t] = None]
  /\ Touched("event")
  /\ UNCHANGED <<config, upstream, container, state>>

\* Somebody removes the container, or lets compose make another one.
ReplaceContainer ==
  /\ container # None
  /\ LET t == IF config.kind = "composeBuild" THEN "service" ELSE "source" IN
       \/ container' = None
       \/ /\ Compose(config) /\ Exists(t)
          /\ container' = [id |-> FreshId, key |-> None,
                           label |-> images[t].label, made |-> images[t].made,
                           hooks |-> None, source |-> None, touched |-> {}]
  /\ Touched("event")
  /\ UNCHANGED <<config, upstream, images, state>>

CommandStep ==
  \/ \E cmd \in {"up", "build", "run"} : Start(cmd)
  \/ Observe \/ Plan \/ PrepareSource \/ BuildBase \/ BuildTarget
  \/ Enrich \/ ReconcileContainer \/ Lifecycle \/ Finish \/ Fail

WorldStep == Edit \/ Publish \/ RemoveImage \/ ReplaceContainer

Next == CommandStep \/ WorldStep

Spec == Init /\ [][Next]_vars

-----------------------------------------------------------------------------
(* Properties. *)

\* Every variable holds a value of its kind.
TypeOK ==
  /\ config \in Config /\ upstream \in Versions
  /\ images \in [Tags -> Image \cup {None}]
  /\ container \in Container \cup {None}
  /\ state \in State /\ run \in Run
  /\ bounds \in [runs : Nat, changes : Nat]
  /\ approved \subseteq Ref
  /\ origin \in [hooks : Hooks \cup {None}, edit : BOOLEAN, blind : BOOLEAN]
  /\ settled \in Settled \cup {None}

\* Nothing is trusted, by a command or by the state file, that nobody has ever
\* agreed to at a prompt (policy/verification.go).
TrustWasGiven == state.trusted \cup run.trust \subseteq approved

\* policy/verification.go asks whether to trust an unsigned feature "for this
\* run only": no command begins with an approval given to an earlier one.
ForThisRunOnly == Busy => run.loaded \cap approved \cap Features = {}

\* The image of this up or build has been chosen and its labels been read.
Merged ==
  /\ run.cmd # "run"
  /\ run.pc \in {"container", "lifecycle", "finish", "done"}
  /\ run.made # None

UsesTarget == TargetImage(run.config) = "target"

\* The label of the target was written for another devcontainer.json.
Outdated == UsesTarget /\ origin.hooks # run.config.hooks

\* The image that was built on was not there when the label was written.
Blind == UsesTarget /\ origin.blind

\* The source image has been replaced since the target was built on it.
Moved == run.config.kind = "image" /\ run.source # run.made.source

\* Whether the metadata of the source image belongs to the configuration: a
\* label that hatchctl writes on what a Dockerfile builds hides it.
Inherits(c) ==
  \/ c.kind \in {"image", "composeImage", "composeBuild"}
  \/ ResolvedMetadata(c) = << >>

\* What a devcontainer is made from, in the order of importance.
Reference(c, made) ==
  (IF Inherits(c) THEN SourceMetadata(made.source) ELSE << >>)
    \o FeaturesMetadata(c.features) \o ConfigMetadata(c.hooks)

\* However it got there, by a build or by reuse of labels, the merged
\* configuration of up and build holds the settings of the source image, of
\* the features and of devcontainer.json, each overriding the one before,
\* although entries may have been merged twice.
SettingsFollow ==
  Merged => \/ Outdated \/ Blind \/ Moved
            \/ Settings(run.merged) = Settings(Reference(run.config, run.made))

\* An edit of devcontainer.json reaches the label of the target image, unless
\* it is no part of the key, or was made while a command was running.
EditsReachTheImage ==
  Merged /\ Outdated =>
    \/ run.config.kind \in {"context", "composeImage", "composeBuild"}
    \/ origin.edit \/ "edit" \in run.touched

\* The hooks of a feature and of devcontainer.json are merged once, although
\* up meets them on labels as well as in the configuration.
HooksOnce ==
  Merged => \A i, j \in DOMAIN run.merged :
              run.merged[i] = run.merged[j] /\ run.merged[i][1] # "source" => i = j

\* An up that follows an up, with nothing but builds in between, leaves the
\* container alone and runs no create hook again.
SecondUpQuiet ==
  run.pc = "done" /\ run.cmd = "up" /\ run.before # None /\ run.touched = {}
    => run.recreate \/ (~run.created /\ ~run.ran)

\* When an up has ended and nobody has touched a file since, the container it
\* leaves has the features of the configuration and, but for compose, was
\* built from the files on disk.
ContainerHasContent ==
  run.pc = "done" /\ run.cmd = "up" /\ run.touched = {} /\ settled # None =>
    \/ "edit" \in container.touched
    \/ /\ container.made.features = run.config.features
       /\ run.config.kind \in {"dockerfile", "context"}
            => container.made.files = run.config.files

\* The container has been made for another devcontainer.json, from another
\* image or source image, or while images were coming and going.
ContainerOutdated ==
  \/ container.hooks # config.hooks
  \/ container.made # settled.made
  \/ container.source # settled.source
  \/ container.touched \cap {"event", "blind"} # {}

TargetOutdated ==
  TargetImage(config) = "target" /\ (origin.hooks # config.hooks \/ origin.blind)

\* exec sees the settings of the up before it, although it merges them from
\* another label: unless the container or its image is outdated.
ExecSeesUp ==
  ~Busy /\ settled # None =>
    \/ ContainerOutdated \/ TargetOutdated
    \/ Settings(ExecConfig) = Settings(settled.merged)

\* README: run runs the lifecycle phases "again".  After an up that nothing has
\* disturbed, it runs the hooks that the up ran.
RunRepeatsUp ==
  run.pc = "done" /\ run.cmd = "run" /\ run.before # None /\ run.touched = {} =>
    LET again == Commands(run.merged)
        first == Commands(run.before.merged)
    IN  {again[i] : i \in DOMAIN again} = {first[i] : i \in DOMAIN first}
=============================================================================
