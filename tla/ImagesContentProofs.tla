------------------------- MODULE ImagesContentProofs -------------------------
(***************************************************************************)
(* Theorems of module Images about content: what is in the labels of the   *)
(* images and of the container, the configuration that is merged from      *)
(* them, and what a second up and exec make of it, for any images,         *)
(* features, files and settings and any number of commands and changes.    *)
(***************************************************************************)
EXTENDS ImagesProofs, SequenceTheorems

-----------------------------------------------------------------------------
(* Labels and merged configurations, by what they are made from. *)

\* The label of the image that hatchctl builds with the features f for a
\* devcontainer.json that says h, on a source image of version v.
WrittenLabel(kind, f, h, blind, v) ==
  LET said == FeaturesMetadata(f) \o ConfigMetadata(h) IN
    IF kind \in {"image", "composeImage", "composeBuild"}
    THEN (IF blind THEN << >> ELSE SourceMetadata(v)) \o said
    ELSE IF said = << >> THEN SourceMetadata(v) ELSE said

\* What is merged from it, when the source image of the moment has version s.
MergedForm(kind, tag, f, h, blind, s, v) ==
  IF tag # "target" THEN SourceMetadata(v) \o ConfigMetadata(h)
  ELSE (IF kind = "image" THEN SourceMetadata(s) ELSE << >>)
         \o WrittenLabel(kind, f, h, blind, v)

-----------------------------------------------------------------------------
(* The inductive invariant: what is in the images. *)

\* What a Dockerfile or a compose file without features would build now.
ServiceNow ==
  [label |-> Parent.label, key |-> None, made |-> [Parent.made EXCEPT !.files = config.files]]

PlainImages ==
  /\ Exists("source") => images["source"] = Pulled(images["source"].made.source)
  /\ Exists("service") => images["service"].label = SourceMetadata(images["service"].made.source)
  /\ \A t \in {"service", "base"} : Exists(t) => images[t].made.features = None

\* The label, the key and the content of the target image agree.
TargetIs(i) ==
  /\ i.key # None
  /\ i.label = WrittenLabel(config.kind, i.made.features, origin.hooks, origin.blind,
                            i.made.source)
  /\ i.key.features = i.made.features
  /\ config.kind \in {"image", "dockerfile"} => i.key.hooks = origin.hooks \/ origin.edit
  /\ config.kind \in {"dockerfile", "context"} =>
       ~origin.blind /\ (i.key.files = i.made.files \/ origin.edit)

TargetImageIs == Exists("target") => TargetIs(images["target"])

\* The base on which the running command is about to put the features.
BaseIs ==
  /\ run.pc = "target" /\ run.config.features # None /\ BaseImage(run.config) = "base"
  /\ Exists("base")
  => /\ images["base"].label = ResolvedMetadata(run.config)
     /\ images["base"].made.files = run.key.files \/ "edit" \in run.touched

-----------------------------------------------------------------------------
(* The inductive invariant: what the running command knows. *)

\* The configuration that it has read, and the way to its image.
Reads ==
  /\ run.pc # "idle" => run.config # None /\ run.config.kind = config.kind
  /\ run.pc # "idle" /\ (Busy \/ settled # None) /\ "edit" \notin run.touched
       => run.config = config

Paths ==
  /\ run.pc \in {"source", "verify"} => run.config.kind \in {"image", "composeImage"}
  /\ run.pc = "source" => BuildMode(run.config) = "none" \/ run.config.kind = "image"
  /\ run.pc = "verify" => BuildMode(run.config) = "features"
  /\ run.pc = "service" => run.config.kind = "composeBuild"
  /\ run.pc = "base" => /\ BuildMode(run.config) = "features"
                        /\ run.config.kind \in {"dockerfile", "context"}
  /\ run.pc = "target" => BuildMode(run.config) \in {"features", "build"}
  /\ run.cmd = "run" => run.pc \in {"enrich", "observe", "lifecycle"} \cup Idle
  /\ run.cmd = "build" => run.pc \notin {"observe", "container", "lifecycle"}

Planned ==
  /\ run.cmd # "run"
  /\ run.pc \in {"source", "verify", "service", "base", "target", "enrich", "container",
                 "lifecycle", "finish", "done"}

\* The key of its image.
KeyIs ==
  Planned =>
    IF UsesTarget
    THEN /\ run.key # None /\ run.key.features = run.config.features
         /\ "edit" \notin run.touched => run.key = ManagedImageKey(run.config, run.config)
    ELSE run.key = None

\* The image that it has found or built, until there is a container.
TargetKept ==
  run.cmd # "run" /\ run.pc \in {"enrich", "container"} /\ UsesTarget /\ Exists("target")
    => images["target"].key = run.key

\* What is merged from this image, and that no edit is missing in it.
MergedIs ==
  Merged =>
    /\ run.made.features = run.config.features
    /\ run.merged = MergedForm(run.config.kind, TargetImage(run.config), run.config.features,
                      IF UsesTarget THEN origin.hooks ELSE run.config.hooks,
                      origin.blind, run.source, run.made.source)
    /\ EditsReachTheImage

PresentSource == IF Exists("source") THEN images["source"].made.source ELSE None

\* Without an event, what it has merged from is there.
StillThere ==
  run.cmd # "run" /\ "event" \notin run.touched =>
    /\ run.pc \in {"enrich", "container"} => Exists(TargetImage(run.config))
    /\ run.pc = "container" => /\ run.made = images[TargetImage(run.config)].made
                               /\ run.source = PresentSource

-----------------------------------------------------------------------------
(* The inductive invariant: what is in the container. *)

ContainerIs ==
  container # None /\ container.key # None =>
    /\ container.made.features =
         IF container.key.tag = "target" THEN container.key.key.features ELSE None
    /\ container.key.tag = "target" /\ config.kind \in {"dockerfile", "context"} =>
         container.made.files = container.key.key.files \/ "edit" \in container.touched
    /\ container.touched \cap {"event", "blind"} = {} =>
         container.label = MergedForm(config.kind, container.key.tag, container.made.features,
                             container.hooks, FALSE, container.source, container.made.source)

-----------------------------------------------------------------------------
(* The inductive invariant: the world as an up leaves it. *)

KeyNow == IF TargetImage(config) = "target" THEN ManagedImageKey(config, config) ELSE None

\* Nothing has to be built.
CalmImages ==
  LET t == TargetImage(config) IN
    /\ Exists(t)
    /\ t = "target" => images[t].key = KeyNow
    /\ t = "service" => images[t] = ServiceNow

\* The configuration would be merged as it has been.
CalmMerged(m, made, s) ==
  /\ m = MergedConfig(config, TargetImage(config))
  /\ made = images[TargetImage(config)].made
  /\ s = PresentSource

\* The container would not be replaced.
CalmContainer(m) ==
  /\ container # None
  /\ container.key = [tag |-> TargetImage(config), key |-> KeyNow,
                      mount |-> Settings(m).mount, privileges |-> Settings(m).privileges]

\* The state file knows it and its hooks.
CalmState(s, m) ==
  /\ s.id = container.id /\ s.key = container.key
  /\ s.lifecycle = [container |-> container.key, commands |-> Commands(m)]

Calm(s) ==
  /\ CalmImages /\ CalmMerged(s.merged, s.made, s.source)
  /\ CalmContainer(s.merged) /\ CalmState(state, s.merged)

\* Where images are pulled and built.
Ways == {"source", "verify", "service", "base", "target"}

\* Nothing but a build runs, and it finds everything there, as long as the
\* world is as an up has left it.
Standing ==
  settled # None =>
    /\ Calm(settled)
    /\ Busy => /\ run.cmd = "build" /\ run.touched = {}
               /\ run.pc \in Ways => ~UsesTarget

\* And so does an up that nothing disturbs.
Returning ==
  run.cmd = "up" /\ run.before # None /\ run.touched = {} =>
    /\ run.pc \in Ways => ~UsesTarget
    /\ run.pc \in {"observe", "plan", "source", "service", "enrich", "container"}
         => Calm(run.before)
    /\ run.pc \in {"plan", "source", "service", "enrich", "container"} => run.tracker = state
    /\ run.pc = "lifecycle" => \/ run.recreate
                               \/ ~run.created /\ run.tracker.lifecycle = DesiredLifecycleKey
    /\ run.pc \in {"finish", "done"} => run.recreate \/ (~run.created /\ ~run.ran)

\* How an undisturbed up leaves the world as it is.
Leaving ==
  run.cmd # "run" /\ run.touched = {} =>
    /\ run.pc \in {"enrich", "container", "lifecycle"} => CalmImages
    /\ run.cmd = "up" /\ run.pc = "finish" => CalmImages
    /\ run.cmd = "up" =>
         /\ run.pc \in {"container", "lifecycle", "finish"}
              => CalmMerged(run.merged, run.made, run.source)
         /\ run.pc \in {"lifecycle", "finish"} =>
              /\ CalmContainer(run.merged)
              /\ run.tracker.id = container.id /\ run.tracker.key = container.key
         /\ run.pc = "finish" => CalmState(run.tracker, run.merged)

-----------------------------------------------------------------------------
(* What the steps of the world leave alone. *)

\* A touch leaves a running command everything but what it knows of touches.
LEMMA TouchedRun ==
  ASSUME TypeOK, NEW what \in {"edit", "event"}, Touched(what)
  PROVE  /\ settled' = None /\ origin' = origin
         /\ run'.pc = run.pc /\ run'.cmd = run.cmd /\ run'.recreate = run.recreate
         /\ run'.config = run.config /\ run'.tracker = run.tracker /\ run'.key = run.key
         /\ run'.merged = run.merged /\ run'.created = run.created
         /\ run'.before = run.before /\ run'.ran = run.ran /\ run'.made = run.made
         /\ run'.source = run.source
         /\ run'.touched = IF Busy THEN run.touched \cup {what} ELSE run.touched
<1>1. run \in Run /\ settled' = None /\ origin' = origin
  BY DEF TypeOK, Touched
<1>2. CASE Busy
  <2>1. run' = [run EXCEPT !.touched = run.touched \cup {what}]
    BY <1>2 DEF Touched
  <2>2. QED
    BY <1>1, <1>2, <2>1 DEF Run
<1>3. CASE ~Busy
  BY <1>1, <1>3 DEF Touched
<1>4. QED
  BY <1>2, <1>3

\* A step of the world touches something; only an edit changes the
\* configuration, and never its kind.
LEMMA WorldTouches ==
  ASSUME TypeOK, WorldStep
  PROVE  /\ \E what \in {"edit", "event"} :
              /\ Touched(what)
              /\ what = "event" => config' = config
              /\ what = "edit" => UNCHANGED <<upstream, images, container>>
         /\ config'.kind = config.kind /\ state' = state
<1>1. config \in Config
  BY DEF TypeOK
<1>2. CASE Edit
  BY <1>1, <1>2 DEF Edit, Config
<1>3. CASE Publish
  BY <1>3 DEF Publish
<1>4. CASE RemoveImage
  BY <1>4 DEF RemoveImage
<1>5. CASE ReplaceContainer
  BY <1>5 DEF ReplaceContainer
<1>6. QED
  BY <1>2, <1>3, <1>4, <1>5 DEF WorldStep

\* What a command reads when it starts.
LEMMA Started ==
  ASSUME TypeOK, NEW cmd \in {"up", "build", "run"}, Start(cmd)
  PROVE  /\ run'.pc = [up |-> "observe", build |-> "plan", run |-> "enrich"][cmd]
         /\ run'.cmd = cmd /\ run'.config = config /\ run'.key = None
         /\ run'.touched = {} /\ run'.before = settled /\ run'.made = None
         /\ run'.created = FALSE /\ run'.ran = FALSE
         /\ settled' = IF cmd = "build" THEN settled ELSE None
         /\ run.pc \in Idle
         /\ UNCHANGED <<config, upstream, images, container, state, origin>>
<1>1. PICK recreate, trust :
        run' = [Nothing EXCEPT
                 !.pc = [up |-> "observe", build |-> "plan", run |-> "enrich"][cmd],
                 !.cmd = cmd, !.recreate = recreate, !.config = config,
                 !.trust = trust, !.loaded = state.trusted, !.before = settled]
  BY Zenon DEF Start
<1>2. QED
  BY <1>1 DEF Start, Nothing, Busy

\* A command goes on.
Proceed ==
  \/ Observe \/ Plan \/ PrepareSource \/ BuildBase \/ BuildTarget
  \/ Enrich \/ ReconcileContainer \/ Lifecycle \/ Finish

\* It keeps what it was asked for and what it has read.
LEMMA Proceeds ==
  ASSUME TypeOK, Proceed
  PROVE  /\ Busy /\ config' = config /\ upstream' = upstream
         /\ run'.cmd = run.cmd /\ run'.recreate = run.recreate /\ run'.config = run.config
         /\ run'.before = run.before /\ run'.touched = run.touched
         /\ ~Plan => run'.key = run.key
         /\ ~Enrich => UNCHANGED <<run.merged, run.made, run.source>>
         /\ ~BuildTarget => origin' = origin
         /\ ~Finish => settled' = settled
         /\ PrepareSource \/ BuildBase \/ BuildTarget \/ ReconcileContainer \/ images' = images
         /\ ReconcileContainer \/ container' = container
         /\ ReconcileContainer \/ Lifecycle \/ Finish \/ state' = state
         /\ Observe \/ ReconcileContainer \/ Lifecycle \/ run'.tracker = run.tracker
<1>0. run \in Run
  BY DEF TypeOK
<1> USE DEF Busy, Idle, history
<1>1. CASE Observe
  BY <1>0, <1>1 DEF Observe, Run
<1>2. CASE Plan
  BY <1>0, <1>2 DEF Plan, Run
<1>3. CASE PrepareSource
  <2>1. PICK trust, pc : run' = [run EXCEPT !.trust = trust, !.pc = pc]
    BY <1>3, Zenon DEF PrepareSource
  <2>2. /\ run.pc \in {"source", "verify"}
        /\ UNCHANGED <<config, upstream, container, state, origin, settled>>
    BY <1>3 DEF PrepareSource
  <2>3. QED
    BY <1>0, <1>3, <2>1, <2>2 DEF Run
<1>4. CASE BuildBase
  BY <1>0, <1>4 DEF BuildBase, Run
<1>5. CASE BuildTarget
  BY <1>0, <1>5 DEF BuildTarget, Run
<1>6. CASE Enrich
  BY <1>0, <1>6 DEF Enrich, Run
<1>7. CASE ReconcileContainer
  BY <1>0, <1>7 DEF ReconcileContainer, Run
<1>8. CASE Lifecycle
  BY <1>0, <1>8 DEF Lifecycle, Run
<1>9. CASE Finish
  BY <1>0, <1>9 DEF Finish, Run
<1>10. QED
  BY <1>1, <1>2, <1>3, <1>4, <1>5, <1>6, <1>7, <1>8, <1>9 DEF Proceed

\* The ways to the image of a configuration.
LEMMA ModesAre ==
  ASSUME NEW c \in Config
  PROVE  /\ BuildMode(c) \in {"features", "none", "project", "build"}
         /\ BuildMode(c) = "features" <=> c.features # None
         /\ BuildMode(c) = "none" <=> c.features = None /\ c.kind \in {"image", "composeImage"}
         /\ BuildMode(c) = "project" <=> c.features = None /\ c.kind = "composeBuild"
         /\ BuildMode(c) = "build" <=> c.features = None /\ c.kind \in {"dockerfile", "context"}
         /\ TargetImage(c) = "source" <=> BuildMode(c) = "none"
         /\ TargetImage(c) = "service" <=> BuildMode(c) = "project"
         /\ TargetImage(c) = "target" <=> BuildMode(c) \in {"features", "build"}
         /\ c.kind \in AllKinds
<1>1. c.kind \in AllKinds
  BY ImagesAssumption DEF Config
<1>2. QED
  BY <1>1 DEF BuildMode, TargetImage, AllKinds

-----------------------------------------------------------------------------
(* What a command has read, and the key of its image. *)

\* Every step keeps Reads: only an edit changes the configuration.
LEMMA ReadsStep == Typed /\ Reads /\ [Next]_vars => Reads'
<1> SUFFICES ASSUME Typed, Reads, [Next]_vars PROVE Reads'
  OBVIOUS
<1>0. TypeOK /\ run \in Run /\ config \in Config /\ config # None
  BY NoneAssumption DEF Typed, TypeOK
<1>1. ASSUME NEW cmd \in {"up", "build", "run"}, Start(cmd) PROVE Reads'
  BY <1>0, <1>1, Started DEF Reads
<1>2. CASE Proceed
  BY <1>0, <1>2, Proceeds DEF Reads, Busy, Idle
<1>3. CASE Fail
  BY <1>3 DEF Fail, Nothing, Reads
<1>4. CASE WorldStep
  <2>1. PICK what \in {"edit", "event"} : Touched(what) /\ (what = "event" => config' = config)
    BY <1>0, <1>4, WorldTouches
  <2>2. config'.kind = config.kind
    BY <1>0, <1>4, WorldTouches
  <2>3. QED
    BY <1>0, <2>1, <2>2, TouchedRun DEF Reads, Busy
<1>5. CASE UNCHANGED vars
  BY <1>5 DEF vars, history, Reads, Busy
<1>6. QED
  BY <1>1, <1>2, <1>3, <1>4, <1>5 DEF Next, CommandStep, Proceed

\* Every step keeps Paths: the kind of the configuration decides the way.
LEMMA PathsStep == Typed /\ Reads /\ Paths /\ [Next]_vars => Paths'
<1> SUFFICES ASSUME Typed, Reads, Paths, [Next]_vars PROVE Paths'
  OBVIOUS
<1>0. TypeOK /\ run \in Run /\ (run.pc # "idle" => run.config \in Config)
      /\ run.cmd \in {"up", "build", "run"}
  BY RunTyped DEF Typed, TypeOK
<1> USE DEF Idle
<1>1. ASSUME NEW cmd \in {"up", "build", "run"}, Start(cmd) PROVE Paths'
  BY <1>0, <1>1, Started DEF Paths
<1>2. CASE Observe
  <2>1. /\ run'.pc = (IF run.cmd = "run" THEN "lifecycle" ELSE "plan")
        /\ run'.cmd = run.cmd /\ run'.config = run.config /\ run.pc = "observe"
    BY <1>0, <1>2 DEF Observe, Run
  <2>2. QED
    BY <1>0, <2>1 DEF Paths
<1>3. CASE Plan
  <2>1. /\ run'.pc \in {"enrich", FirstStep(run.config)}
        /\ run'.cmd = run.cmd /\ run'.config = run.config /\ run.pc = "plan"
    BY <1>0, <1>3 DEF Plan, Run
  <2>2. run.config \in Config /\ run.cmd # "run"
    BY <1>0, <2>1 DEF Paths
  <2> DEFINE c == run.config
             first == FirstStep(c)
  <2>3. /\ first \in {"source", "verify", "service", "base", "target"}
        /\ first = "source" => \/ BuildMode(c) = "none"
                               \/ BuildMode(c) = "features" /\ c.kind = "image"
        /\ first = "verify" => BuildMode(c) = "features" /\ c.kind = "composeImage"
        /\ first = "service" => c.kind = "composeBuild"
        /\ first = "base" => BuildMode(c) = "features" /\ c.kind \in {"dockerfile", "context"}
        /\ first = "target" => BuildMode(c) = "build"
    BY <2>2, ModesAre DEF FirstStep, AllKinds
  <2> HIDE DEF first
  <2>4. BuildMode(c) = "none" => c.kind \in {"image", "composeImage"}
    BY <2>2, ModesAre
  <2>5. QED
    BY <2>1, <2>2, <2>3, <2>4 DEF Paths, first
<1>4. CASE PrepareSource
  <2>1. PICK trust, pc : /\ run' = [run EXCEPT !.trust = trust, !.pc = pc]
                         /\ pc = IF BuildMode(run.config) = "none" THEN "enrich" ELSE "target"
    BY <1>4, Zenon DEF PrepareSource
  <2>2. /\ run'.pc = pc /\ run'.cmd = run.cmd /\ run'.config = run.config
    BY <1>0, <2>1 DEF Run
  <2>3. run.pc \in {"source", "verify"}
    BY <1>4 DEF PrepareSource
  <2>4. run.config \in Config /\ run.cmd # "run" /\ run.config.kind \in {"image", "composeImage"}
    BY <1>0, <2>3 DEF Paths
  <2>5. BuildMode(run.config) \in {"none", "features"}
    BY <2>4, ModesAre
  <2>6. QED
    BY <2>1, <2>2, <2>3, <2>4, <2>5 DEF Paths
<1>5. CASE BuildBase
  <2>1. /\ run'.pc = (IF BuildMode(run.config) = "features" THEN "target" ELSE "enrich")
        /\ run'.cmd = run.cmd /\ run'.config = run.config /\ run.pc \in {"service", "base"}
    BY <1>0, <1>5 DEF BuildBase, Run
  <2>2. QED
    BY <2>1 DEF Paths
<1>6. CASE BuildTarget
  <2>1. /\ run'.pc = "enrich" /\ run'.cmd = run.cmd /\ run'.config = run.config
    BY <1>0, <1>6 DEF BuildTarget, Run
  <2>2. QED
    BY <2>1 DEF Paths
<1>7. CASE Enrich
  <2>1. /\ run'.pc = [up |-> "container", build |-> "finish", run |-> "observe"][run.cmd]
        /\ run'.cmd = run.cmd /\ run'.config = run.config
    BY <1>0, <1>7 DEF Enrich, Run
  <2>2. QED
    BY <1>0, <2>1 DEF Paths
<1>8. CASE ReconcileContainer
  <2>1. /\ run'.pc = "lifecycle" /\ run'.cmd = run.cmd /\ run'.config = run.config
        /\ run.pc = "container"
    BY <1>0, <1>8 DEF ReconcileContainer, Run
  <2>2. QED
    BY <2>1 DEF Paths
<1>9. CASE Lifecycle
  <2>1. /\ run'.pc = (IF run.cmd = "run" THEN "done" ELSE "finish")
        /\ run'.cmd = run.cmd /\ run'.config = run.config
    BY <1>0, <1>9 DEF Lifecycle, Run
  <2>2. QED
    BY <2>1 DEF Paths
<1>10. CASE Finish
  <2>1. /\ run'.pc = "done" /\ run'.cmd = run.cmd /\ run'.config = run.config
    BY <1>0, <1>10 DEF Finish, Run
  <2>2. QED
    BY <2>1 DEF Paths
<1>11. CASE Fail
  BY <1>11 DEF Fail, Nothing, Paths
<1>12. CASE WorldStep
  <2>1. PICK what \in {"edit", "event"} : Touched(what)
    BY <1>0, <1>12, WorldTouches
  <2>2. QED
    BY <1>0, <2>1, TouchedRun DEF Paths
<1>13. CASE UNCHANGED vars
  BY <1>13 DEF vars, Paths
<1>14. QED
  BY <1>1, <1>2, <1>3, <1>4, <1>5, <1>6, <1>7, <1>8, <1>9, <1>10, <1>11, <1>12,
     <1>13 DEF Next, CommandStep

\* The key of the image, once it is planned.
LEMMA KeyIsStep == Typed /\ Reads /\ Paths /\ KeyIs /\ [Next]_vars => KeyIs'
<1> SUFFICES ASSUME Typed, Reads, Paths, KeyIs, [Next]_vars PROVE KeyIs'
  OBVIOUS
<1>0. TypeOK /\ run \in Run /\ config \in Config /\ run.cmd \in {"up", "build", "run"}
  BY RunTyped DEF Typed, TypeOK
<1>1. ASSUME NEW cmd \in {"up", "build", "run"}, Start(cmd) PROVE KeyIs'
  BY <1>0, <1>1, Started DEF KeyIs, Planned
<1>2. ASSUME run'.config = run.config, run'.key = run.key, run'.cmd = run.cmd,
             run.touched \subseteq run'.touched, Planned' => Planned
      PROVE  KeyIs'
  BY <1>2 DEF KeyIs, UsesTarget
<1>3. CASE Plan
  <2> DEFINE key == IF BuildMode(run.config) \in {"features", "build"}
                    THEN ManagedImageKey(run.config, config) ELSE None
             pc == IF Reusable(key) THEN "enrich" ELSE FirstStep(run.config)
  <2>1. run' = [run EXCEPT !.key = key, !.pc = pc] /\ run.pc = "plan" /\ config' = config
    BY <1>3 DEF Plan
  <2> HIDE DEF pc
  <2>2. run'.key = key /\ run'.config = run.config /\ run'.touched = run.touched
    BY <1>0, <2>1 DEF Run
  <2>3. run.config \in Config /\ ("edit" \notin run.touched => run.config = config)
    BY <2>1 DEF Typed, Reads, Busy, Idle
  <2>4. UsesTarget' <=> BuildMode(run.config) \in {"features", "build"}
    BY <2>2, <2>3, ModesAre DEF UsesTarget
  <2>5. ManagedImageKey(run.config, config) \in Key
    BY <1>0, <2>3, KeyTyped
  <2>6. ManagedImageKey(run.config, config) # None
    BY <2>5, NoneAssumption
  <2>7. ManagedImageKey(run.config, config).features = run.config.features
    BY DEF ManagedImageKey
  <2>8. QED
    BY <2>2, <2>3, <2>4, <2>6, <2>7 DEF KeyIs
<1>4. CASE Proceed /\ ~Plan
  <2>1. Planned' => Planned
    <3>1. CASE Observe
      <4>1. run'.pc \in {"plan", "lifecycle"} /\ (run'.pc = "lifecycle" => run.cmd = "run")
        BY <1>0, <3>1 DEF Observe, Run
      <4>2. run'.cmd = run.cmd
        BY <1>0, <1>4, Proceeds
      <4>3. QED
        BY <4>1, <4>2 DEF Planned
    <3>2. CASE ~Observe
      <4>1. run'.cmd = run.cmd
        BY <1>0, <1>4, Proceeds
      <4>2. run.pc \in {"source", "verify", "service", "base", "target", "enrich",
                        "container", "lifecycle", "finish"}
        BY <1>4, <3>2 DEF Proceed, PrepareSource, BuildBase, BuildTarget, Enrich,
           ReconcileContainer, Lifecycle, Finish
      <4>3. QED
        BY <4>1, <4>2 DEF Planned
    <3>3. QED
      BY <3>1, <3>2
  <2>2. QED
    BY <1>0, <1>2, <1>4, <2>1, Proceeds
<1>5. CASE Fail
  BY <1>5 DEF Fail, Nothing, KeyIs, Planned
<1>6. CASE WorldStep
  <2>1. PICK what \in {"edit", "event"} : Touched(what)
    BY <1>0, <1>6, WorldTouches
  <2>2. QED
    BY <1>0, <1>2, <2>1, TouchedRun DEF Planned
<1>7. CASE UNCHANGED vars
  BY <1>2, <1>7 DEF vars, Planned
<1>8. QED
  BY <1>1, <1>3, <1>4, <1>5, <1>6, <1>7 DEF Next, CommandStep, Proceed

-----------------------------------------------------------------------------
(* What is in the images. *)

\* What an image that is pulled holds.
LEMMA PulledIs ==
  ASSUME NEW v
  PROVE  /\ Pulled(v).label = SourceMetadata(v) /\ Pulled(v).key = None
         /\ Pulled(v).made.source = v /\ Pulled(v).made.features = None
         /\ Pulled(v) = Pulled(Pulled(v).made.source)
BY DEF Pulled

\* What a Dockerfile starts from.
LEMMA ParentIs ==
  ASSUME PlainImages
  PROVE  /\ Parent.label = SourceMetadata(Parent.made.source)
         /\ Parent.made.features = None
         /\ Parent = Pulled(Parent.made.source)
<1>1. CASE Exists("source")
  <2>1. images["source"] = Pulled(images["source"].made.source)
    BY <1>1 DEF PlainImages
  <2>2. Parent = images["source"]
    BY <1>1 DEF Parent
  <2>3. QED
    BY <2>1, <2>2, PulledIs
<1>2. CASE ~Exists("source")
  BY <1>2, PulledIs DEF Parent
<1>3. QED
  BY <1>1, <1>2

\* What a command and the world do to the images.
LEMMA ImagesChange ==
  ASSUME TypeOK, [Next]_vars
  PROVE  \/ images' = images
         \/ \E v \in Versions : images' = [images EXCEPT !["source"] = Pulled(v)]
         \/ ReconcileContainer /\ images' = [images EXCEPT !["source"] = Parent]
         \/ BuildBase \/ BuildTarget
         \/ \E t \in Tags : images' = [images EXCEPT ![t] = None]
<1>1. upstream \in Versions
  BY DEF TypeOK
<1>2. ASSUME NEW cmd \in {"up", "build", "run"}, Start(cmd) PROVE images' = images
  BY <1>2 DEF Start
<1>3. CASE PrepareSource
  BY <1>1, <1>3 DEF PrepareSource
<1>4. CASE ReconcileContainer
  <2> DEFINE t == TargetImage(run.config)
  <2>1. images' = images \/ (t = "source" /\ images' = [images EXCEPT ![t] = Parent])
    BY <1>4 DEF ReconcileContainer
  <2>2. QED
    BY <1>4, <2>1
<1>5. CASE Observe \/ Plan \/ Enrich \/ Lifecycle \/ Finish \/ Fail
  BY <1>5 DEF Observe, Plan, Enrich, Lifecycle, Finish, Fail
<1>6. CASE WorldStep
  BY <1>1, <1>6 DEF WorldStep, Edit, Publish, RemoveImage, ReplaceContainer
<1>7. CASE UNCHANGED vars
  BY <1>7 DEF vars
<1>8. QED
  BY <1>2, <1>3, <1>4, <1>5, <1>6, <1>7 DEF Next, CommandStep

\* Every step keeps PlainImages: what is not the target says what its parent says.
LEMMA PlainImagesStep == Typed /\ PlainImages /\ [Next]_vars => PlainImages'
<1> SUFFICES ASSUME Typed, PlainImages, [Next]_vars PROVE PlainImages'
  OBVIOUS
<1>0. TypeOK /\ images \in [Tags -> Image \cup {None}]
  BY DEF Typed, TypeOK
<1>1. ASSUME NEW v, images' = [images EXCEPT !["source"] = Pulled(v)] PROVE PlainImages'
  <2>1. images'["source"] = Pulled(v) /\ \A t \in {"service", "base"} : images'[t] = images[t]
    BY <1>0, <1>1 DEF Tags
  <2>2. QED
    BY <2>1, PulledIs DEF PlainImages, Exists
<1>2. CASE images' = [images EXCEPT !["source"] = Parent]
  BY <1>1, <1>2, ParentIs
<1>3. CASE BuildBase
  <2> DEFINE label == IF run.pc = "base" THEN ResolvedMetadata(run.config) ELSE << >>
             i == [label |-> IF label = << >> THEN Parent.label ELSE label,
                   key |-> None, made |-> [Parent.made EXCEPT !.files = config.files]]
  <2>1. run.pc \in {"service", "base"} /\ images' = [images EXCEPT ![run.pc] = i]
    BY <1>3 DEF BuildBase
  <2>2. Parent.made \in Made
    BY <1>0, ParentTyped
  <2>3. i.made.features = None /\ i.made.source = Parent.made.source
    BY <2>2, ParentIs DEF Made
  <2>4. run.pc = "service" => i.label = SourceMetadata(i.made.source)
    BY <2>3, ParentIs
  <2> HIDE DEF i
  <2>5. \A t \in Tags : images'[t] = IF t = run.pc THEN i ELSE images[t]
    BY <1>0, <2>1
  <2>6. QED
    BY <2>1, <2>3, <2>4, <2>5 DEF PlainImages, Exists, Tags
<1>4. CASE BuildTarget
  <2>1. \A t \in Tags \ {"target"} : images'[t] = images[t]
    BY <1>0, <1>4 DEF BuildTarget
  <2>2. QED
    BY <2>1 DEF PlainImages, Exists, Tags
<1>5. ASSUME NEW t \in Tags, images' = [images EXCEPT ![t] = None] PROVE PlainImages'
  <2>1. \A u \in Tags : images'[u] = images[u] \/ images'[u] = None
    BY <1>0, <1>5
  <2>2. QED
    BY <2>1 DEF PlainImages, Exists, Tags
<1>6. CASE images' = images
  BY <1>6 DEF PlainImages, Exists
<1>7. QED
  BY <1>0, <1>1, <1>2, <1>3, <1>4, <1>5, <1>6, ImagesChange

\* A configuration with a feature says something.
LEMMA FeatureSays ==
  ASSUME NEW c \in Config, c.features # None
  PROVE  ResolvedMetadata(c) # << >>
<1>1. c.features \in Features /\ c.hooks \in Hooks \cup {None}
  BY DEF Config
<1>2. PICK h \in Seq(Entry) : h = ConfigMetadata(c.hooks)
  BY <1>1, EntriesTyped
<1>3. PICK f \in Seq(Entry) : f = FeaturesMetadata(c.features) /\ Len(f) = 1
  <2>1. FeaturesMetadata(c.features) \in Seq(Entry)
    BY <1>1, EntriesTyped
  <2>2. Len(FeaturesMetadata(c.features)) = 1
    BY DEF FeaturesMetadata
  <2>3. QED
    BY <2>1, <2>2
<1>4. Len(f \o h) = Len(f) + Len(h) /\ Len(h) \in Nat
  OBVIOUS
<1>5. f \o h # << >>
  BY <1>3, <1>4
<1>6. QED
  BY <1>2, <1>3, <1>5 DEF ResolvedMetadata, MergeMetadata

\* The base of the features.
LEMMA BaseIsStep ==
  Typed /\ Reads /\ Paths /\ KeyIs /\ BaseIs /\ [Next]_vars => BaseIs'
<1> SUFFICES ASSUME Typed, Reads, Paths, KeyIs, BaseIs, [Next]_vars PROVE BaseIs'
  OBVIOUS
<1>0. /\ TypeOK /\ run \in Run /\ images \in [Tags -> Image \cup {None}] /\ config \in Config
      /\ run.pc # "idle" => run.config \in Config
  BY DEF Typed, TypeOK
<1>1. ASSUME run'.pc = "target" =>
               /\ run.pc = "target" /\ run'.config = run.config /\ run'.key = run.key
               /\ run.touched \subseteq run'.touched,
             images'["base"] = images["base"] \/ images'["base"] = None
      PROVE  BaseIs'
  BY <1>1 DEF BaseIs, Exists, BaseImage, ResolvedMetadata, MergeMetadata
<1>2. ASSUME NEW cmd \in {"up", "build", "run"}, Start(cmd) PROVE BaseIs'
  BY <1>0, <1>2, Started DEF BaseIs
<1>3. CASE Observe \/ Enrich \/ ReconcileContainer \/ Lifecycle \/ Finish \/ BuildTarget
  <2>1. run'.pc # "target"
    <3>1. CASE Observe
      BY <1>0, <3>1 DEF Observe, Run
    <3>2. CASE Enrich
      BY <1>0, <3>2, RunTyped DEF Enrich, Run
    <3>3. CASE ReconcileContainer \/ BuildTarget
      BY <1>0, <3>3 DEF ReconcileContainer, BuildTarget, Run
    <3>4. CASE Lifecycle \/ Finish
      BY <1>0, <3>4 DEF Lifecycle, Finish, Run
    <3>5. QED
      BY <1>3, <3>1, <3>2, <3>3, <3>4
  <2>2. QED
    BY <2>1 DEF BaseIs
<1>4. CASE Plan
  <2>1. run'.pc \in {"enrich", FirstStep(run.config)} /\ run'.config = run.config /\ run.pc = "plan"
    BY <1>0, <1>4 DEF Plan, Run
  <2>2. CASE run'.pc = "target"
    <3>1. FirstStep(run.config) = "target" /\ run.config \in Config
      BY <1>0, <2>1, <2>2
    <3>2. BuildMode(run.config) = "build"
      BY <3>1, ModesAre DEF FirstStep
    <3>3. run'.config.features = None
      BY <2>1, <3>1, <3>2, ModesAre
    <3>4. QED
      BY <3>3 DEF BaseIs
  <2>3. QED
    BY <2>2 DEF BaseIs
<1>5. CASE PrepareSource
  <2>1. run.pc \in {"source", "verify"} /\ run'.config = run.config
    BY <1>0, <1>5, Proceeds DEF PrepareSource, Proceed
  <2>2. run.config.kind \in {"image", "composeImage"}
    BY <2>1 DEF Paths
  <2>3. BaseImage(run'.config) = "source"
    BY <2>1, <2>2 DEF BaseImage
  <2>4. QED
    BY <2>3 DEF BaseIs, BaseImage
<1>6. CASE BuildBase
  <2>1. run.pc \in {"service", "base"} /\ run'.config = run.config /\ run'.key = run.key
        /\ run'.touched = run.touched
    BY <1>0, <1>6, Proceeds DEF BuildBase, Proceed, Plan
  <2>2. CASE run.pc = "service"
    <3>1. BaseImage(run'.config) = "service"
      BY <2>1, <2>2 DEF BaseImage, Paths
    <3>2. QED
      BY <3>1 DEF BaseIs, BaseImage
  <2>3. CASE run.pc = "base"
    <3> DEFINE c == run.config
               label == ResolvedMetadata(c)
    <3>1. c \in Config /\ c.features # None /\ c.kind \in {"dockerfile", "context"}
          /\ UsesTarget /\ run.cmd # "run"
      BY <1>0, <2>3, ModesAre DEF Paths, UsesTarget, Idle
    <3>2. label # << >>
      BY <3>1, FeatureSays
    <3> HIDE DEF label
    <3>3. images'["base"] = [label |-> label, key |-> None,
                             made |-> [Parent.made EXCEPT !.files = config.files]]
      BY <1>0, <1>6, <2>3, <3>2 DEF BuildBase, Tags, label
    <3>4. images'["base"].label = label /\ images'["base"].made.files = config.files
      <4>1. Parent.made \in Made
        BY <1>0, ParentTyped
      <4>2. QED
        BY <3>3, <4>1 DEF Made
    <3>5. "edit" \notin run.touched => run.key.files = config.files
      <4>1. Planned
        BY <2>3, <3>1 DEF Planned
      <4>2. "edit" \notin run.touched => run.key = ManagedImageKey(c, c) /\ c = config
        BY <2>3, <3>1, <4>1 DEF KeyIs, Reads, Busy, Idle
      <4>3. ManagedImageKey(c, c).files = c.files
        BY <3>1 DEF ManagedImageKey, Compose
      <4>4. QED
        BY <4>2, <4>3
    <3>6. ResolvedMetadata(run'.config) = label
      BY <2>1 DEF label
    <3>7. QED
      BY <2>1, <3>4, <3>5, <3>6 DEF BaseIs, ResolvedMetadata, MergeMetadata
  <2>4. QED
    BY <2>1, <2>2, <2>3
<1>7. CASE Fail
  BY <1>7 DEF Fail, Nothing, BaseIs
<1>8. CASE WorldStep
  <2>1. PICK what \in {"edit", "event"} : Touched(what)
    BY <1>0, <1>8, WorldTouches
  <2>2. images'["base"] = images["base"] \/ images'["base"] = None
    BY <1>0, <1>8 DEF WorldStep, Edit, Publish, RemoveImage, ReplaceContainer, Tags
  <2>3. QED
    BY <1>0, <1>1, <2>1, <2>2, TouchedRun
<1>9. CASE UNCHANGED vars
  BY <1>1, <1>9 DEF vars
<1>10. QED
  BY <1>2, <1>3, <1>4, <1>5, <1>6, <1>7, <1>8, <1>9 DEF Next, CommandStep

\* The target image that a command builds.
LEMMA BuiltTarget ==
  ASSUME Typed, Reads, Paths, KeyIs, PlainImages, BaseIs, BuildTarget
  PROVE  /\ TargetIs(images["target"])' /\ images'["target"] # None
         /\ images'["target"].key = run.key
         /\ images'["target"].made.features = run.config.features
<1> DEFINE c == run.config
           featured == c.features # None
           base == BaseImage(c)
           label == IF featured THEN FeaturesLabel(c) ELSE ResolvedMetadata(c)
           from == IF featured /\ base # "source" THEN images[base] ELSE Parent
           written == IF label = << >> THEN from.label ELSE label
           files == IF featured THEN from.made.files ELSE config.files
           made == [source |-> from.made.source, features |-> c.features, files |-> files]
           i == [label |-> written, key |-> run.key, made |-> made]
           blind == featured /\ ~Exists(base)
           said == FeaturesMetadata(c.features) \o ConfigMetadata(c.hooks)
<1>0. /\ TypeOK /\ run \in Run /\ images \in [Tags -> Image \cup {None}] /\ config \in Config
      /\ run.pc = "target" /\ c \in Config /\ c.kind = config.kind /\ run.cmd # "run"
      /\ c.features \in Features \cup {None} /\ c.hooks \in Hooks \cup {None}
  BY DEF Typed, TypeOK, BuildTarget, Reads, Paths, Config, Idle
<1>1. /\ images' = [images EXCEPT !["target"] = i] /\ config' = config
      /\ origin' = [hooks |-> c.hooks, edit |-> "edit" \in run.touched, blind |-> blind]
      /\ featured /\ base # "source" => Exists(base)
  BY DEF BuildTarget
<1>2. /\ run.key \in Key /\ run.key # None /\ run.key.features = c.features
      /\ "edit" \notin run.touched => run.key = ManagedImageKey(c, c) /\ c = config
  <2>1. Planned /\ UsesTarget
    BY <1>0, ModesAre DEF Planned, Paths, UsesTarget
  <2>2. QED
    BY <1>0, <2>1, RunTyped DEF KeyIs, Reads, Busy, Idle
<1>3. said = ResolvedMetadata(c) /\ said \in Seq(Entry) /\ (featured => said # << >>)
  BY <1>0, ResolvedTyped, FeatureSays DEF ResolvedMetadata, MergeMetadata
<1>4. /\ featured /\ c.kind \in {"image", "composeImage"} => base = "source"
      /\ featured /\ c.kind = "composeBuild" => base = "service" /\ Exists("service")
      /\ featured /\ c.kind \in {"dockerfile", "context"} => base = "base" /\ Exists("base")
      /\ ~featured => c.kind \in {"dockerfile", "context"}
      /\ c.kind \in AllKinds
  BY <1>0, <1>1, ModesAre DEF BaseImage, Paths
<1>5. images'["target"] = i /\ i # None
  <2>1. i \in Image
    <3>1. from.label \in Seq(Entry) /\ from.made \in Made
      <4>1. base \in Tags
        BY DEF BaseImage, Tags
      <4>2. QED
        BY <1>0, <1>1, <4>1, ParentTyped, ImageTyped
    <3>2. label \in Seq(Entry)
      <4>1. base \in Tags
        BY DEF BaseImage, Tags
      <4>2. FeaturesLabel(c) \in Seq(Entry)
        <5>1. Exists(base) => images[base].label \in Seq(Entry)
          BY <1>0, <4>1, ImageTyped
        <5>2. Exists(base) => images[base].label \o ResolvedMetadata(c) \in Seq(Entry)
          BY <1>3, <5>1
        <5>3. QED
          BY <1>3, <5>1, <5>2 DEF FeaturesLabel
      <4>3. QED
        BY <1>3, <4>2
    <3>3. written \in Seq(Entry)
      BY <3>1, <3>2
    <3>4. made \in Made
      BY <1>0, <3>1 DEF Made, Config
    <3>5. QED
      BY <1>2, <3>3, <3>4 DEF Image
  <2>2. QED
    BY <1>0, <1>1, <2>1, NoneAssumption DEF Tags
<1>6. \A v : SourceMetadata(v) \in Seq(Entry) /\ SourceMetadata(v) \o said \in Seq(Entry)
             /\ (said # << >> => SourceMetadata(v) \o said # << >>)
  <2>1. \A a, b \in Seq(Entry) : /\ a \o b \in Seq(Entry) /\ Len(a \o b) = Len(a) + Len(b)
                                 /\ (b # << >> => Len(b) # 0) /\ Len(a) \in Nat /\ Len(b) \in Nat
    OBVIOUS
  <2>2. \A a, b \in Seq(Entry) : b # << >> => a \o b # << >>
    BY <2>1
  <2>3. QED
    BY <1>3, <2>1, <2>2, EntriesTyped
<1>7. /\ written = WrittenLabel(c.kind, c.features, c.hooks, blind, from.made.source)
      /\ c.kind \in {"dockerfile", "context"} =>
           ~blind /\ (run.key.files = files \/ "edit" \in run.touched)
  <2> HIDE DEF said
  <2>0. FeaturesMetadata(c.features) \o ConfigMetadata(c.hooks) = said
    BY DEF said
  <2>1. CASE featured /\ c.kind \in {"image", "composeImage"}
    <3>1. base = "source" /\ from = Parent
      BY <1>4, <2>1
    <3>2. CASE Exists("source")
      <4>1. Parent = images["source"] /\ ~blind
        BY <2>1, <3>1, <3>2 DEF Parent
      <4>2. label = SourceMetadata(from.made.source) \o said
        BY <1>3, <2>1, <3>1, <3>2, <4>1, ParentIs DEF FeaturesLabel, Managed
      <4>3. written = SourceMetadata(from.made.source) \o said
        BY <1>3, <1>6, <2>1, <4>2
      <4> HIDE DEF written, from, blind
      <4>4. QED
        BY <2>0, <2>1, <4>1, <4>3 DEF WrittenLabel
    <3>3. CASE ~Exists("source")
      <4>1. label = said /\ blind
        BY <1>3, <2>1, <3>1, <3>3 DEF FeaturesLabel
      <4>2. written = said
        BY <1>3, <2>1, <4>1
      <4>3. << >> \o said = said
        BY <1>3
      <4> HIDE DEF written, from, blind
      <4>4. QED
        BY <2>0, <2>1, <4>1, <4>2, <4>3 DEF WrittenLabel
    <3>4. QED
      BY <3>2, <3>3
  <2>2. CASE featured /\ c.kind = "composeBuild"
    <3>1. base = "service" /\ from = images["service"] /\ Exists("service") /\ ~blind
      BY <1>4, <2>2
    <3>2. label = SourceMetadata(from.made.source) \o said
      BY <1>3, <2>2, <3>1 DEF FeaturesLabel, Managed, PlainImages
    <3>3. written = SourceMetadata(from.made.source) \o said
      BY <1>3, <1>6, <2>2, <3>2
    <3> HIDE DEF written, from, blind
    <3>4. QED
      BY <2>0, <2>2, <3>1, <3>3 DEF WrittenLabel
  <2>3. CASE featured /\ c.kind \in {"dockerfile", "context"}
    <3>1. base = "base" /\ from = images["base"] /\ Exists("base") /\ ~blind
      BY <1>4, <2>3
    <3>2. label = said
      BY <1>0, <1>3, <2>3, <3>1 DEF FeaturesLabel, Managed, BaseIs
    <3>3. written = said /\ said # << >>
      BY <1>3, <2>3, <3>2
    <3>4. run.key.files = files \/ "edit" \in run.touched
      BY <1>0, <2>3, <3>1 DEF BaseIs
    <3> HIDE DEF written, from, blind, files
    <3>5. QED
      BY <2>0, <2>3, <3>1, <3>3, <3>4 DEF WrittenLabel
  <2>4. CASE ~featured
    <3>1. c.kind \in {"dockerfile", "context"} /\ ~blind /\ label = said /\ files = config.files
          /\ from = Parent
      BY <1>3, <1>4, <2>4
    <3>2. written = IF said = << >> THEN SourceMetadata(from.made.source) ELSE said
      BY <3>1, ParentIs
    <3>3. run.key.files = files \/ "edit" \in run.touched
      BY <1>2, <3>1 DEF ManagedImageKey, Compose
    <3> HIDE DEF written, from, blind, files
    <3>4. QED
      BY <2>0, <3>1, <3>2, <3>3 DEF WrittenLabel
  <2>5. QED
    BY <1>4, <2>1, <2>2, <2>3, <2>4 DEF AllKinds
<1>8. c.kind \in {"image", "dockerfile"} => run.key.hooks = c.hooks \/ "edit" \in run.touched
  BY <1>2 DEF ManagedImageKey
<1>9. /\ i.label = written /\ i.key = run.key /\ i.made.features = c.features
      /\ i.made.source = from.made.source /\ i.made.files = files
  OBVIOUS
<1>10. PICK j : j = i
  OBVIOUS
<1>11. PICK k : k = c
  OBVIOUS
<1>12. PICK b : b = blind
  OBVIOUS
<1>13. PICK q, e : q = run.key /\ e = ("edit" \in run.touched)
  OBVIOUS
<1>14. /\ j.key = q /\ q # None /\ q.features = j.made.features /\ j.made.features = k.features
       /\ j.label = WrittenLabel(k.kind, j.made.features, k.hooks, b, j.made.source)
       /\ k.kind \in {"image", "dockerfile"} => q.hooks = k.hooks \/ e
       /\ k.kind \in {"dockerfile", "context"} => ~b /\ (q.files = j.made.files \/ e)
  <2> HIDE DEF written, i, files, from, blind
  <2>1. QED
    BY <1>2, <1>7, <1>8, <1>9, <1>10, <1>11, <1>12, <1>13
<1>15. /\ images'["target"] = j /\ j # None /\ config'.kind = k.kind
       /\ origin'.hooks = k.hooks /\ origin'.edit = e /\ origin'.blind = b
  BY <1>0, <1>1, <1>5, <1>10, <1>11, <1>12, <1>13
<1>16. TargetIs(images["target"])'
  BY <1>14, <1>15 DEF TargetIs
<1>17. QED
  BY <1>11, <1>13, <1>14, <1>15, <1>16

\* Only a build of the target changes how it was made, and nobody the kind of
\* the configuration.
LEMMA KindStays ==
  ASSUME TypeOK, [Next]_vars
  PROVE  config'.kind = config.kind /\ (BuildTarget \/ origin' = origin)
<1>1. ASSUME NEW cmd \in {"up", "build", "run"}, Start(cmd)
      PROVE config' = config /\ origin' = origin
  BY <1>1, Started
<1>2. CASE Proceed
  BY <1>2, Proceeds
<1>3. CASE Fail
  BY <1>3 DEF Fail
<1>4. CASE WorldStep
  <2>1. PICK what \in {"edit", "event"} : Touched(what)
    BY <1>4, WorldTouches
  <2>2. QED
    BY <1>4, <2>1, WorldTouches DEF Touched
<1>5. CASE UNCHANGED vars
  BY <1>5 DEF vars, history
<1>6. QED
  BY <1>1, <1>2, <1>3, <1>4, <1>5 DEF Next, CommandStep, Proceed

\* Nothing else happens to the target image than that it is built or removed.
LEMMA TargetStays ==
  ASSUME TypeOK, [Next]_vars, ~BuildTarget
  PROVE  images'["target"] \in {images["target"], None}
<1>1. images \in [Tags -> Image \cup {None}]
  BY DEF TypeOK
<1>2. CASE images' = images
  BY <1>2
<1>3. ASSUME NEW i, images' = [images EXCEPT !["source"] = i]
      PROVE images'["target"] = images["target"]
  BY <1>1, <1>3 DEF Tags
<1>4. CASE BuildBase
  BY <1>1, <1>4 DEF BuildBase, Tags
<1>5. ASSUME NEW t \in Tags, images' = [images EXCEPT ![t] = None]
      PROVE images'["target"] \in {images["target"], None}
  BY <1>1, <1>5 DEF Tags
<1>6. QED
  BY <1>2, <1>3, <1>4, <1>5, ImagesChange

\* Every step keeps TargetImageIs: a build writes label, key and content together.
LEMMA TargetImageIsStep ==
  Typed /\ Reads /\ Paths /\ KeyIs /\ PlainImages /\ BaseIs /\ TargetImageIs /\ [Next]_vars
    => TargetImageIs'
<1> SUFFICES ASSUME Typed, Reads, Paths, KeyIs, PlainImages, BaseIs, TargetImageIs, [Next]_vars
             PROVE  TargetImageIs'
  OBVIOUS
<1>1. CASE BuildTarget
  BY <1>1, BuiltTarget DEF TargetImageIs
<1>2. CASE ~BuildTarget
  <2>1. /\ config'.kind = config.kind /\ origin' = origin
        /\ images'["target"] \in {images["target"], None}
    BY <1>2, KindStays, TargetStays DEF Typed
  <2>2. QED
    BY <2>1 DEF TargetImageIs, TargetIs, Exists
<1>3. QED
  BY <1>1, <1>2

\* Every step keeps TargetKept: a command goes on with a reused or a new target.
LEMMA TargetKeptStep ==
  Typed /\ Reads /\ Paths /\ KeyIs /\ PlainImages /\ BaseIs /\ TargetKept /\ [Next]_vars
    => TargetKept'
<1> SUFFICES ASSUME Typed, Reads, Paths, KeyIs, PlainImages, BaseIs, TargetKept, [Next]_vars
             PROVE  TargetKept'
  OBVIOUS
<1>0. /\ TypeOK /\ run \in Run /\ run.cmd \in {"up", "build", "run"}
      /\ run.pc # "idle" => run.config \in Config
  BY RunTyped DEF Typed, TypeOK
<1>1. ASSUME run'.pc \in {"enrich", "container"} => run.pc \in {"enrich", "container"},
             run'.cmd = run.cmd, run'.config = run.config, run'.key = run.key,
             images'["target"] \in {images["target"], None}
      PROVE  TargetKept'
  BY <1>1 DEF TargetKept, UsesTarget, Exists
<1>2. ASSUME NEW cmd \in {"up", "build", "run"}, Start(cmd) PROVE TargetKept'
  BY <1>0, <1>2, Started DEF TargetKept
<1>3. CASE Plan
  <2> DEFINE key == IF BuildMode(run.config) \in {"features", "build"}
                    THEN ManagedImageKey(run.config, config) ELSE None
             pc == IF Reusable(key) THEN "enrich" ELSE FirstStep(run.config)
  <2>1. run' = [run EXCEPT !.key = key, !.pc = pc] /\ run.pc = "plan" /\ images' = images
    BY <1>3 DEF Plan
  <2>2. FirstStep(run.config) \notin {"enrich", "container"}
    BY <1>0, <2>1, ModesAre DEF FirstStep
  <2>3. pc \in {"enrich", "container"} => images["target"].key = key
    BY <2>2 DEF Reusable
  <2> HIDE DEF pc, key
  <2>4. run'.pc = pc /\ run'.key = key
    BY <1>0, <2>1 DEF Run
  <2>5. QED
    BY <2>1, <2>3, <2>4 DEF TargetKept
<1>4. CASE BuildTarget
  <2>1. run'.key = run.key
    BY <1>0, <1>4, Proceeds DEF Proceed, BuildTarget, Plan
  <2>2. QED
    BY <1>4, <2>1, BuiltTarget DEF TargetKept
<1>5. CASE PrepareSource \/ BuildBase
  <2>1. run'.config = run.config /\ run.pc \in {"source", "verify", "service", "base"}
    BY <1>0, <1>5, Proceeds DEF Proceed, PrepareSource, BuildBase
  <2>2. BuildMode(run.config) = "build" => FALSE
    BY <1>0, <2>1, ModesAre DEF Paths
  <2>3. run'.pc = "target" \/ (BuildMode(run.config) # "features" /\ run'.pc = "enrich")
    <3>1. CASE PrepareSource
      <4>1. PICK trust, pc : /\ run' = [run EXCEPT !.trust = trust, !.pc = pc]
                             /\ pc = IF BuildMode(run.config) = "none" THEN "enrich" ELSE "target"
        BY <3>1, Zenon DEF PrepareSource
      <4>2. QED
        BY <1>0, <4>1 DEF Run
    <3>2. CASE BuildBase
      BY <1>0, <3>2 DEF BuildBase, Run
    <3>3. QED
      BY <1>5, <3>1, <3>2
  <2>4. QED
    BY <1>0, <2>1, <2>2, <2>3, ModesAre DEF TargetKept, UsesTarget
<1>6. CASE Observe \/ Enrich \/ ReconcileContainer \/ Lifecycle \/ Finish
  <2>1. /\ run'.cmd = run.cmd /\ run'.config = run.config /\ run'.key = run.key
    BY <1>0, <1>6, Proceeds DEF Proceed, Observe, Enrich, ReconcileContainer, Lifecycle,
       Finish, Plan
  <2>2. run'.pc \in {"enrich", "container"} => run.pc \in {"enrich", "container"}
    BY <1>0, <1>6 DEF Observe, Enrich, ReconcileContainer, Lifecycle, Finish, Run
  <2>3. ~BuildTarget
    BY <1>6 DEF Observe, Enrich, ReconcileContainer, Lifecycle, Finish, BuildTarget
  <2>4. QED
    BY <1>0, <1>1, <2>1, <2>2, <2>3, TargetStays
<1>7. CASE Fail
  BY <1>7 DEF Fail, Nothing, TargetKept
<1>8. CASE WorldStep /\ ~BuildTarget
  <2>1. PICK what \in {"edit", "event"} : Touched(what)
    BY <1>0, <1>8, WorldTouches
  <2>2. run'.pc = run.pc /\ run'.cmd = run.cmd /\ run'.config = run.config /\ run'.key = run.key
    BY <1>0, <2>1, TouchedRun
  <2>3. QED
    BY <1>0, <1>1, <1>8, <2>2, TargetStays
<1>9. CASE UNCHANGED vars
  BY <1>1, <1>9 DEF vars
<1>10. QED
  BY <1>2, <1>3, <1>4, <1>5, <1>6, <1>7, <1>8, <1>9 DEF Next, CommandStep

-----------------------------------------------------------------------------
(* What is merged. *)

\* The label of the source image, if there is one.
LEMMA SourceLabel ==
  ASSUME PlainImages
  PROVE  Label("source") = SourceMetadata(PresentSource)
<1>1. CASE Exists("source")
  BY <1>1, PulledIs DEF PlainImages, Label, PresentSource
<1>2. CASE ~Exists("source")
  BY <1>2, MetadataAssumption DEF Label, PresentSource, SourceMetadata
<1>3. QED
  BY <1>1, <1>2

\* What is merged from the images that are there.
LEMMA MergedNow ==
  ASSUME TypeOK, PlainImages, TargetImageIs,
         NEW c \in Config, c.kind = config.kind, Exists(TargetImage(c))
  PROVE  MergedConfig(c, TargetImage(c)) =
           MergedForm(c.kind, TargetImage(c), images[TargetImage(c)].made.features,
                      IF TargetImage(c) = "target" THEN origin.hooks ELSE c.hooks,
                      origin.blind, PresentSource, images[TargetImage(c)].made.source)
<1> DEFINE t == TargetImage(c)
<1>1. t \in {"source", "service", "target"} /\ t # None /\ c.kind \in AllKinds
      /\ (t = "source" <=> BuildMode(c) = "none") /\ (t = "service" <=> BuildMode(c) = "project")
  <2>1. images[t] # None /\ images \in [Tags -> Image \cup {None}]
    BY DEF Exists, TypeOK
  <2>2. t \in {"source", "service", "target"}
    BY TargetTyped
  <2>3. t # None
    BY <2>2, NoneAssumption DEF Tags
  <2>4. QED
    BY <2>2, <2>3, ModesAre
<1>2. images[t].label \in Seq(Entry)
  BY <1>1, ImageTyped DEF Tags
<1>3. CASE t # "target"
  <2>1. images[t].label = SourceMetadata(images[t].made.source)
    BY <1>1, <1>3, PulledIs DEF PlainImages
  <2>2. t = "service" => c.kind # "image"
    BY <1>1, ModesAre
  <2>3. WithSourceMetadata(c, t, images[t].label) = images[t].label
    BY <1>1, <1>3, <2>2 DEF WithSourceMetadata
  <2>4. QED
    BY <1>1, <1>3, <2>1, <2>3 DEF MergedConfig, Managed, MergeMetadata, MergedForm
<1>4. CASE t = "target"
  <2>1. PICK l \in Seq(Entry) : l = images[t].label
    BY <1>2
  <2>2. l = WrittenLabel(c.kind, images[t].made.features, origin.hooks, origin.blind,
                         images[t].made.source)
    BY <1>4, <2>1 DEF TargetImageIs, TargetIs
  <2>3. MergedConfig(c, t) = WithSourceMetadata(c, t, l)
    BY <1>1, <1>4, <2>1 DEF MergedConfig, Managed
  <2>4. << >> \o l = l
    OBVIOUS
  <2>5. WithSourceMetadata(c, t, l) =
          (IF c.kind = "image" THEN SourceMetadata(PresentSource) ELSE << >>) \o l
    BY <1>4, <2>4, SourceLabel DEF WithSourceMetadata
  <2>6. QED
    BY <1>4, <2>2, <2>3, <2>5 DEF MergedForm
<1>5. QED
  BY <1>3, <1>4

\* What is merged does not change, until the next command.
LEMMA MergedStays ==
  ASSUME Typed, [Next]_vars, ~Enrich, Merged'
  PROVE  /\ Merged /\ run'.config = run.config /\ run'.merged = run.merged
         /\ run'.made = run.made /\ run'.source = run.source
         /\ run.touched \subseteq run'.touched /\ origin' = origin
         /\ run'.pc = run.pc \/ (Proceed /\ run.pc \in {"container", "lifecycle", "finish"})
<1>0. /\ TypeOK /\ run \in Run /\ run.cmd \in {"up", "build", "run"}
      /\ run.pc # "idle" => run.config \in Config
  BY RunTyped DEF Typed, TypeOK
<1>1. ASSUME NEW cmd \in {"up", "build", "run"}, Start(cmd) PROVE FALSE
  BY <1>0, <1>1, Started DEF Merged
<1>2. CASE Proceed
  <2>1. ~Observe
    BY <1>0 DEF Observe, Run, Merged
  <2>2. ~Plan
    <3>1. SUFFICES ASSUME Plan PROVE FALSE
      OBVIOUS
    <3>2. run'.pc \in {"enrich", FirstStep(run.config)} /\ run.pc = "plan"
      BY <1>0, <3>1 DEF Plan, Run
    <3>3. FirstStep(run.config) \notin {"container", "lifecycle", "finish", "done"}
      BY <1>0, <3>2, ModesAre DEF FirstStep
    <3>4. QED
      BY <3>2, <3>3 DEF Merged
  <2>3. ~PrepareSource
    <3>1. SUFFICES ASSUME PrepareSource PROVE FALSE
      OBVIOUS
    <3>2. PICK trust, pc : /\ run' = [run EXCEPT !.trust = trust, !.pc = pc]
                           /\ pc = IF BuildMode(run.config) = "none" THEN "enrich" ELSE "target"
      BY <3>1, Zenon DEF PrepareSource
    <3>3. QED
      BY <1>0, <3>2 DEF Run, Merged
  <2>4. ~BuildBase /\ ~BuildTarget
    BY <1>0 DEF BuildBase, BuildTarget, Run, Merged
  <2>5. run.pc \in {"container", "lifecycle", "finish"}
    BY <1>2, <2>1, <2>2, <2>3, <2>4 DEF Proceed, ReconcileContainer, Lifecycle, Finish
  <2>6. QED
    BY <1>0, <1>2, <2>4, <2>5, Proceeds DEF Merged
<1>3. CASE Fail
  BY <1>3 DEF Fail, Nothing, Merged
<1>4. CASE WorldStep
  <2>1. PICK what \in {"edit", "event"} : Touched(what)
    BY <1>0, <1>4, WorldTouches
  <2>2. QED
    BY <1>0, <2>1, TouchedRun DEF Merged
<1>5. CASE UNCHANGED vars
  BY <1>5 DEF vars, history, Merged
<1>6. QED
  BY <1>1, <1>2, <1>3, <1>4, <1>5 DEF Next, CommandStep, Proceed

\* Every step keeps MergedIs: Enrich merges, and nothing changes it afterwards.
LEMMA MergedIsStep ==
  /\ Typed /\ Reads /\ Paths /\ KeyIs /\ PlainImages /\ TargetImageIs /\ TargetKept
  /\ MergedIs /\ [Next]_vars
  => MergedIs'
<1> SUFFICES ASSUME Typed, Reads, Paths, KeyIs, PlainImages, TargetImageIs, TargetKept,
                    MergedIs, [Next]_vars, Merged'
             PROVE  /\ run'.made.features = run'.config.features
                    /\ (run.merged = MergedForm(run.config.kind, TargetImage(run.config),
                          run.config.features,
                          IF UsesTarget THEN origin.hooks ELSE run.config.hooks,
                          origin.blind, run.source, run.made.source))'
                    /\ EditsReachTheImage'
  BY DEF MergedIs
<1>1. CASE ~Enrich
  <2>1. /\ Merged /\ run'.config = run.config /\ run'.merged = run.merged
        /\ run'.made = run.made /\ run'.source = run.source
        /\ run.touched \subseteq run'.touched /\ origin' = origin
    BY <1>1, MergedStays
  <2>2. QED
    BY <2>1 DEF MergedIs, UsesTarget, EditsReachTheImage, Outdated
<1>2. CASE Enrich
  <2> DEFINE c == run.config
             t == TargetImage(c)
  <2>0. /\ TypeOK /\ run \in Run /\ run.pc = "enrich" /\ c \in Config /\ c.kind = config.kind
        /\ run.cmd # "run"
    <3>1. run'.cmd = run.cmd
      BY <1>2, Proceeds DEF Proceed, Typed
    <3>2. QED
      BY <1>2, <3>1 DEF Typed, TypeOK, Enrich, Reads, Merged
  <2>1. /\ run'.config = c /\ run'.touched = run.touched
        /\ run'.merged = MergedConfig(c, t) /\ run'.source = PresentSource
        /\ run'.made = (IF t # None /\ Exists(t) THEN images[t].made ELSE None)
        /\ origin' = origin
    BY <1>2, <2>0 DEF Enrich, Run, history, PresentSource
  <2>2. Exists(t) /\ run'.made = images[t].made
    BY <2>1 DEF Merged
  <2>3. /\ UsesTarget <=> t = "target"
        /\ t \in {"source", "service", "target"}
        /\ t # "target" => c.features = None
    BY <2>0, TargetTyped, ModesAre DEF UsesTarget
  <2>4. UsesTarget => images["target"].key = run.key /\ run.key.features = c.features
                      /\ ("edit" \notin run.touched => run.key = ManagedImageKey(c, c))
    BY <2>0, <2>2, <2>3 DEF TargetKept, KeyIs, Planned
  <2>5. images[t].made.features = c.features
    BY <2>2, <2>3, <2>4, PulledIs DEF PlainImages, TargetImageIs, TargetIs
  <2>6. UsesTarget /\ origin.hooks # c.hooks =>
          c.kind \in {"context", "composeImage", "composeBuild"} \/ origin.edit
            \/ "edit" \in run.touched
    <3>1. SUFFICES ASSUME UsesTarget, c.kind \notin {"context", "composeImage", "composeBuild"},
                          ~origin.edit, "edit" \notin run.touched
                   PROVE  origin.hooks = c.hooks
      OBVIOUS
    <3>2. c.kind \in {"image", "dockerfile"}
      BY <2>0, <3>1, ModesAre DEF AllKinds
    <3>3. images["target"].key.hooks = origin.hooks
      BY <2>0, <2>2, <2>3, <3>1, <3>2 DEF TargetImageIs, TargetIs
    <3>4. images["target"].key.hooks = c.hooks
      BY <2>4, <3>1, <3>2 DEF ManagedImageKey
    <3>5. QED
      BY <3>3, <3>4
  <2>7. PICK m : m = MergedConfig(c, t)
    OBVIOUS
  <2>8. PICK s : s = PresentSource
    OBVIOUS
  <2>9. PICK h : h = IF UsesTarget THEN origin.hooks ELSE c.hooks
    OBVIOUS
  <2>10. PICK i : i = images[t].made
    OBVIOUS
  <2>11. PICK k : k = c
    OBVIOUS
  <2>12. PICK b : b = origin.blind
    OBVIOUS
  <2>13. m = MergedForm(k.kind, TargetImage(k), k.features, h, b, s, i.source)
    BY <2>0, <2>2, <2>3, <2>5, <2>7, <2>8, <2>9, <2>10, <2>11, <2>12, MergedNow
  <2>14. /\ run'.config = k /\ run'.merged = m /\ run'.source = s /\ run'.made = i
         /\ origin'.blind = b /\ (IF UsesTarget THEN origin.hooks ELSE run.config.hooks)' = h
         /\ i.features = k.features
    BY <2>1, <2>2, <2>5, <2>7, <2>8, <2>9, <2>10, <2>11, <2>12 DEF UsesTarget
  <2>15. EditsReachTheImage'
    BY <2>1, <2>6 DEF EditsReachTheImage, Outdated, UsesTarget
  <2>16. QED
    BY <2>13, <2>14, <2>15
<1>3. QED
  BY <1>1, <1>2

\* What is merged from stays where it is, unless something happens.
LEMMA StillThereStep ==
  /\ Typed /\ Reads /\ Paths /\ KeyIs /\ PlainImages /\ BaseIs /\ StillThere /\ [Next]_vars
  => StillThere'
<1> SUFFICES ASSUME Typed, Reads, Paths, KeyIs, PlainImages, BaseIs, StillThere, [Next]_vars
             PROVE  StillThere'
  OBVIOUS
<1>0. /\ TypeOK /\ run \in Run /\ run.cmd \in {"up", "build", "run"}
      /\ run.pc # "idle" => run.config \in Config
      /\ images \in [Tags -> Image \cup {None}] /\ upstream \in Versions
  BY RunTyped DEF Typed, TypeOK
<1>1. ASSUME run'.pc \notin {"enrich", "container"} PROVE StillThere'
  BY <1>1 DEF StillThere
<1>2. ASSUME run'.pc = "enrich", run'.config = run.config, Exists(TargetImage(run.config))'
      PROVE  StillThere'
  BY <1>2 DEF StillThere
<1>3. ASSUME NEW cmd \in {"up", "build", "run"}, Start(cmd) PROVE StillThere'
  BY <1>0, <1>3, Started DEF StillThere
<1>4. CASE Plan
  <2> DEFINE key == IF BuildMode(run.config) \in {"features", "build"}
                    THEN ManagedImageKey(run.config, config) ELSE None
             pc == IF Reusable(key) THEN "enrich" ELSE FirstStep(run.config)
  <2>1. run' = [run EXCEPT !.key = key, !.pc = pc] /\ run.pc = "plan" /\ images' = images
    BY <1>4 DEF Plan
  <2>2. FirstStep(run.config) \notin {"enrich", "container"}
    BY <1>0, <2>1, ModesAre DEF FirstStep
  <2>3. pc = "enrich" => TargetImage(run.config) = "target" /\ Exists("target")
    BY <1>0, <2>1, <2>2, ModesAre DEF Reusable
  <2>4. pc # "container"
    BY <2>2
  <2> HIDE DEF pc, key
  <2>5. run'.pc = pc /\ run'.config = run.config
    BY <1>0, <2>1 DEF Run
  <2>6. QED
    BY <1>1, <1>2, <2>1, <2>3, <2>4, <2>5 DEF Exists
<1>5. CASE PrepareSource
  <2>1. PICK trust, pc : /\ run' = [run EXCEPT !.trust = trust, !.pc = pc]
                         /\ pc = IF BuildMode(run.config) = "none" THEN "enrich" ELSE "target"
    BY <1>5, Zenon DEF PrepareSource
  <2>2. run'.pc = pc /\ run'.config = run.config /\ run.pc \in {"source", "verify"}
    BY <1>0, <1>5, <2>1 DEF Run, PrepareSource
  <2>3. CASE pc = "enrich"
    <3>1. BuildMode(run.config) = "none" /\ TargetImage(run.config) = "source" /\ run.pc = "source"
      BY <1>0, <2>1, <2>2, <2>3, ModesAre DEF Paths
    <3>2. images'["source"] # None
      <4>1. Pulled(upstream) # None
        BY <1>0, PulledTyped, NoneAssumption
      <4>2. QED
        BY <1>0, <1>5, <3>1, <4>1 DEF PrepareSource, Exists, Tags
    <3>3. QED
      BY <1>2, <2>2, <2>3, <3>1, <3>2 DEF Exists
  <2>4. QED
    BY <1>1, <2>1, <2>2, <2>3
<1>6. CASE BuildBase
  <2>1. /\ run'.pc = (IF BuildMode(run.config) = "features" THEN "target" ELSE "enrich")
        /\ run'.config = run.config /\ run.pc \in {"service", "base"}
    BY <1>0, <1>6 DEF BuildBase, Run
  <2>2. CASE run'.pc = "enrich"
    <3>1. run.pc = "service" /\ TargetImage(run.config) = "service"
      BY <1>0, <2>1, <2>2, ModesAre DEF Paths
    <3>2. images'["service"] = [label |-> Parent.label, key |-> None,
                                made |-> [Parent.made EXCEPT !.files = config.files]]
      BY <1>0, <1>6, <3>1 DEF BuildBase, Tags
    <3>3. images'["service"] \in Image
      <4>1. [Parent.made EXCEPT !.files = config.files] \in Made
        BY <1>0, ParentTyped DEF Made, TypeOK, Config
      <4>2. QED
        BY <1>0, <3>2, <4>1, ParentTyped DEF Image
    <3>4. QED
      BY <1>2, <2>1, <2>2, <3>1, <3>3, NoneAssumption DEF Exists
  <2>3. QED
    BY <1>1, <2>1, <2>2
<1>7. CASE BuildTarget
  <2>1. run'.pc = "enrich" /\ run'.config = run.config /\ TargetImage(run.config) = "target"
    BY <1>0, <1>7, ModesAre DEF BuildTarget, Run, Paths
  <2>2. QED
    BY <1>2, <1>7, <2>1, BuiltTarget DEF Exists
<1>8. CASE Enrich
  <2> DEFINE t == TargetImage(run.config)
  <2>1. /\ run.pc = "enrich" /\ run'.pc \in {"container", "finish", "observe"}
        /\ run'.cmd = run.cmd /\ run'.config = run.config /\ run'.touched = run.touched
        /\ images' = images /\ run'.source = PresentSource
        /\ run.cmd # "run" =>
             run'.made = (IF t # None /\ Exists(t) THEN images[t].made ELSE None)
    BY <1>0, <1>8 DEF Enrich, Run, PresentSource
  <2>2. t # None
    BY TargetTyped, NoneAssumption DEF Tags
  <2>3. PresentSource' = PresentSource
    BY <2>1 DEF PresentSource, Exists
  <2>4. QED
    BY <2>1, <2>2, <2>3 DEF StillThere, Exists
<1>9. CASE Observe \/ ReconcileContainer \/ Lifecycle \/ Finish
  BY <1>0, <1>1, <1>9 DEF Observe, ReconcileContainer, Lifecycle, Finish, Run
<1>10. CASE Fail
  BY <1>1, <1>10 DEF Fail, Nothing
<1>11. CASE WorldStep
  <2>1. PICK what \in {"edit", "event"} :
          Touched(what) /\ (what = "edit" => UNCHANGED <<upstream, images, container>>)
    BY <1>0, <1>11, WorldTouches
  <2>2. CASE what = "edit"
    BY <1>0, <2>1, <2>2, TouchedRun DEF StillThere, Exists, PresentSource
  <2>3. CASE what = "event" /\ Busy
    BY <1>0, <2>1, <2>3, TouchedRun DEF StillThere
  <2>4. CASE ~Busy
    BY <1>0, <1>1, <2>1, <2>4, TouchedRun DEF Busy, Idle
  <2>5. QED
    BY <2>2, <2>3, <2>4
<1>12. CASE UNCHANGED vars
  BY <1>12 DEF vars, StillThere, Exists, PresentSource
<1>13. QED
  BY <1>3, <1>4, <1>5, <1>6, <1>7, <1>8, <1>9, <1>10, <1>11, <1>12 DEF Next, CommandStep

-----------------------------------------------------------------------------
(* What is in the container. *)

\* Two lists make an empty one only if both are empty.
LEMMA EmptyConcat ==
  \A a, b \in Seq(Entry) : a \o b = << >> => a = << >> /\ b = << >>
<1>1. \A a, b \in Seq(Entry) : /\ Len(a \o b) = Len(a) + Len(b) /\ Len(a) \in Nat /\ Len(b) \in Nat
                               /\ (a # << >> => Len(a) # 0) /\ (b # << >> => Len(b) # 0)
  OBVIOUS
<1>2. Len(<< >>) = 0
  OBVIOUS
<1>3. QED
  BY <1>1, <1>2

\* A label is a list of entries.
LEMMA WrittenTyped ==
  ASSUME NEW kind, NEW f \in Features \cup {None}, NEW h \in Hooks \cup {None},
         NEW blind, NEW v
  PROVE  WrittenLabel(kind, f, h, blind, v) \in Seq(Entry)
<1> DEFINE said == FeaturesMetadata(f) \o ConfigMetadata(h)
           all == SourceMetadata(v) \o said
           some == << >> \o said
<1>1. FeaturesMetadata(f) \in Seq(Entry) /\ ConfigMetadata(h) \in Seq(Entry)
      /\ SourceMetadata(v) \in Seq(Entry)
  BY EntriesTyped
<1>2. said \in Seq(Entry)
  BY <1>1
<1>3. all \in Seq(Entry) /\ some \in Seq(Entry)
  <2> HIDE DEF said
  <2>1. \A a, b \in Seq(Entry) : a \o b \in Seq(Entry) /\ << >> \o b \in Seq(Entry)
    OBVIOUS
  <2>2. QED
    BY <1>1, <1>2, <2>1
<1>4. WrittenLabel(kind, f, h, blind, v) \in {all, some, SourceMetadata(v), said}
  BY DEF WrittenLabel
<1> HIDE DEF all, some, said
<1>5. QED
  BY <1>1, <1>2, <1>3, <1>4

\* What a container holds that is created from this image.
Holds(t, from, label, hooks) ==
  /\ from.made.features = IF t = "target" THEN run.key.features ELSE None
  /\ t = "target" /\ config.kind \in {"dockerfile", "context"} =>
       from.made.files = run.key.files \/ origin.edit
  /\ "event" \notin run.touched /\ (t = "target" => ~origin.blind) =>
       label = MergedForm(config.kind, t, from.made.features, hooks, FALSE,
                          run.source, from.made.source)

\* Up creates it from what it has merged.
LEMMA CreatedIs ==
  ASSUME Typed, Reads, Paths, KeyIs, PlainImages, TargetImageIs, TargetKept, MergedIs,
         StillThere, run.pc = "container",
         NEW t, t = TargetImage(run.config), t # "source" => Exists(t),
         NEW from, from = IF t = "source" THEN Parent ELSE images[t],
         NEW label, label = IF run.merged = << >> THEN from.label ELSE run.merged,
         NEW hooks, hooks = IF t = "target" THEN origin.hooks ELSE run.config.hooks
  PROVE  Holds(t, from, label, hooks)
<1> DEFINE c == run.config
<1>0. /\ TypeOK /\ run \in Run /\ c \in Config /\ c.kind = config.kind /\ run.cmd # "run"
      /\ run.merged \in Seq(Entry) /\ (~origin.blind => origin.blind = FALSE)
      /\ origin.hooks \in Hooks \cup {None} /\ c.hooks \in Hooks \cup {None}
  BY RunTyped DEF Typed, TypeOK, Reads, Paths, Config, Idle
<1>1. /\ t \in {"source", "service", "target"} /\ t # None /\ (UsesTarget <=> t = "target")
      /\ t # "target" => c.features = None
  BY <1>0, TargetTyped, ModesAre, NoneAssumption DEF UsesTarget, Tags
<1>2. t = "target" => /\ from = images["target"] /\ from.key = run.key /\ TargetIs(from)
                      /\ run.key.features = c.features
  BY <1>0, <1>1 DEF TargetKept, TargetImageIs, KeyIs, Planned
<1>3. t # "target" => /\ from.made.features = None
                      /\ from.label = SourceMetadata(from.made.source)
  BY <1>1, ParentIs DEF PlainImages
<1>4. ASSUME "event" \notin run.touched, t = "target" => ~origin.blind
      PROVE  label = MergedForm(config.kind, t, from.made.features, hooks, FALSE,
                                run.source, from.made.source)
  <2>1. Exists(t) /\ run.made = images[t].made /\ run.source = PresentSource
    BY <1>0, <1>4 DEF StillThere
  <2>2. from = images[t] /\ run.made = from.made
    BY <2>1 DEF Parent
  <2>3. run.made \in Made /\ run.made # None
    BY <1>0, <1>1, <2>1, ImageTyped, NoneAssumption DEF Tags
  <2>4. Merged
    BY <1>0, <2>3 DEF Merged
  <2>5. /\ from.made.features = c.features
        /\ run.merged = MergedForm(c.kind, t, c.features, hooks, origin.blind, run.source,
                                   from.made.source)
    BY <1>1, <2>2, <2>4 DEF MergedIs
  <2>6. PICK form : form = MergedForm(config.kind, t, from.made.features, hooks, FALSE,
                                      run.source, from.made.source)
    OBVIOUS
  <2>7. run.merged = form
    <3>1. CASE t = "target"
      <4>1. origin.blind = FALSE
        BY <1>0, <1>4, <3>1
      <4>2. QED
        BY <1>0, <2>5, <2>6, <4>1
    <3>2. CASE t # "target"
      BY <1>0, <2>5, <2>6, <3>2 DEF MergedForm
    <3>3. QED
      BY <3>1, <3>2
  <2>8. from.label = << >> \/ form # << >>
    <3>1. CASE t # "target"
      <4>1. form = SourceMetadata(from.made.source) \o ConfigMetadata(hooks)
        BY <2>6, <3>1 DEF MergedForm
      <4>2. SourceMetadata(from.made.source) \in Seq(Entry) /\ ConfigMetadata(hooks) \in Seq(Entry)
        BY <1>0, EntriesTyped
      <4>3. QED
        BY <1>3, <3>1, <4>1, <4>2, EmptyConcat
    <3>2. CASE t = "target"
      <4>1. PICK written : written = WrittenLabel(config.kind, from.made.features, hooks, FALSE,
                                                  from.made.source)
        OBVIOUS
      <4>2. from.label = written
        <5>1. origin.blind = FALSE /\ hooks = origin.hooks
          BY <1>0, <1>4, <3>2
        <5>2. QED
          BY <1>2, <3>2, <4>1, <5>1 DEF TargetIs
      <4>3. written \in Seq(Entry)
        BY <1>0, <2>5, <4>1, WrittenTyped DEF Config
      <4>4. PICK above \in Seq(Entry) :
              above = IF config.kind = "image" THEN SourceMetadata(run.source) ELSE << >>
        <5>1. << >> \in Seq(Entry)
          OBVIOUS
        <5>2. QED
          BY <5>1, EntriesTyped
      <4>5. form = above \o written
        BY <2>6, <3>2, <4>1, <4>4 DEF MergedForm
      <4>6. QED
        BY <4>2, <4>3, <4>5, EmptyConcat
    <3>3. QED
      BY <3>1, <3>2
  <2>9. QED
    BY <2>6, <2>7, <2>8
<1>5. t = "target" /\ config.kind \in {"dockerfile", "context"} =>
        from.made.files = run.key.files \/ origin.edit
  BY <1>2 DEF TargetIs
<1>6. from.made.features = IF t = "target" THEN run.key.features ELSE None
  BY <1>2, <1>3 DEF TargetIs
<1>7. QED
  BY <1>4, <1>5, <1>6 DEF Holds

\* Every step keeps ContainerIs.
LEMMA ContainerIsStep ==
  /\ Typed /\ Reads /\ Paths /\ KeyIs /\ PlainImages /\ TargetImageIs /\ TargetKept
  /\ MergedIs /\ StillThere /\ ContainerIs /\ [Next]_vars
  => ContainerIs'
<1> SUFFICES ASSUME Typed, Reads, Paths, KeyIs, PlainImages, TargetImageIs, TargetKept,
                    MergedIs, StillThere, ContainerIs, [Next]_vars
             PROVE  ContainerIs'
  OBVIOUS
<1>0. TypeOK /\ config'.kind = config.kind
  BY KindStays DEF Typed
<1>1. CASE container' = container
  BY <1>0, <1>1 DEF ContainerIs
<1>2. CASE ReconcileContainer /\ container' # container
  <2> DEFINE t == TargetImage(run.config)
             from == IF t = "source" THEN Parent ELSE images[t]
             label == IF run.merged = << >> THEN from.label ELSE run.merged
             hooks == IF t = "target" THEN origin.hooks ELSE run.config.hooks
             touched == run.touched \cup {w \in {"edit", "blind"} : t = "target" /\ origin[w]}
             made == [id |-> FreshId, key |-> DesiredContainerKey, made |-> from.made,
                      label |-> label, hooks |-> hooks, source |-> run.source, touched |-> touched]
  <2>1. run.pc = "container" /\ (t # "source" => Exists(t)) /\ container' = made
    BY <1>2, Zenon DEF ReconcileContainer
  <2>2. /\ container'.key = DesiredContainerKey /\ container'.made = from.made
        /\ container'.label = label /\ container'.hooks = hooks /\ container'.source = run.source
        /\ container'.touched = touched
    <3> HIDE DEF from, label, hooks, touched
    <3>1. QED
      BY <2>1
  <2>3. container'.key.tag = t /\ container'.key.key = run.key
    BY <2>2 DEF DesiredContainerKey
  <2>4. /\ "edit" \in touched <=> "edit" \in run.touched \/ (t = "target" /\ origin.edit)
        /\ "blind" \notin touched => (t = "target" => ~origin.blind)
        /\ "event" \in run.touched => "event" \in touched
    OBVIOUS
  <2>5. Holds(t, from, label, hooks)
    <3>1. PICK u, f, l, h : u = t /\ f = from /\ l = label /\ h = hooks
      OBVIOUS
    <3>2. /\ u = TargetImage(run.config) /\ (u # "source" => Exists(u))
          /\ f = (IF u = "source" THEN Parent ELSE images[u])
          /\ l = (IF run.merged = << >> THEN f.label ELSE run.merged)
          /\ h = (IF u = "target" THEN origin.hooks ELSE run.config.hooks)
      BY <2>1, <3>1
    <3> HIDE DEF t, from, label, hooks
    <3>3. Holds(u, f, l, h)
      BY <2>1, <3>2, CreatedIs
    <3>4. QED
      BY <3>1, <3>3
  <2> HIDE DEF made, touched, label, hooks, from, t
  <2>6. PICK u, f, l, h, s, k, a, r :
          /\ u = t /\ f = from /\ l = label /\ h = hooks /\ s = touched /\ k = config.kind
          /\ a = run.key /\ r = run.source
    OBVIOUS
  <2>7. /\ f.made.features = IF u = "target" THEN a.features ELSE None
        /\ u = "target" /\ k \in {"dockerfile", "context"} => f.made.files = a.files \/ "edit" \in s
        /\ s \cap {"event", "blind"} = {} =>
             l = MergedForm(k, u, f.made.features, h, FALSE, r, f.made.source)
    BY <2>4, <2>5, <2>6 DEF Holds
  <2>8. /\ container'.key.tag = u /\ container'.key.key = a /\ container'.made = f.made
        /\ container'.label = l /\ container'.hooks = h /\ container'.source = r
        /\ container'.touched = s /\ config'.kind = k
    BY <1>0, <2>2, <2>3, <2>6
  <2>9. QED
    BY <2>7, <2>8 DEF ContainerIs
<1>3. CASE ReplaceContainer
  <2>1. container' = None \/ container'.key = None
    BY <1>3 DEF ReplaceContainer
  <2>2. QED
    BY <2>1 DEF ContainerIs
<1>4. ReconcileContainer \/ ReplaceContainer \/ container' = container
  <2>1. ASSUME NEW cmd \in {"up", "build", "run"}, Start(cmd) PROVE container' = container
    BY <2>1 DEF Start
  <2>2. CASE Proceed
    BY <1>0, <2>2, Proceeds
  <2>3. CASE Fail \/ Edit \/ Publish \/ RemoveImage
    BY <2>3 DEF Fail, Edit, Publish, RemoveImage
  <2>4. CASE UNCHANGED vars
    BY <2>4 DEF vars
  <2>5. QED
    BY <2>1, <2>2, <2>3, <2>4 DEF Next, CommandStep, WorldStep, Proceed
<1>5. QED
  BY <1>1, <1>2, <1>3, <1>4

\* The container that up finds or creates, and what it notes of it.
LEMMA ReconcileIs ==
  ASSUME Typed, ReconcileContainer
  PROVE  /\ container' # None /\ container'.key = DesiredContainerKey
         /\ run'.tracker.id = container'.id /\ run'.tracker.key = DesiredContainerKey
         /\ ~run.recreate /\ container # None /\ container.key = DesiredContainerKey =>
              /\ container' = container /\ run'.created = FALSE
              /\ run'.tracker.lifecycle = run.tracker.lifecycle
         /\ run.pc = "container" /\ run'.pc = "lifecycle"
         /\ Exists(TargetImage(run.config)) => images' = images
<1> DEFINE key == DesiredContainerKey
           t == TargetImage(run.config)
           seen == run.tracker.id
           kept == ~run.recreate /\ container # None /\ container.key = key
           from == IF t = "source" THEN Parent ELSE images[t]
           label == IF run.merged = << >> THEN from.label ELSE run.merged
           hooks == IF t = "target" THEN origin.hooks ELSE run.config.hooks
           touched == run.touched \cup {w \in {"edit", "blind"} : t = "target" /\ origin[w]}
           made == [id |-> FreshId, key |-> key, made |-> from.made, label |-> label,
                    hooks |-> hooks, source |-> run.source, touched |-> touched]
           id == IF kept THEN seen ELSE FreshId
           tracker == ApplyContainer(run.tracker, id, key, ~kept)
<1>1. /\ run.pc = "container" /\ (seen = None) = (container = None)
      /\ seen # None => container.id = seen
      /\ kept => container' = container
      /\ ~kept => (t # "source" => Exists(t)) /\ container' = made
      /\ state' = tracker
      /\ run' = [run EXCEPT !.tracker = tracker, !.created = ~kept, !.pc = "lifecycle"]
      /\ images' = IF ~kept /\ t = "source" THEN [images EXCEPT ![t] = from] ELSE images
  BY Zenon DEF ReconcileContainer
<1>2. /\ TypeOK /\ run \in Run /\ run.config \in Config /\ run.tracker \in State
      /\ run.merged \in Seq(Entry) /\ run.source \in Versions \cup {None}
      /\ run.touched \subseteq {"edit", "event"} /\ run.key \in Key \cup {None}
      /\ origin.hooks \in Hooks \cup {None} /\ run.config.hooks \in Hooks \cup {None}
      /\ images \in [Tags -> Image \cup {None}]
  BY <1>1, RunTyped DEF Typed, TypeOK, Config
<1>3. t \in {"source", "service", "target"}
  BY TargetTyped
<1>4. key \in Identity
  <2>1. Settings(run.merged) \in SettingsOf
    BY <1>2, SettingsTyped
  <2>2. QED
    BY <1>2, <1>3, <2>1 DEF DesiredContainerKey, Identity, SettingsOf, Tags
<1>5. ~kept => made \in Container
  <2>1. SUFFICES ASSUME ~kept PROVE made \in Container
    OBVIOUS
  <2>2. from \in Image
    BY <1>1, <1>2, <1>3, <2>1, ParentTyped, ImageTyped DEF Tags
  <2>3. label \in Seq(Entry) /\ from.made \in Made
    BY <1>2, <2>2 DEF Image
  <2>4. touched \subseteq {"edit", "event", "blind"} /\ hooks \in Hooks \cup {None}
    BY <1>2
  <2> HIDE DEF label, from, touched, hooks, key
  <2>5. QED
    BY <1>2, <1>4, <2>3, <2>4, FreshTyped DEF Container
<1>6. container' # None
  BY <1>1, <1>5, NoneAssumption
<1>7. /\ tracker.id = id /\ tracker.key = key
      /\ kept => tracker.lifecycle = run.tracker.lifecycle
  <2> HIDE DEF id, key, kept
  <2>1. QED
    BY <1>2 DEF State, ApplyContainer
<1>8. ~kept => /\ made.id = FreshId /\ made.key = key
  OBVIOUS
<1>9. run'.tracker = tracker /\ run'.created = ~kept /\ run'.pc = "lifecycle"
  <2> HIDE DEF tracker, kept
  <2>1. QED
    BY <1>1, <1>2 DEF Run
<1>10. container'.key = key /\ container'.id = id
  BY <1>1, <1>8
<1>11. Exists(t) => images' = images
  <2>1. Exists(t) /\ t = "source" => from = images[t]
    BY DEF Parent
  <2>2. QED
    BY <1>1, <1>2, <1>3, <2>1 DEF Tags
<1> HIDE DEF tracker, id, made
<1>12. QED
  BY <1>1, <1>6, <1>7, <1>9, <1>10, <1>11

-----------------------------------------------------------------------------
(* The world as an up leaves it. *)

\* What the images say stays the same when they do.
LEMMA SameImages ==
  ASSUME images' = images, config' = config, upstream' = upstream
  PROVE  /\ CalmImages => CalmImages'
         /\ KeyNow' = KeyNow /\ PresentSource' = PresentSource
         /\ MergedConfig(config, TargetImage(config))' = MergedConfig(config, TargetImage(config))
         /\ (images[TargetImage(config)].made)' = images[TargetImage(config)].made
<1>1. KeyNow' = KeyNow
  BY DEF KeyNow, TargetImage, BuildMode, ManagedImageKey, Compose
<1>2. PresentSource' = PresentSource
  BY DEF PresentSource, Exists
<1>3. TargetImage(config)' = TargetImage(config)
  BY DEF TargetImage, BuildMode
<1>4. ServiceNow' = ServiceNow
  BY DEF ServiceNow, Parent, Exists
<1>5. MergedConfig(config, TargetImage(config))' = MergedConfig(config, TargetImage(config))
  BY <1>3 DEF MergedConfig, WithSourceMetadata, Label, Exists
<1>6. (images[TargetImage(config)].made)' = images[TargetImage(config)].made
  BY <1>3
<1>7. CalmImages => CalmImages'
  BY <1>1, <1>3, <1>4 DEF CalmImages, Exists
<1>8. QED
  BY <1>1, <1>2, <1>5, <1>6, <1>7

\* A step that leaves the images, the configuration, the container and what the
\* state file says of it alone, leaves a calm world calm.
LEMMA CalmStays ==
  ASSUME images' = images, config' = config, upstream' = upstream, container' = container,
         state'.id = state.id, state'.key = state.key, state'.lifecycle = state.lifecycle
  PROVE  /\ settled' = settled /\ Calm(settled) => Calm(settled)'
         /\ run'.before = run.before /\ Calm(run.before) => Calm(run.before)'
         /\ run'.before = settled /\ Calm(settled) => Calm(run.before)'
<1>1. /\ CalmImages => CalmImages'
      /\ KeyNow' = KeyNow /\ PresentSource' = PresentSource
      /\ MergedConfig(config, TargetImage(config))' = MergedConfig(config, TargetImage(config))
      /\ (images[TargetImage(config)].made)' = images[TargetImage(config)].made
  BY SameImages
<1>2. TargetImage(config)' = TargetImage(config)
  BY DEF TargetImage, BuildMode
<1>3. QED
  BY <1>1, <1>2 DEF Calm, CalmMerged, CalmContainer, CalmState

\* The step of a command that has read its configuration and that nothing has
\* touched.
LEMMA Undisturbed ==
  ASSUME Typed, Reads, Paths, KeyIs, Proceed, run.touched = {}
  PROVE  /\ run.config = config /\ config \in Config /\ run.pc # "idle"
         /\ Planned => run.key = KeyNow
<1>1. run.config = config /\ config \in Config /\ run.pc # "idle"
  BY Proceeds DEF Typed, TypeOK, Reads, Busy, Idle
<1>2. Planned => run.key = KeyNow
  BY <1>1 DEF KeyIs, KeyNow, UsesTarget
<1>3. QED
  BY <1>1, <1>2

\* Nothing is pulled or built in a calm world.
LEMMA NothingToBuild ==
  ASSUME Typed, Reads, Paths, KeyIs, Proceed, run.touched = {}, CalmImages,
         run.pc \in Ways => ~UsesTarget, run.cmd # "run"
  PROVE  /\ images' = images
         /\ run'.pc \in Ways => ~UsesTarget'
<1>0. /\ TypeOK /\ run \in Run /\ images \in [Tags -> Image \cup {None}]
      /\ run.config = config /\ config \in Config
  BY Undisturbed DEF Typed, TypeOK
<1>1. /\ TargetImage(config) = "target" <=> BuildMode(config) \in {"features", "build"}
      /\ TargetImage(config) = "source" <=> BuildMode(config) = "none"
      /\ TargetImage(config) = "service" <=> BuildMode(config) = "project"
      /\ BuildMode(config) \in {"features", "none", "project", "build"}
  BY <1>0, ModesAre
<1>2. run'.config = run.config /\ UsesTarget' = UsesTarget
  BY <1>0, Proceeds DEF UsesTarget
<1>3. CASE Plan
  <2> DEFINE key == IF BuildMode(run.config) \in {"features", "build"}
                    THEN ManagedImageKey(run.config, config) ELSE None
             pc == IF Reusable(key) THEN "enrich" ELSE FirstStep(run.config)
  <2>1. run' = [run EXCEPT !.key = key, !.pc = pc] /\ images' = images
    BY <1>3 DEF Plan
  <2>2. UsesTarget => pc = "enrich"
    <3>1. SUFFICES ASSUME UsesTarget PROVE Reusable(key)
      OBVIOUS
    <3>2. TargetImage(config) = "target" /\ Exists("target") /\ images["target"].key = KeyNow
      BY <1>0, <3>1 DEF UsesTarget, CalmImages
    <3>3. key = ManagedImageKey(config, config) /\ KeyNow = ManagedImageKey(config, config)
      BY <1>0, <1>1, <3>2 DEF KeyNow
    <3>4. key # None
      <4>1. ManagedImageKey(config, config) \in Key
        BY <1>0, KeyTyped
      <4>2. QED
        BY <3>3, <4>1, NoneAssumption
    <3>5. QED
      BY <3>2, <3>3, <3>4 DEF Reusable
  <2> HIDE DEF key, pc
  <2>3. run'.pc = pc
    BY <1>0, <2>1 DEF Run
  <2>4. QED
    BY <1>2, <2>1, <2>2, <2>3 DEF Ways
<1>4. CASE PrepareSource
  <2>1. run.pc \in {"source", "verify"} /\ ~UsesTarget
    BY <1>4 DEF PrepareSource, Ways
  <2>2. run.pc = "source" /\ TargetImage(config) = "source"
    BY <1>0, <1>1, <2>1, ModesAre DEF Paths, UsesTarget
  <2>3. images' = images
    BY <1>4, <2>2 DEF PrepareSource, CalmImages
  <2>4. QED
    BY <1>2, <2>1, <2>3
<1>5. CASE BuildBase
  <2>1. run.pc \in {"service", "base"} /\ ~UsesTarget
    BY <1>5 DEF BuildBase, Ways
  <2>2. run.pc = "service" /\ TargetImage(config) = "service"
    BY <1>0, <1>1, <2>1, ModesAre DEF Paths, UsesTarget
  <2>3. images' = [images EXCEPT !["service"] = ServiceNow]
    BY <1>5, <2>2 DEF BuildBase, ServiceNow
  <2>4. images["service"] = ServiceNow
    BY <2>2 DEF CalmImages
  <2>5. images' = images
    BY <1>0, <2>3, <2>4
  <2>6. QED
    BY <1>2, <2>1, <2>5
<1>6. CASE BuildTarget
  BY <1>0, <1>1, <1>6 DEF BuildTarget, Ways, Paths, UsesTarget
<1>7. CASE ReconcileContainer
  <2>1. images' = images /\ run'.pc = "lifecycle"
    BY <1>0, <1>7, ReconcileIs DEF CalmImages
  <2>2. QED
    BY <2>1 DEF Ways
<1>8. CASE Observe
  BY <1>0, <1>8 DEF Observe, Run, Ways
<1>9. CASE Enrich
  BY <1>0, <1>9, RunTyped DEF Enrich, Run, Ways
<1>10. CASE Lifecycle \/ Finish
  BY <1>0, <1>10 DEF Lifecycle, Finish, Run, Ways
<1>11. QED
  BY <1>3, <1>4, <1>5, <1>6, <1>7, <1>8, <1>9, <1>10 DEF Proceed

\* Every step keeps Leaving: an undisturbed command builds, merges and creates
\* what it would build, merge and create again.
LEMMA LeavingStep ==
  /\ Typed /\ Reads /\ Paths /\ KeyIs /\ PlainImages /\ BaseIs /\ Leaving /\ [Next]_vars
  => Leaving'
<1> SUFFICES ASSUME Typed, Reads, Paths, KeyIs, PlainImages, BaseIs, Leaving, [Next]_vars
             PROVE  Leaving'
  OBVIOUS
<1>0. /\ TypeOK /\ run \in Run /\ run.cmd \in {"up", "build", "run"}
      /\ images \in [Tags -> Image \cup {None}]
  BY RunTyped DEF Typed, TypeOK
<1>1. ASSUME run'.pc \notin {"enrich", "container", "lifecycle", "finish"} PROVE Leaving'
  BY <1>1 DEF Leaving
<1>2. ASSUME NEW cmd \in {"up", "build", "run"}, Start(cmd) PROVE Leaving'
  BY <1>0, <1>2, Started DEF Leaving
<1>3. CASE Proceed /\ run.touched = {} /\ run.cmd # "run"
  <2>0. /\ run.config = config /\ config \in Config /\ (Planned => run.key = KeyNow)
        /\ config' = config /\ upstream' = upstream /\ run'.cmd = run.cmd
        /\ run'.config = run.config
    BY <1>0, <1>3, Undisturbed, Proceeds
  <2>1. ASSUME run'.pc = "enrich", CalmImages' PROVE Leaving'
    BY <2>1 DEF Leaving
  <2>2. CASE Observe
    BY <1>0, <1>1, <1>3, <2>2 DEF Observe, Run
  <2>3. CASE Plan
    <3> DEFINE key == IF BuildMode(run.config) \in {"features", "build"}
                      THEN ManagedImageKey(run.config, config) ELSE None
               pc == IF Reusable(key) THEN "enrich" ELSE FirstStep(run.config)
    <3>1. run' = [run EXCEPT !.key = key, !.pc = pc] /\ images' = images
      BY <2>3 DEF Plan
    <3>2. FirstStep(run.config) \in Ways
      BY <2>0, ModesAre DEF FirstStep, Ways
    <3>3. pc = "enrich" => CalmImages
      <4>1. SUFFICES ASSUME pc = "enrich" PROVE CalmImages
        OBVIOUS
      <4>2. Reusable(key)
        BY <3>2, <4>1 DEF Ways
      <4>3. TargetImage(config) = "target" /\ key = KeyNow
        BY <2>0, <4>2, ModesAre DEF Reusable, KeyNow
      <4>4. QED
        BY <4>2, <4>3 DEF Reusable, CalmImages
    <3>4. pc \in Ways \cup {"enrich"}
      BY <3>2
    <3> HIDE DEF key, pc
    <3>5. run'.pc = pc
      BY <1>0, <3>1 DEF Run
    <3>6. pc = "enrich" => CalmImages'
      BY <2>0, <3>1, <3>3, SameImages
    <3>7. QED
      BY <1>1, <2>1, <3>4, <3>5, <3>6 DEF Ways
  <2>4. CASE PrepareSource
    <3>1. PICK trust, pc : /\ run' = [run EXCEPT !.trust = trust, !.pc = pc]
                           /\ pc = IF BuildMode(run.config) = "none" THEN "enrich" ELSE "target"
      BY <2>4, Zenon DEF PrepareSource
    <3>2. run'.pc = pc
      BY <1>0, <3>1 DEF Run
    <3>3. CASE pc = "enrich"
      <4>1. TargetImage(config) = "source" /\ run.pc = "source"
        BY <2>0, <2>4, <3>1, <3>3, ModesAre DEF PrepareSource, Paths
      <4>2. images'["source"] # None
        <5>1. Pulled(upstream) # None
          BY <1>0, PulledTyped, NoneAssumption DEF TypeOK
        <5>2. QED
          BY <1>0, <2>4, <4>1, <5>1 DEF PrepareSource, Exists, Tags
      <4>3. TargetImage(config)' = "source"
        BY <2>0, <4>1 DEF TargetImage, BuildMode
      <4>4. CalmImages'
        BY <4>2, <4>3 DEF CalmImages, Exists
      <4>5. QED
        BY <2>1, <3>2, <3>3, <4>4
    <3>4. QED
      BY <1>1, <3>1, <3>2, <3>3
  <2>5. CASE BuildBase
    <3>1. /\ run'.pc = (IF BuildMode(run.config) = "features" THEN "target" ELSE "enrich")
          /\ run.pc \in {"service", "base"}
      BY <1>0, <2>5 DEF BuildBase, Run
    <3>2. CASE run'.pc = "enrich"
      <4>1. run.pc = "service" /\ TargetImage(config) = "service"
        BY <2>0, <3>1, <3>2, ModesAre DEF Paths
      <4>2. images' = [images EXCEPT !["service"] = ServiceNow]
        BY <2>5, <4>1 DEF BuildBase, ServiceNow
      <4>3. images'["source"] = images["source"] /\ images'["service"] = ServiceNow
        BY <1>0, <4>2 DEF Tags
      <4>4. ServiceNow' = ServiceNow
        BY <2>0, <4>3 DEF ServiceNow, Parent, Exists
      <4>5. ServiceNow # None
        <5>1. [Parent.made EXCEPT !.files = config.files] \in Made
          BY <1>0, <2>0, ParentTyped DEF Made, Config
        <5>2. ServiceNow \in Image
          BY <1>0, <5>1, ParentTyped DEF Image, ServiceNow
        <5>3. QED
          BY <5>2, NoneAssumption
      <4>6. TargetImage(config)' = "service"
        BY <2>0, <4>1 DEF TargetImage, BuildMode
      <4>7. CalmImages'
        BY <4>3, <4>4, <4>5, <4>6 DEF CalmImages, Exists
      <4>8. QED
        BY <2>1, <3>2, <4>7
    <3>3. QED
      BY <1>1, <3>1, <3>2
  <2>6. CASE BuildTarget
    <3>1. run'.pc = "enrich" /\ TargetImage(config) = "target" /\ Planned
      BY <1>0, <1>3, <2>0, <2>6, ModesAre DEF BuildTarget, Run, Paths, Planned
    <3>2. images'["target"] # None /\ images'["target"].key = KeyNow
      BY <2>0, <2>6, <3>1, BuiltTarget
    <3>3. TargetImage(config)' = "target" /\ KeyNow' = KeyNow
      BY <2>0, <3>1 DEF TargetImage, BuildMode, KeyNow, ManagedImageKey, Compose
    <3>4. CalmImages'
      BY <3>2, <3>3 DEF CalmImages, Exists
    <3>5. QED
      BY <2>1, <3>1, <3>4
  <2>7. CASE Enrich
    <3>1. /\ run.pc = "enrich" /\ images' = images
          /\ run'.pc = (IF run.cmd = "up" THEN "container" ELSE "finish")
          /\ run'.merged = MergedConfig(config, TargetImage(config))
          /\ run'.made = (IF TargetImage(config) # None /\ Exists(TargetImage(config))
                          THEN images[TargetImage(config)].made ELSE None)
          /\ run'.source = PresentSource
      BY <1>0, <1>3, <2>0, <2>7 DEF Enrich, Run, PresentSource
    <3>2. CalmImages /\ TargetImage(config) # None
      BY <1>3, <3>1, TargetTyped, NoneAssumption DEF Leaving, Tags
    <3>3. /\ CalmImages'
          /\ run'.merged = MergedConfig(config, TargetImage(config))'
          /\ run'.made = (images[TargetImage(config)].made)' /\ run'.source = PresentSource'
      BY <2>0, <3>1, <3>2, SameImages DEF CalmImages
    <3>4. QED
      BY <1>0, <2>0, <3>1, <3>3 DEF Leaving, CalmMerged
  <2>8. CASE ReconcileContainer
    <3>1. /\ run.pc = "container" /\ run'.pc = "lifecycle" /\ run.cmd = "up"
          /\ CalmImages /\ CalmMerged(run.merged, run.made, run.source)
          /\ images' = images
          /\ run'.merged = run.merged /\ run'.made = run.made /\ run'.source = run.source
      BY <1>0, <1>3, <2>0, <2>8, ReconcileIs, Proceeds DEF Leaving, Paths, CalmImages, Enrich
    <3>2. CalmImages' /\ CalmMerged(run.merged, run.made, run.source)'
      BY <2>0, <3>1, SameImages DEF CalmMerged
    <3>3. /\ container' # None /\ run'.tracker.id = container'.id
          /\ run'.tracker.key = container'.key
          /\ container'.key = [tag |-> TargetImage(config), key |-> KeyNow,
                               mount |-> Settings(run.merged).mount,
                               privileges |-> Settings(run.merged).privileges]
      <4>1. Planned
        BY <1>3, <3>1 DEF Planned
      <4>2. QED
        BY <2>0, <2>8, <4>1, ReconcileIs DEF DesiredContainerKey
    <3>4. PICK m, tag, k : m = run.merged /\ tag = TargetImage(config) /\ k = KeyNow
      OBVIOUS
    <3>5. run'.merged = m /\ TargetImage(config)' = tag /\ KeyNow' = k
      BY <2>0, <3>1, <3>4, SameImages DEF TargetImage, BuildMode
    <3>6. container'.key = [tag |-> tag, key |-> k, mount |-> Settings(m).mount,
                            privileges |-> Settings(m).privileges]
      BY <3>3, <3>4
    <3>7. CalmContainer(run.merged)'
      <4>1. CalmContainer(m)'
        BY <3>3, <3>5, <3>6 DEF CalmContainer
      <4>2. QED
        BY <3>3, <3>5, <3>6, <4>1 DEF CalmContainer
    <3>8. QED
      BY <3>1, <3>2, <3>3, <3>7 DEF Leaving
  <2>9. CASE Lifecycle
    <3> DEFINE s == [run.tracker EXCEPT !.lifecycle = DesiredLifecycleKey]
    <3>1. /\ run.pc = "lifecycle" /\ run'.pc = "finish" /\ run.cmd = "up"
          /\ run'.tracker = s
          /\ images' = images /\ container' = container /\ run'.merged = run.merged
          /\ run'.made = run.made /\ run'.source = run.source
      <4>1. PICK ran : run' = [run EXCEPT !.tracker = s, !.ran = ran, !.pc = "finish"]
        BY <1>3, <2>9 DEF Lifecycle
      <4> HIDE DEF s
      <4>2. QED
        BY <1>0, <1>3, <2>9, <4>1 DEF Lifecycle, Run, Paths
    <3>2. /\ CalmImages /\ CalmMerged(run.merged, run.made, run.source)
          /\ CalmContainer(run.merged)
          /\ run.tracker.id = container.id /\ run.tracker.key = container.key
      BY <1>3, <3>1 DEF Leaving
    <3>3. /\ s.id = run.tracker.id /\ s.key = run.tracker.key
          /\ s.lifecycle = [container |-> container.key, commands |-> Commands(run.merged)]
      BY <1>0, <3>2, RunTyped DEF State, DesiredLifecycleKey
    <3>4. CalmImages' /\ CalmMerged(run.merged, run.made, run.source)'
      BY <2>0, <3>1, <3>2, SameImages DEF CalmMerged
    <3>5. CalmContainer(run.merged)'
      BY <2>0, <3>1, <3>2, SameImages DEF CalmContainer, TargetImage, BuildMode
    <3>6. CalmState(run.tracker, run.merged)'
      BY <3>1, <3>2, <3>3 DEF CalmState, Commands
    <3>7. QED
      BY <1>3, <3>1, <3>2, <3>3, <3>4, <3>5, <3>6 DEF Leaving
  <2>10. CASE Finish
    BY <1>0, <1>1, <2>10 DEF Finish, Run
  <2>11. QED
    BY <1>3, <2>2, <2>3, <2>4, <2>5, <2>6, <2>7, <2>8, <2>9, <2>10 DEF Proceed
<1>4. CASE Proceed /\ (run.touched # {} \/ run.cmd = "run")
  BY <1>0, <1>4, Proceeds DEF Leaving
<1>5. CASE Fail
  BY <1>1, <1>5 DEF Fail, Nothing
<1>6. CASE WorldStep
  <2>1. PICK what \in {"edit", "event"} : Touched(what)
    BY <1>0, <1>6, WorldTouches
  <2>2. CASE Busy
    BY <1>0, <2>1, <2>2, TouchedRun DEF Leaving
  <2>3. CASE ~Busy
    BY <1>0, <1>1, <2>1, <2>3, TouchedRun DEF Busy, Idle
  <2>4. QED
    BY <2>2, <2>3
<1>7. CASE UNCHANGED vars
  BY <1>7, SameImages DEF vars, Leaving, CalmMerged, CalmContainer, CalmState,
     TargetImage, BuildMode
<1>8. QED
  BY <1>2, <1>3, <1>4, <1>5, <1>6, <1>7 DEF Next, CommandStep, Proceed

\* Every step keeps Standing: a build changes nothing in a calm world, and an up
\* that ends well leaves one behind.
LEMMA StandingStep ==
  /\ Typed /\ Reads /\ Paths /\ KeyIs /\ Leaving /\ Standing /\ [Next]_vars
  => Standing'
<1> SUFFICES ASSUME Typed, Reads, Paths, KeyIs, Leaving, Standing, [Next]_vars,
                    settled' # None
             PROVE  /\ Calm(settled)'
                    /\ Busy' => /\ run'.cmd = "build" /\ run'.touched = {}
                                /\ run'.pc \in Ways => ~UsesTarget'
  BY DEF Standing
<1>0. TypeOK /\ run \in Run /\ run.cmd \in {"up", "build", "run"} /\ state \in State
  BY RunTyped DEF Typed, TypeOK
<1>1. ASSUME NEW cmd \in {"up", "build", "run"}, Start(cmd)
      PROVE  Calm(settled)' /\ run'.cmd = "build" /\ run'.touched = {} /\ run'.pc \notin Ways
  <2>1. settled' = settled /\ cmd = "build" /\ Calm(settled)
    BY <1>0, <1>1, Started DEF Standing
  <2>2. UNCHANGED <<config, upstream, images, container, state>>
    BY <1>0, <1>1, Started
  <2>3. Calm(settled)'
    BY <2>1, <2>2, CalmStays
  <2>4. QED
    BY <1>0, <1>1, <2>1, <2>3, Started DEF Ways
<1>2. CASE Proceed /\ ~Finish
  <2>1. /\ settled' = settled /\ settled # None /\ Busy
        /\ config' = config /\ upstream' = upstream
    BY <1>0, <1>2, Proceeds
  <2>2. /\ Calm(settled) /\ run.cmd = "build" /\ run.touched = {}
        /\ run.pc \in Ways => ~UsesTarget
    BY <2>1 DEF Standing
  <2>3. images' = images /\ (run'.pc \in Ways => ~UsesTarget')
    BY <1>2, <2>2, NothingToBuild DEF Calm
  <2>4. ~ReconcileContainer /\ ~Lifecycle
    BY <2>2 DEF Paths, ReconcileContainer, Lifecycle
  <2>5. container' = container /\ state' = state /\ run'.cmd = "build" /\ run'.touched = {}
    BY <1>0, <1>2, <2>2, <2>4, Proceeds
  <2>6. Calm(settled)'
    BY <2>1, <2>2, <2>3, <2>5, CalmStays
  <2>7. QED
    BY <2>3, <2>5, <2>6
<1>3. CASE Finish
  <2>1. /\ run'.pc = "done" /\ run.pc = "finish"
        /\ UNCHANGED <<config, upstream, images, container>>
    BY <1>0, <1>3 DEF Finish, Run
  <2>2. ~Busy'
    BY <2>1 DEF Busy, Idle
  <2>3. CASE run.cmd = "build"
    <3>1. settled' = settled /\ Calm(settled)
      BY <1>3, <2>3 DEF Finish, Standing
    <3>2. state' = [state EXCEPT !.trusted = run.trust]
      BY <1>3, <2>3 DEF Finish, Persisted
    <3>3. state'.id = state.id /\ state'.key = state.key /\ state'.lifecycle = state.lifecycle
      BY <1>0, <3>2 DEF State
    <3>4. Calm(settled)'
      BY <2>1, <3>1, <3>3, CalmStays
    <3>5. QED
      BY <2>2, <3>4
  <2>4. CASE run.cmd # "build"
    <3>1. run.cmd = "up" /\ run.touched = {}
      BY <1>0, <1>3, <2>1, <2>4 DEF Finish, Paths, Idle
    <3>2. settled' = [merged |-> run.merged, made |-> run.made, source |-> run.source]
      BY <1>3, <3>1 DEF Finish
    <3>3. settled'.merged = run.merged /\ settled'.made = run.made /\ settled'.source = run.source
      BY <3>2
    <3>4. /\ CalmImages /\ CalmMerged(run.merged, run.made, run.source)
          /\ CalmContainer(run.merged) /\ CalmState(run.tracker, run.merged)
      BY <2>1, <3>1 DEF Leaving
    <3>5. state' = [run.tracker EXCEPT !.trusted = run.trust]
      BY <1>3, <3>1 DEF Finish, Persisted
    <3>6. /\ state'.id = run.tracker.id /\ state'.key = run.tracker.key
          /\ state'.lifecycle = run.tracker.lifecycle
      BY <1>0, <3>5, RunTyped DEF State
    <3>7. TargetImage(config)' = TargetImage(config)
      BY <2>1 DEF TargetImage, BuildMode
    <3>8. CalmImages'
      BY <2>1, <3>4, SameImages
    <3>9. CalmMerged(settled.merged, settled.made, settled.source)'
      BY <2>1, <3>3, <3>4, SameImages DEF CalmMerged
    <3>10. CalmContainer(settled.merged)'
      BY <2>1, <3>3, <3>4, <3>7, SameImages DEF CalmContainer
    <3>11. CalmState(state, settled.merged)'
      BY <2>1, <3>3, <3>4, <3>6 DEF CalmState, Commands
    <3>12. Calm(settled)'
      BY <3>8, <3>9, <3>10, <3>11 DEF Calm
    <3>13. QED
      BY <2>2, <3>12
  <2>5. QED
    BY <2>3, <2>4
<1>4. CASE Fail
  BY <1>4 DEF Fail
<1>5. CASE WorldStep
  BY <1>0, <1>5, WorldTouches DEF Touched
<1>6. CASE UNCHANGED vars
  <2>1. UNCHANGED <<config, upstream, images, container, state, settled, run>>
    BY <1>6 DEF vars, history
  <2>2. Calm(settled)'
    BY <2>1, CalmStays DEF Standing
  <2>3. QED
    BY <2>1, <2>2 DEF Standing, Busy, UsesTarget
<1>7. QED
  BY <1>1, <1>2, <1>3, <1>4, <1>5, <1>6 DEF Next, CommandStep, Proceed

\* Every step keeps Returning: an up finds the container that it would create.
LEMMA ReturningStep ==
  /\ Typed /\ Reads /\ Paths /\ KeyIs /\ Leaving /\ Standing /\ Returning /\ [Next]_vars
  => Returning'
<1> SUFFICES ASSUME Typed, Reads, Paths, KeyIs, Leaving, Standing, Returning, [Next]_vars
             PROVE  Returning'
  OBVIOUS
<1>0. TypeOK /\ run \in Run /\ run.cmd \in {"up", "build", "run"} /\ state \in State
  BY RunTyped DEF Typed, TypeOK
<1>1. ASSUME NEW cmd \in {"up", "build", "run"}, Start(cmd) PROVE Returning'
  <2>1. CASE cmd = "up" /\ settled # None
    <3>1. run'.pc = "observe" /\ run'.before = settled
      BY <1>0, <1>1, <2>1, Started
    <3>2. Calm(settled) /\ UNCHANGED <<config, upstream, images, container, state>>
      BY <1>0, <1>1, <2>1, Started DEF Standing
    <3>3. Calm(run.before)'
      BY <3>1, <3>2, CalmStays
    <3>4. QED
      BY <3>1, <3>3 DEF Returning, Ways
  <2>2. CASE ~(cmd = "up" /\ settled # None)
    BY <1>0, <1>1, <2>2, Started DEF Returning
  <2>3. QED
    BY <2>1, <2>2
<1>2. CASE Proceed /\ run.cmd = "up" /\ run.before # None /\ run.touched = {}
  <2>0. /\ run.config = config /\ config \in Config /\ (Planned => run.key = KeyNow)
        /\ config' = config /\ upstream' = upstream /\ run'.cmd = "up"
        /\ run'.config = run.config /\ run'.before = run.before /\ run'.touched = {}
        /\ run'.recreate = run.recreate
    BY <1>0, <1>2, Undisturbed, Proceeds
  <2>1. CASE run.pc \in {"observe", "plan", "source", "service", "enrich"}
    <3>1. Calm(run.before) /\ (run.pc \in Ways => ~UsesTarget)
      BY <1>2, <2>1 DEF Returning
    <3>2. images' = images /\ (run'.pc \in Ways => ~UsesTarget')
      BY <1>2, <3>1, NothingToBuild DEF Calm
    <3>3. ~ReconcileContainer /\ ~Lifecycle /\ ~Finish
      BY <2>1 DEF ReconcileContainer, Lifecycle, Finish
    <3>4. container' = container /\ state' = state
      BY <1>0, <1>2, <3>3, Proceeds
    <3>5. Calm(run.before)'
      BY <2>0, <3>1, <3>2, <3>4, CalmStays
    <3>6. run'.tracker = state
      <4>1. CASE Observe
        <5>1. container # None /\ state.id = container.id
          BY <3>1 DEF Calm, CalmContainer, CalmState
        <5>2. run'.tracker = [state EXCEPT !.id = container.id]
          BY <1>0, <4>1, <5>1 DEF Observe, Run
        <5>3. QED
          BY <1>0, <5>1, <5>2 DEF State
      <4>2. CASE ~Observe
        <5>1. run.pc # "observe"
          BY <1>2, <3>3, <4>2 DEF Proceed, Plan, PrepareSource, BuildBase, BuildTarget, Enrich
        <5>2. run.tracker = state
          BY <1>2, <2>1, <5>1 DEF Returning
        <5>3. QED
          BY <1>0, <1>2, <3>3, <4>2, <5>2, Proceeds
      <4>3. QED
        BY <4>1, <4>2
    <3>7. run'.pc \in {"plan", "source", "service", "enrich", "container"} \cup Ways
      <4>1. CASE Observe
        BY <1>0, <1>2, <4>1 DEF Observe, Run
      <4>2. CASE Plan
        <5>1. run'.pc \in {"enrich", FirstStep(run.config)}
          BY <1>0, <4>2 DEF Plan, Run
        <5>2. FirstStep(run.config) \in Ways
          BY <2>0, ModesAre DEF FirstStep, Ways
        <5>3. QED
          BY <5>1, <5>2
      <4>3. CASE PrepareSource
        <5>1. PICK trust, pc : /\ run' = [run EXCEPT !.trust = trust, !.pc = pc]
                               /\ pc = IF BuildMode(run.config) = "none" THEN "enrich" ELSE "target"
          BY <4>3, Zenon DEF PrepareSource
        <5>2. QED
          BY <1>0, <5>1 DEF Run, Ways
      <4>4. CASE BuildBase \/ BuildTarget
        BY <1>0, <4>4 DEF BuildBase, BuildTarget, Run, Ways
      <4>5. CASE Enrich
        BY <1>0, <1>2, <4>5 DEF Enrich, Run
      <4>6. QED
        BY <1>2, <3>3, <4>1, <4>2, <4>3, <4>4, <4>5 DEF Proceed
    <3>8. QED
      BY <2>0, <3>2, <3>4, <3>5, <3>6, <3>7 DEF Returning, Ways
  <2>2. CASE ReconcileContainer
    <3>1. run.pc = "container" /\ run'.pc = "lifecycle"
      BY <1>0, <2>2, ReconcileIs
    <3>2. Calm(run.before) /\ run.tracker = state /\ Planned
      BY <1>2, <3>1 DEF Returning, Planned
    <3>3. CalmMerged(run.merged, run.made, run.source)
      BY <1>2, <3>1 DEF Leaving
    <3>4. run.merged = run.before.merged
      BY <3>2, <3>3 DEF Calm, CalmMerged
    <3>5. container # None /\ container.key = DesiredContainerKey
      BY <2>0, <3>2, <3>4 DEF Calm, CalmContainer, DesiredContainerKey
    <3>6. state.lifecycle = [container |-> container.key, commands |-> Commands(run.merged)]
      BY <3>2, <3>4 DEF Calm, CalmState
    <3>7. run'.merged = run.merged
      BY <1>0, <2>2, Proceeds DEF Proceed, ReconcileContainer, Enrich
    <3>8. ~run.recreate =>
            ~run'.created /\ run'.tracker.lifecycle = DesiredLifecycleKey'
      <4>1. SUFFICES ASSUME ~run.recreate
                     PROVE  ~run'.created /\ run'.tracker.lifecycle = DesiredLifecycleKey'
        OBVIOUS
      <4>2. /\ run'.created = FALSE /\ run'.tracker.lifecycle = state.lifecycle
            /\ run'.tracker.key = container.key
        BY <2>2, <3>2, <3>5, <4>1, ReconcileIs
      <4>3. QED
        BY <3>6, <3>7, <4>2 DEF DesiredLifecycleKey, Commands
    <3>9. QED
      BY <2>0, <3>1, <3>8 DEF Returning, Ways
  <2>3. CASE Lifecycle
    <3> DEFINE s == [run.tracker EXCEPT !.lifecycle = DesiredLifecycleKey]
               ran == \/ run.cmd = "run" \/ run.created
                      \/ run.tracker.lifecycle # DesiredLifecycleKey
    <3>1. run' = [run EXCEPT !.tracker = s, !.ran = ran, !.pc = "finish"] /\ run.pc = "lifecycle"
      BY <1>2, <2>3 DEF Lifecycle
    <3>2. run.recreate \/ (~ran /\ ~run.created)
      BY <1>2, <3>1 DEF Returning
    <3> HIDE DEF s, ran
    <3>3. run'.pc = "finish" /\ run'.ran = ran /\ run'.created = run.created
      BY <1>0, <3>1 DEF Run
    <3>4. QED
      BY <2>0, <3>2, <3>3 DEF Returning, Ways
  <2>4. CASE Finish
    <3>1. run'.pc = "done" /\ run'.ran = run.ran /\ run'.created = run.created /\ run.pc = "finish"
      BY <1>0, <2>4 DEF Finish, Run
    <3>2. QED
      BY <1>2, <2>0, <3>1 DEF Returning, Ways
  <2>5. CASE run.pc \in {"verify", "base", "target"}
    <3>1. ~UsesTarget
      BY <1>2, <2>5 DEF Returning, Ways
    <3>2. UsesTarget
      BY <2>0, <2>5, ModesAre DEF Paths, UsesTarget
    <3>3. QED
      BY <3>1, <3>2
  <2>6. QED
    BY <1>2, <2>1, <2>2, <2>3, <2>4, <2>5 DEF Proceed, Observe, Plan, PrepareSource,
       BuildBase, BuildTarget, Enrich
<1>3. CASE Proceed /\ ~(run.cmd = "up" /\ run.before # None /\ run.touched = {})
  BY <1>0, <1>3, Proceeds DEF Returning
<1>4. CASE Fail
  BY <1>4 DEF Fail, Nothing, Returning
<1>5. CASE WorldStep
  <2>1. PICK what \in {"edit", "event"} : Touched(what)
    BY <1>0, <1>5, WorldTouches
  <2>2. CASE Busy
    BY <1>0, <2>1, <2>2, TouchedRun DEF Returning
  <2>3. CASE ~Busy
    <3>1. run' = run /\ run.pc \in {"idle", "done"}
      BY <2>1, <2>3 DEF Touched, Busy, Idle
    <3>2. QED
      BY <3>1 DEF Returning, Ways
  <2>4. QED
    BY <2>2, <2>3
<1>6. CASE UNCHANGED vars
  <2>1. UNCHANGED <<config, upstream, images, container, state, run>>
    BY <1>6 DEF vars
  <2>2. Calm(run.before) => Calm(run.before)'
    BY <2>1, CalmStays
  <2>3. QED
    BY <2>1, <2>2 DEF Returning, UsesTarget, DesiredLifecycleKey
<1>7. QED
  BY <1>1, <1>2, <1>3, <1>4, <1>5, <1>6 DEF Next, CommandStep, Proceed

-----------------------------------------------------------------------------
(* The inductive invariant. *)

ContentInv ==
  /\ PlainImages /\ TargetImageIs /\ BaseIs
  /\ Reads /\ Paths /\ KeyIs /\ TargetKept /\ MergedIs /\ StillThere
  /\ ContainerIs
  /\ Standing /\ Returning /\ Leaving

\* It is so at first.
LEMMA InitContent == Init => ContentInv
<1> SUFFICES ASSUME Init PROVE ContentInv
  OBVIOUS
<1>1. PICK local \in {None, Pulled(upstream)} :
        images = [t \in Tags |-> IF t = "source" THEN local ELSE None]
  BY DEF Init
<1>2. /\ images["source"] = local /\ \A t \in {"service", "base", "target"} : images[t] = None
  BY <1>1 DEF Tags
<1>3. PlainImages /\ TargetImageIs
  BY <1>1, <1>2, PulledIs DEF PlainImages, TargetImageIs, Exists
<1>4. run.pc = "idle" /\ run.cmd = "build" /\ run.key = None /\ settled = None /\ container = None
      /\ run.made = None
  BY DEF Init, Nothing
<1>5. /\ BaseIs /\ Reads /\ Paths /\ KeyIs /\ TargetKept /\ MergedIs /\ StillThere
      /\ ContainerIs /\ Standing /\ Returning /\ Leaving
  BY <1>4 DEF BaseIs, Reads, Paths, KeyIs, Planned, TargetKept, MergedIs, Merged, StillThere,
     ContainerIs, Standing, Returning, Leaving, Busy, Idle
<1>6. QED
  BY <1>3, <1>5 DEF ContentInv

\* Every step keeps it.
LEMMA ContentStep == Typed /\ ContentInv /\ [Next]_vars => ContentInv'
BY PlainImagesStep, TargetImageIsStep, BaseIsStep, ReadsStep, PathsStep, KeyIsStep,
   TargetKeptStep, MergedIsStep, StillThereStep, ContainerIsStep, StandingStep,
   ReturningStep, LeavingStep DEF ContentInv

\* So it is always so.
LEMMA ContentAlways == Spec => [](Typed /\ ContentInv)
<1>1. Init => Typed /\ ContentInv
  BY InitTyped, InitContent
<1>2. (Typed /\ ContentInv) /\ [Next]_vars => (Typed /\ ContentInv)'
  BY TypedStep, ContentStep
<1>3. QED
  BY <1>1, <1>2, PTL DEF Spec

-----------------------------------------------------------------------------
(* The shape of what is merged. *)

\* The entries of the feature and of devcontainer.json.
Said(f, h) == FeaturesMetadata(f) \o ConfigMetadata(h)

\* A list that holds entries of source images only.
Foreign(entries) ==
  entries \in Seq(Entry) /\ \A i \in DOMAIN entries : entries[i][1] = "source"

\* It is a list in which every entry is there once.
LEMMA SaidIs ==
  ASSUME NEW f \in Features \cup {None}, NEW h \in Hooks \cup {None}
  PROVE  /\ Said(f, h) \in Seq(Entry)
         /\ FeaturesMetadata(f) \in Seq(Entry) /\ ConfigMetadata(h) \in Seq(Entry)
         /\ f = None => Said(f, h) = ConfigMetadata(h)
         /\ \A i, j \in DOMAIN Said(f, h) : Said(f, h)[i] = Said(f, h)[j] => i = j
<1>1. FeaturesMetadata(f) \in Seq(Entry) /\ ConfigMetadata(h) \in Seq(Entry)
  BY EntriesTyped
<1>2. Said(f, h) \in Seq(Entry)
  BY <1>1 DEF Said
<1>3. f = None => Said(f, h) = ConfigMetadata(h)
  BY <1>1 DEF Said, FeaturesMetadata
<1>4. ASSUME NEW i \in DOMAIN Said(f, h), NEW j \in DOMAIN Said(f, h),
             Said(f, h)[i] = Said(f, h)[j]
      PROVE  i = j
  <2>1. PICK a \in Seq(Entry), b \in Seq(Entry) :
          a = FeaturesMetadata(f) /\ b = ConfigMetadata(h) /\ Said(f, h) = a \o b
    BY <1>1 DEF Said
  <2>2. /\ Len(a) \in {0, 1} /\ (Len(a) = 1 => a[1] = <<"feature", f>>)
        /\ Len(b) \in {0, 1} /\ (Len(b) = 1 => b[1] = <<"config", h>>)
    BY <2>1 DEF FeaturesMetadata, ConfigMetadata
  <2>3. /\ DOMAIN (a \o b) = 1 .. (Len(a) + Len(b))
        /\ \A k \in 1 .. (Len(a) + Len(b)) :
             (a \o b)[k] = IF k <= Len(a) THEN a[k] ELSE b[k - Len(a)]
    OBVIOUS
  <2>4. CASE Len(a) = 1 /\ Len(b) = 1
    <3>1. (a \o b)[1] = <<"feature", f>> /\ (a \o b)[2] = <<"config", h>>
      BY <2>2, <2>3, <2>4
    <3>2. i \in {1, 2} /\ j \in {1, 2}
      BY <1>4, <2>1, <2>3, <2>4
    <3>3. (a \o b)[1] # (a \o b)[2]
      BY <3>1
    <3>4. QED
      BY <1>4, <2>1, <3>2, <3>3
  <2>5. CASE Len(a) + Len(b) \in {0, 1}
    BY <1>4, <2>1, <2>3, <2>5
  <2>6. QED
    BY <2>2, <2>4, <2>5
<1>5. QED
  BY <1>1, <1>2, <1>3, <1>4

\* The metadata of source images is such a list, and so are two lists together.
LEMMA ForeignIs ==
  /\ \A v : Foreign(SourceMetadata(v))
  /\ Foreign(<< >>)
  /\ \A a, b : Foreign(a) /\ Foreign(b) => Foreign(a \o b)
<1>1. ASSUME NEW v PROVE Foreign(SourceMetadata(v))
  <2>1. SourceMetadata(v) \in Seq(Entry)
    BY EntriesTyped
  <2>2. \A i \in DOMAIN SourceMetadata(v) : SourceMetadata(v)[i][1] = "source"
    BY DEF SourceMetadata
  <2>3. QED
    BY <2>1, <2>2 DEF Foreign
<1>2. Foreign(<< >>)
  BY DEF Foreign
<1>3. ASSUME NEW a, NEW b, Foreign(a), Foreign(b) PROVE Foreign(a \o b)
  <2>1. /\ a \in Seq(Entry) /\ b \in Seq(Entry)
        /\ \A i \in DOMAIN a : a[i][1] = "source"
        /\ \A i \in DOMAIN b : b[i][1] = "source"
    BY <1>3 DEF Foreign
  <2>2. /\ a \o b \in Seq(Entry) /\ DOMAIN (a \o b) = 1 .. (Len(a) + Len(b))
        /\ \A k \in 1 .. (Len(a) + Len(b)) :
             (a \o b)[k] = IF k <= Len(a) THEN a[k] ELSE b[k - Len(a)]
        /\ DOMAIN a = 1 .. Len(a) /\ DOMAIN b = 1 .. Len(b) /\ Len(a) \in Nat /\ Len(b) \in Nat
    BY <2>1
  <2>3. ASSUME NEW k \in DOMAIN (a \o b) PROVE (a \o b)[k][1] = "source"
    <3>1. k \in 1 .. (Len(a) + Len(b))
      BY <2>2
    <3>2. CASE k <= Len(a)
      BY <2>1, <2>2, <3>1, <3>2
    <3>3. CASE ~(k <= Len(a))
      <4>1. k - Len(a) \in DOMAIN b /\ (a \o b)[k] = b[k - Len(a)]
        BY <2>2, <3>1, <3>3
      <4>2. QED
        BY <2>1, <4>1
    <3>4. QED
      BY <3>2, <3>3
  <2>4. QED
    BY <2>2, <2>3 DEF Foreign
<1>4. QED
  BY <1>1, <1>2, <1>3

\* Entries of source images come first, then the feature, then devcontainer.json.
Ordered(entries, f, h) == \E a : Foreign(a) /\ entries = a \o Said(f, h)

\* What is merged is in this order, whatever it is merged from.
LEMMA MergedShape ==
  ASSUME NEW kind, NEW tag, NEW f \in Features \cup {None}, NEW h \in Hooks \cup {None},
         NEW blind, NEW s, NEW v, tag # "target" => f = None
  PROVE  Ordered(MergedForm(kind, tag, f, h, blind, s, v), f, h)
<1>1. PICK said \in Seq(Entry) : said = Said(f, h)
  BY SaidIs
<1>2. PICK w : w = SourceMetadata(v) /\ Foreign(w)
  BY ForeignIs
<1>3. PICK x : x = (IF kind = "image" THEN SourceMetadata(s) ELSE << >>) /\ Foreign(x)
  BY ForeignIs
<1>4. Foreign(<< >>) /\ << >> \o said = said /\ w \in Seq(Entry) /\ x \in Seq(Entry)
      /\ << >> \in Seq(Entry)
  BY <1>2, <1>3, ForeignIs, ConcatEmptySeq DEF Foreign
<1>5. CASE tag # "target"
  <2>1. MergedForm(kind, tag, f, h, blind, s, v) = w \o said
    BY <1>1, <1>2, <1>5, SaidIs DEF MergedForm
  <2>2. QED
    BY <1>1, <1>2, <2>1 DEF Ordered
<1>6. CASE tag = "target"
  <2>1. PICK l : l = WrittenLabel(kind, f, h, blind, v)
    OBVIOUS
  <2>2. l = (IF kind \in {"image", "composeImage", "composeBuild"}
             THEN (IF blind THEN << >> ELSE w) \o said
             ELSE IF said = << >> THEN w ELSE said)
    BY <1>1, <1>2, <2>1 DEF WrittenLabel, Said
  <2>3. \E y : Foreign(y) /\ l = y \o said
    <3>1. CASE kind \in {"image", "composeImage", "composeBuild"}
      BY <1>2, <1>4, <2>2, <3>1
    <3>2. CASE kind \notin {"image", "composeImage", "composeBuild"} /\ said = << >>
      BY <1>2, <1>4, <2>2, <3>2, ConcatEmptySeq
    <3>3. CASE kind \notin {"image", "composeImage", "composeBuild"} /\ said # << >>
      BY <1>4, <2>2, <3>3
    <3>4. QED
      BY <3>1, <3>2, <3>3
  <2>4. PICK y : Foreign(y) /\ l = y \o said
    BY <2>3
  <2>5. MergedForm(kind, tag, f, h, blind, s, v) = x \o (y \o said)
    BY <1>3, <1>6, <2>1, <2>4 DEF MergedForm
  <2>6. y \in Seq(Entry)
    BY <2>4 DEF Foreign
  <2>7. x \o (y \o said) = (x \o y) \o said
    BY <1>4, <2>6, ConcatAssociative
  <2>8. Foreign(x \o y)
    BY <1>3, <2>4, ForeignIs
  <2>9. QED
    BY <1>1, <2>5, <2>7, <2>8 DEF Ordered
<1>7. QED
  BY <1>5, <1>6

-----------------------------------------------------------------------------
(* Theorems. *)

\* What the proofs below take from the types.
LEMMA MergedTypes ==
  ASSUME TypeOK, Reads, Merged
  PROVE  /\ run.config \in Config /\ run.made \in Made /\ run.config.kind \in AllKinds
         /\ run.config.features \in Features \cup {None}
         /\ run.config.hooks \in Hooks \cup {None} /\ origin.hooks \in Hooks \cup {None}
         /\ run.made.features \in Features \cup {None}
         /\ UsesTarget <=> TargetImage(run.config) = "target"
         /\ ~UsesTarget => /\ run.config.features = None
                           /\ run.config.kind \in {"image", "composeImage", "composeBuild"}
<1>1. run.config \in Config /\ run.made \in Made
  BY RunTyped DEF Merged, Reads
<1>2. TargetImage(run.config) \in {"source", "service", "target"}
  BY TargetTyped
<1>3. QED
  BY <1>1, <1>2, ModesAre DEF Config, Made, UsesTarget, TypeOK

\* The form of what is merged has the settings of the reference.
LEMMA Follows ==
  ASSUME TypeOK, Reads, MergedIs
  PROVE  SettingsFollow
<1> SUFFICES ASSUME Merged, ~Outdated, ~Blind, ~Moved
             PROVE  Settings(run.merged) = Settings(Reference(run.config, run.made))
  BY DEF SettingsFollow
<1>0. /\ run.config \in Config /\ run.config.kind \in AllKinds
      /\ run.config.features \in Features \cup {None} /\ run.config.hooks \in Hooks \cup {None}
      /\ UsesTarget <=> TargetImage(run.config) = "target"
      /\ ~UsesTarget => /\ run.config.features = None
                        /\ run.config.kind \in {"image", "composeImage", "composeBuild"}
  BY MergedTypes
<1>1. PICK c, f, h, v : c = run.config /\ f = c.features /\ h = c.hooks /\ v = run.made.source
  OBVIOUS
<1>2. PICK ff \in Seq(Entry), hh \in Seq(Entry), said \in Seq(Entry), w \in Seq(Entry) :
        /\ ff = FeaturesMetadata(f) /\ hh = ConfigMetadata(h) /\ w = SourceMetadata(v)
        /\ said = ff \o hh
  <2>1. \A a, b \in Seq(Entry) : a \o b \in Seq(Entry)
    OBVIOUS
  <2>2. QED
    BY <1>0, <1>1, <2>1, EntriesTyped
<1>3. Reference(c, run.made) = (IF Inherits(c) THEN w ELSE << >>) \o ff \o hh
  BY <1>1, <1>2 DEF Reference
<1>4. /\ w \o ff \o hh = w \o said
      /\ << >> \o ff \o hh = said
      /\ << >> \o said = said
  <2>1. (w \o ff) \o hh = w \o said
    BY <1>2, ConcatAssociative
  <2>2. << >> \o ff = ff /\ << >> \o said = said
    BY ConcatEmptySeq
  <2>3. QED
    BY <1>2, <2>1, <2>2
<1>5. said = ResolvedMetadata(c)
  BY <1>1, <1>2 DEF ResolvedMetadata, MergeMetadata
<1>6. CASE ~UsesTarget
  <2>1. run.merged = w \o hh
    BY <1>0, <1>1, <1>2, <1>6 DEF MergedIs, MergedForm
  <2>2. ff = << >> /\ said = hh
    BY <1>0, <1>1, <1>2, <1>6 DEF FeaturesMetadata
  <2>3. Reference(c, run.made) = w \o said
    BY <1>0, <1>1, <1>3, <1>4, <1>6 DEF Inherits
  <2>4. QED
    BY <1>1, <2>1, <2>2, <2>3
<1>7. CASE UsesTarget
  <2>1. origin.hooks = h /\ ~origin.blind
    BY <1>1, <1>7 DEF Outdated, Blind
  <2>2. PICK l : l = (IF c.kind \in {"image", "composeImage", "composeBuild"} THEN w \o said
                      ELSE IF said = << >> THEN w ELSE said)
    OBVIOUS
  <2>3. WrittenLabel(c.kind, f, h, origin.blind, v) = l
    BY <1>2, <2>1, <2>2 DEF WrittenLabel
  <2>4. run.merged = (IF c.kind = "image" THEN SourceMetadata(run.source) ELSE << >>) \o l
    BY <1>0, <1>1, <1>7, <2>1, <2>3 DEF MergedIs, MergedForm
  <2>5. CASE c.kind = "image"
    <3>1. SourceMetadata(run.source) = w
      BY <1>1, <1>2, <2>5 DEF Moved
    <3>2. run.merged = w \o (w \o said)
      BY <2>2, <2>4, <2>5, <3>1
    <3>3. Reference(c, run.made) = w \o said
      BY <1>3, <1>4, <2>5 DEF Inherits
    <3>4. QED
      BY <1>1, <3>2, <3>3, FirstTwice
  <2>6. CASE c.kind \in {"composeImage", "composeBuild"}
    <3>1. run.merged = << >> \o (w \o said)
      BY <2>2, <2>4, <2>6
    <3>2. << >> \o (w \o said) = w \o said
      BY ConcatEmptySeq
    <3>3. Reference(c, run.made) = w \o said
      BY <1>3, <1>4, <2>6 DEF Inherits
    <3>4. QED
      BY <1>1, <3>1, <3>2, <3>3
  <2>7. CASE c.kind \in {"dockerfile", "context"} /\ said = << >>
    <3>1. run.merged = << >> \o w
      BY <2>2, <2>4, <2>7
    <3>2. << >> \o w = w /\ w \o said = w
      BY <2>7, ConcatEmptySeq
    <3>3. Reference(c, run.made) = w \o said
      BY <1>3, <1>4, <1>5, <2>7 DEF Inherits
    <3>4. QED
      BY <1>1, <3>1, <3>2, <3>3
  <2>8. CASE c.kind \in {"dockerfile", "context"} /\ said # << >>
    <3>1. run.merged = << >> \o said
      BY <2>2, <2>4, <2>8
    <3>2. Reference(c, run.made) = said
      BY <1>3, <1>4, <1>5, <2>8 DEF Inherits
    <3>3. QED
      BY <1>1, <1>4, <3>1, <3>2
  <2>9. QED
    BY <1>0, <1>1, <2>5, <2>6, <2>7, <2>8 DEF AllKinds
<1>8. QED
  BY <1>6, <1>7

\* What up and build merge holds the settings of the source image, of the
\* features and of devcontainer.json, each overriding the one before, whether
\* the image was built by this command or by any one before it.
THEOREM SettingsAreRight == Spec => []SettingsFollow
<1>1. Typed /\ ContentInv => SettingsFollow
  BY Follows DEF Typed, ContentInv
<1>2. QED
  BY <1>1, ContentAlways, PTL

\* No image is reused that lacks an edit of devcontainer.json, unless the edit
\* is no part of the key or was made while a command was running.
THEOREM EditsAreSeen == Spec => []EditsReachTheImage
<1>1. Typed /\ ContentInv => EditsReachTheImage
  BY DEF ContentInv, MergedIs, EditsReachTheImage
<1>2. QED
  BY <1>1, ContentAlways, PTL

\* The shape of what is merged holds every hook once.
LEMMA Once ==
  ASSUME TypeOK, Reads, MergedIs
  PROVE  HooksOnce
<1> SUFFICES ASSUME Merged, NEW i \in DOMAIN run.merged, NEW j \in DOMAIN run.merged,
                    run.merged[i] = run.merged[j], run.merged[i][1] # "source"
             PROVE  i = j
  BY DEF HooksOnce
<1>0. PICK c, f, h : /\ c = run.config /\ f = c.features
                     /\ h = IF UsesTarget THEN origin.hooks ELSE c.hooks
  OBVIOUS
<1>1. f \in Features \cup {None} /\ h \in Hooks \cup {None}
      /\ (TargetImage(c) # "target" => f = None)
  BY <1>0, MergedTypes
<1>2. run.merged = MergedForm(c.kind, TargetImage(c), f, h, origin.blind, run.source,
                              run.made.source)
  BY <1>0 DEF MergedIs
<1>3. PICK a : Foreign(a) /\ run.merged = a \o Said(f, h)
  <2>1. PICK kind, tag, b, s, v :
          /\ kind = c.kind /\ tag = TargetImage(c) /\ b = origin.blind /\ s = run.source
          /\ v = run.made.source
    OBVIOUS
  <2>2. f \in Features \cup {None} /\ h \in Hooks \cup {None} /\ (tag # "target" => f = None)
    BY <1>1, <2>1
  <2>3. Ordered(MergedForm(kind, tag, f, h, b, s, v), f, h)
    BY <2>2, MergedShape
  <2>4. QED
    BY <1>2, <2>1, <2>3 DEF Ordered
<1>4. PICK said \in Seq(Entry) : said = Said(f, h)
  BY <1>1, SaidIs
<1>5. \A k, l \in DOMAIN said : said[k] = said[l] => k = l
  BY <1>1, <1>4, SaidIs
<1>6. /\ a \in Seq(Entry) /\ \A k \in DOMAIN a : a[k][1] = "source"
      /\ DOMAIN a = 1 .. Len(a) /\ DOMAIN said = 1 .. Len(said)
      /\ Len(a) \in Nat /\ Len(said) \in Nat
      /\ DOMAIN (a \o said) = 1 .. (Len(a) + Len(said))
      /\ \A k \in 1 .. (Len(a) + Len(said)) :
           (a \o said)[k] = IF k <= Len(a) THEN a[k] ELSE said[k - Len(a)]
  BY <1>3 DEF Foreign
<1>7. /\ i \in 1 .. (Len(a) + Len(said)) /\ j \in 1 .. (Len(a) + Len(said))
      /\ (a \o said)[i] = (a \o said)[j] /\ (a \o said)[i][1] # "source"
  BY <1>3, <1>4, <1>6
<1>8. \A k \in 1 .. (Len(a) + Len(said)) : (a \o said)[k][1] # "source" => ~(k <= Len(a))
  BY <1>6
<1>9. ~(i <= Len(a)) /\ ~(j <= Len(a))
  BY <1>7, <1>8
<1>10. /\ i - Len(a) \in DOMAIN said /\ j - Len(a) \in DOMAIN said
       /\ said[i - Len(a)] = said[j - Len(a)]
  BY <1>6, <1>7, <1>9
<1>11. i - Len(a) = j - Len(a)
  BY <1>5, <1>10
<1>12. QED
  BY <1>6, <1>7, <1>11

\* Up and build merge every hook of a feature and of devcontainer.json once.
THEOREM HooksAreMergedOnce == Spec => []HooksOnce
<1>1. Typed /\ ContentInv => HooksOnce
  BY Once DEF Typed, ContentInv
<1>2. QED
  BY <1>1, ContentAlways, PTL

\* An up that follows an up undisturbed, with any number of builds in between,
\* leaves the container alone and runs no create hook again.
THEOREM SecondUpIsQuiet == Spec => []SecondUpQuiet
<1>1. Typed /\ ContentInv => SecondUpQuiet
  BY DEF ContentInv, Returning, SecondUpQuiet
<1>2. QED
  BY <1>1, ContentAlways, PTL

\* The container as an up has left it.
LEMMA LeftContainer ==
  ASSUME TypeOK, Standing, settled # None
  PROVE  /\ container \in Container /\ container # None
         /\ container.key # None /\ container.key.tag = TargetImage(config)
         /\ container.key.key = KeyNow
         /\ CalmImages /\ CalmMerged(settled.merged, settled.made, settled.source)
<1>1. Calm(settled) /\ settled \in Settled /\ config \in Config
  BY DEF Standing, TypeOK
<1>2. container \in Container /\ container # None /\ CalmImages
      /\ CalmMerged(settled.merged, settled.made, settled.source)
  BY <1>1 DEF Calm, CalmContainer, TypeOK
<1>3. PICK n \in SettingsOf : n = Settings(settled.merged)
  BY <1>1, SettingsTyped DEF Settled
<1>4. KeyNow \in Key \cup {None}
  BY <1>1, KeyTyped DEF KeyNow
<1>5. TargetImage(config) \in Tags
  BY TargetTyped DEF Tags
<1>6. container.key = [tag |-> TargetImage(config), key |-> KeyNow,
                       mount |-> n.mount, privileges |-> n.privileges]
  BY <1>1, <1>3 DEF Calm, CalmContainer
<1>7. container.key \in Identity
  BY <1>3, <1>4, <1>5, <1>6 DEF Identity, SettingsOf
<1>8. QED
  BY <1>2, <1>6, <1>7, NoneAssumption

\* The key of the container and of its image tell what is in it.
LEMMA Content ==
  ASSUME TypeOK, Reads, Standing, ContainerIs
  PROVE  ContainerHasContent
<1> SUFFICES ASSUME run.pc = "done", run.touched = {}, settled # None
             PROVE  \/ "edit" \in container.touched
                    \/ /\ container.made.features = run.config.features
                       /\ run.config.kind \in {"dockerfile", "context"}
                            => container.made.files = run.config.files
  BY DEF ContainerHasContent
<1>1. run.config = config /\ config \in Config
  BY DEF Reads, TypeOK
<1>2. /\ container # None /\ container.key # None
      /\ container.key.tag = TargetImage(config) /\ container.key.key = KeyNow
  BY LeftContainer
<1>3. /\ container.made.features =
           IF container.key.tag = "target" THEN container.key.key.features ELSE None
      /\ container.key.tag = "target" /\ config.kind \in {"dockerfile", "context"} =>
           container.made.files = container.key.key.files \/ "edit" \in container.touched
  BY <1>2 DEF ContainerIs
<1>4. /\ TargetImage(config) \in {"source", "service", "target"}
      /\ TargetImage(config) # "target" => config.features = None
      /\ config.kind \in {"dockerfile", "context"} => TargetImage(config) = "target"
  BY <1>1, TargetTyped, ModesAre
<1>5. TargetImage(config) = "target" =>
        /\ KeyNow.features = config.features
        /\ config.kind \in {"dockerfile", "context"} => KeyNow.files = config.files
  BY DEF KeyNow, ManagedImageKey, Compose
<1>6. QED
  BY <1>1, <1>2, <1>3, <1>4, <1>5

\* When an up has ended and no file been touched since, its container has the
\* features of the configuration and was built from the files on disk, whatever
\* images were reused on the way.
THEOREM ContainersHaveTheContent == Spec => []ContainerHasContent
<1>1. Typed /\ ContentInv => ContainerHasContent
  BY Content DEF Typed, ContentInv
<1>2. QED
  BY <1>1, ContentAlways, PTL

\* The label of the container is what the up has merged.
LEMMA Sees ==
  ASSUME TypeOK, PlainImages, TargetImageIs, ContainerIs, Standing
  PROVE  ExecSeesUp
<1> DEFINE t == TargetImage(config)
<1> SUFFICES ASSUME settled # None, ~ContainerOutdated, ~TargetOutdated
             PROVE  Settings(ExecConfig) = Settings(settled.merged)
  BY DEF ExecSeesUp
<1>0. /\ config \in Config /\ config.hooks \in Hooks \cup {None} /\ config.kind \in AllKinds
      /\ t \in {"source", "service", "target"}
      /\ t = "source" <=> BuildMode(config) = "none"
      /\ t = "service" <=> BuildMode(config) = "project"
  BY TargetTyped, ModesAre DEF TypeOK, Config
<1>1. /\ container # None /\ container.key # None /\ container.key.tag = t
      /\ CalmImages /\ CalmMerged(settled.merged, settled.made, settled.source)
  BY LeftContainer
<1>2. /\ container.hooks = config.hooks /\ container.made = settled.made
      /\ container.source = settled.source /\ container.touched \cap {"event", "blind"} = {}
      /\ t = "target" => origin.hooks = config.hooks /\ origin.blind = FALSE
  BY DEF ContainerOutdated, TargetOutdated, TypeOK
<1>3. Exists(t) /\ settled.made = images[t].made /\ settled.source = PresentSource
      /\ settled.merged = MergedConfig(config, t)
  BY <1>1 DEF CalmImages, CalmMerged
<1>4. PICK kind, f, h, s, v :
        /\ kind = config.kind /\ f = images[t].made.features /\ h = config.hooks
        /\ s = PresentSource /\ v = images[t].made.source
  OBVIOUS
<1>5. f \in Features \cup {None} /\ h \in Hooks \cup {None} /\ (t # "target" => f = None)
  <2>1. images[t].made \in Made
    BY <1>0, <1>3, ImageTyped DEF Tags
  <2>2. t # "target" => images[t].made.features = None
    BY <1>0, <1>3, PulledIs DEF PlainImages
  <2>3. QED
    BY <1>0, <1>4, <2>1, <2>2 DEF Made
<1>6. PICK u : u = t
  OBVIOUS
<1>7. PICK m : m = MergedForm(kind, u, f, h, FALSE, s, v)
  OBVIOUS
<1>8. settled.merged = m
  <2>1. settled.merged = MergedForm(kind, u, f, IF u = "target" THEN origin.hooks ELSE h,
                                    origin.blind, s, v)
    BY <1>0, <1>3, <1>4, <1>6, MergedNow
  <2>2. CASE u = "target"
    <3>1. origin.hooks = h /\ origin.blind = FALSE
      BY <1>2, <1>4, <1>6, <2>2
    <3>2. QED
      BY <1>7, <2>1, <2>2, <3>1
  <2>3. CASE u # "target"
    BY <1>7, <2>1, <2>3 DEF MergedForm
  <2>4. QED
    BY <2>2, <2>3
<1>9. container.label = m
  <2>1. container.label = MergedForm(config.kind, container.key.tag, container.made.features,
                            container.hooks, FALSE, container.source, container.made.source)
    BY <1>1, <1>2 DEF ContainerIs
  <2>2. /\ container.key.tag = u /\ container.made.features = f /\ container.hooks = h
        /\ container.source = s /\ container.made.source = v /\ config.kind = kind
    BY <1>1, <1>2, <1>3, <1>4, <1>6
  <2>3. QED
    BY <1>7, <2>1, <2>2
<1>10. PICK a : Foreign(a) /\ m = a \o Said(f, h)
  <2>1. Ordered(MergedForm(kind, u, f, h, FALSE, s, v), f, h)
    BY <1>5, <1>6, MergedShape
  <2>2. QED
    BY <1>7, <2>1 DEF Ordered
<1>11. PICK ff \in Seq(Entry), hh \in Seq(Entry), above \in Seq(Entry), w \in Seq(Entry) :
         /\ ff = FeaturesMetadata(f) /\ hh = ConfigMetadata(h) /\ w = SourceMetadata(s)
         /\ above = IF kind = "image" THEN w ELSE << >>
  <2>1. << >> \in Seq(Entry)
    OBVIOUS
  <2>2. QED
    BY <1>5, <2>1, EntriesTyped
<1>12. PICK front \in Seq(Entry) : m = front \o hh /\ m \in Seq(Entry)
  <2>1. a \in Seq(Entry)
    BY <1>10 DEF Foreign
  <2>2. a \o (ff \o hh) = (a \o ff) \o hh
    BY <2>1, ConcatAssociative
  <2>3. a \o ff \in Seq(Entry) /\ (a \o ff) \o hh \in Seq(Entry)
    BY <2>1
  <2>4. QED
    BY <1>10, <1>11, <2>2, <2>3 DEF Said
<1>13. ExecConfig = (above \o m) \o hh
  <2>1. Label("source") = w
    BY <1>4, <1>11, SourceLabel
  <2>2. QED
    BY <1>4, <1>9, <1>11, <2>1 DEF ExecConfig, MergeMetadata
<1>14. Settings((above \o m) \o hh) = Settings(above \o m)
  <2>1. above \o m = (above \o front) \o hh
    <3>1. (above \o front) \o hh = above \o (front \o hh)
      BY ConcatAssociative
    <3>2. QED
      BY <1>12, <3>1
  <2>2. above \o front \in Seq(Entry)
    OBVIOUS
  <2>3. QED
    BY <2>1, <2>2, LastTwice
<1>15. Settings(above \o m) = Settings(m)
  <2>1. CASE kind # "image"
    BY <1>11, <1>12, <2>1, ConcatEmptySeq
  <2>2. CASE kind = "image"
    <3>1. u \in {"source", "target"}
      BY <1>0, <1>4, <1>6, <2>2, ModesAre
    <3>2. \E rest \in Seq(Entry) : m = w \o rest
      <4>1. CASE u = "source"
        <5>1. v = s
          BY <1>3, <1>4, <1>6, <4>1 DEF PresentSource
        <5>2. QED
          BY <1>7, <1>11, <4>1, <5>1 DEF MergedForm
      <4>2. CASE u = "target"
        <5>1. PICK l \in Seq(Entry) : l = WrittenLabel(kind, f, h, FALSE, v)
          BY <1>5, WrittenTyped
        <5>2. m = w \o l
          BY <1>7, <1>11, <2>2, <4>2, <5>1 DEF MergedForm
        <5>3. QED
          BY <5>2
      <4>3. QED
        BY <3>1, <4>1, <4>2
    <3>3. PICK rest \in Seq(Entry) : m = w \o rest
      BY <3>2
    <3>4. above = w
      BY <1>11, <2>2
    <3>5. QED
      BY <3>3, <3>4, FirstTwice
  <2>3. QED
    BY <2>1, <2>2
<1>16. QED
  BY <1>8, <1>13, <1>14, <1>15

\* exec sees the settings that the up before it has merged, although it merges
\* them once more and from the label of the container.
THEOREM ExecSeesTheUp == Spec => []ExecSeesUp
<1>1. Typed /\ ContentInv => ExecSeesUp
  BY Sees DEF Typed, ContentInv
<1>2. QED
  BY <1>1, ContentAlways, PTL
=============================================================================
