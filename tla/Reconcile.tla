----------------------------- MODULE Reconcile -----------------------------
(***************************************************************************)
(* "hatchctl up" and "hatchctl run" against the container engine and the   *)
(* workspace state file.  A command observes the state file and the        *)
(* container, plans, changes the container, runs the lifecycle hooks and   *)
(* the dotfiles installer, starts the bridge, and records in state.json    *)
(* what it has begun and what it has completed.  It may fail or be killed  *)
(* at every step, and people use the engine behind its back.               *)
(*                                                                         *)
(* The lifecycle commands are those that the command has merged from the   *)
(* configuration and the label of an image (module Images).  up and run    *)
(* look at different images, so run may come to other commands than up.    *)
(* What starting the bridge does to its servers is module Bridge.          *)
(*                                                                         *)
(* One command runs at a time: the mutation lock (module Coordination)     *)
(* serialises them.  The image is an input of the container key, and what  *)
(* comes before the container (resolving, image, bridge files) leaves both *)
(* the state file and the container alone.                                 *)
(***************************************************************************)
EXTENDS FiniteSets

CONSTANTS
  Ids,            \* container ids: a bound on how many are ever created
  NoContainer,    \* the empty container id
  Specs,          \* what a configuration contributes to the container key
  HookSets,       \* lifecycle commands of a configuration
  HostHookSets,   \* those with an initializeCommand, which runs on the host
  Repositories,   \* dotfiles repositories
  Targets,        \* paths in the container to install dotfiles at
  NoDotfiles,     \* dotfiles are not configured
  NoKey,          \* the empty container or lifecycle key
  Configs,        \* the configurations that up is run with
  RunHooks        \* the lifecycle commands that run may merge for each

Dotfiles == [repo : Repositories, target : Targets]
Config == [spec : Specs, bridge : BOOLEAN, hooks : HookSets,
           dotfiles : Dotfiles \cup {NoDotfiles}]

ASSUME ReconcileAssumption ==
  /\ NoContainer \notin Ids
  /\ NoDotfiles \notin Dotfiles
  /\ NoKey \notin Specs \X BOOLEAN
  /\ NoKey \notin ((Specs \X BOOLEAN) \cup {NoKey})
                    \X HookSets \X (Dotfiles \cup {NoDotfiles})
  /\ HostHookSets \subseteq HookSets
  /\ Configs \subseteq Config
  /\ RunHooks \in [Configs -> SUBSET HookSets]

VARIABLES
  ct,        \* the containers, as the engine knows them
  disk,      \* state.json
  pc,        \* where the command is
  cmd,       \* its arguments
  mem,       \* its StateTracker
  seen,      \* the container it observed
  target,    \* the container it works on, from reconciliation on
  created,   \* did it create that container?
  plan,      \* its LifecyclePlan
  \* history, read by no action:
  fault,     \* something outside the command's power went wrong under it
  settled    \* the config the workspace is up with, if nothing happened since

command == <<cmd, mem, seen, target, created, plan>>
vars == <<ct, disk, pc, command, fault, settled>>

-----------------------------------------------------------------------------
(* Keys.  The hashes are taken to be injective. *)

ContainerKeys == Specs \X BOOLEAN
LifecycleKeys ==
  (ContainerKeys \cup {NoKey}) \X HookSets \X (Dotfiles \cup {NoDotfiles})

ContainerKey(c) == <<c.spec, c.bridge>>
LifecycleKey(hooks, containerKey, dotfiles) == <<containerKey, hooks, dotfiles>>

-----------------------------------------------------------------------------
(* Containers.  ran and installed are what has been completed inside one;  *)
(* checkout maps each dotfiles target to the repository cloned there.      *)

Container == [status : {"unborn", "running", "stopped", "removed"},
              key : ContainerKeys \cup {NoKey},
              ran : SUBSET HookSets,
              installed : SUBSET Dotfiles,
              checkout : [Targets -> SUBSET Repositories]]
Unborn == [status |-> "unborn", key |-> NoKey, ran |-> {}, installed |-> {},
           checkout |-> [t \in Targets |-> {}]]

Exists(id) == id \in Ids /\ ct[id].status \in {"running", "stopped"}
Running(id) == id \in Ids /\ ct[id].status = "running"
Existing == {id \in Ids : Exists(id)}

\* A running one if there is one; the tie on the lowest id is left open.
BestContainers ==
  IF \E id \in Existing : Running(id)
  THEN {id \in Existing : Running(id)} ELSE Existing

-----------------------------------------------------------------------------
(* The state file and its tracker.  Transitions are nil or not; the bridge *)
(* session id goes with bridgeEnabled.                                     *)

State == [container : Ids \cup {NoContainer},
          key : ContainerKeys \cup {NoKey},
          ready : BOOLEAN,
          lifecycleKey : LifecycleKeys \cup {NoKey},
          transition : BOOLEAN,
          bridge : BOOLEAN,
          bridgeTransition : BOOLEAN,
          dotfilesReady : BOOLEAN,
          dotfiles : Dotfiles \cup {NoDotfiles},
          dotfilesTransition : BOOLEAN]

NoState == [container |-> NoContainer, key |-> NoKey, ready |-> FALSE,
            lifecycleKey |-> NoKey, transition |-> FALSE, bridge |-> FALSE,
            bridgeTransition |-> FALSE, dotfilesReady |-> FALSE,
            dotfiles |-> NoDotfiles, dotfilesTransition |-> FALSE]

\* What is kept of the state when its container is not the one observed.
Cleared(s) ==
  [NoState EXCEPT !.bridge = s.bridge, !.bridgeTransition = s.bridgeTransition]

\* Mutant: the state of another container is taken over as it is.
ObservedKeeps(s, id) == [s EXCEPT !.container = id]

Observed(s, id) ==
  [(IF s.container \in {NoContainer, id} THEN s ELSE Cleared(s))
     EXCEPT !.container = id]

SetDotfiles(s, d) ==
  [s EXCEPT !.dotfiles = d, !.dotfilesReady = (d # NoDotfiles),
            !.dotfilesTransition = FALSE]

BeginContainer(id, key) == [NoState EXCEPT !.container = id, !.key = key]
SetContainer(s, id, key) == [s EXCEPT !.container = id, !.key = key]
\* Mutant: a new container does not reset the state.
ApplyContainerKeeps(s, id, key, new) == SetContainer(s, id, key)

ApplyContainer(s, id, key, new) ==
  IF new THEN BeginContainer(id, key) ELSE SetContainer(s, id, key)

BeginBridge(s) == [s EXCEPT !.bridge = FALSE, !.bridgeTransition = TRUE]
EnableBridge(s) == [s EXCEPT !.bridge = TRUE, !.bridgeTransition = FALSE]
DisableBridge(s) == [s EXCEPT !.bridge = FALSE, !.bridgeTransition = FALSE]

StateMatches(s, d) ==
  s.dotfilesReady /\ ~s.dotfilesTransition /\ s.dotfiles = d
NeedsInstall(s, d) == d # NoDotfiles /\ ~StateMatches(s, d)

BeginLifecycle(s, p) ==
  [s EXCEPT !.transition = TRUE, !.ready = FALSE, !.lifecycleKey = NoKey,
            !.dotfilesTransition = @ \/ (p.create /\ p.install),
            !.dotfilesReady = @ /\ ~(p.create /\ p.install)]
\* Mutants: the key is not recorded, the transition is not ended.
CompleteLifecycleKeyless(s, p, d) ==
  SetDotfiles([s EXCEPT !.transition = FALSE, !.ready = TRUE], d)
CompleteLifecycleInTransition(s, p, d) ==
  SetDotfiles([s EXCEPT !.ready = TRUE, !.lifecycleKey = p.key], d)

CompleteLifecycle(s, p, d) ==
  SetDotfiles([s EXCEPT !.transition = FALSE, !.ready = TRUE,
                        !.lifecycleKey = p.key], d)

-----------------------------------------------------------------------------
(* Plans. *)

\* "enter" stands for the start and the attach phase, and in a plan for the
\* commands of both.
Phases == {"all", "create", "enter"}
Plan == [create : BOOLEAN, enter : BOOLEAN, key : LifecycleKeys \cup {NoKey},
         install : BOOLEAN]
NoPlan == [create |-> FALSE, enter |-> FALSE, key |-> NoKey,
           install |-> FALSE]

\* Mutant: a change of the lifecycle key goes unnoticed.
PlanUpLifecycleKeyless(s, key, dotfiles, new) ==
  [create |-> new \/ ~s.ready \/ s.transition, enter |-> TRUE, key |-> key,
   install |-> NeedsInstall(s, dotfiles)]

PlanUpLifecycle(s, key, dotfiles, new) ==
  [create |-> \/ new \/ ~s.ready \/ s.lifecycleKey # key \/ s.transition,
   enter |-> TRUE, key |-> key, install |-> NeedsInstall(s, dotfiles)]

\* Mutant: the container key is taken for the lifecycle key.
PlanLifecycleCommandRaw(s, key, dotfiles, phase) ==
  [create |-> phase \in {"all", "create"}, enter |-> phase # "create",
   key |-> s.key, install |-> NeedsInstall(s, dotfiles)]

PlanLifecycleCommand(s, key, dotfiles, phase) ==
  [create |-> phase \in {"all", "create"}, enter |-> phase # "create",
   key |-> key, install |-> NeedsInstall(s, dotfiles)]

-----------------------------------------------------------------------------
(* A command.  hooks are the lifecycle commands it has merged, forced is   *)
(* --recreate of up, phase is --phase of run, and hostAllowed is           *)
(* --allow-host-lifecycle.                                                 *)

\* run takes its image from preparedImage, up from the reconciled image.
MergedHooks(kind, c) == IF kind = "up" THEN {c.hooks} ELSE RunHooks[c]

Command ==
  {c \in [kind : {"up", "run"}, config : Configs, hooks : HookSets,
          forced : BOOLEAN, phase : Phases, hostAllowed : BOOLEAN] :
     c.hooks \in MergedHooks(c.kind, c.config)}
NoCommand == [kind |-> "none"]

Up == cmd.kind = "up"
Key == ContainerKey(cmd.config)

\* initializeCommand without permission: the create phase is refused.
Denied == cmd.hooks \in HostHookSets /\ ~cmd.hostAllowed

Unseen == [id |-> NoContainer, running |-> FALSE]

Init ==
  /\ ct = [id \in Ids |-> Unborn]
  /\ disk = NoState
  /\ pc = "idle"
  /\ cmd = NoCommand /\ mem = NoState /\ seen = Unseen
  /\ target = NoContainer /\ created = FALSE /\ plan = NoPlan
  /\ fault = FALSE /\ settled = {}

\* A flag that means nothing to the command has one value.
Start ==
  /\ pc = "idle"
  /\ cmd' \in {c \in Command : /\ c.kind = "up" => c.phase = "all"
                               /\ c.kind = "run" => ~c.forced
                               /\ c.hooks \notin HostHookSets => c.hostAllowed}
  /\ pc' = "observe"
  /\ UNCHANGED <<ct, disk, mem, seen, target, created, plan, fault,
                 settled>>

\* The command returns an error, and has changed nothing since its last step.
GiveUp ==
  /\ pc' = "failed"
  /\ UNCHANGED <<ct, disk, command, settled>>

\* A call to the engine or to the host fails on its own account.
CallFails ==
  /\ pc \in {"observe", "container", "create", "inspect", "serve", "hooks",
             "dotfiles", "enter"}
  /\ fault' = TRUE
  /\ GiveUp

\* Observe: the container on record if it still exists, or one found by its
\* labels.  up does without a container, run does not.
Observe ==
  /\ pc = "observe"
  /\ LET found == IF Exists(disk.container) THEN {disk.container}
                  ELSE BestContainers
     IN \/ \E id \in found :
             /\ mem' = Observed(disk, id)
             /\ seen' = [id |-> id, running |-> Running(id)]
             /\ pc' = IF Up THEN "container" ELSE "plan"
             /\ target' = id
        \/ /\ found = {} /\ Up
           /\ mem' = Cleared(disk)
           /\ pc' = "container"
           /\ UNCHANGED <<seen, target>>
        \/ /\ found = {} /\ ~Up
           /\ pc' = "failed"
           /\ UNCHANGED <<mem, seen, target>>
  /\ UNCHANGED <<ct, disk, cmd, created, plan, fault, settled>>

-----------------------------------------------------------------------------
(* ReconcileContainer. *)

\* Mutant: the key label is not compared.
ReplaceableKeyless == seen.id # NoContainer /\ cmd.forced

Replaceable ==
  seen.id # NoContainer /\ (cmd.forced \/ ct[seen.id].key # Key)

Reuse ==
  /\ pc = "container" /\ seen.id # NoContainer /\ ~Replaceable /\ seen.running
  /\ pc' = "apply"
  /\ UNCHANGED <<ct, disk, command, fault, settled>>

StartStopped ==
  /\ pc = "container" /\ seen.id # NoContainer /\ ~Replaceable /\ ~seen.running
  /\ IF Exists(seen.id)
     THEN /\ ct' = [ct EXCEPT ![seen.id].status = "running"]
          /\ pc' = "apply"
          /\ UNCHANGED <<disk, command, settled>>
     ELSE GiveUp
  /\ UNCHANGED fault

\* Mutant: the new container is created before the old one is removed.
RemoveLater ==
  /\ pc = "container" /\ Replaceable
  /\ pc' = "create"
  /\ UNCHANGED <<ct, disk, command, fault, settled>>

\* rm -f.  It may say no after the fact, or when there is nothing to remove.
Remove ==
  /\ pc = "container" /\ Replaceable
  /\ ct' = [ct EXCEPT ![seen.id].status = "removed"]
  /\ \/ pc' = "create" /\ UNCHANGED fault
     \/ pc' = "failed" /\ fault' = TRUE
  /\ UNCHANGED <<disk, command, settled>>

\* run -d: the engine refuses a second container of the same name, and may
\* leave behind a container that it created and could not start.
Create ==
  /\ pc = "create" \/ (pc = "container" /\ seen.id = NoContainer)
  /\ IF Existing # {} THEN GiveUp /\ UNCHANGED fault
     ELSE \E id \in Ids :
       /\ ct[id].status = "unborn"    \* bound: Ids
       /\ \/ /\ ct' = [ct EXCEPT ![id] = [Unborn EXCEPT !.status = "running",
                                                        !.key = Key]]
             /\ pc' = "apply" /\ target' = id /\ created' = TRUE
             /\ UNCHANGED fault
          \/ /\ ct' = [ct EXCEPT ![id] = [Unborn EXCEPT !.status = "stopped",
                                                        !.key = Key]]
             /\ pc' = "failed" /\ fault' = TRUE
             /\ UNCHANGED <<target, created>>
       /\ UNCHANGED <<disk, cmd, mem, seen, plan, settled>>

-----------------------------------------------------------------------------
(* Recording, and the bridge. *)

\* persistUpdate: state.json is replaced by a rename, so a write reported as
\* failed has left the old state or the new one.
Persist(s, next) ==
  /\ mem' = s
  /\ \/ disk' = s /\ pc' = next /\ UNCHANGED fault
     \/ disk' \in {disk, s} /\ pc' = "failed" /\ fault' = TRUE
  /\ UNCHANGED <<ct, cmd, seen, target, created>>

Apply ==
  /\ pc = "apply"
  /\ Persist(ApplyContainer(mem, target, Key, created), "inspect")
  /\ UNCHANGED <<plan, settled>>

\* InspectContainer, and the remap of the user id inside the container.
Inspect ==
  /\ pc = "inspect"
  /\ IF Exists(target)
     THEN /\ pc' = IF cmd.config.bridge THEN "bridge" ELSE "plan"
          /\ UNCHANGED <<ct, disk, command, settled>>
     ELSE GiveUp
  /\ UNCHANGED fault

RecordBridgeStart ==
  /\ pc = "bridge"
  /\ Persist(BeginBridge(mem), "serve")
  /\ UNCHANGED <<plan, settled>>

\* bridge.Start, on darwin.
StartBridge ==
  /\ pc = "serve"
  /\ \/ pc' = "enable" /\ UNCHANGED fault
     \/ pc' = "failed" /\ fault' = TRUE
  /\ UNCHANGED <<ct, disk, command, settled>>

RecordBridge ==
  /\ pc = "enable"
  /\ Persist(EnableBridge(mem), "plan")
  /\ UNCHANGED <<plan, settled>>

-----------------------------------------------------------------------------
(* Lifecycle. *)

\* run takes the container key from the state file, not from its configuration.
UpLifecycleKey == LifecycleKey(cmd.hooks, Key, cmd.config.dotfiles)
RunLifecycleKey == LifecycleKey(cmd.hooks, mem.key, cmd.config.dotfiles)

BeginUpLifecycle ==
  /\ pc = "plan" /\ Up
  /\ plan' = PlanUpLifecycle(mem, UpLifecycleKey, cmd.config.dotfiles, created)
  /\ Persist(BeginLifecycle(mem, plan'),
             IF plan'.create THEN "hooks" ELSE "enter")
  /\ UNCHANGED settled

\* run records only what concerns the create phase.
BeginRunLifecycle ==
  /\ pc = "plan" /\ ~Up
  /\ plan' = PlanLifecycleCommand(mem, RunLifecycleKey, cmd.config.dotfiles,
                                  cmd.phase)
  /\ IF plan'.create THEN Persist(BeginLifecycle(mem, plan'), "hooks")
     ELSE /\ pc' = "enter"
          /\ UNCHANGED <<ct, disk, cmd, mem, seen, target, created, fault>>
  /\ UNCHANGED settled

\* initializeCommand on the host, then onCreate, updateContent and postCreate
\* commands in the container, of which there is at least one.
CreateHooks ==
  /\ pc = "hooks"
  /\ IF Denied \/ ~Running(target) THEN GiveUp
     ELSE /\ ct' = [ct EXCEPT ![target].ran = @ \cup {cmd.hooks}]
          /\ pc' = IF plan.install THEN "dotfiles"
                   ELSE IF plan.enter THEN "enter" ELSE "complete"
          /\ UNCHANGED <<disk, command, settled>>
  /\ UNCHANGED fault

\* InstallScript: a checkout found at the target path is pulled, whatever it
\* is a checkout of.  The script may fail after the clone.
InstallDotfiles ==
  /\ pc = "dotfiles"
  /\ IF ~Running(target) THEN GiveUp /\ UNCHANGED fault
     ELSE LET d == cmd.config.dotfiles
              there == ct[target].checkout[d.target]
              cloned == [ct EXCEPT ![target].checkout[d.target] =
                           IF there = {} THEN {d.repo} ELSE there]
          IN /\ \/ /\ ct' = [cloned EXCEPT ![target].installed = @ \cup {d}]
                   /\ pc' = IF plan.enter THEN "enter" ELSE "complete"
                   /\ UNCHANGED fault
                \/ ct' = cloned /\ pc' = "failed" /\ fault' = TRUE
             /\ UNCHANGED <<disk, command, settled>>

\* The start and attach commands of the plan, of which there is at least one.
EnterHooks ==
  /\ pc = "enter"
  /\ IF ~Running(target) THEN GiveUp
     ELSE /\ pc' = IF Up \/ plan.create THEN "complete" ELSE "done"
          /\ UNCHANGED <<ct, disk, command, settled>>
  /\ UNCHANGED fault

Complete ==
  /\ pc = "complete"
  /\ Persist(CompleteLifecycle(mem, plan, cmd.config.dotfiles),
             IF Up THEN "final" ELSE "done")
  /\ UNCHANGED <<plan, settled>>

\* The last write of up; without a bridge it records that there is none.
Finish ==
  /\ pc = "final"
  /\ Persist(IF cmd.config.bridge THEN mem ELSE DisableBridge(mem), "done")
  /\ UNCHANGED <<plan, settled>>

-----------------------------------------------------------------------------
(* The end of a command, and what happens around it. *)

Forget ==
  /\ pc' = "idle" /\ cmd' = NoCommand /\ mem' = NoState /\ seen' = Unseen
  /\ target' = NoContainer /\ created' = FALSE /\ plan' = NoPlan
  /\ fault' = FALSE

\* The command runs what an up with configuration c runs.
RunsLike(c) == cmd.hooks = c.hooks /\ cmd.config.dotfiles = c.dotfiles

Return ==
  /\ pc \in {"done", "failed"}
  /\ settled' = IF pc = "failed" \/ ~Exists(target) THEN {}
                ELSE IF Up THEN {cmd.config}
                ELSE IF cmd.phase = "enter" THEN settled
                ELSE {c \in settled : RunsLike(c)}
  /\ Forget
  /\ UNCHANGED <<ct, disk>>

\* The process is killed.
Crash ==
  /\ pc \notin {"idle", "done", "failed"}
  /\ settled' = {}
  /\ Forget
  /\ UNCHANGED <<ct, disk>>

\* Somebody removes, stops or starts a container.
Meddle ==
  /\ \E id \in Existing, s \in {"running", "stopped", "removed"} :
       /\ ct' = [ct EXCEPT ![id].status = s]
       /\ settled' = IF s = "removed" THEN {} ELSE settled
  /\ fault' = (pc # "idle")
  /\ UNCHANGED <<disk, pc, command>>

Next ==
  \/ Start \/ CallFails \/ Observe
  \/ Reuse \/ StartStopped \/ Remove \/ Create
  \/ Apply \/ Inspect \/ RecordBridgeStart \/ StartBridge \/ RecordBridge
  \/ BeginUpLifecycle \/ BeginRunLifecycle \/ CreateHooks \/ InstallDotfiles
  \/ EnterHooks \/ Complete \/ Finish
  \/ Return \/ Crash \/ Meddle

Spec == Init /\ [][Next]_vars

-----------------------------------------------------------------------------
(* Properties. *)

Pcs == {"idle", "observe", "container", "create", "apply", "inspect",
        "bridge", "serve", "enable", "plan", "hooks", "dotfiles", "enter",
        "complete", "final", "done", "failed"}

\* Every variable has its type, and a command in progress has arguments.
TypeOK ==
  /\ ct \in [Ids -> Container]
  /\ disk \in State
  /\ pc \in Pcs
  /\ cmd \in Command \cup {NoCommand} /\ (pc # "idle" => cmd \in Command)
  /\ mem \in State
  /\ seen \in [id : Ids \cup {NoContainer}, running : BOOLEAN]
  /\ target \in Ids \cup {NoContainer}
  /\ created \in BOOLEAN
  /\ plan \in Plan
  /\ fault \in BOOLEAN
  /\ settled \in SUBSET Configs

\* What state.json calls ready is ready: the create commands of the recorded
\* lifecycle key have run to their end in the recorded container, and its
\* dotfiles were installed there, whatever commands failed or were killed and
\* whoever removed containers in between.
ReadyMeansRan ==
  disk.ready =>
    /\ disk.container \in Ids
    /\ disk.lifecycleKey[2] \in ct[disk.container].ran
    /\ disk.lifecycleKey[3] \in
         ct[disk.container].installed \cup {NoDotfiles}

\* Dotfiles recorded as installed were installed by the recorded settings in
\* the recorded container, and not in one that it replaced.
DotfilesInstalled ==
  disk.dotfilesReady =>
    /\ disk.container \in Ids
    /\ disk.dotfiles \in ct[disk.container].installed

\* When up reports success, the container is the one its configuration asks
\* for, its create commands and dotfiles are done there, and state.json says
\* so, and whether there is a bridge, whatever it said before.
UpDelivers ==
  pc = "done" /\ Up =>
    /\ ct[target].key = Key
    /\ cmd.hooks \in ct[target].ran
    /\ cmd.config.dotfiles \in ct[target].installed \cup {NoDotfiles}
    /\ disk.container = target /\ disk.key = Key
    /\ disk.ready /\ ~disk.transition
    /\ disk.lifecycleKey = UpLifecycleKey
    /\ disk.bridge = cmd.config.bridge /\ ~disk.bridgeTransition

\* Whatever earlier commands left behind, an up under which nothing fails
\* succeeds, unless its host command was not permitted.
UpRecovers ==
  pc = "failed" /\ Up => fault \/ (plan.create /\ Denied)

\* A second up with the configuration of a successful one neither creates a
\* container nor runs the create commands again.  In between there may be
\* stops and starts of the container, and runs of the start and attach phases;
\* and runs of the create phase too, if they came to the same commands and
\* dotfiles as the up, with whatever configuration.
UpIsIdempotent ==
  pc # "idle" /\ Up /\ ~cmd.forced /\ cmd.config \in settled =>
    ~created /\ pc \notin {"create", "hooks", "dotfiles"}

-----------------------------------------------------------------------------
(* The inductive invariant behind the proofs. *)

\* Where a command works on a container, and where it has recorded it.
Working == {"apply", "inspect", "bridge", "serve", "enable", "plan", "hooks",
            "dotfiles", "enter", "complete", "final"}
Recorded == (Working \ {"apply"}) \cup {"done"}

\* Dotfiles are installed only where some are configured.
InstallInv ==
  /\ pc \in {"hooks", "dotfiles"} /\ plan.install =>
       cmd.config.dotfiles # NoDotfiles
  /\ pc = "dotfiles" => plan.install

\* What was done in a container is never undone.
Grown(c, d) ==
  \A id \in Ids : c[id].ran \subseteq d[id].ran
                /\ c[id].installed \subseteq d[id].installed

\* Of a container that was never created nothing is known.
UnbornInv == \A id \in Ids : ct[id].status = "unborn" => ct[id] = Unborn

\* What a state says has been done in its container c[id] has been done.
Honest(s, c) ==
  /\ s.ready =>
       /\ s.container \in Ids
       /\ s.lifecycleKey \in LifecycleKeys
       /\ s.lifecycleKey[2] \in c[s.container].ran
       /\ s.lifecycleKey[3] \in c[s.container].installed \cup {NoDotfiles}
  /\ s.dotfilesReady =>
       /\ s.container \in Ids
       /\ s.dotfiles \in c[s.container].installed

HonestInv == Honest(disk, ct) /\ Honest(mem, ct)

\* The container a command works on is the one in its tracker.
TargetInv ==
  /\ pc \in {"idle", "observe"} =>
       ~created /\ seen = Unseen /\ target = NoContainer
  /\ pc = "container" =>
       ~created /\ seen.id = target /\ mem.container = target
  /\ pc = "create" => ~created
  /\ pc \in Working => target \in Ids
  /\ pc \in Working /\ ~(pc = "apply" /\ created) => mem.container = target

\* What remains to be done when the lifecycle is about to be completed.
PlanInv ==
  /\ pc \in {"hooks", "dotfiles", "enter", "complete"} =>
       /\ plan.key \in LifecycleKeys
       /\ plan.key[2] = cmd.hooks /\ plan.key[3] = cmd.config.dotfiles
  /\ pc \in {"hooks", "dotfiles"} => plan.create
  /\ pc = "complete" => Up \/ plan.create
  /\ pc \in {"dotfiles", "enter", "complete"} /\ (Up \/ plan.create) =>
       cmd.hooks \in ct[target].ran
  /\ \/ pc \in {"hooks", "dotfiles"} /\ ~plan.install
     \/ pc \in {"enter", "complete"} /\ (Up \/ plan.create)
     => cmd.config.dotfiles \in ct[target].installed \cup {NoDotfiles}

\* What an up has already established for its own report.
UpInv ==
  Up =>
    /\ pc \in Working \cup {"done"} =>
         target \in Ids /\ ct[target].key = Key
    /\ pc \in Recorded =>
         disk = mem /\ mem.container = target /\ mem.key = Key
    /\ pc \in {"plan", "hooks", "dotfiles", "enter", "complete", "final",
               "done"} /\ cmd.config.bridge =>
         mem.bridge /\ ~mem.bridgeTransition
    /\ pc \in {"hooks", "dotfiles", "enter", "complete"} =>
         plan.key = UpLifecycleKey
    /\ pc \in {"final", "done"} =>
         /\ mem.ready /\ ~mem.transition
         /\ mem.lifecycleKey = UpLifecycleKey
         /\ cmd.hooks \in ct[target].ran
         /\ cmd.config.dotfiles \in ct[target].installed \cup {NoDotfiles}
    /\ pc = "done" => mem.bridge = cmd.config.bridge /\ ~mem.bridgeTransition

\* The engine never has two containers of the workspace.
OneInv == \A i, j \in Existing : i = j

\* Without a fault the world is as an up has seen and changed it.
WorldInv ==
  Up /\ ~fault =>
    /\ pc = "container" =>
         /\ seen.id = NoContainer => Existing = {}
         /\ seen.id # NoContainer => Exists(seen.id)
         /\ seen.running => Running(seen.id)
    /\ pc = "create" => Existing = {}
    /\ pc \in Working => Running(target)

\* The container on record is the one that configuration c asks for, and its
\* lifecycle has been completed.
Completed(s, c) ==
  /\ s.key = ContainerKey(c) /\ s.ready /\ ~s.transition
  /\ s.lifecycleKey = LifecycleKey(c.hooks, ContainerKey(c), c.dotfiles)
Kept(c) ==
  /\ Exists(disk.container) /\ ct[disk.container].key = ContainerKey(c)
  /\ Completed(disk, c)

\* What the tracker holds is what is on disk, and the target is in it.
Fresh == mem = disk /\ target = disk.container

\* Where an up has not begun the lifecycle.
Before == {"container", "apply", "inspect", "bridge", "serve", "enable", "plan"}

\* What an up has settled is still so when the next command begins; an up with
\* that configuration has nothing to do; a run leaves it alone or redoes it.
AtRest(c) == pc \in {"idle", "observe"} => Kept(c)
DuringUp(c) ==
  pc # "idle" /\ Up /\ ~cmd.forced /\ cmd.config = c =>
    /\ ~created /\ pc \notin {"create", "hooks", "dotfiles"}
    /\ pc \in Before => Kept(c) /\ Fresh
DuringRun(c) ==
  pc \notin {"idle", "observe", "failed"} /\ ~Up =>
    /\ pc = "plan" => Kept(c) /\ Fresh
    /\ cmd.phase = "enter" =>
         Kept(c) /\ pc \in {"plan", "enter", "done"}
                 /\ (pc = "enter" => ~plan.create)
    /\ cmd.phase \in {"all", "create"} =>
         pc \in {"plan", "hooks", "dotfiles", "enter", "complete", "done"}
    /\ cmd.phase \in {"all", "create"} /\ pc # "plan" /\ RunsLike(c) =>
         /\ ct[target].key = ContainerKey(c)
         /\ mem.container = target /\ mem.key = ContainerKey(c)
         /\ plan.create /\ plan.key = LifecycleKey(c.hooks, ContainerKey(c),
                                                     c.dotfiles)
         /\ pc = "done" => disk = mem /\ Completed(mem, c)
SettledInv == \A c \in settled : AtRest(c) /\ DuringUp(c) /\ DuringRun(c)

-----------------------------------------------------------------------------
(* What the installer announces, and does not always do.                    *)

\* "Installing dotfiles from <repository>": dotfiles recorded as installed
\* are a checkout of the repository that is recorded.
DotfilesCheckedOut ==
  disk.dotfilesReady /\ disk.container \in Ids =>
    disk.dotfiles.repo \in
      ct[disk.container].checkout[disk.dotfiles.target]

=============================================================================
