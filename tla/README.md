# A verification project for hatchctl

hatchctl brings up development containers from a `devcontainer.json`. It is a
command line program, so its hard part is not one long-running process but
many short ones: several commands of the same workspace may run at once, each
may be killed at any moment, and what one leaves behind (a container, a bridge
server, a handful of JSON files, a cache) is what the next one starts from.

This directory holds TLA+ models of the places where these commands, the
container engine and the files have to agree, the TLC configurations that
check the models on small instances, and theorems about them that TLAPS proves
for every instance. `PROJECT.json` maps every definition to its source lines
and lists the runs, the mutants that show that each checked property can fail,
the hazards, the findings and the theorems.

1. [Inventory](#inventory)
2. [Modules](#modules)
3. [Runs](#runs)
4. [Proofs](#proofs)
5. [What the models found](#what-the-models-found)
6. [What is not modelled](#what-is-not-modelled)
7. [Plan](#plan)

## Inventory

Paths are relative to `src/internal/`.

| Component | State it keeps | Operations | What makes it correct |
|---|---|---|---|
| Workspace lock (`store/fs/coordination.go`) | `lock` (flock), `coordination.json` (generation, active owner, lease) | acquire, renew in a goroutine, release, check busy, repair of a stale owner by a refused process | mutating commands exclude each other; the record names the holder and nobody else; release ends; the generation only grows |
| Optimistic reads (`reconcile/observe.go`, `commands_executor.go` Exec) | a read token: generation, owner, container | observe, revalidate | exec does not run across a mutation it could have seen |
| Command service (`app/service.go`) | none | which command locks, which only checks | every command that writes holds the lock |
| Observation and state file (`reconcile/observe.go`, `state.go`, `store/fs/state.go`) | `state.json` | find the container by recorded id or labels, carry over or clear what is known about it | nothing known about one container is believed of another |
| Container reconciliation (`reconcile/runtime.go`, `container_executor.go`, `keys.go`) | the container | reuse, start, replace, create | the container is the one the configuration asks for |
| Lifecycle and dotfiles (`reconcile/lifecycle_executor.go`, `capability/dotfiles`, `policy/lifecycle.go`) | lifecycle key, readiness, dotfiles in `state.json` | plan, create/start/attach hooks, install, complete | what is recorded as done was done, in this container; what failed is done again |
| Bridge (`bridge/runtime.go`, `bridge.go`, `store/fs/bridge.go`) | session, pid file, status file, a server process, a port | start, stop the old one, serve, doctor | one server per workspace, for the current container, and it can be stopped |
| Port forwards (`bridge/runtime.go` 255-418) | forwards, status snapshots | ensure forward, serve one connection | a forward handed out accepts; the status file ends up current |
| Resolution (`devcontainer/config.go`, `plan_cache.go`, `resolve_persistence.go`, `store/fs/plan_cache.go`, `features.go`) | `resolved-plan.json`, `devcontainer-lock.json` | hash, look up, resolve, write back | a cached plan is what its key says; the lock file is obeyed |
| Features (`featurefetch`, `devcontainer/feature*.go`) | the feature cache of a workspace and configuration, and its locks | look up, fetch, populate, order | a cached feature is complete and stays; no command waits for a dead one; the install order does not depend on a map |
| Images (`reconcile/image_executor.go`, `keys.go`, `metadata.go`, `devcontainer/spec_metadata.go`) | the images of the engine, their labels (key, metadata) | plan, pull, build, merge the metadata | an image is built again when what it is made of has changed, and only then; the merged configuration holds what source image, features and `devcontainer.json` say, by whichever way up, build and exec come to it |
| Trust (`policy/verification.go`, `security`) | trusted references in `state.json` | verify images and features, ask, approve | nothing is trusted that nobody has approved |
| Workspace plan (`plan`) | none | lockfile policy, read-only plans | readers neither write nor use the network |
| Specification merge (`devcontainer/spec_*.go`), defaults (`appconfig`, `app/defaults.go`) | none | parse, merge, precedence | precedence is as documented |
| Engine clients (`backend`), other capabilities, command line, display | none | subprocesses, flags, output | - |

How they interact. A mutating command (`up`, `build`, `run`) takes the
workspace lock, builds its plan again under it, resolves the configuration
(cache, lock file, network), reconciles image and container, runs hooks and
dotfiles, starts a bridge server that outlives it, and records each stage in
`state.json`. `exec` takes no lock: it checks that the workspace is not busy,
observes, prepares, and revalidates its token. Processes share only files, the
engine, the port of the bridge, and pids.

Hard behaviours, and where they bite, are the `hazards` of `PROJECT.json`:
repairs of the coordination record without the lock, the renewal goroutine
against release, kills between an effect and its record, stale observations, a
removed container of which the state file still speaks, a slow bridge server
that stops late, reused pids, an edit between load and hash, offline readers
next to a writer, a label that was written from an image that was not there, a
half-extracted feature, a lock whose holder is killed.

## Modules

| Module | Models | Lines up with |
|---|---|---|
| `MutationLock` | the abstract promise: at most one body at a time | what `withMutationLock` relies on |
| `Coordination` | lock, record, renewal, repair, exec's token | `coordination.go`, `observe.go`, `service.go` |
| `CoordinationProofs` | theorems on it | |
| `Reconcile` | up and run against engine and `state.json` | `reconcile/*`, `dotfiles.go`, `policy/lifecycle.go` |
| `ReconcileProofs` | theorems on it | |
| `Bridge` | replacing the bridge server | `bridge/runtime.go`, `bridge.go`, `store/fs/bridge.go` |
| `BridgeProofs` | theorems on it | |
| `Resolution` | cached plan, lock file, feature cache, network | `devcontainer/*`, `featurefetch`, `plan`, `store/fs` |
| `ResolutionProofs` | theorems on it | |
| `Metadata` | metadata entries and how they merge | `devcontainer/spec_metadata.go`, `metadata.go` |
| `Images` | the image and its labels, the container made from it, trust | `reconcile/image_executor.go`, `keys.go`, `metadata.go`, `policy/verification.go` |
| `ImagesProofs` | theorems on it: metadata, types, trust | |
| `ImagesContentProofs` | theorems on it: labels, keys, what is merged and created | |
| `FeatureStore` | the abstract promise: features appear as a whole and stay | what `Resolution` relies on |
| `Features` | the feature cache and the install order | `featurefetch/*`, `devcontainer/feature*.go` |
| `FeaturesProofs` | theorems on it: the cache | |
| `FeaturesOrderProofs` | theorems on it: the install order | |
| `MC*` | values of the constants, symmetry | |

In every module one action is one access to what is shared (a file, the flock,
the engine, a process, the port, the network), and everything the code does
between two accesses is part of the action before it. A process may be killed
between any two. Each module has *history* variables, marked as such, that no
action reads: they record why an exception applies. Operators marked `Mutant`
are the definition that follows them with a plausible mistake in it; they are
not used by the specification.

### Coordination

| Model | Code |
|---|---|
| `flock` | the exclusive flock on `lock` |
| `rec` | `coordination.json`; missing, corrupt or a record |
| `pc`, `buf`, `stamp` | where a process is, the record it read, the lease it was built with |
| `renewer`, `due`, `rbuf` | the goroutine of `renew`, its ticker, the record it is about to write |
| `Start` ... `AcqWriteFails` | `AcquireWorkspaceLock` |
| `RenewRead/Write/WriteFails/Stop` | `renew` |
| `Finish`, `RelRead/Write/WriteFails`, `Unlock` | the body ends, `Release` |
| `BusyRead`, `BusyJudge`, `RepairWrite` | `activeWorkspaceOwner`, which runs in a *refused* process, without the lock |
| `Probe`, `ProbeUnlock` | `CheckWorkspaceBusy`, which takes the flock for an instant |
| `ExecObserve`, `ExecRevalidate`, `ExecFinish` | `Executor.Exec` and its read token |
| `Tick`, `Crash`, `Damage` | the clock, `kill -9`, somebody who deletes or spoils the record |

A process is one invocation and is used once. `SameHost` and `ProcessRunning`
keep the rules of `normalizedActiveOwner`: a process of the same host is judged
by its pid, which may have been taken by another process (`PidReuse`), one of
another host by its lease alone. A write that fails may have happened or not
(`FailedWrite`), because `fileutil.WriteFile` still syncs the directory after
the rename.

The refinement. `PhaseOf` maps a process to before, in or after its body, and
`BodiesExclude` says that under this mapping `Coordination` implements
`MutationLock`. It holds with crashes, lost leases and a destroyed record,
since the flock alone decides.

Properties: `TypeOK`; `BodiesExclude`; `HolderRecorded` (the record names the
running body); `RenewalLossExplained` ("ownership changed while lock held" is
never a process's own doing); `ReleasedStaysGone` (a released owner never comes
back); `QuietExec` (exec's revalidation is worth something);
`BusyNamesUnfinished` ("busy" never names a process that had already released);
`GenerationMonotone`; `Terminates`. Where they make an exception it is for
`misrepaired`, a repair that changed what it had no business to change (see the
finding), or for `damage`.

### Reconcile

| Model | Code |
|---|---|
| `ct` | the containers of the workspace: status, container key, hooks that ran to the end, dotfiles installed and checked out |
| `disk`, `mem` | `state.json` and the tracker of the command |
| `seen`, `target`, `created`, `plan` | the observation, the container it works on, the lifecycle plan |
| `Observe` | `Observer`, the labels as a fallback for the recorded id, `clearedState` |
| `Replaceable`, `Reuse`, `StartStopped`, `Remove`, `Create` | `ReconcileContainer` and the plan it follows |
| `Apply`, `Inspect`, `Persist` | the tracker and the state file |
| `RecordBridgeStart`, `StartBridge`, `RecordBridge` | `startUpBridge`: the bridge transition in the state file |
| `MergedHooks`, `UpLifecycleKey`, `RunLifecycleKey` | the commands up and run have merged, and the keys they make of them |
| `BeginUpLifecycle`, `BeginRunLifecycle`, `CreateHooks`, `InstallDotfiles`, `EnterHooks`, `Complete` | `lifecycle_executor.go`, `dotfiles.go` |
| `Finish`, `Forget`, `Return` | the end of the command |
| `CallFails`, `GiveUp`, `Crash` | errors of calls, refusals, kills |
| `Meddle` | people at the engine's command line |

Assumptions. Commands come one at a time, which is what `Coordination`
establishes. Keys are pairs and tuples of what they hash, so hashing is
injective. Every set of hooks has at least one command in the container;
`HostHookSets` are those with an `initializeCommand`. The engine refuses a
second container of the same name. The compose lookup differs from the plain
one in its query only. `StartBridge` succeeds or fails, and nothing is said of
the server behind it: which one that is, and whether it works for this container,
is the matter of `Bridge` (on darwin; elsewhere `Start` does nothing). Trusted
references, and where keys and commands come from, are the matter of `Images`.

up and run merge their lifecycle commands from different images (`preparedImage`
against the reconciled one), so run may come to others than up. `RunHooks` says
for each configuration which; the theorems hold for any. The lifecycle key is
made of the container key (up from its configuration, run from `state.json`),
these commands and the dotfiles.

Properties: `TypeOK`; `ReadyMeansRan` and `DotfilesInstalled` (what `state.json`
says is true of the container it names); `UpDelivers` (success means that the
container, its commands, its dotfiles and what `state.json` says of them and of
the bridge are as asked); `UpRecovers` (whatever was left behind, an up under
which nothing fails does not fail); `UpIsIdempotent` (a second up does no work
twice, if in between the container was at most stopped and started, and run did
nothing or the same).

### Bridge

| Model | Code |
|---|---|
| `proc`, `serves` | the process table; the container of each server |
| `port`, `pidFile`, `status` | the listener on the session's port, `bridge.pid`, `bridge-status.json` |
| `pending`, `stopping` | stop requests not yet read, servers told to stop |
| `Begin`, `RequestStop`, `RequestTimeout`, `ReadPid`, `Await` | `stopExisting`, the request and the wait |
| `Lookup`, `Judge`, `Terminate`, `Terminated`, `Kill` | the pid that both files agree on is signalled |
| `WriteStarting`, `Spawn`, `Connect`, `WaitTimeout`, `Abandon`, `CallFails`, `Killed` | `Start` up to the startup timeout; errors and kills |
| `Bind`, `WritePID`, `Announce`, `HandleStop`, `Report`, `Close`, `Exit` | `Serve`, `handleConn`, `serveListener` |
| `StrangerStarts/Listens/Ends`, `ServerDies`, `Dies` | other programs take pids and the port; servers crash |

One up at a time, again by `Coordination`. The session's id, token and port are
fixed for ever, so a request is always authorised. A dead child's pid is not
reused while its parent lives. SIGKILL works or up fails.

Properties: `TypeOK`; `StartedServes` (what up takes for its server works for
its container); `PidFileNamesServer`; `Stoppable` (what a finished up leaves
behind can be asked and signalled). Their exceptions are `astray` and `lost`:
servers an up lost sight of, because it was killed between spawn and listening,
because the startup timeout expired under it, because a stranger's listener
passed for the server, or because it could not read the pid file after the
server had agreed to stop, and went on without waiting (`ReadPid`).

### Resolution

| Model | Code |
|---|---|
| `input` | everything the key hashes but the lock file: `devcontainer.json`, compose files, local features |
| `lock`, `plan`, `cache` | `devcontainer-lock.json`, `resolved-plan.json`, complete feature directories |
| `upstream` | what a registry tag or a tarball URL serves now |
| `Begin` | `BuildWorkspacePlan`: the configuration is loaded; policy and permissions |
| `Hash`, `HashLock`, `LockFileGone` | `resolvedPlanCacheKey`, before the lookup and again after the resolution, by readers too; the lock file is looked for and then read |
| `Usable`, `ReadPlan` | `ReadResolvedPlanCache`, `validateResolvedPlanCache` |
| `ReadLock`, `Refused`, `Served`, `Fetch`, `UseCached`, `CannotResolve` | `ResolveFeatures` and `featurefetch` |
| `Resolved`, `Clash` | the end of `ResolveFeatures`: `orderFeatures`, manifests, options, duplicate ids |
| `WriteLock`, `WritePlan` | `writeResolvedArtifacts`, `WritePlanCache` |
| `CallFails`, `Return` | an error; the end of the command, or a kill, at any point |
| `EditInput`, `EditLock`, `ClearCache`, `Publish` | people and the outside world |

`Writers` hold the mutation lock, so one at a time; readers (`exec`, `config`,
`run`, `bridge doctor` resolve read-only) run next to them; that `run` also holds
the lock only makes fewer interleavings possible. The key takes two steps where
there is a lock file, because an up that resolves no remote feature removes it;
the other files it hashes are written by no command, and an edit makes the
command an exception anyway. `Clashing` are the configurations and contents that
cannot be put together: a cycle, a dependency that is not enabled, two features
of one id, a manifest or an option that does not fit. Every call that reads or
writes a file may fail in any command, with the file there (`CallFails`). Pins
are digests or none; a lock entry of version and reference says nothing more. The
feature state file is written and read by nobody and is left out. A
registry answers a request for a digest with that digest.

Properties: `TypeOK`; `PlanHonest` (the cached plan belongs to its key);
`FollowsLock` (what is resolved is what the lock file says, by whichever way it
was found); `UpSettles` (after an up everything is locked and cached);
`OfflineSucceeds` (a reader that begins when everything is locked and cached
fails only by an error of its own in reading a file, whatever a writer next to
it does, fails at or is killed in). The last one is promised when what is
locked can be put together (`Compatible`), and no command has a reason to remove
the lock file (`LockFileStays`). The other exceptions: `raced`, a command during
which somebody edited the files, or that met what such a command wrote;
`robbed`, one during which the cache was cleared; `tainted`, a plan written by
a command in `raced`. They are necessary, see the end of
[What the models found](#what-the-models-found).

### Images

| Model | Code |
|---|---|
| `config` | `devcontainer.json` and the files that a build reads, on disk |
| `upstream`, `images` | the source image in its registry; the images of the engine: the source, the `-base` image of the features, the image of the compose service, the image that hatchctl labels (`resolved.ImageName`) |
| `container`, `state` | the container; container id and key, lifecycle key and trusted references of `state.json` |
| `run` | the command, with the configuration it has loaded, what its policy trusts and the merged metadata |
| `Start` | `cloneWithIO`, `prepareVerificationPolicy`, `Materialize`, `VerifyResolvedFeatures` |
| `Observe` | `Observer`, `clearedState` |
| `Plan`, `FirstStep` | `planDesiredImage`, `ManagedImageKey`, `PlanImage`, `ReconcileImage` |
| `PrepareSource`, `BuildBase`, `BuildTarget` | `verifyImageReference` and `ensureLocalImage`; `BuildProject` and `buildDockerfileImage`; `ensureFeaturesImageFromBase` and `buildDockerfileImage` |
| `Enrich`, `MergedConfig`, `ExecConfig` | `EnrichMergedConfig`, `runtimeMetadataFromImage`, `enrichExecResolvedConfig` |
| `ReconcileContainer`, `Lifecycle`, `Finish` | the rest of up, build and run, as far as keys, labels and trust go |
| `Apply`, `Verdict` | `ImageVerificationPolicy.apply` and its prompt |
| `Edit`, `Publish`, `RemoveImage`, `ReplaceContainer` | an editor, the registry, people at the engine |

Metadata is data where it decides something: an entry is what the source
image, a feature or `devcontainer.json` says of hooks, a user, a mount and
privileges, and module `Metadata` merges lists of them as `MergeMetadata`
does. An image remembers what it was made of (`made`), which no action of the
code reads. A build and the commands after it may fail at any step (`Fail`); a
command that was killed is one that failed, as locks are not in this model.

Properties: `TypeOK`; `TrustWasGiven` (trust);
`SettingsFollow` (whether the metadata comes from a build, from labels or from
the configuration, the settings are those of source image, features and
`devcontainer.json`, each overriding the one before); `EditsReachTheImage` and
`ContainerHasContent` (an image is built again when it has to be);
`SecondUpQuiet` (and only then); `HooksOnce` (metadata met twice is not run
twice); `ExecSeesUp` (exec, which merges other labels than up, comes to the
same settings). They make exceptions for what the keys leave out, each named:
`Outdated` (the label is of another `devcontainer.json`), `Blind` (the image
that was built on was not there when the label was written), `Moved` (the
source image has been replaced since); see [below](#what-the-models-found).

### Features

| Model | Code |
|---|---|
| `entry`, `holder` | the directory of each source and digest, `.cache.lock` of each source |
| `Start`, `Pick`, `Load` | `ResolveFeatures`, `resolveFeature`, `validateFeatureLockfilePolicy`, `loadFeatureManifest` |
| `UseCached`, `Request`, `Look` | `cachedOCIFeature`, `cachedTarballFeature`, `fetchOCIFeature`, `fetchTarballFeature` |
| `Lock`, `Recheck`, `Extract`, `Rename`, `RemoveBroken`, `Retry` | `populateFeatureCache`, `ExtractFeatureLayer`, one file at a time |
| `Order`, `Before`, `Chosen` | `orderFeatures` |
| `Fail`, `Kill`, `Touch` | errors; `kill -9`, after which the kernel frees the flock; somebody else changes the cache |

A feature is its manifest and one more file, and a directory any part of it. A
source is its number in the order of the IDs. The cache belongs to one
workspace and one configuration file (`WorkspaceScopedDir`), so those who meet
in it are a command that populates it under the workspace lock and commands
that only look, or commands that were given different state directories, and
with them different workspace locks, next to the same cache directory. The
model does not tell these apart: any two commands may populate the cache, with
any wishes and lock files, which is more than the code lets happen.

The refinement: `Features` implements `FeatureStore` under `Stored` (the
directories that hold the whole feature) and `Taken` (what the commands have
resolved). Properties: `TypeOK`; `StoreSpec`; `OnePopulates`; `TakenStays` (what
has been resolved is still there when it is copied into a build);
`InstallOrder` (the first valid order, whatever the order of the map) and
`CycleOnlyIfThereIsOne`, against a definition of valid orders as permutations;
`EveryResolutionEnds`. Nothing is promised of a directory that somebody else
has touched (`spoilt`).

## Runs

| Run | Instance | Shows |
|---|---|---|
| `crash` | 3 mutators (symmetric), 1 exec, one host, everybody may be killed, clock to 2 with a lease of 2 | exclusion (the refinement), the record names the holder, renewal, exec's token |
| `lease` | 2 mutators on 2 hosts, 1 exec, clock to 2 with a lease of 1, one may be killed, failing writes, pid reuse, one damage of the record, fairness | release is final, "busy" names nobody who has released, the generation grows, every command that starts ends |
| `erased` | 3 mutators, no crash, clock stopped | violated: the unlocked repair erases a live owner |
| `reconcile` | 2 containers, 3 configurations, two of which share a container and differ in commands and dotfiles, host commands | all properties of Reconcile but the next |
| `dotfiles` | 2 configurations with one target path | violated: the recorded repository is not what is checked out |
| `bridge` | 4 pids, 2 containers | all properties of Bridge |
| `resolution` | 1 writer, 1 reader, a registry feature and a tarball that may clash, 2 configurations, 2 digests, one outside change | all properties of Resolution |
| `refresh` | 1 writer | violated: update does not update a locked feature |
| `images` | 5 kinds of configuration, 1 feature, 2 versions of the source image, 3 commands, 2 changes | all properties of Images but the next two |
| `repeat` | the same, 2 commands, no change | violated: run leaves out hooks that up ran |
| `approvals` | the same, 2 commands, one approval | violated: an approval "for this run only" is used by the next run |
| `features` | 2 commands, a local feature, one of a registry, a tarball, 2 contents of each, 1 kill or touch | all properties of Features |

Bounds and why they are enough.

- *Coordination.* The conflicts of the protocol are between a holder, the next
  holder and a refused process that judges a record read earlier: three
  mutators. More refused processes do not add a kind of step. `MaxTime` lets a
  lease be taken, renewed and expire. `MaxDamage` bounds how often an outsider
  spoils the record; one spoiled record is read by everybody. `MayCrash` and
  `FaultyDisk` select the faults of a run, so that each run stays small; the
  theorems have no such bounds.
- *Reconcile.* At most one container of the workspace exists at a time, so an
  old and a new one are needed, `Ids` also bounds how many are ever created. Of
  the three configurations of `reconcile` one (`Plain`) needs a container of its
  own and has a bridge; the other two differ only in what the lifecycle key
  holds, so that one container goes through both. One of these (`Featured`) has
  features whose hooks run does not come to. There is one dotfiles repository:
  a container that goes from one repository to another is covered by the
  theorems, and by `dotfiles` for what is checked out then. Sequences of
  commands are unbounded.
  That a third container changes nothing is what the theorems add.
- *Bridge.* Four pids are an up, the old server, the new one and a stranger,
  and each can become another. No other bound: the model is finite.
- *Resolution.* One writer at a time is all the lock allows; readers do not see
  each other. `MaxChanges` bounds the changes around the commands to one, but
  the first state has any lock file, so an edit or a checkout before the first
  command comes for free. The two features differ in how they are pinned; one
  configuration enables both, so that a command may fail between them, and the
  other none, so that a command may remove the lock file. They clash when they
  are the same, which lets one lock file fit and another not.
- *Images.* `MaxRuns` is three: an up, a command after it, and one after that;
  the properties relate at most two that follow each other. `MaxChanges` is
  two, an edit, approval, removal or pull and one that undoes or overlays it.
  One of the two versions of the source image has a label. Every kind of
  configuration takes its own way through `FirstStep`.
- *Features.* Two commands are enough to compete for one lock and for one
  directory. One wants all three features, so that it visits them in any order.
  The graphs are one against the order of the IDs in which a feature also names
  itself, and one with a cycle and a missing dependency. The cache starts
  empty, with broken directories as an outsider may leave them, or partly
  filled. One fault can be a kill with the lock held or a touch.

Deadlock is checked in the runs of the first four components: Coordination, which
stops when all processes have been used, says so with an explicit stuttering
action (`AllEnded`), and the others never stop. It is not checked in `images`,
`repeat`, `approvals` and `features`, where every behaviour stops once the
commands of the bound have ended.

Fairness is assumed in `lease` and `features` only. In `lease`, `FairSpec` is
weak fairness for each process and for its renewal goroutine, separately,
because the Go scheduler runs both and neither waits for the other outside of
`Release`. Bodies return, which the code does not control; a killed process
takes no further step and needs none. In `features`, each command is weakly
fair: requests have a timeout (`featureHTTPTimeout`), archives a limit, and the
flock is the only thing that a command waits for. There is no fairness for the
clock, for outsiders, for kills, or for the order in which features are visited.

Every property of a passing run has a mutant, a plausible mistake in one of the
mapped definitions under which TLC finds the property violated.

## Proofs

`tlapm` checks every theorem; `PROJECT.json` lists those a reader should know.
They hold for any number of processes, containers, configurations, pids, and
for every value of the other constants that satisfies the named assumption of
the module. The same invariants are what the runs check on small instances.

*Coordination.* `Spec => []TypeOK`, then exclusion. The invariant is the
conjunction of `FlockInv` (the flock is held by exactly the process whose
control is between acquisition and unlock), `RenewInv` (a renewal goroutine
lives only while its process is in the body or waits for it, and what it is
about to write is its own ownership), `RecordInv` (an unreadable record says
nothing), `UnlockInv` and `GenInv` (whatever is about to be written continues
the generation of the record, unless `misrepaired` or `damage`). Exclusion as
such follows from `FlockInv` alone; the refinement of `MutationLock` maps
each step to a step or a stutter. The others are needed because a record is
written by a goroutine, by the release and by refused processes from values
they read earlier: without `RenewInv` the step in which the goroutine writes
could bring back a released owner. `GenerationMonotone` makes no exception for
damage of the past, so it needs `NothingOlder` besides: whatever is about to be
written is at least as new as the record. `BusyNamesUnfinished` needs
`NamesInv`: who had ended when a process was refused stays as it ended, and the
owner that the process judges is none of those who had released by then.

*Reconcile.* The invariant is `TypeOK`, `InstallInv`, `UnbornInv`,
`HonestInv`, `TargetInv` and `PlanInv`. `ReadyMeansRan` is not inductive by
itself: the file is written from the memory of the command, so the memory has
to be honest too (`HonestInv`), the container in the memory has to be the one
the hooks run in (`TargetInv`), and the plan has to remember why hooks that were
skipped have already run (`PlanInv`). `UpDelivers` needs `UpInv` on top (what an
up has established so far), `UpRecovers` needs `OneInv` and `WorldInv` (without a
fault the engine is as the up has seen it). `UpIsIdempotent` needs `SettledInv`:
what an up has settled is so whenever a command begins, an up with the same
configuration finds it on disk and in its own memory up to the plan, and a run
leaves it alone, completes it again with the same key, or ends what was settled
because it ran other commands.

*Bridge.* The invariant is `TypeOK`, `PortInv`, `CommandInv`, `KnownInv` and
`SoleInv`. `PortInv` gives `PidFileNamesServer`: only who has the port writes
the pid file. `StartedServes` needs `KnownInv`, which follows each server that
may come to listen through every stage of the up that replaces it, or puts it
among those that were lost; `Stoppable` needs `SoleInv`, that until a server was
lost there is at most one.

*Resolution.* The invariant is `IInv`. All properties speak of commands that are
done, so it says what a command knows on its way there, as long as nobody edits
a file: the configuration it loaded is on disk (`LoadInv`), its key is a key of
what is on disk (`KeyInv`), what it has resolved so far was pinned or may be
pinned (`ResolveInv`), and what it has resolved in the end is what the lock file
says or is about to say (`GotInv`). These need `PlanHonest`, since a command may
take its resolution from a plan, and the other way round. That a writer does
not spoil the memory of a reader next to it is lemma `LockGrows`: short of an
edit, the lock file only gains entries for enabled features. `CacheInv` gives
`UpSettles`. `PromiseInv` gives `OfflineSucceeds`: while a promise stands, what a
reader needs is locked and cached, fits together, and the lock file it has seen
is there when it opens it.

*Features.* The lock is characterised as a whole: the holder is inside
`populateFeatureCache` and who is inside holds the lock (`OnePopulates`); it
follows that between `RemoveBroken` and `Retry` nobody else stores anything
there, and that only what has no manifest is removed. With it, a directory is
complete, has no manifest, or has been touched, so a look at the manifest finds
out whether the whole is there; `TakenStays` and the refinement follow.

The install order has its own invariant, `Greedy`: at every place of the order
built so far stands the first of the features that were ready for it. That this
gives the first of the valid orders (`InstallOrder`) is then a comparison at the
first place where another valid order differs: both have the same features
before it, so the other one chose there among the same features.
`CycleOnlyIfThereIsOne` follows in the same way: a valid order has a first
feature that is still missing, and this one is ready. The induction is over the
steps of the command, each of which appends one feature.

*Images.* `TrustInv`: what the state file, the command and the state that it
will write back trust has been approved. `TrustWasGiven` needs all three, since
an up may drop the state of a lost container, and with it the trusted references,
before it writes those of its policy back.

`TypeOK` of Images needs that a container always finds a fresh ID and, for what
is merged, that lists of entries stay lists. It assumes `NoneAssumption`: the
value that stands for nothing is no image, container or configuration, which
in the code is `nil` or an error.

What Images says of labels and keys rests on one invariant, `ContentInv`
(`ImagesContentProofs`), in four groups.

- *The images* (`PlainImages`, `TargetImageIs`, `BaseIs`). An image that
  hatchctl has not labelled says what its source image says. The label of the
  target is `WrittenLabel` of what the image was made from, and its key agrees
  with it, or a file was edited while it was built.
- *The command* (`Reads`, `Paths`, `KeyIs`, `TargetKept`, `MergedIs`,
  `StillThere`). Short of an edit, the configuration that it has read is on disk
  and its key is the key of this configuration; the target it goes on with has
  that key; what it has merged is `MergedForm` of what it was merged from. The
  form says where every entry comes from, so that the properties become
  statements about lists: `SettingsFollow` holds because entries which come
  first may come twice (`FirstTwice`), `HooksOnce` because all that comes twice
  are entries of source images (`MergedShape`).
- *The container* (`ContainerIs`). Its label is a `MergedForm` as well, and its
  key tells its features and files, which gives `ContainerHasContent`.
- *The calm world* (`Standing`, `Returning`, `Leaving`). `Calm` says that the
  images, the container and the state file are as an up with the configuration
  on disk would make them. An undisturbed up brings this about one part after
  the other (`Leaving`); while it lasts, only a build can run, and it pulls and
  builds nothing new (`Standing`); an up that starts in it merges the same, finds
  the same key and keeps the container (`Returning`), which is `SecondUpQuiet`.
  `ExecSeesUp` puts `Calm` and `ContainerIs` together: label and configuration
  are the same form, to which exec adds at both ends what is there already
  (`FirstTwice`, `LastTwice`).

That a step of a command or of the world keeps each part is a lemma of its own
(`...Step`).

Model-checked only: `Terminates` of Coordination and `EveryResolutionEnds` of
Features, which are liveness and out of the prover's reach. What the runs with
`expect: violation` refute is not proved either, of course.

## What the models found

The runs with `expect: violation` are disagreements between the code and what
the repository says of it; `findings` in `PROJECT.json` quotes both sides.

- *A live owner is erased* (`erased`). `activeWorkspaceOwner` reads, judges and
  rewrites the record in a process that was refused the lock. If the owner it
  read ends and another takes over in between, the stale record overwrites the
  new one: the owner vanishes, its renewal fails, the generation falls. Then
  exec's revalidation may pass across a mutation, which is why `QuietExec` and
  `GenerationMonotone` make an exception for `misrepaired`.
- *Dotfiles of another repository* (`dotfiles`). With the same target path the
  installer pulls the old checkout, and the new repository is recorded.
- *Update does not update* (`refresh`). The lock entry is still used as a pin.
- *Run runs other hooks than up* (`repeat`). `run` prepares its configuration
  for `Config.Image` even when the container was made from the image with the
  features, so it does not run the hooks of the features. As the lifecycle key
  that run records is made of the commands it ran, the next up finds another key
  and runs its create commands again: `UpIsIdempotent` holds only across runs
  that came to the same commands.
- *An approval for this run only is kept* (`approvals`). The prompt asks "Trust
  unsigned feature for this run only?"; up and build write the answer to
  `state.json`, and every later command trusts the feature without a question. A
  test expects it (`TestBuildPersistsTrustedRefsToWorkspaceState`).

Other things that the models reach, without a run of their own.

- `Exec` refuses as busy on behalf of an owner that is dead
  (`commands_executor.go` 322), although the probe before it has shown that
  nobody holds the lock.
- Nothing removes `bridge.pid` and `bridge-status.json` when a server ends:
  `doctor` goes on reporting it as running, and an up may signal whoever has
  its pid by now.
- Where the keys leave something out: `ManagedImageKey` does not hash
  `devcontainer.json` for compose or for a build context elsewhere, so an edit
  of it does not reach the label of the image; it hashes the files after the
  configuration was loaded, so that an edit in between labels an old image with
  the new key; and a source image that is pulled again does not change it.
- For features on the image of a compose service that is not there yet, nobody
  pulls it before its label is read: what it says is lost from the label of the
  target (`Blind`), for as long as that image is reused. The label that
  hatchctl writes on what a Dockerfile builds hides the one of its parent.
- With an image and features, the hooks of the source image are merged twice:
  they are on the label of the target already.
- A compose container is reused although `BuildProject` has made a new image,
  as its key has only the name of the image.
- `config` and `run` on a Dockerfile configuration whose image is not there
  lose what `devcontainer.json` says, and a user that was removed from it stays
  in effect for exec, which finds it on the label of the container.
- How long an approval lives depends on the command that meets another container
  than the recorded one: up and build write it back, a `run` of the create phases
  forgets it with the rest of the state.
- An up without a bridge replaces the container and records that there is no
  bridge, but stops no server (`commands_executor.go` 224): the one of the up
  before it goes on listening for a container that is gone.
- If the old server agrees to stop and its pid file cannot be read, `stopExisting`
  returns without waiting (`bridge/runtime.go` 432-437). The new server may then
  find the port taken, and `Start` takes the old one for it. It takes a
  stranger's listener for it as well.
- An up of a configuration without remote features removes a left-over lock file;
  a command next to it that has seen the file and opens it then, fails
  (`plan_cache.go` 34).
- `orderFeatures` does not look at `dependsOn` when there is a single feature.
- A cached feature whose manifest is there is used although other files of it
  have gone (`hasFeatureManifest`).

Not a run of its own, but the reason for `raced` and `tainted`: a resolution
loads the configuration before it takes its first key and stores the plan under
a key taken after the resolution (`config.go` 112-130). If somebody edits
`devcontainer.json` while features are being fetched, the old configuration is
stored as the plan of the new one, and every command uses it, with nothing to
show for it, until the next edit. If it is the lock file that is edited, the
command writes its own back, and a later command that finds that plan does so
too.

## What is not modelled

- Parsing of documents, defaults and flags: functions without state.
- The permission for risky settings of a workspace (`EnsureWorkspaceTrust`) is
  a function of the document, and the configuration of trusted signers is
  handed to cosign.
- Port forwards of the bridge (`bridge/runtime.go` 255-418): they live in one
  server, end with it, and no command depends on them. Their hazards, a
  listener that serves one connection and status files that are written out of
  order, are listed.
- Writing of the feature state file, which nobody reads.
- HTTP, tar, cosign, docker, podman, git, terminals: external. What the code
  needs of them is an action that succeeds, fails, or is cut off.
- The helper inside the container (`bridge/helper_main.go`) sends requests and
  keeps nothing.
- The remap of the user id in a new container (`EnsureUpdatedUIDContainer`)
  changes the container only.
- `Images` and `Reconcile` are not composed: they share the container, its key
  and `state.json`, and each takes of them what its properties tell apart. The
  product is out of TLC's reach.

## Plan

In this order, the most important behaviour first; all of the following is done.

1. `MutationLock`, `Coordination`: abstract lock, protocol, refinement, proofs.
2. `Reconcile`: commands against engine and state file, proofs.
3. `Bridge`: replacing the server, proofs.
4. `Resolution`: cached plan, lock file, offline readers, proofs.
5. `Metadata`, `Images`: image, labels, merged configuration, trust, proofs.
6. `FeatureStore`, `Features`: cache, refinement, install order, proofs.

What could follow: forwards of the bridge; `Resolution` over `FeatureStore` in
place of its one-step `Fetch`.
