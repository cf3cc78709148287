----------------------------- MODULE Resolution -----------------------------
(***************************************************************************)
(* How a command turns devcontainer.json into a resolved configuration:    *)
(* the cached plan (resolved-plan.json) and its key, the lock file of the  *)
(* features (devcontainer-lock.json), the feature cache, and the network.  *)
(* Commands that mutate the workspace (up, build) fetch and write; the     *)
(* others (exec, config, run, bridge doctor) are offline and write         *)
(* nothing, and run next to the former.  Meanwhile people edit the         *)
(* configuration and the lock file and clear the cache, and the sources of *)
(* features move on.                                                       *)
(*                                                                         *)
(* Inputs stand for everything the key hashes but the lock file, local     *)
(* features included.  Each action is one access to a file, to the feature *)
(* cache or to the network.                                                *)
(***************************************************************************)
EXTENDS Naturals

CONSTANTS
  Procs,        \* commands
  Writers,      \* those that mutate the workspace
  Inputs,       \* contents of devcontainer.json and what it refers to
  Sources,      \* remote features
  Tarballs,     \* those fetched as tarballs; the others come from a registry
  Digests,      \* contents of features
  Wants,        \* the remote features that an input enables
  Clashing,     \* inputs with features that cannot be put together
  NoDigest,     \* the feature is not in the lock file
  NoPlan,       \* there is no readable plan file
  MaxChanges    \* bound: how often the world around the commands changes

ASSUME ResolutionAssumption ==
  /\ Writers \subseteq Procs /\ Tarballs \subseteq Sources
  /\ Wants \in [Inputs -> SUBSET Sources]
  /\ Clashing \subseteq Inputs \X [Sources -> Digests \cup {NoDigest}]
  /\ NoDigest \notin Digests
  /\ NoPlan \notin [key : Inputs \X [Sources -> Digests \cup {NoDigest}],
                    input : Inputs,
                    features : [Sources -> Digests \cup {NoDigest}]]
  /\ MaxChanges \in Nat

VARIABLES
  input,      \* the configuration, as it is on disk
  lock,       \* devcontainer-lock.json
  upstream,   \* what each source serves now
  cache,      \* complete feature directories
  plan,       \* resolved-plan.json
  pc,         \* where each command is
  policy,     \* its lockfile policy
  spec,       \* the configuration it loaded
  key,        \* the key of the plan it looks for or writes
  locks,      \* the lock file it read
  got,        \* the features it has resolved
  from,       \* the configuration in its resolution
  \* history, read by no action:
  raced,      \* commands during which somebody edited a file, or which met
              \* what such a command wrote
  robbed,     \* commands during which somebody cleared the cache
  promised,   \* commands begun when there was all that they need, next to no
              \* command in raced, of which no call has failed
  tainted,    \* the plan on disk was written by a command in raced
  changes     \* how often the world around the commands has changed

local == <<policy, spec, key, locks, got, from>>
disk == <<input, lock, upstream, cache, plan>>
history == <<raced, robbed, promised, tainted, changes>>
vars == <<disk, pc, local, history>>

Pins == [Sources -> Digests \cup {NoDigest}]
Key == Inputs \X Pins
Plan == [key : Key, input : Inputs, features : Pins]
Policies == {"auto", "frozen", "update"}

Unlocked == [s \in Sources |-> NoDigest]
Restricted(i, pins) ==
  [s \in Sources |-> IF s \in Wants[i] THEN pins[s] ELSE NoDigest]
Cached(s, d) == <<s, d>> \in cache

\* What an offline command needs: every enabled feature locked and cached.
Offline == \A s \in Wants[input] : Cached(s, lock[s])

\* The locked features can be put together.
Compatible == <<input, Restricted(input, lock)>> \notin Clashing

\* The lock file is absent when nothing is locked: a command that resolves no
\* remote feature removes it.
LockFileThere == lock # Unlocked

\* No command has a reason to remove the lock file.
LockFileStays == LockFileThere => Wants[input] # {}

AnyInput == CHOOSE i \in Inputs : TRUE

Init ==
  /\ input \in Inputs
  /\ lock \in Pins
  /\ upstream \in [Sources -> Digests]
  /\ cache = {} /\ plan = NoPlan
  /\ pc = [p \in Procs |-> "idle"]
  /\ policy = [p \in Procs |-> "auto"]
  /\ spec = [p \in Procs |-> AnyInput] /\ from = spec
  /\ key = [p \in Procs |-> <<AnyInput, Unlocked>>]
  /\ locks = [p \in Procs |-> Unlocked] /\ got = locks
  /\ raced = {} /\ robbed = {} /\ promised = {} /\ tainted = FALSE
  /\ changes = 0

Active == {p \in Procs : pc[p] # "idle"}
Goto(p, l) == pc' = [pc EXCEPT ![p] = l]

\* A command that has failed or ended remembers nothing but its policy.
Forget(p) ==
  /\ spec' = [spec EXCEPT ![p] = AnyInput]
  /\ key' = [key EXCEPT ![p] = <<AnyInput, Unlocked>>]
  /\ locks' = [locks EXCEPT ![p] = Unlocked]
  /\ got' = [got EXCEPT ![p] = Unlocked]
  /\ from' = [from EXCEPT ![p] = AnyInput]

-----------------------------------------------------------------------------
(* A command. *)

\* The plan of the command is built: devcontainer.json is loaded.  Commands
\* that write hold the mutation lock.
Begin(p) ==
  /\ pc[p] = "idle"
  /\ p \in Writers => \A q \in Writers : pc[q] = "idle"
  /\ \E l \in Policies : policy' = [policy EXCEPT ![p] = l]
  /\ spec' = [spec EXCEPT ![p] = input]
  /\ from' = [from EXCEPT ![p] = input]
  /\ promised' = IF Offline /\ Compatible /\ LockFileStays /\ raced = {}
                 THEN promised \cup {p} ELSE promised
  /\ Goto(p, "hash")
  /\ UNCHANGED <<disk, key, locks, got, raced, robbed, tainted, changes>>

\* The key is computed before the resolution and again after it, when a
\* command that does not write makes no use of it.
Hashed(p) ==
  /\ key' = [key EXCEPT ![p] = <<input, lock>>]
  /\ Goto(p, IF pc[p] \in {"hash", "hashLock"} THEN "lookup"
             ELSE IF p \in Writers THEN "writePlan" ELSE "done")
  /\ UNCHANGED <<disk, policy, spec, locks, got, from, history>>

\* resolvedPlanCacheKey hashes the configuration, and looks whether there is a
\* lock file.
Hash(p) ==
  /\ pc[p] \in {"hash", "rehash"}
  /\ IF LockFileThere
     THEN /\ Goto(p, IF pc[p] = "hash" THEN "hashLock" ELSE "rehashLock")
          /\ UNCHANGED <<disk, local, history>>
     ELSE Hashed(p)

HashLock(p) ==
  /\ pc[p] \in {"hashLock", "rehashLock"} /\ LockFileThere
  /\ Hashed(p)

\* It has been removed since.
LockFileGone(p) ==
  /\ pc[p] \in {"hashLock", "rehashLock"} /\ ~LockFileThere
  /\ Goto(p, "failed") /\ Forget(p)
  /\ UNCHANGED <<disk, policy, history>>

\* Mutant: the cached features are not looked at.
UsableUnchecked(p) == policy[p] # "update" /\ plan # NoPlan /\ plan.key = key[p]

\* Mutant: the lock file is not part of the key.
UsableUnlocked(p) ==
  /\ policy[p] # "update"
  /\ plan # NoPlan /\ plan.key[1] = key[p][1]
  /\ \A s \in Sources : plan.features[s] # NoDigest => Cached(s, plan.features[s])

\* The key matches and no feature has gone from the cache.
Usable(p) ==
  /\ policy[p] # "update"
  /\ plan # NoPlan /\ plan.key = key[p]
  /\ \A s \in Sources : plan.features[s] # NoDigest => Cached(s, plan.features[s])

ReadPlan(p) ==
  /\ pc[p] = "lookup"
  /\ IF Usable(p)
     THEN /\ got' = [got EXCEPT ![p] = plan.features]
          /\ from' = [from EXCEPT ![p] = plan.input]
          /\ raced' = IF tainted THEN raced \cup {p} ELSE raced
          /\ Goto(p, IF p \in Writers THEN "reuse" ELSE "done")
     ELSE Goto(p, "readLock") /\ UNCHANGED <<got, from, raced>>
  /\ UNCHANGED <<disk, policy, spec, key, locks, robbed, promised, tainted,
                 changes>>

ReadLock(p) ==
  /\ pc[p] = "readLock"
  /\ locks' = [locks EXCEPT ![p] = lock]
  /\ Goto(p, "resolve")
  /\ UNCHANGED <<disk, policy, spec, key, got, from, history>>

Missing(p) == {s \in Wants[spec[p]] : got[p][s] = NoDigest}

\* frozen insists on a pin, update on the network.
Refused(p, s) ==
  \/ policy[p] = "frozen" /\ locks[p][s] = NoDigest
  \/ policy[p] = "update" /\ p \notin Writers

\* Mutant: no digest if there is no pin.
ServedUnpinned(p, s) == IF s \in Tarballs THEN upstream[s] ELSE locks[p][s]

\* A registry is asked for the pinned digest if there is one; a tarball is
\* what it is, and must be the pinned one.
Served(p, s) ==
  IF s \notin Tarballs /\ locks[p][s] # NoDigest THEN locks[p][s]
  ELSE upstream[s]

\* Mutant: the cache is filled in place, and the command may die halfway.
FetchInPlace(p) ==
  /\ pc[p] = "resolve" /\ p \in Writers
  /\ \E s \in Missing(p) :
       /\ ~Refused(p, s)
       /\ s \in Tarballs => locks[p][s] \in {NoDigest, upstream[s]}
       /\ \/ /\ cache' = cache \cup {<<s, Served(p, s)>>}
             /\ got' = [got EXCEPT ![p][s] = Served(p, s)]
          \/ /\ cache' = cache \ {<<s, Served(p, s)>>}
             /\ UNCHANGED got
  /\ UNCHANGED <<input, lock, upstream, plan, pc, policy, spec, key, locks, from,
                 history>>

\* populateFeatureCache publishes a directory by a rename.
Fetch(p) ==
  /\ pc[p] = "resolve" /\ p \in Writers
  /\ \E s \in Missing(p) :
       /\ ~Refused(p, s)
       /\ s \in Tarballs => locks[p][s] \in {NoDigest, upstream[s]}
       /\ cache' = cache \cup {<<s, Served(p, s)>>}
       /\ got' = [got EXCEPT ![p][s] = Served(p, s)]
  /\ UNCHANGED <<input, lock, upstream, plan, pc, policy, spec, key, locks, from,
                 history>>

UseCached(p) ==
  /\ pc[p] = "resolve" /\ p \notin Writers
  /\ \E s \in Missing(p) :
       /\ ~Refused(p, s) /\ Cached(s, locks[p][s])
       /\ got' = [got EXCEPT ![p][s] = locks[p][s]]
  /\ UNCHANGED <<disk, pc, policy, spec, key, locks, from, history>>

CannotResolve(p) ==
  /\ pc[p] = "resolve"
  /\ \E s \in Missing(p) :
       \/ Refused(p, s)
       \/ /\ p \in Writers /\ s \in Tarballs
          /\ locks[p][s] \notin {NoDigest, upstream[s]}
       \/ p \notin Writers /\ ~Cached(s, locks[p][s])
  /\ Goto(p, "failed") /\ Forget(p)
  /\ UNCHANGED <<disk, policy, history>>

\* orderFeatures.
Resolved(p) ==
  /\ pc[p] = "resolve" /\ Missing(p) = {}
  /\ <<spec[p], got[p]>> \notin Clashing
  /\ Goto(p, IF p \in Writers THEN "writeLock" ELSE "rehash")
  /\ UNCHANGED <<disk, local, history>>

\* A manifest or an option that does not fit, two features of one id, a
\* dependency that is not enabled, or a cycle of them.
Clash(p) ==
  /\ pc[p] = "resolve" /\ Missing(p) = {}
  /\ <<spec[p], got[p]>> \in Clashing
  /\ Goto(p, "failed") /\ Forget(p)
  /\ UNCHANGED <<disk, policy, history>>

\* Mutant: the key is not computed anew.
WriteLockOldKey(p) ==
  /\ pc[p] \in {"writeLock", "reuse"}
  /\ lock' = IF policy[p] = "frozen" THEN lock ELSE got[p]
  /\ IF p \in raced THEN raced' = Active /\ promised' = {}
                     ELSE UNCHANGED <<raced, promised>>
  /\ Goto(p, IF pc[p] = "reuse" THEN "done" ELSE "writePlan")
  /\ UNCHANGED <<input, upstream, cache, plan, local, robbed, tainted, changes>>

\* WriteFeatureLockFile replaces the whole file, or removes it if there is
\* nothing to lock; frozen leaves it alone.
WriteLock(p) ==
  /\ pc[p] \in {"writeLock", "reuse"}
  /\ lock' = IF policy[p] = "frozen" THEN lock ELSE got[p]
  /\ IF p \in raced THEN raced' = Active /\ promised' = {}
                     ELSE UNCHANGED <<raced, promised>>
  /\ Goto(p, IF pc[p] = "reuse" THEN "done" ELSE "rehash")
  /\ UNCHANGED <<input, upstream, cache, plan, local, robbed, tainted, changes>>

\* A failure to write the plan is no failure of the command.
WritePlan(p) ==
  /\ pc[p] = "writePlan"
  /\ \/ /\ plan' = [key |-> key[p], input |-> spec[p], features |-> got[p]]
        /\ tainted' = (p \in raced)
     \/ UNCHANGED <<plan, tainted>>
  /\ Goto(p, "done")
  /\ UNCHANGED <<input, lock, upstream, cache, local, raced, robbed, promised,
                 changes>>

\* The network or the disk lets it down: a file is there and cannot be read.
CallFails(p) ==
  /\ pc[p] \in {"hash", "hashLock", "readLock", "resolve", "writeLock",
                "reuse", "rehash", "rehashLock"}
  /\ Goto(p, "failed") /\ Forget(p)
  /\ promised' = promised \ {p}
  /\ UNCHANGED <<disk, policy, raced, robbed, tainted, changes>>

\* The command goes on with the rest of its work and ends, or is killed;
\* what it remembers is gone.
Return(p) ==
  /\ pc[p] # "idle"
  /\ Goto(p, "idle") /\ Forget(p)
  /\ policy' = [policy EXCEPT ![p] = "auto"]
  /\ raced' = raced \ {p} /\ robbed' = robbed \ {p}
  /\ promised' = promised \ {p}
  /\ UNCHANGED <<disk, tainted, changes>>

-----------------------------------------------------------------------------
(* What happens around it. *)

Change == changes < MaxChanges /\ changes' = changes + 1

\* Somebody edits the configuration.
EditInput ==
  /\ Change
  /\ input' \in Inputs \ {input}
  /\ raced' = raced \cup Active /\ promised' = {}
  /\ UNCHANGED <<lock, upstream, cache, plan, pc, local, robbed, tainted>>

\* Somebody edits the lock file, checks out another one or deletes it.
EditLock ==
  /\ Change
  /\ \/ \E s \in Sources, d \in Digests \cup {NoDigest} :
          lock' = [lock EXCEPT ![s] = d]
     \/ lock' = Unlocked
  /\ raced' = raced \cup Active /\ promised' = {}
  /\ UNCHANGED <<input, upstream, cache, plan, pc, local, robbed, tainted>>

\* Somebody deletes the cached features, and the plan with them or not.
ClearCache ==
  /\ Change
  /\ cache' = {} /\ plan' \in {plan, NoPlan}
  /\ robbed' = robbed \cup Active /\ promised' = {}
  /\ tainted' = (tainted /\ plan' # NoPlan)
  /\ UNCHANGED <<input, lock, upstream, pc, local, raced>>

\* The source of a feature serves something else.  A command that writes asks
\* once for each feature, so a change during it is as good as one before or
\* after it.
Publish ==
  /\ Change /\ Active \cap Writers = {}
  /\ \E s \in Sources, d \in Digests : upstream' = [upstream EXCEPT ![s] = d]
  /\ UNCHANGED <<input, lock, cache, plan, pc, local, raced, robbed, promised,
                 tainted>>

Next ==
  \/ \E p \in Procs :
       \/ Begin(p) \/ Hash(p) \/ HashLock(p) \/ LockFileGone(p) \/ ReadPlan(p)
       \/ ReadLock(p) \/ Fetch(p) \/ UseCached(p) \/ CannotResolve(p)
       \/ Resolved(p) \/ Clash(p) \/ WriteLock(p) \/ WritePlan(p)
       \/ CallFails(p) \/ Return(p)
  \/ EditInput \/ EditLock \/ ClearCache \/ Publish

Spec == Init /\ [][Next]_vars

-----------------------------------------------------------------------------
(* Properties. *)

Pcs == {"idle", "hash", "hashLock", "lookup", "readLock", "resolve", "reuse",
        "writeLock", "rehash", "rehashLock", "writePlan", "done", "failed"}

\* The types of the variables.
TypeOK ==
  /\ input \in Inputs
  /\ lock \in Pins
  /\ upstream \in [Sources -> Digests]
  /\ cache \subseteq Sources \X Digests
  /\ plan \in Plan \cup {NoPlan}
  /\ pc \in [Procs -> Pcs]
  /\ policy \in [Procs -> Policies]
  /\ spec \in [Procs -> Inputs]
  /\ key \in [Procs -> Key]
  /\ locks \in [Procs -> Pins]
  /\ got \in [Procs -> Pins]
  /\ from \in [Procs -> Inputs]
  /\ raced \subseteq Procs /\ robbed \subseteq Procs /\ promised \subseteq Procs
  /\ tainted \in BOOLEAN /\ changes \in 0..MaxChanges

\* A cached plan is what its key stands for: it was resolved from the
\* configuration in the key, to the digests in the lock file of the key,
\* unless somebody edited these files while it was resolved.
PlanHonest ==
  plan # NoPlan /\ ~tainted =>
    /\ plan.input = plan.key[1]
    /\ plan.features = Restricted(plan.input, plan.key[2])
    /\ \A s \in Wants[plan.input] : plan.features[s] # NoDigest

\* Whatever a command resolved, with or without the plan, the network and
\* other commands next to it, is what the lock file says, unless somebody
\* edited a file meanwhile.
FollowsLock ==
  \A p \in Procs \ raced :
    pc[p] = "done" =>
      /\ from[p] = input
      /\ \A s \in Wants[input] : got[p][s] = lock[s] /\ lock[s] # NoDigest

\* After an up or build, exec can do without the network.
UpSettles ==
  \A p \in Procs \ (raced \cup robbed) :
    pc[p] = "done" /\ p \in Writers => Offline

\* From then on an offline command fails only if a file is there and cannot be
\* read: never for want of the network, whatever an up next to it does, or one
\* that failed or was killed has done, and whatever upstream serves.  Features
\* that are locked and cached and cannot be put together fail it too, and so
\* may an up that removes a lock file of features no longer enabled.
OfflineSucceeds ==
  \A p \in promised :
    p \notin Writers /\ policy[p] # "update" => pc[p] # "failed"

-----------------------------------------------------------------------------
(* The inductive invariant behind the proofs. *)

\* One command at a time writes, and only it is where things are written; no
\* command has resolved anything before it begins to.
WriterInv ==
  /\ \A p, q \in Writers : pc[p] # "idle" /\ pc[q] # "idle" => p = q
  /\ \A p \in Procs :
       /\ pc[p] \in {"writeLock", "reuse", "writePlan"} => p \in Writers
       /\ pc[p] \in {"idle", "hash", "hashLock", "lookup", "readLock",
                     "failed"} =>
            got[p] = Unlocked

Undisturbed == {p \in Procs \ raced : pc[p] \notin {"idle", "failed"}}

\* The configuration is still the one that was loaded.
LoadInv == \A p \in Undisturbed : spec[p] = input /\ from[p] = input

\* What pins says of an enabled feature the lock file still says.
StillLocked(pins) ==
  \A s \in Wants[input] : pins[s] # NoDigest => lock[s] = pins[s]

\* The key is still a key of what is on disk.
KeyInv ==
  \A p \in Undisturbed :
    /\ pc[p] = "lookup" => key[p][1] = input /\ StillLocked(key[p][2])
    /\ pc[p] = "writePlan" => key[p] = <<input, lock>>

\* What has been resolved so far was pinned, or may be pinned.
ResolveInv ==
  \A p \in Undisturbed :
    pc[p] = "resolve" =>
      /\ StillLocked(locks[p])
      /\ p \in Writers => locks[p] = lock
      /\ \A s \in Sources :
           got[p][s] # NoDigest =>
             /\ s \in Wants[input]
             /\ \/ got[p][s] = locks[p][s]
                \/ /\ locks[p][s] = NoDigest
                   /\ p \in Writers /\ policy[p] # "frozen"

\* A resolution is complete and agrees with the lock file, but for the
\* features that the command is about to pin.
GotInv ==
  \A p \in Undisturbed :
    pc[p] \in {"writeLock", "reuse", "rehash", "rehashLock", "writePlan",
              "done"} =>
      \A s \in Sources :
        /\ got[p][s] # NoDigest <=> s \in Wants[input]
        /\ s \in Wants[input] =>
             \/ lock[s] = got[p][s]
             \/ /\ lock[s] = NoDigest
                /\ pc[p] = "writeLock" /\ policy[p] # "frozen"

\* What a command resolved is in the cache, unless it was cleared since.
CacheInv ==
  \A p \in Procs \ robbed : \A s \in Sources :
    got[p][s] # NoDigest => Cached(s, got[p][s])

\* While there is a promise it can be kept.
PromiseInv ==
  \A p \in promised :
    /\ Offline /\ Compatible /\ LockFileStays
    /\ pc[p] \notin {"idle", "failed"} => spec[p] = input
    /\ pc[p] \in {"hashLock", "rehashLock"} => LockFileThere
    /\ pc[p] = "resolve" =>
         \A s \in Wants[input] : locks[p][s] = lock[s]
    /\ pc[p] = "resolve" /\ p \notin Writers =>
         \A s \in Sources :
           got[p][s] # NoDigest => s \in Wants[input] /\ got[p][s] = lock[s]

IInv ==
  /\ TypeOK /\ WriterInv /\ LoadInv /\ KeyInv /\ ResolveInv /\ GotInv
  /\ CacheInv /\ PromiseInv /\ PlanHonest /\ OfflineSucceeds

-----------------------------------------------------------------------------
(* What an option claims, and the code does not deliver. *)

\* "update": the features of an up or build are those that upstream serves.
UpdateRefreshes ==
  \A p \in Procs \ raced :
    pc[p] = "done" /\ p \in Writers /\ policy[p] = "update" =>
      \A s \in Wants[spec[p]] : got[p][s] = upstream[s]
=============================================================================
