------------------------------ MODULE Features ------------------------------
(***************************************************************************)
(* How commands resolve the features of a configuration: the cache of      *)
(* feature directories with its lock and temporary directories, the        *)
(* fetching of features from registries and as tarballs, and the order in  *)
(* which a command installs what it has resolved.  Commands run at the     *)
(* same time, fail and are killed, and somebody may damage the cache.      *)
(*                                                                         *)
(* The cache belongs to one workspace and one configuration file           *)
(* (WorkspaceScopedDir).  The commands that meet in it are one that holds  *)
(* the workspace lock and those that only look, or commands with different *)
(* state directories, whose locks have nothing to do with each other.  The *)
(* model does not tell them apart: any two may populate at once.           *)
(*                                                                         *)
(* A source is its number in the order of the feature IDs.  A directory is *)
(* the set of what is in it, {} if it is empty or does not exist.  flock   *)
(* frees a lock when its process dies.  A temporary directory has a name   *)
(* of its own and is nobody's business, even when its process is killed.   *)
(***************************************************************************)
EXTENDS Naturals, Sequences

CONSTANTS
  Procs,        \* commands
  Sources,      \* features, numbered as their IDs are sorted
  Locals,       \* those in a directory of the workspace
  Tarballs,     \* those fetched as tarballs; the rest comes from a registry
  Digests,      \* contents of features
  Wants,        \* the features that the configuration of each command enables
  Graphs,       \* what features say of others
  Lockfiles,    \* digests that the lock file of a workspace may pin
  Upstream,     \* what the registries serve
  Caches,       \* what the cache may hold at first, in parts from a crash
  None,
  MaxFaults     \* bound: commands killed and times that the cache is touched

ASSUME FeaturesAssumption ==
  /\ Sources \subseteq Nat
  /\ Locals \subseteq Sources /\ Tarballs \subseteq Sources \ Locals
  /\ None \notin Procs \cup Sources \cup Digests
  /\ Wants \in [Procs -> SUBSET Sources]
  /\ Graphs \subseteq [dependsOn : [Sources -> SUBSET Sources],
                       installsAfter : [Sources -> SUBSET Sources]]
  /\ Lockfiles \subseteq [Sources -> Digests \cup {None}]
  /\ \A l \in Lockfiles : \A s \in Locals : l[s] = None
  /\ Upstream \in [Sources -> Digests]
  /\ Caches \subseteq [(Sources \ Locals) \X Digests -> SUBSET {"manifest", "install"}]
  /\ \A c \in Caches : \A e \in DOMAIN c : c[e] \in {{}, {"install"}, {"manifest", "install"}}
  /\ MaxFaults \in Nat

VARIABLES
  graph,      \* dependsOn and installsAfter of the features
  entry,      \* the cached directories
  holder,     \* who has locked the cache of a source
  pc,         \* where each command is
  network,    \* whether it may use the network
  lock,       \* its lock file
  source,     \* the feature it is resolving
  digest,     \* the content of this feature
  temp,       \* its temporary directory
  list,       \* the features it has resolved
  order,      \* those whose turn to be installed is settled
  \* history, read by no action but for the bounds:
  spoilt,     \* the directories that somebody has touched
  faults      \* how many commands have been killed and directories touched

local == <<pc, network, lock, source, digest, temp, list, order>>
shared == <<entry, holder>>
vars == <<graph, shared, local, spoilt, faults>>

Remote == Sources \ Locals
Entries == Remote \X Digests
Complete == {"manifest", "install"}

Ended == {"done", "failed"}
Pcs == {"start", "next", "cached", "request", "look", "lock", "recheck",
        "extract", "rename", "remove", "retry", "load", "order"} \cup Ended

Inside == {"recheck", "extract", "rename", "remove", "retry"}

Elements(s) == {s[i] : i \in DOMAIN s}

Init ==
  /\ graph \in Graphs
  /\ entry \in Caches
  /\ holder = [s \in Sources |-> None]
  /\ pc = [p \in Procs |-> "start"]
  /\ network = [p \in Procs |-> FALSE]
  /\ lock = [p \in Procs |-> [s \in Sources |-> None]]
  /\ source = [p \in Procs |-> None]
  /\ digest = [p \in Procs |-> None]
  /\ temp = [p \in Procs |-> {}]
  /\ list = [p \in Procs |-> << >>]
  /\ order = [p \in Procs |-> << >>]
  /\ spoilt = {}
  /\ faults = 0

At(p, l) == pc[p] = l
Goto(p, l) == pc' = [pc EXCEPT ![p] = l]
This(p) == <<source[p], digest[p]>>

\* Mutant: a directory that is not empty is taken for a feature.
HasDirectory(e) == entry[e] # {}

\* hasFeatureManifest.
HasManifest(e) == "manifest" \in entry[e]

\* Mutant: the temporary directory stays.
UnlockOnly(p) ==
  /\ holder' = [s \in Sources |-> IF holder[s] = p THEN None ELSE holder[s]]
  /\ UNCHANGED temp

\* The deferred removal of the temporary directory and release of the lock.
Unlock(p) ==
  /\ holder' = [s \in Sources |-> IF holder[s] = p THEN None ELSE holder[s]]
  /\ temp' = [temp EXCEPT ![p] = {}]

Resolved(p) == {list[p][i][1] : i \in DOMAIN list[p]}

-----------------------------------------------------------------------------
(* ResolveFeatures and ResolveSource. *)

\* The policy "frozen" asks for a digest for everything, "update" for the
\* network.
Start(p) ==
  /\ At(p, "start")
  /\ \E n \in BOOLEAN, l \in Lockfiles, policy \in {"auto", "frozen", "update"} :
       /\ policy = "frozen" => \A s \in Wants[p] \cap Remote : l[s] # None
       /\ policy = "update" => n
       /\ network' = [network EXCEPT ![p] = n]
       /\ lock' = [lock EXCEPT ![p] = l]
  /\ Goto(p, "next")
  /\ UNCHANGED <<graph, shared, source, digest, temp, list, order,
                 spoilt, faults>>

\* The features are visited in the order of a map, which is any order.
Pick(p) ==
  /\ At(p, "next")
  /\ IF Resolved(p) = Wants[p]
     THEN Goto(p, "order") /\ UNCHANGED source
     ELSE /\ \E s \in Wants[p] \ Resolved(p) : source' = [source EXCEPT ![p] = s]
          /\ Goto(p, IF source[p]' \in Locals THEN "load"
                     ELSE IF network[p] THEN "request" ELSE "cached")
  /\ UNCHANGED <<graph, shared, network, lock, digest, temp, list,
                 order, spoilt, faults>>

\* cachedOCIFeature and cachedTarballFeature.
UseCached(p) ==
  /\ At(p, "cached")
  /\ LET d == lock[p][source[p]] IN
       /\ d # None
       /\ HasManifest(<<source[p], d>>)
       /\ digest' = [digest EXCEPT ![p] = d]
  /\ Goto(p, "load")
  /\ UNCHANGED <<graph, shared, network, lock, source, temp, list,
                 order, spoilt, faults>>

\* fetchOCIFeature asks for the digest in the lock file, fetchTarballFeature
\* takes what is served and refuses another digest.
Request(p) ==
  /\ At(p, "request")
  /\ LET s == source[p]
         pin == lock[p][s]
         d == IF s \in Tarballs \/ pin = None THEN Upstream[s] ELSE pin
     IN  /\ pin \in {None, d}
         /\ digest' = [digest EXCEPT ![p] = d]
  /\ Goto(p, "look")
  /\ UNCHANGED <<graph, shared, network, lock, source, temp, list,
                 order, spoilt, faults>>

\* The first look, without the lock.
Look(p) ==
  /\ At(p, "look")
  /\ Goto(p, IF HasManifest(This(p)) THEN "load" ELSE "lock")
  /\ UNCHANGED <<graph, shared, network, lock, source, digest, temp,
                 list, order, spoilt, faults>>

-----------------------------------------------------------------------------
(* populateFeatureCache. *)

\* Mutant: the lock is not exclusive.
TakeLockShared(p, s) == holder' = [holder EXCEPT ![s] = p]

\* lockFeatureCache.
TakeLock(p, s) == holder[s] = None /\ holder' = [holder EXCEPT ![s] = p]

Lock(p) ==
  /\ At(p, "lock")
  /\ TakeLock(p, source[p])
  /\ Goto(p, "recheck")
  /\ UNCHANGED <<graph, entry, network, lock, source, digest, temp,
                 list, order, spoilt, faults>>

\* The second look, with the lock; otherwise a temporary directory is made.
Recheck(p) ==
  /\ At(p, "recheck")
  /\ IF HasManifest(This(p))
     THEN Unlock(p) /\ Goto(p, "load")
     ELSE Goto(p, "extract") /\ UNCHANGED <<holder, temp>>
  /\ UNCHANGED <<graph, entry, network, lock, source, digest, list,
                 order, spoilt, faults>>

\* Mutant: the feature is extracted where it is looked for.
ExtractInPlace(p, f) ==
  /\ temp' = [temp EXCEPT ![p] = @ \cup {f}]
  /\ entry' = [entry EXCEPT ![This(p)] = @ \cup {f}]

\* ExtractFeatureLayer, one file.
ExtractFile(p, f) ==
  /\ temp' = [temp EXCEPT ![p] = @ \cup {f}]
  /\ UNCHANGED entry

\* The archive names its files in any order.
Extract(p) ==
  /\ At(p, "extract")
  /\ IF temp[p] = Complete
     THEN Goto(p, "rename") /\ UNCHANGED <<temp, entry>>
     ELSE /\ \E f \in Complete \ temp[p] : ExtractFile(p, f)
          /\ UNCHANGED pc
  /\ UNCHANGED <<graph, holder, network, lock, source, digest, list,
                 order, spoilt, faults>>

Publish(p) ==
  /\ entry' = [entry EXCEPT ![This(p)] = temp[p]]
  /\ Unlock(p) /\ Goto(p, "load")

\* os.Rename replaces an empty directory and fails for any other that is
\* there.
Rename(p) ==
  /\ At(p, "rename")
  /\ IF entry[This(p)] = {} THEN Publish(p)
     ELSE IF HasManifest(This(p))
     THEN Unlock(p) /\ Goto(p, "load") /\ UNCHANGED entry
     ELSE Goto(p, "remove") /\ UNCHANGED <<shared, temp>>
  /\ UNCHANGED <<graph, network, lock, source, digest, list, order,
                 spoilt, faults>>

\* What is in the way is removed.
RemoveBroken(p) ==
  /\ At(p, "remove")
  /\ entry' = [entry EXCEPT ![This(p)] = {}]
  /\ Goto(p, "retry")
  /\ UNCHANGED <<graph, holder, network, lock, source, digest, temp,
                 list, order, spoilt, faults>>

\* If the second attempt fails as well, and nobody else has stored the
\* feature, the command fails.
Retry(p) ==
  /\ At(p, "retry")
  /\ IF entry[This(p)] = {} THEN Publish(p)
     ELSE /\ HasManifest(This(p))
          /\ Unlock(p) /\ Goto(p, "load") /\ UNCHANGED entry
  /\ UNCHANGED <<graph, network, lock, source, digest, list, order,
                 spoilt, faults>>

-----------------------------------------------------------------------------
(* The rest of ResolveFeatures, and orderFeatures. *)

\* loadFeatureManifest reads what it finds in the directory.
Found(p) == source[p] \notin Locals => HasManifest(This(p))

Load(p) ==
  /\ At(p, "load")
  /\ Found(p)
  /\ list' = [list EXCEPT ![p] = Append(@, This(p))]
  /\ source' = [source EXCEPT ![p] = None]
  /\ digest' = [digest EXCEPT ![p] = None]
  /\ Goto(p, "next")
  /\ UNCHANGED <<graph, shared, network, lock, temp, order, spoilt,
                 faults>>

\* The edges of the order: a feature that is not configured is an error in
\* dependsOn, unless there is only one feature, and nothing in installsAfter.
DependenciesConfigured(p) ==
  \/ Len(list[p]) <= 1
  \/ \A s \in Resolved(p) : graph.dependsOn[s] \subseteq Resolved(p) \ {s}

\* Mutant: a feature may have to wait for itself.
BeforeWithItself(p, s) ==
  IF Len(list[p]) <= 1 THEN {}
  ELSE (graph.dependsOn[s] \cup graph.installsAfter[s]) \cap Resolved(p)

Before(p, s) ==
  IF Len(list[p]) <= 1 THEN {}
  ELSE ((graph.dependsOn[s] \cup graph.installsAfter[s]) \cap Resolved(p)) \ {s}

Ready(p) ==
  {s \in Resolved(p) \ Elements(order[p]) : Before(p, s) \subseteq Elements(order[p])}

\* Mutant: what is ready is taken in the order of the map.
ChosenAsListed(p, ready) ==
  LET i == CHOOSE j \in DOMAIN list[p] :
             /\ list[p][j][1] \in ready
             /\ \A k \in DOMAIN list[p] : list[p][k][1] \in ready => j <= k
  IN  list[p][i][1]

\* ready is sorted by ID.
Chosen(p, ready) == CHOOSE s \in ready : \A r \in ready : s <= r

\* One turn of the loop, or its end, or an error if there is a cycle.
Order(p) ==
  /\ At(p, "order")
  /\ DependenciesConfigured(p)
  /\ IF Ready(p) # {}
     THEN /\ order' = [order EXCEPT ![p] = Append(@, Chosen(p, Ready(p)))]
          /\ UNCHANGED pc
     ELSE /\ Len(order[p]) = Len(list[p])
          /\ Goto(p, "done") /\ UNCHANGED order
  /\ UNCHANGED <<graph, shared, network, lock, source, digest, temp,
                 list, spoilt, faults>>

-----------------------------------------------------------------------------
(* Failures. *)

\* Mutant: a command that is killed leaves the cache locked.
Abandon(p) == temp' = [temp EXCEPT ![p] = {}] /\ UNCHANGED holder

Exit(p) ==
  /\ list' = [list EXCEPT ![p] = << >>]
  /\ order' = [order EXCEPT ![p] = << >>]
  /\ source' = [source EXCEPT ![p] = None]
  /\ digest' = [digest EXCEPT ![p] = None]
  /\ Goto(p, "failed")
  /\ network' = [network EXCEPT ![p] = FALSE]
  /\ lock' = [lock EXCEPT ![p] = [s \in Sources |-> None]]
  /\ UNCHANGED <<graph, entry>>

\* The steps that need nothing but this machine fail only if they cannot be
\* taken: what is wanted is not cached, has another digest or has gone, or
\* there is no order.
MustFail(p) ==
  \/ At(p, "cached") /\ ~(lock[p][source[p]] # None
                          /\ HasManifest(<<source[p], lock[p][source[p]]>>))
  \/ At(p, "request") /\ source[p] \in Tarballs
       /\ lock[p][source[p]] \notin {None, Upstream[source[p]]}
  \/ At(p, "retry") /\ entry[This(p)] # {}
       /\ ~HasManifest(This(p))
  \/ At(p, "load") /\ ~Found(p)
  \/ At(p, "order") /\ ( \/ ~DependenciesConfigured(p)
                         \/ Ready(p) = {} /\ Len(order[p]) # Len(list[p]))

\* An error of the network, or one of these.
Fail(p) ==
  /\ At(p, "request") \/ At(p, "extract") \/ MustFail(p)
  /\ Unlock(p) /\ Exit(p)
  /\ UNCHANGED <<spoilt, faults>>

Died(p) == Unlock(p)

Kill(p) ==
  /\ faults < MaxFaults
  /\ pc[p] \notin Ended \cup {"start"}
  /\ Died(p) /\ Exit(p)
  /\ faults' = faults + 1
  /\ UNCHANGED spoilt

\* Somebody else removes, restores or replaces a directory or files of it.
Touch(e) ==
  /\ faults < MaxFaults
  /\ \E f \in SUBSET Complete \ {entry[e]} : entry' = [entry EXCEPT ![e] = f]
  /\ spoilt' = spoilt \cup {e}
  /\ faults' = faults + 1
  /\ UNCHANGED <<graph, holder, local>>

-----------------------------------------------------------------------------

Step(p) ==
  \/ Pick(p) \/ UseCached(p) \/ Request(p) \/ Look(p)
  \/ Lock(p) \/ Recheck(p) \/ Extract(p)
  \/ Rename(p) \/ RemoveBroken(p) \/ Retry(p)
  \/ Load(p) \/ Order(p)
  \/ Fail(p)

Next ==
  \/ \E p \in Procs : Start(p) \/ Step(p) \/ Kill(p)
  \/ \E e \in Entries : Touch(e)

\* A command that has started goes on: a request to a registry has a timeout
\* (featureHTTPTimeout) and an archive a limit (featureExtractedMaxFiles).
Fairness == \A p \in Procs : WF_vars(Step(p))

Spec == Init /\ [][Next]_vars /\ Fairness

-----------------------------------------------------------------------------
(* Properties. *)

Turns ==
  \A p \in Procs :
    /\ source[p] = None <=> pc[p] \in Ended \cup {"start", "next", "order"}
    /\ temp[p] # {} => pc[p] \in Inside
    /\ Resolved(p) \subseteq Wants[p]
    /\ \A i, j \in DOMAIN list[p] : list[p][i][1] = list[p][j][1] => i = j

\* The types, and: a command has a feature to resolve exactly between two
\* turns of the loop of ResolveFeatures, a temporary directory only while
\* populateFeatureCache runs, and has resolved features that it wants, each once.
TypeOK ==
  /\ graph \in Graphs
  /\ entry \in [Entries -> SUBSET Complete]
  /\ holder \in [Sources -> Procs \cup {None}]
  /\ pc \in [Procs -> Pcs] /\ network \in [Procs -> BOOLEAN]
  /\ lock \in [Procs -> [Sources -> Digests \cup {None}]]
  /\ source \in [Procs -> Sources \cup {None}]
  /\ digest \in [Procs -> Digests \cup {None}]
  /\ temp \in [Procs -> SUBSET Complete]
  /\ list \in [Procs -> Seq(Sources \X (Digests \cup {None}))]
  /\ order \in [Procs -> Seq(Sources)]
  /\ faults \in 0..MaxFaults
  /\ spoilt \subseteq Entries
  /\ Turns

\* populateFeatureCache runs once at a time for a source, and its lock is never
\* left behind, whatever fails or is killed: the holder is inside, and who
\* is inside is the holder.
OnePopulates ==
  \A p \in Procs, s \in Sources :
    holder[s] = p <=> pc[p] \in Inside /\ source[p] = s

\* What a command has resolved is in the cache as a whole and stays there
\* while other commands look for, store, replace and fail to
\* store the same feature, unless somebody else touches the directory.  What
\* is copied into the build context later is what was resolved
\* (writeFeatureBuildContext).
TakenStays ==
  \A p \in Procs : \A e \in Elements(list[p]) :
    e[1] \in Remote => entry[e] = Complete \/ e \in spoilt

Perms(S) ==
  {t \in UNION {[1..n -> S] : n \in {Len(list[p]) : p \in Procs}} :
     /\ Elements(t) = S
     /\ \A i, j \in DOMAIN t : t[i] = t[j] => i = j}

\* The orders of S in which nothing comes before what it depends on or
\* is to be installed after.
Valid(S) ==
  {t \in Perms(S) :
     \A i, j \in DOMAIN t :
       i < j => t[j] \notin graph.dependsOn[t[i]] \cup graph.installsAfter[t[i]]}

NotAfter(t, u) ==
  t = u \/ \E i \in DOMAIN t : /\ t[i] < u[i]
                              /\ \A j \in 1..i - 1 : t[j] = u[j]

\* The features are installed in the first of the valid orders in the order of
\* their IDs, whatever the order of the map that they are read from
\* (ResolveFeatures): the key of the image depends on it, and another order
\* would build the image again (ManagedImageKey).
InstallOrder ==
  \A p \in Procs : At(p, "done") =>
    /\ order[p] \in Valid(Wants[p])
    /\ \A t \in Valid(Wants[p]) : NotAfter(order[p], t)

\* "feature dependency cycle detected" is said only if there is no valid order,
\* and no turn of the loop of orderFeatures leads away from every one.
CycleOnlyIfThereIsOne ==
  \A p \in Procs :
    At(p, "order") /\ DependenciesConfigured(p) /\ Valid(Wants[p]) # {}
      => ~MustFail(p)

\* Every command that resolves features ends, whoever is killed with the lock
\* of the cache, whatever fails and whatever happens to the cache.
EveryResolutionEnds ==
  \A p \in Procs : ~At(p, "start") ~> pc[p] \in Ended

\* What the cache is to the commands.
Stored == {e \in Entries : entry[e] = Complete}
Taken == [p \in Procs |-> {e \in Elements(list[p]) : e[1] \in Remote}]

Store == INSTANCE FeatureStore WITH stored <- Stored, taken <- Taken

\* The cache is a FeatureStore: directories appear as a whole and stay, and
\* commands take nothing else, unless somebody else touches them.
StoreSpec == Store!Spec
=============================================================================
