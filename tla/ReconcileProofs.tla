-------------------------- MODULE ReconcileProofs --------------------------
(***************************************************************************)
(* Theorems of module Reconcile: type correctness, what the state file     *)
(* claims, what a successful up has delivered, that an up under which      *)
(* nothing fails succeeds, and what a second up leaves alone.              *)
(***************************************************************************)
EXTENDS Reconcile, TLAPS

-----------------------------------------------------------------------------
(* Operators on the state and on plans. *)

\* Keys are keys.
LEMMA KeyTypes ==
  ASSUME NEW c \in Configs
  PROVE  /\ c \in Config
         /\ ContainerKey(c) \in ContainerKeys
         /\ \A k \in ContainerKeys \cup {NoKey}, h \in HookSets :
              LifecycleKey(h, k, c.dotfiles) \in LifecycleKeys
<1>1. c \in Config
  BY ReconcileAssumption
<1>2. ContainerKey(c) \in ContainerKeys
  BY <1>1 DEF Config, ContainerKey, ContainerKeys
<1>3. \A k \in ContainerKeys \cup {NoKey}, h \in HookSets :
        LifecycleKey(h, k, c.dotfiles) \in LifecycleKeys
  BY <1>1 DEF Config, LifecycleKey, LifecycleKeys
<1>4. QED BY <1>1, <1>2, <1>3

\* The tracker's operations map states to states.
LEMMA StateTypes ==
  /\ NoState \in State
  /\ \A s \in State :
       /\ Cleared(s) \in State /\ BeginBridge(s) \in State
       /\ EnableBridge(s) \in State /\ DisableBridge(s) \in State
  /\ \A s \in State, id \in Ids \cup {NoContainer} : Observed(s, id) \in State
  /\ \A s \in State, id \in Ids \cup {NoContainer}, k \in ContainerKeys \cup {NoKey},
        new \in BOOLEAN : ApplyContainer(s, id, k, new) \in State
  /\ \A s \in State, p \in Plan : BeginLifecycle(s, p) \in State
  /\ \A s \in State, p \in Plan, d \in Dotfiles \cup {NoDotfiles} :
       CompleteLifecycle(s, p, d) \in State
<1>1. NoState \in State
  BY DEF NoState, State
<1>2. \A s \in State : Cleared(s) \in State
  BY <1>1 DEF Cleared, NoState, State
<1>3. \A s \in State, id \in Ids \cup {NoContainer} : Observed(s, id) \in State
  BY <1>2 DEF Observed, State
<1>4. \A s \in State, id \in Ids \cup {NoContainer}, k \in ContainerKeys \cup {NoKey},
         new \in BOOLEAN : ApplyContainer(s, id, k, new) \in State
  BY <1>1 DEF ApplyContainer, SetContainer, BeginContainer, State
<1>5. \A s \in State : /\ BeginBridge(s) \in State /\ EnableBridge(s) \in State
                       /\ DisableBridge(s) \in State
  BY DEF BeginBridge, EnableBridge, DisableBridge, State
<1>6. \A s \in State, p \in Plan : BeginLifecycle(s, p) \in State
  <2> SUFFICES ASSUME NEW s \in State, NEW p \in Plan
               PROVE  BeginLifecycle(s, p) \in State
    OBVIOUS
  <2> DEFINE installing == p.create /\ p.install
             t == s.dotfilesTransition \/ installing
             r == s.dotfilesReady /\ ~installing
  <2>1. t \in BOOLEAN /\ r \in BOOLEAN
    OBVIOUS
  <2>2. BeginLifecycle(s, p) =
          [s EXCEPT !.transition = TRUE, !.ready = FALSE, !.lifecycleKey = NoKey,
                    !.dotfilesTransition = t, !.dotfilesReady = r]
    BY Zenon DEF BeginLifecycle
  <2> HIDE DEF t, r
  <2>3. QED BY <2>1, <2>2 DEF State
<1>7. \A s \in State, p \in Plan, d \in Dotfiles \cup {NoDotfiles} :
        CompleteLifecycle(s, p, d) \in State
  <2>1. \A s \in State, d \in Dotfiles \cup {NoDotfiles} : SetDotfiles(s, d) \in State
    <3> SUFFICES ASSUME NEW s \in State, NEW d \in Dotfiles \cup {NoDotfiles}
                 PROVE  SetDotfiles(s, d) \in State
      OBVIOUS
    <3> DEFINE known == d # NoDotfiles
    <3>1. known \in BOOLEAN
      OBVIOUS
    <3>2. SetDotfiles(s, d) = [s EXCEPT !.dotfiles = d, !.dotfilesReady = known,
                                        !.dotfilesTransition = FALSE]
      BY Zenon DEF SetDotfiles
    <3> HIDE DEF known
    <3>3. QED BY <3>1, <3>2 DEF State
  <2>2. \A s \in State, p \in Plan :
          [s EXCEPT !.transition = FALSE, !.ready = TRUE, !.lifecycleKey = p.key]
            \in State
    BY DEF State, Plan
  <2>3. QED BY ONLY <2>1, <2>2 DEF CompleteLifecycle
<1>8. QED BY <1>1, <1>2, <1>3, <1>4, <1>5, <1>6, <1>7

\* Plans are plans.
LEMMA PlanTypes ==
  ASSUME NEW s \in State, NEW key \in LifecycleKeys, NEW d \in Dotfiles \cup {NoDotfiles},
         NEW new \in BOOLEAN, NEW phase \in Phases
  PROVE  /\ NoPlan \in Plan
         /\ PlanUpLifecycle(s, key, d, new) \in Plan
         /\ PlanLifecycleCommand(s, key, d, phase) \in Plan
<1>1. NeedsInstall(s, d) \in BOOLEAN
  BY DEF NeedsInstall, StateMatches, State
<1>2. NoPlan \in Plan
  BY DEF NoPlan, Plan
<1>3. PlanUpLifecycle(s, key, d, new) \in Plan
  BY <1>1 DEF PlanUpLifecycle, Plan, State
<1>4. PlanLifecycleCommand(s, key, d, phase) \in Plan
  BY <1>1 DEF PlanLifecycleCommand, Plan
<1>5. QED BY <1>2, <1>3, <1>4

\* A command has the lifecycle commands it may merge, up those of its
\* configuration, and makes lifecycle keys of them.
LEMMA CommandTypes ==
  ASSUME TypeOK, pc # "idle"
  PROVE  /\ cmd.config \in Configs /\ cmd.hooks \in HookSets
         /\ Up => cmd.hooks = cmd.config.hooks
         /\ cmd.config.dotfiles \in Dotfiles \cup {NoDotfiles}
         /\ cmd.phase \in Phases /\ Key \in ContainerKeys
         /\ UpLifecycleKey \in LifecycleKeys
         /\ RunLifecycleKey \in LifecycleKeys
<1>1. cmd \in Command
  BY DEF TypeOK
<1>2. /\ cmd.config \in Configs /\ cmd.hooks \in HookSets /\ cmd.phase \in Phases
      /\ cmd.hooks \in MergedHooks(cmd.kind, cmd.config)
  BY <1>1 DEF Command
<1>3. Up => cmd.hooks = cmd.config.hooks
  BY <1>2 DEF MergedHooks, Up
<1>4. /\ cmd.config.dotfiles \in Dotfiles \cup {NoDotfiles}
      /\ Key \in ContainerKeys /\ mem.key \in ContainerKeys \cup {NoKey}
  BY <1>2, KeyTypes DEF Key, Config, TypeOK, State
<1>5. UpLifecycleKey \in LifecycleKeys /\ RunLifecycleKey \in LifecycleKeys
  BY <1>2, <1>4, KeyTypes DEF UpLifecycleKey, RunLifecycleKey
<1>6. QED BY <1>2, <1>3, <1>4, <1>5

-----------------------------------------------------------------------------
(* Type correctness. *)

\* A state of a container may be changed, and what was done in it may grow.
LEMMA ContainerTypes ==
  ASSUME NEW c \in [Ids -> Container], NEW id \in Ids
  PROVE  /\ Unborn \in Container
         /\ \A s \in {"unborn", "running", "stopped", "removed"} :
              [c EXCEPT ![id].status = s] \in [Ids -> Container]
         /\ \A s \in {"unborn", "running", "stopped", "removed"},
               k \in ContainerKeys \cup {NoKey} :
              [c EXCEPT ![id] = [Unborn EXCEPT !.status = s, !.key = k]]
                \in [Ids -> Container]
         /\ \A h \in HookSets :
              [c EXCEPT ![id].ran = @ \cup {h}] \in [Ids -> Container]
         /\ \A d \in Dotfiles :
              [c EXCEPT ![id].installed = @ \cup {d}] \in [Ids -> Container]
         /\ \A t \in Targets, r \in SUBSET Repositories :
              [c EXCEPT ![id].checkout[t] = r] \in [Ids -> Container]
<1>1. Unborn \in Container
  BY DEF Unborn, Container
<1>2. \A s \in {"unborn", "running", "stopped", "removed"} :
        [c EXCEPT ![id].status = s] \in [Ids -> Container]
  BY DEF Container
<1>3. \A s \in {"unborn", "running", "stopped", "removed"},
         k \in ContainerKeys \cup {NoKey} :
        [c EXCEPT ![id] = [Unborn EXCEPT !.status = s, !.key = k]]
          \in [Ids -> Container]
  BY <1>1 DEF Container
<1>4. \A h \in HookSets :
        [c EXCEPT ![id].ran = @ \cup {h}] \in [Ids -> Container]
  BY DEF Container
<1>5. \A d \in Dotfiles :
        [c EXCEPT ![id].installed = @ \cup {d}] \in [Ids -> Container]
  BY DEF Container
<1>6. \A t \in Targets, r \in SUBSET Repositories :
        [c EXCEPT ![id].checkout[t] = r] \in [Ids -> Container]
  <2> SUFFICES ASSUME NEW t \in Targets, NEW r \in SUBSET Repositories
               PROVE  [c EXCEPT ![id].checkout[t] = r] \in [Ids -> Container]
    OBVIOUS
  <2>1. [c[id].checkout EXCEPT ![t] = r] \in [Targets -> SUBSET Repositories]
    BY DEF Container
  <2>2. [c[id] EXCEPT !.checkout = [c[id].checkout EXCEPT ![t] = r]] \in Container
    BY <2>1 DEF Container
  <2>3. QED BY <2>2
<1>7. QED BY <1>1, <1>2, <1>3, <1>4, <1>5, <1>6

\* What a call of Persist leaves behind has its type.
LEMMA PersistTypes ==
  ASSUME TypeOK, NEW s \in State, NEW next \in Pcs, Persist(s, next)
  PROVE  /\ mem' \in State /\ disk' \in State /\ fault' \in BOOLEAN
         /\ pc' \in {next, "failed"} /\ pc' \in Pcs
         /\ UNCHANGED <<ct, cmd, seen, target, created>>
BY DEF TypeOK, Persist, Pcs

\* The initial state is well typed.
LEMMA InitTypeOK == Init => TypeOK
<1> SUFFICES ASSUME Init PROVE TypeOK
  OBVIOUS
<1>1. NoState \in State /\ NoPlan \in Plan
  BY DEF NoState, State, NoPlan, Plan
<1>2. Unborn \in Container
  BY DEF Unborn, Container
<1>3. QED BY <1>1, <1>2 DEF Init, TypeOK, Pcs, Unseen

\* Every step keeps the types.
LEMMA TypeStep == TypeOK /\ InstallInv /\ [Next]_vars => TypeOK'
<1> SUFFICES ASSUME TypeOK, InstallInv, [Next]_vars PROVE TypeOK'
  OBVIOUS
<1>t. /\ ct \in [Ids -> Container]
      /\ disk \in State /\ pc \in Pcs /\ cmd \in Command \cup {NoCommand}
      /\ (pc # "idle" => cmd \in Command) /\ mem \in State
      /\ seen \in [id : Ids \cup {NoContainer}, running : BOOLEAN]
      /\ target \in Ids \cup {NoContainer} /\ created \in BOOLEAN
      /\ plan \in Plan /\ fault \in BOOLEAN /\ settled \in SUBSET Configs
  BY DEF TypeOK
<1>c. pc # "idle" =>
        /\ cmd.config \in Configs /\ cmd.hooks \in HookSets
        /\ cmd.config.dotfiles \in Dotfiles \cup {NoDotfiles}
        /\ cmd.phase \in Phases /\ Key \in ContainerKeys
        /\ UpLifecycleKey \in LifecycleKeys
        /\ RunLifecycleKey \in LifecycleKeys
  BY CommandTypes
<1>k. NoState \in State /\ NoPlan \in Plan /\ Unborn \in Container
  BY DEF NoState, State, NoPlan, Plan, Unborn, Container
<1>u. Unseen \in [id : Ids \cup {NoContainer}, running : BOOLEAN]
  BY DEF Unseen
<1>f. ASSUME Forget
      PROVE  /\ pc' = "idle" /\ cmd' = NoCommand /\ mem' \in State
             /\ seen' \in [id : Ids \cup {NoContainer}, running : BOOLEAN]
             /\ target' \in Ids \cup {NoContainer} /\ created' \in BOOLEAN
             /\ plan' \in Plan /\ fault' \in BOOLEAN
  <2>1. /\ pc' = "idle" /\ cmd' = NoCommand /\ mem' = NoState /\ seen' = Unseen
        /\ target' = NoContainer /\ plan' = NoPlan
    BY <1>f DEF Forget
  <2>2. created' = FALSE /\ fault' = FALSE
    BY <1>f DEF Forget
  <2>3. QED BY <1>k, <1>u, <2>1, <2>2
<1>n. CASE UNCHANGED vars
  BY <1>t, <1>n DEF TypeOK, vars, command
<1>1. CASE Start
  BY <1>t, <1>1 DEF TypeOK, Start, Pcs
<1>2. CASE CallFails
  BY <1>t, <1>2 DEF TypeOK, CallFails, GiveUp, command, Pcs
<1>3. CASE Observe
  <2>1. \A id \in Ids \cup {NoContainer} : Observed(disk, id) \in State
    BY <1>t, StateTypes
  <2>2. Cleared(disk) \in State
    BY <1>t, StateTypes
  <2>3. \A id : Exists(id) => id \in Ids
    BY DEF Exists
  <2>4. BestContainers \subseteq Ids
    BY DEF BestContainers, Existing
  <2>5. \A id \in Ids : Running(id) \in BOOLEAN
    BY DEF Running
  <2>6. mem' \in State
    BY <1>t, <1>3, <2>1, <2>2, <2>3, <2>4 DEF Observe
  <2>7. seen' \in [id : Ids \cup {NoContainer}, running : BOOLEAN]
    BY <1>t, <1>3, <2>3, <2>4, <2>5 DEF Observe
  <2>8. target' \in Ids \cup {NoContainer} /\ pc' \in Pcs \ {"idle"}
    BY <1>t, <1>3, <2>3, <2>4 DEF Observe, Pcs
  <2>9. cmd \in Command
    BY <1>t, <1>3 DEF Observe
  <2>10. QED BY <1>t, <1>3, <2>6, <2>7, <2>8, <2>9 DEF TypeOK, Observe
<1>4. CASE Reuse
  BY <1>t, <1>4 DEF TypeOK, Reuse, command, Pcs
<1>5. CASE StartStopped
  <2>1. ct' \in [Ids -> Container]
    <3>1. CASE Exists(seen.id)
      <4>1. seen.id \in Ids
        BY <3>1 DEF Exists
      <4>2. ct' = [ct EXCEPT ![seen.id].status = "running"]
        BY <1>5, <3>1 DEF StartStopped
      <4>3. QED BY <1>t, <4>1, <4>2, ContainerTypes
    <3>2. CASE ~Exists(seen.id)
      BY <1>t, <1>5, <3>2 DEF StartStopped, GiveUp
    <3>3. QED BY <3>1, <3>2
  <2>2. pc # "idle" /\ pc' \in Pcs /\ UNCHANGED <<disk, command, settled, fault>>
    BY <1>t, <1>5 DEF StartStopped, GiveUp, Pcs
  <2>3. QED BY <1>t, <2>1, <2>2 DEF TypeOK, command
<1>6. CASE Remove
  BY <1>t, <1>6, ContainerTypes DEF TypeOK, Remove, Replaceable, command, Pcs
<1>7. CASE Create
  <2>1. CASE Existing # {}
    BY <1>t, <1>7, <2>1 DEF TypeOK, Create, GiveUp, command, Pcs
  <2>2. CASE Existing = {}
    <3>1. PICK id \in Ids, s \in {"running", "stopped"} :
            ct' = [ct EXCEPT ![id] = [Unborn EXCEPT !.status = s, !.key = Key]]
      BY <1>7, <2>2 DEF Create
    <3>2. pc # "idle"
      BY <1>7 DEF Create
    <3>3. ct' \in [Ids -> Container]
      BY <1>t, <1>c, <3>1, <3>2, ContainerTypes
    <3>4. /\ pc' \in Pcs /\ target' \in Ids \cup {NoContainer}
          /\ created' \in BOOLEAN /\ fault' \in BOOLEAN
          /\ UNCHANGED <<disk, cmd, mem, seen, plan, settled>>
      BY <1>t, <1>7, <2>2 DEF Create, Pcs
    <3>5. QED BY <1>t, <3>2, <3>3, <3>4 DEF TypeOK
  <2>3. QED BY <2>1, <2>2
<1>8. CASE Apply
  <2>1. ApplyContainer(mem, target, Key, created) \in State
    BY <1>t, <1>c, <1>8, StateTypes DEF Apply
  <2>2. QED BY <1>t, <1>8, <2>1, PersistTypes DEF TypeOK, Apply, Pcs
<1>9. CASE Inspect
  BY <1>t, <1>9 DEF TypeOK, Inspect, GiveUp, command, Pcs
<1>10. CASE RecordBridgeStart
  <2>1. BeginBridge(mem) \in State
    BY <1>t, StateTypes
  <2>2. QED BY <1>t, <1>10, <2>1, PersistTypes DEF TypeOK, RecordBridgeStart, Pcs
<1>11. CASE StartBridge
  BY <1>t, <1>11 DEF TypeOK, StartBridge, command, Pcs
<1>12. CASE RecordBridge
  <2>1. EnableBridge(mem) \in State
    BY <1>t, StateTypes
  <2>2. QED BY <1>t, <1>12, <2>1, PersistTypes DEF TypeOK, RecordBridge, Pcs
<1>13. CASE BeginUpLifecycle
  <2>1. /\ pc = "plan"
        /\ plan' = PlanUpLifecycle(mem, UpLifecycleKey, cmd.config.dotfiles,
                                   created)
    BY <1>13 DEF BeginUpLifecycle
  <2>2. plan' \in Plan
    BY <1>t, <1>c, <2>1, PlanTypes
  <2>3. BeginLifecycle(mem, plan') \in State
    BY <1>t, <2>2, StateTypes
  <2>4. (IF plan'.create THEN "hooks" ELSE "enter") \in Pcs
    BY DEF Pcs
  <2>5. /\ Persist(BeginLifecycle(mem, plan'), IF plan'.create THEN "hooks" ELSE "enter")
        /\ UNCHANGED settled
    BY <1>13 DEF BeginUpLifecycle
  <2>6. QED BY <1>t, <2>1, <2>2, <2>3, <2>4, <2>5, PersistTypes DEF TypeOK
<1>14. CASE BeginRunLifecycle
  <2>1. /\ pc = "plan"
        /\ plan' = PlanLifecycleCommand(mem, RunLifecycleKey,
                                        cmd.config.dotfiles, cmd.phase)
    BY <1>14 DEF BeginRunLifecycle
  <2>2. plan' \in Plan
    BY <1>t, <1>c, <2>1, PlanTypes
  <2>3. BeginLifecycle(mem, plan') \in State
    BY <1>t, <2>2, StateTypes
  <2>4. CASE plan'.create
    <3>1. Persist(BeginLifecycle(mem, plan'), "hooks") /\ UNCHANGED settled
      BY <1>14, <2>4 DEF BeginRunLifecycle
    <3>2. QED BY <1>t, <2>1, <2>2, <2>3, <3>1, PersistTypes DEF TypeOK, Pcs
  <2>5. CASE ~plan'.create
    BY <1>t, <1>14, <2>1, <2>2, <2>5 DEF TypeOK, BeginRunLifecycle, Pcs
  <2>6. QED BY <2>4, <2>5
<1>15. CASE CreateHooks
  <2>1. ct' \in [Ids -> Container]
    <3>1. CASE Denied \/ ~Running(target)
      BY <1>t, <1>15, <3>1 DEF CreateHooks, GiveUp
    <3>2. CASE ~(Denied \/ ~Running(target))
      <4>1. target \in Ids /\ pc # "idle"
        BY <1>15, <3>2 DEF Running, CreateHooks
      <4>2. ct' = [ct EXCEPT ![target].ran = @ \cup {cmd.hooks}]
        BY <1>15, <3>2 DEF CreateHooks
      <4>3. QED BY <1>t, <1>c, <4>1, <4>2, ContainerTypes
    <3>3. QED BY <3>1, <3>2
  <2>2. pc # "idle" /\ pc' \in Pcs /\ UNCHANGED <<disk, command, settled, fault>>
    BY <1>t, <1>15 DEF CreateHooks, GiveUp, Pcs
  <2>3. QED BY <1>t, <2>1, <2>2 DEF TypeOK, command
<1>16. CASE InstallDotfiles
  <2>1. pc = "dotfiles" /\ pc' \in Pcs \ {"idle"} /\ fault' \in BOOLEAN
        /\ UNCHANGED <<disk, command, settled>>
    BY <1>t, <1>16 DEF InstallDotfiles, GiveUp, Pcs
  <2>2. ct' \in [Ids -> Container]
    <3>1. CASE ~Running(target)
      BY <1>t, <1>16, <3>1 DEF InstallDotfiles, GiveUp
    <3>2. CASE Running(target)
      <4> DEFINE d == cmd.config.dotfiles
                 there == ct[target].checkout[d.target]
                 cloned == [ct EXCEPT ![target].checkout[d.target] =
                              IF there = {} THEN {d.repo} ELSE there]
      <4>1. target \in Ids
        BY <3>2 DEF Running
      <4>2. d \in Dotfiles
        BY <1>t, <1>c, <1>16 DEF InstallDotfiles, InstallInv
      <4>3. d.target \in Targets /\ d.repo \in Repositories
        BY <4>2 DEF Dotfiles
      <4>4. there \in SUBSET Repositories
        BY <1>t, <4>1, <4>3 DEF Container
      <4>5. cloned \in [Ids -> Container]
        <5> DEFINE r == IF there = {} THEN {d.repo} ELSE there
        <5>1. r \in SUBSET Repositories
          BY <4>3, <4>4
        <5>2. cloned = [ct EXCEPT ![target].checkout[d.target] = r]
          OBVIOUS
        <5> HIDE DEF r, there, d, cloned
        <5>3. [ct EXCEPT ![target].checkout[d.target] = r] \in [Ids -> Container]
          BY <1>t, <4>1, <4>3, <5>1, ContainerTypes
        <5>4. QED BY <5>2, <5>3
      <4>6. [cloned EXCEPT ![target].installed = @ \cup {d}] \in [Ids -> Container]
        BY <4>1, <4>2, <4>5, ContainerTypes
      <4>7. ct' \in {cloned, [cloned EXCEPT ![target].installed = @ \cup {d}]}
        BY <1>16, <3>2 DEF InstallDotfiles
      <4>8. QED BY <4>5, <4>6, <4>7
    <3>3. QED BY <3>1, <3>2
  <2>3. QED BY <1>t, <2>1, <2>2 DEF TypeOK, command
<1>17. CASE EnterHooks
  BY <1>t, <1>17 DEF TypeOK, EnterHooks, GiveUp, command, Pcs
<1>18. CASE Complete
  <2>1. CompleteLifecycle(mem, plan, cmd.config.dotfiles) \in State
    BY <1>t, <1>c, <1>18, StateTypes DEF Complete
  <2>2. QED BY <1>t, <1>18, <2>1, PersistTypes DEF TypeOK, Complete, Pcs
<1>19. CASE Finish
  <2>1. (IF cmd.config.bridge THEN mem ELSE DisableBridge(mem)) \in State
    BY <1>t, StateTypes
  <2>2. Persist(IF cmd.config.bridge THEN mem ELSE DisableBridge(mem), "done")
        /\ pc # "idle" /\ UNCHANGED <<plan, settled>>
    BY <1>19 DEF Finish
  <2>3. "done" \in Pcs
    BY DEF Pcs
  <2>4. QED BY <1>t, <2>1, <2>2, <2>3, PersistTypes DEF TypeOK
<1>20. CASE Return
  <2>1. settled' \in SUBSET Configs
    BY <1>t, <1>c, <1>20 DEF Return
  <2>2. QED BY <1>t, <1>f, <1>20, <2>1 DEF TypeOK, Return, Pcs
<1>21. CASE Crash
  BY <1>t, <1>f, <1>21 DEF TypeOK, Crash, Pcs
<1>22. CASE Meddle
  <2>1. PICK id \in Existing, s \in {"running", "stopped", "removed"} :
          ct' = [ct EXCEPT ![id].status = s] /\ settled' \in {{}, settled}
    BY <1>22 DEF Meddle
  <2>2. ct' \in [Ids -> Container]
    BY <1>t, <2>1, ContainerTypes DEF Existing
  <2>3. fault' \in BOOLEAN /\ UNCHANGED <<disk, pc, command>>
    BY <1>22 DEF Meddle
  <2>4. QED BY <1>t, <2>1, <2>2, <2>3 DEF TypeOK, command
<1>23. QED
  BY <1>n, <1>1, <1>2, <1>3, <1>4, <1>5, <1>6, <1>7, <1>8, <1>9, <1>10,
     <1>11, <1>12, <1>13, <1>14, <1>15, <1>16, <1>17, <1>18, <1>19, <1>20,
     <1>21, <1>22 DEF Next

\* Where dotfiles are installed some are configured.
LEMMA InstallStep == TypeOK /\ InstallInv /\ [Next]_vars => InstallInv'
<1> SUFFICES ASSUME TypeOK, InstallInv, [Next]_vars PROVE InstallInv'
  OBVIOUS
<1>1. CASE CreateHooks
  BY <1>1 DEF InstallInv, CreateHooks, GiveUp, command
<1>2. CASE BeginUpLifecycle
  BY <1>2 DEF InstallInv, BeginUpLifecycle, Persist, PlanUpLifecycle, NeedsInstall
<1>3. CASE BeginRunLifecycle
  BY <1>3
     DEF InstallInv, BeginRunLifecycle, Persist, PlanLifecycleCommand, NeedsInstall
<1>4. CASE Meddle \/ UNCHANGED vars
  BY <1>4 DEF InstallInv, Meddle, vars, command
<1>5. CASE ~(CreateHooks \/ BeginUpLifecycle \/ BeginRunLifecycle \/ Meddle
             \/ UNCHANGED vars)
  <2>1. pc' \notin {"hooks", "dotfiles"}
    BY <1>5
       DEF Next, Start, CallFails, Observe, Reuse, StartStopped, Remove, Create,
       Apply, Inspect, RecordBridgeStart, StartBridge, RecordBridge, InstallDotfiles,
       EnterHooks, Complete, Finish, Return, Crash, Persist, GiveUp, Forget
  <2>2. QED BY <2>1 DEF InstallInv
<1>6. QED BY <1>1, <1>2, <1>3, <1>4, <1>5

\* Every reachable state is well typed, and installs only what there is.
LEMMA Typed == Spec => [](TypeOK /\ InstallInv)
<1>1. Init => TypeOK /\ InstallInv
  BY InitTypeOK DEF Init, InstallInv
<1>2. TypeOK /\ InstallInv /\ [Next]_vars => (TypeOK /\ InstallInv)'
  BY TypeStep, InstallStep
<1>3. QED BY <1>1, <1>2, PTL DEF Spec

\* The variables keep their types, and a command in progress has arguments.
THEOREM TypeCorrect == Spec => []TypeOK
BY Typed, PTL

-----------------------------------------------------------------------------
(* What was done in a container stays done. *)

\* No step undoes what was done in a container, or changes the key of one
\* outside its reconciliation, or does anything in an unborn one.
LEMMA GrowStep ==
  ASSUME TypeOK, InstallInv, UnbornInv, [Next]_vars
  PROVE  /\ Grown(ct, ct') /\ UnbornInv'
         /\ pc \notin {"container", "create"} => \A id \in Ids : ct'[id].key = ct[id].key
<1>t. ct \in [Ids -> Container]
  BY DEF TypeOK
<1>r. \A id \in Ids : ct[id] \in Container
  BY <1>t
<1>1. CASE ct' = ct
  BY <1>1 DEF Grown, UnbornInv
<1>2. ASSUME NEW i \in Ids, NEW s \in {"running", "stopped", "removed"},
             ct' = [ct EXCEPT ![i].status = s]
      PROVE  Grown(ct, ct') /\ UnbornInv' /\ \A id \in Ids : ct'[id].key = ct[id].key
  BY <1>t, <1>2 DEF Grown, UnbornInv, Container
<1>3. CASE StartStopped
  <2>1. ct' = ct \/ (seen.id \in Ids /\ ct' = [ct EXCEPT ![seen.id].status = "running"])
    BY <1>3 DEF StartStopped, GiveUp, Exists
  <2>2. QED BY <1>1, <1>2, <2>1
<1>4. CASE Remove
  <2>1. seen.id \in Ids /\ ct' = [ct EXCEPT ![seen.id].status = "removed"]
    BY <1>4 DEF Remove, Replaceable, TypeOK
  <2>2. QED BY <1>2, <2>1
<1>5. CASE Create
  <2>1. CASE Existing # {}
    BY <1>1, <1>5, <2>1 DEF Create, GiveUp
  <2>2. CASE Existing = {}
    <3>1. PICK id \in Ids, s \in {"running", "stopped"} :
            /\ ct[id].status = "unborn"
            /\ ct' = [ct EXCEPT ![id] = [Unborn EXCEPT !.status = s, !.key = Key]]
      BY <1>5, <2>2 DEF Create
    <3>2. ct[id] = Unborn
      BY <3>1 DEF UnbornInv
    <3>3. /\ ct'[id].ran = {} /\ ct'[id].installed = {} /\ ct'[id].status = s
          /\ \A j \in Ids \ {id} : ct'[j] = ct[j]
      BY <1>t, <3>1 DEF Unborn
    <3>4. ct[id].ran = {} /\ ct[id].installed = {}
      BY <3>2 DEF Unborn
    <3>5. QED BY <1>5, <3>3, <3>4 DEF Grown, UnbornInv, Create
  <2>3. QED BY <2>1, <2>2
<1>6. CASE CreateHooks
  <2>1. CASE Denied \/ ~Running(target)
    BY <1>1, <1>6, <2>1 DEF CreateHooks, GiveUp
  <2>2. CASE ~(Denied \/ ~Running(target))
    <3>1. /\ target \in Ids /\ ct[target].status = "running"
          /\ ct' = [ct EXCEPT ![target].ran = @ \cup {cmd.hooks}]
      BY <1>6, <2>2 DEF CreateHooks, Running
    <3>2. QED BY <1>t, <1>r, <3>1 DEF Grown, UnbornInv, Container
  <2>3. QED BY <2>1, <2>2
<1>7. CASE InstallDotfiles
  <2>1. CASE ~Running(target)
    BY <1>1, <1>7, <2>1 DEF InstallDotfiles, GiveUp
  <2>2. CASE Running(target)
    <3> DEFINE d == cmd.config.dotfiles
               there == ct[target].checkout[d.target]
               r == IF there = {} THEN {d.repo} ELSE there
               cloned == [ct EXCEPT ![target].checkout[d.target] = r]
    <3>1. target \in Ids /\ ct[target].status = "running"
      BY <2>2 DEF Running
    <3>2. ct' \in {cloned, [cloned EXCEPT ![target].installed = @ \cup {d}]}
      BY <1>7, <2>2 DEF InstallDotfiles
    <3> HIDE DEF d, there, r
    <3>3. \A id \in Ids : /\ cloned[id].ran = ct[id].ran
                          /\ cloned[id].installed = ct[id].installed
                          /\ cloned[id].key = ct[id].key
                          /\ id # target => cloned[id] = ct[id]
                          /\ cloned[id].status = ct[id].status
      BY <1>t, <1>r, <3>1 DEF Container
    <3>4. cloned \in [Ids -> [status : {"unborn", "running", "stopped", "removed"},
                              key : ContainerKeys \cup {NoKey}, ran : SUBSET HookSets,
                              installed : SUBSET Dotfiles,
                              checkout : {cloned[i].checkout : i \in Ids}]]
      BY <1>t, <1>r, <3>1 DEF Container
    <3> HIDE DEF cloned
    <3>5. \A id \in Ids : /\ ct'[id].ran = cloned[id].ran
                          /\ cloned[id].installed \subseteq ct'[id].installed
                          /\ ct'[id].key = cloned[id].key
                          /\ id # target => ct'[id] = cloned[id]
                          /\ ct'[id].status = cloned[id].status
      BY <3>1, <3>2, <3>4
    <3>6. QED BY <3>1, <3>3, <3>5 DEF Grown, UnbornInv
  <2>3. QED BY <2>1, <2>2
<1>8. CASE Meddle
  <2>1. \E i \in Ids, s \in {"running", "stopped", "removed"} :
           ct' = [ct EXCEPT ![i].status = s]
    BY <1>8 DEF Meddle, Existing
  <2>2. QED BY <1>2, <2>1
<1>9. CASE ~(StartStopped \/ Remove \/ Create \/ CreateHooks \/ InstallDotfiles \/ Meddle)
  <2>1. ct' = ct
    BY <1>9 DEF Next, Start, CallFails, Observe, Reuse, Apply, Inspect,
       RecordBridgeStart, StartBridge, RecordBridge, BeginUpLifecycle,
       BeginRunLifecycle, EnterHooks, Complete, Finish, Return, Crash,
       Persist, GiveUp, vars
  <2>2. QED BY <1>1, <2>1
<1>10. QED BY <1>3, <1>4, <1>5, <1>6, <1>7, <1>8, <1>9

-----------------------------------------------------------------------------
(* The container a command works on. *)

\* The container a command works on is the one its tracker names.
LEMMA TargetStep ==
  ASSUME TypeOK, TargetInv, [Next]_vars
  PROVE  TargetInv'
<1>t. /\ NoContainer \notin Ids /\ target \in Ids \cup {NoContainer}
      /\ seen \in [id : Ids \cup {NoContainer}, running : BOOLEAN]
      /\ mem \in State /\ disk \in State /\ created \in BOOLEAN
  BY ReconcileAssumption DEF TypeOK
<1>u. Unseen.id = NoContainer
  BY DEF Unseen
<1>1. CASE Start
  BY <1>1 DEF TargetInv, Start, Working
<1>2. CASE CallFails
  BY <1>2 DEF TargetInv, CallFails, GiveUp, Working
<1>3. CASE Observe
  <2>1. pc = "observe" /\ ~created /\ seen = Unseen /\ target = NoContainer /\ created' = created
    BY <1>3 DEF Observe, TargetInv
  <2>2. \A id : Observed(disk, id).container = id
    BY <1>t DEF Observed, Cleared, NoState, State
  <2>3. Cleared(disk).container = NoContainer
    BY DEF Cleared, NoState
  <2>4. BestContainers \subseteq Ids
    BY DEF BestContainers, Existing
  <2>5. \A id : Exists(id) => id \in Ids
    BY DEF Exists
  <2>6. CASE \E id \in Ids : /\ mem' = Observed(disk, id) /\ target' = id
                             /\ seen'.id = id /\ pc' \in {"container", "plan"}
    BY <2>1, <2>2, <2>6 DEF TargetInv, Working
  <2>7. CASE /\ mem' = Cleared(disk) /\ pc' = "container"
             /\ UNCHANGED <<seen, target>>
    BY <1>u, <2>1, <2>3, <2>7 DEF TargetInv, Working
  <2>8. CASE pc' = "failed"
    BY <2>8 DEF TargetInv, Working
  <2>9. QED BY <1>3, <2>4, <2>5, <2>6, <2>7, <2>8 DEF Observe
<1>4. CASE Reuse
  BY <1>t, <1>4 DEF TargetInv, Reuse, command, Working
<1>5. CASE StartStopped
  BY <1>t, <1>5 DEF TargetInv, StartStopped, GiveUp, command, Working
<1>6. CASE Remove
  BY <1>6 DEF TargetInv, Remove, command, Working
<1>7. CASE Create
  <2>1. CASE pc' = "failed"
    BY <2>1 DEF TargetInv, Working
  <2>2. CASE pc' # "failed"
    BY <1>7, <2>2 DEF TargetInv, Create, GiveUp, Working
  <2>3. QED BY <2>1, <2>2
<1>8. CASE Apply
  <2>1. ApplyContainer(mem, target, Key, created).container = target
    BY <1>t DEF ApplyContainer, BeginContainer, SetContainer, NoState, State
  <2>2. QED BY <1>8, <2>1 DEF TargetInv, Apply, Persist, Working
<1>9. CASE Inspect
  BY <1>9 DEF TargetInv, Inspect, GiveUp, command, Working
<1>10. CASE RecordBridgeStart
  <2>1. BeginBridge(mem).container = mem.container
    BY <1>t DEF BeginBridge, State
  <2>2. QED BY <1>10, <2>1 DEF TargetInv, RecordBridgeStart, Persist, Working
<1>11. CASE StartBridge
  BY <1>11 DEF TargetInv, StartBridge, command, Working
<1>12. CASE RecordBridge
  <2>1. EnableBridge(mem).container = mem.container
    BY <1>t DEF EnableBridge, State
  <2>2. QED BY <1>12, <2>1 DEF TargetInv, RecordBridge, Persist, Working
<1>p. \A p : BeginLifecycle(mem, p).container = mem.container
  BY <1>t DEF BeginLifecycle, State
<1>13. CASE BeginUpLifecycle
  BY <1>p, <1>13 DEF TargetInv, BeginUpLifecycle, Persist, Working
<1>14. CASE BeginRunLifecycle
  BY <1>p, <1>14 DEF TargetInv, BeginRunLifecycle, Persist, Working
<1>15. CASE CreateHooks
  BY <1>15 DEF TargetInv, CreateHooks, GiveUp, command, Working
<1>16. CASE InstallDotfiles
  BY <1>16 DEF TargetInv, InstallDotfiles, GiveUp, command, Working
<1>17. CASE EnterHooks
  BY <1>17 DEF TargetInv, EnterHooks, GiveUp, command, Working
<1>18. CASE Complete
  <2>1. CompleteLifecycle(mem, plan, cmd.config.dotfiles).container = mem.container
    BY <1>t DEF CompleteLifecycle, SetDotfiles, State
  <2>2. QED BY <1>18, <2>1 DEF TargetInv, Complete, Persist, Working
<1>19. CASE Finish
  BY <1>19 DEF TargetInv, Finish, Persist, Working
<1>20. CASE Forget
  BY <1>20 DEF TargetInv, Forget, Working
<1>21. CASE Meddle
  BY <1>21 DEF TargetInv, Meddle, command
<1>22. CASE UNCHANGED vars
  BY <1>22 DEF TargetInv, vars, command
<1>23. QED
  BY <1>1, <1>2, <1>3, <1>4, <1>5, <1>6, <1>7, <1>8, <1>9, <1>10, <1>11, <1>12,
     <1>13, <1>14, <1>15, <1>16, <1>17, <1>18, <1>19, <1>20, <1>21, <1>22
  DEF Next, Return, Crash

-----------------------------------------------------------------------------
(* What the state file claims. *)

\* Claims about a container stay true while what was done in it grows.
LEMMA HonestGrows ==
  ASSUME NEW s, NEW c, NEW d, Honest(s, c), Grown(c, d)
  PROVE  Honest(s, d)
BY DEF Honest, Grown

\* The operations that neither complete the lifecycle nor change containers
\* add no claim.
LEMMA HonestKept ==
  ASSUME NEW s \in State, NEW c, Honest(s, c)
  PROVE  /\ \A id \in Ids : Honest(Observed(s, id), c)
         /\ Honest(NoState, c) /\ Honest(Cleared(s), c)
         /\ \A k : \A id \in Ids : Honest(BeginContainer(id, k), c)
         /\ \A k : Honest(SetContainer(s, s.container, k), c)
         /\ Honest(BeginBridge(s), c) /\ Honest(EnableBridge(s), c)
         /\ Honest(DisableBridge(s), c)
         /\ \A p \in Plan : Honest(BeginLifecycle(s, p), c)
<1>1. Honest(NoState, c) /\ Honest(Cleared(s), c)
  BY DEF Honest, NoState, Cleared
<1>2. \A id \in Ids : Honest(Observed(s, id), c)
  <2> SUFFICES ASSUME NEW id \in Ids PROVE Honest(Observed(s, id), c)
    OBVIOUS
  <2>1. CASE s.container \in {NoContainer, id}
    <3>1. Observed(s, id) = [s EXCEPT !.container = id]
      BY <2>1 DEF Observed
    <3>2. s.container \in Ids => s.container = id
      BY <2>1, ReconcileAssumption
    <3>3. QED BY <3>1, <3>2 DEF Honest, State
  <2>2. CASE s.container \notin {NoContainer, id}
    <3>1. Observed(s, id) = [Cleared(s) EXCEPT !.container = id]
      BY <2>2 DEF Observed
    <3>2. QED BY <3>1 DEF Honest, Cleared, NoState
  <2>3. QED BY <2>1, <2>2
<1>3. \A k : \A id \in Ids : Honest(BeginContainer(id, k), c)
  BY DEF Honest, BeginContainer, NoState
<1>4. \A k : Honest(SetContainer(s, s.container, k), c)
  BY DEF Honest, SetContainer, State
<1>5. /\ Honest(BeginBridge(s), c) /\ Honest(EnableBridge(s), c)
      /\ Honest(DisableBridge(s), c)
  BY DEF Honest, BeginBridge, EnableBridge, DisableBridge, State
<1>6. \A p \in Plan : Honest(BeginLifecycle(s, p), c)
  BY DEF Honest, BeginLifecycle, State
<1>7. QED BY <1>1, <1>2, <1>3, <1>4, <1>5, <1>6

\* Completing the lifecycle claims what has been done.
LEMMA HonestCompletes ==
  ASSUME NEW s \in State, NEW c, NEW p \in Plan,
         NEW d \in Dotfiles \cup {NoDotfiles}, s.container \in Ids,
         p.key \in LifecycleKeys, p.key[2] \in c[s.container].ran, p.key[3] = d,
         d \in c[s.container].installed \cup {NoDotfiles}
  PROVE  Honest(CompleteLifecycle(s, p, d), c)
<1> DEFINE r == d # NoDotfiles
<1>1. CompleteLifecycle(s, p, d) =
        [s EXCEPT !.transition = FALSE, !.ready = TRUE, !.lifecycleKey = p.key,
                  !.dotfiles = d, !.dotfilesReady = r, !.dotfilesTransition = FALSE]
  BY DEF CompleteLifecycle, SetDotfiles, State
<1>2. r \in BOOLEAN /\ (r => d \in c[s.container].installed)
  OBVIOUS
<1> HIDE DEF r
<1>3. QED BY <1>1, <1>2 DEF Honest, State

\* What the command's plan promises holds where it is about to be recorded.
LEMMA PlanStep ==
  ASSUME TypeOK, InstallInv, UnbornInv, HonestInv, TargetInv, PlanInv, [Next]_vars
  PROVE  PlanInv'
<1>g. Grown(ct, ct')
  BY GrowStep
<1>t. /\ ct \in [Ids -> Container] /\ plan \in Plan /\ created \in BOOLEAN
      /\ (pc # "idle" => cmd \in Command) /\ mem \in State
  BY DEF TypeOK
<1>c. pc # "idle" => /\ cmd.config.dotfiles \in Dotfiles \cup {NoDotfiles}
                     /\ UpLifecycleKey \in LifecycleKeys
                     /\ RunLifecycleKey \in LifecycleKeys
  BY CommandTypes
<1>1. CASE BeginUpLifecycle
  <2> DEFINE key == UpLifecycleKey
  <2>1. pc = "plan" /\ Up /\ plan'.key = key /\ cmd' = cmd /\ target' = target /\ ct' = ct
    BY <1>1 DEF BeginUpLifecycle, PlanUpLifecycle, Persist
  <2>2. /\ key \in LifecycleKeys /\ key[2] = cmd.hooks
        /\ key[3] = cmd.config.dotfiles
    BY <1>c, <2>1 DEF UpLifecycleKey, LifecycleKey
  <2>3. target \in Ids /\ mem.container = target
    BY <2>1 DEF TargetInv, Working
  <2>4. ~plan'.install => cmd.config.dotfiles \in ct[target].installed \cup {NoDotfiles}
    BY <1>1, <2>3 DEF BeginUpLifecycle, PlanUpLifecycle, NeedsInstall, StateMatches,
       HonestInv, Honest
  <2>5. ~plan'.create => mem.ready /\ mem.lifecycleKey = key
    BY <1>1 DEF BeginUpLifecycle, PlanUpLifecycle
  <2>6. ~plan'.create => /\ cmd.hooks \in ct[target].ran
                         /\ cmd.config.dotfiles \in ct[target].installed \cup {NoDotfiles}
    BY <2>2, <2>3, <2>5 DEF HonestInv, Honest
  <2>7. pc' \in {"hooks", "enter", "failed"} /\ (pc' = "hooks" => plan'.create)
        /\ (pc' = "enter" => ~plan'.create)
    BY <1>1 DEF BeginUpLifecycle, Persist
  <2> HIDE DEF key
  <2>8. QED BY <2>1, <2>2, <2>4, <2>6, <2>7 DEF PlanInv
<1>2. CASE BeginRunLifecycle
  <2> DEFINE key == RunLifecycleKey
  <2>1. /\ pc = "plan" /\ ~Up /\ plan'.key = key
        /\ cmd' = cmd /\ target' = target /\ ct' = ct
    BY <1>2 DEF BeginRunLifecycle, PlanLifecycleCommand, Persist
  <2>2. /\ key \in LifecycleKeys /\ key[2] = cmd.hooks
        /\ key[3] = cmd.config.dotfiles
    BY <1>c, <2>1 DEF RunLifecycleKey, LifecycleKey
  <2>3. target \in Ids /\ mem.container = target
    BY <2>1 DEF TargetInv, Working
  <2>4. ~plan'.install => cmd.config.dotfiles \in ct[target].installed \cup {NoDotfiles}
    BY <1>2, <2>3 DEF BeginRunLifecycle, PlanLifecycleCommand, NeedsInstall,
       StateMatches, HonestInv, Honest
  <2>5. pc' \in {"hooks", "enter", "failed"} /\ (pc' = "hooks" => plan'.create)
        /\ (pc' = "enter" => ~plan'.create)
    BY <1>2 DEF BeginRunLifecycle, Persist
  <2>6. ~Up'
    BY <2>1 DEF Up
  <2> HIDE DEF key
  <2>7. QED BY <2>1, <2>2, <2>4, <2>5, <2>6 DEF PlanInv
<1>3. CASE CreateHooks
  <2>1. CASE Denied \/ ~Running(target)
    BY <1>3, <2>1 DEF PlanInv, CreateHooks, GiveUp
  <2>2. CASE ~(Denied \/ ~Running(target))
    <3>1. /\ pc = "hooks" /\ target \in Ids /\ UNCHANGED command
          /\ ct' = [ct EXCEPT ![target].ran = @ \cup {cmd.hooks}]
          /\ pc' = IF plan.install THEN "dotfiles"
                   ELSE IF plan.enter THEN "enter" ELSE "complete"
      BY <1>3, <2>2 DEF CreateHooks, Running
    <3>2. cmd.hooks \in ct'[target].ran
      BY <1>t, <3>1 DEF Container
    <3>3. ct[target].installed \subseteq ct'[target].installed
      BY <1>g, <3>1 DEF Grown
    <3>4. QED BY <3>1, <3>2, <3>3 DEF PlanInv, command
  <2>3. QED BY <2>1, <2>2
<1>4. CASE InstallDotfiles
  <2>1. CASE ~Running(target)
    BY <1>4, <2>1 DEF PlanInv, InstallDotfiles, GiveUp
  <2>2. CASE pc' = "failed"
    BY <2>2 DEF PlanInv
  <2>3. CASE Running(target) /\ pc' # "failed"
    <3> DEFINE d == cmd.config.dotfiles
               there == ct[target].checkout[d.target]
               cloned == [ct EXCEPT ![target].checkout[d.target] =
                            IF there = {} THEN {d.repo} ELSE there]
    <3>1. /\ pc = "dotfiles" /\ target \in Ids /\ UNCHANGED command
          /\ ct' = [cloned EXCEPT ![target].installed = @ \cup {d}]
          /\ pc' = IF plan.enter THEN "enter" ELSE "complete"
      BY <1>4, <2>3 DEF InstallDotfiles, Running
    <3>2. DOMAIN cloned = Ids /\ DOMAIN cloned[target] = DOMAIN ct[target]
      BY <1>t, <3>1
    <3>3. "installed" \in DOMAIN ct[target]
      BY <1>t, <3>1 DEF Container
    <3> HIDE DEF cloned, d
    <3>4. d \in ct'[target].installed
      BY <3>1, <3>2, <3>3
    <3>5. ct[target].ran \subseteq ct'[target].ran
      BY <1>g, <3>1 DEF Grown
    <3>6. QED BY <3>1, <3>4, <3>5 DEF PlanInv, command, d
  <2>4. QED BY <2>1, <2>2, <2>3
<1>5. CASE EnterHooks
  BY <1>5 DEF PlanInv, EnterHooks, GiveUp, command, Up
<1>6. CASE Meddle \/ UNCHANGED vars
  <2>1. UNCHANGED <<pc, command>>
    BY <1>6 DEF Meddle, vars
  <2>2. pc \in {"hooks", "dotfiles", "enter", "complete"} => target \in Ids
    BY DEF TargetInv, Working
  <2>3. QED BY <1>g, <2>1, <2>2 DEF PlanInv, Grown, command, Up
<1>7. CASE ~(\/ BeginUpLifecycle \/ BeginRunLifecycle \/ CreateHooks \/ InstallDotfiles
             \/ EnterHooks \/ Meddle \/ UNCHANGED vars)
  <2>1. pc' \notin {"hooks", "dotfiles", "enter", "complete"}
    BY <1>7
       DEF Next, Start, CallFails, Observe, Reuse, StartStopped, Remove, Create,
       Apply, Inspect, RecordBridgeStart, StartBridge, RecordBridge, Complete, Finish,
       Return, Crash, Persist, GiveUp, Forget
  <2>2. QED BY <2>1 DEF PlanInv
<1>8. QED BY <1>1, <1>2, <1>3, <1>4, <1>5, <1>6, <1>7

\* Neither the state file nor the tracker ever claims what was not done.
LEMMA HonestStep ==
  ASSUME TypeOK, InstallInv, UnbornInv, HonestInv, TargetInv, PlanInv, [Next]_vars
  PROVE  HonestInv'
<1>t. /\ mem \in State /\ disk \in State /\ plan \in Plan /\ created \in BOOLEAN
  BY DEF TypeOK
<1>c. pc # "idle" => /\ cmd.config.dotfiles \in Dotfiles \cup {NoDotfiles}
                     /\ cmd.phase \in Phases
                     /\ UpLifecycleKey \in LifecycleKeys
                     /\ RunLifecycleKey \in LifecycleKeys
  BY CommandTypes
<1>g. \A s : Honest(s, ct) => Honest(s, ct')
  BY GrowStep, HonestGrows
<1>h. Honest(disk, ct) /\ Honest(mem, ct)
  BY DEF HonestInv
<1>m. \A id \in Ids : Honest(Observed(disk, id), ct)
  BY <1>t, <1>h, HonestKept
<1>k. /\ Honest(NoState, ct) /\ Honest(Cleared(disk), ct)
      /\ \A k : \A id \in Ids : Honest(BeginContainer(id, k), ct)
      /\ \A k : Honest(SetContainer(mem, mem.container, k), ct)
      /\ Honest(BeginBridge(mem), ct) /\ Honest(EnableBridge(mem), ct)
      /\ Honest(DisableBridge(mem), ct)
      /\ \A p \in Plan : Honest(BeginLifecycle(mem, p), ct)
  BY <1>t, <1>h, HonestKept
<1>p. ASSUME NEW s, NEW next, Persist(s, next), Honest(s, ct)
      PROVE  HonestInv'
  BY <1>g, <1>h, <1>p DEF Persist, HonestInv
<1>1. CASE Observe
  <2>1. BestContainers \subseteq Ids /\ \A id : Exists(id) => id \in Ids
    BY DEF BestContainers, Existing, Exists
  <2>2. disk' = disk /\ ct' = ct
    BY <1>1 DEF Observe
  <2>3. mem' \in {mem, Cleared(disk)} \cup {Observed(disk, id) : id \in Ids}
    BY <1>1, <2>1 DEF Observe
  <2>4. QED BY <1>h, <1>k, <1>m, <2>2, <2>3 DEF HonestInv
<1>2. CASE Apply
  <2>1. /\ pc = "apply" /\ target \in Ids
        /\ (~created => mem.container = target)
    BY <1>2 DEF Apply, TargetInv, Working
  <2>2. Honest(ApplyContainer(mem, target, Key, created), ct)
    BY <1>t, <1>k, <2>1 DEF ApplyContainer
  <2>3. QED BY <1>2, <1>p, <2>2 DEF Apply
<1>3. CASE RecordBridgeStart
  BY <1>3, <1>p, <1>k DEF RecordBridgeStart
<1>4. CASE RecordBridge
  BY <1>4, <1>p, <1>k DEF RecordBridge
<1>5. CASE BeginUpLifecycle
  <2>1. plan' \in Plan
    BY <1>t, <1>c, <1>5, PlanTypes DEF BeginUpLifecycle
  <2>2. QED BY <1>5, <1>p, <1>k, <2>1 DEF BeginUpLifecycle
<1>6. CASE BeginRunLifecycle
  <2>1. plan' \in Plan
    BY <1>t, <1>c, <1>6, PlanTypes DEF BeginRunLifecycle
  <2>2. CASE plan'.create
    BY <1>6, <1>p, <1>k, <2>1, <2>2 DEF BeginRunLifecycle
  <2>3. CASE ~plan'.create
    BY <1>6, <1>h, <2>3 DEF BeginRunLifecycle, HonestInv
  <2>4. QED BY <2>2, <2>3
<1>7. CASE Complete
  <2>1. /\ pc = "complete" /\ target \in Ids /\ mem.container = target
        /\ (Up \/ plan.create)
    BY <1>7 DEF Complete, TargetInv, PlanInv, Working
  <2>2. /\ plan.key \in LifecycleKeys /\ plan.key[2] = cmd.hooks
        /\ plan.key[3] = cmd.config.dotfiles
        /\ cmd.hooks \in ct[target].ran
        /\ cmd.config.dotfiles \in ct[target].installed \cup {NoDotfiles}
    BY <2>1 DEF PlanInv
  <2>3. Honest(CompleteLifecycle(mem, plan, cmd.config.dotfiles), ct)
    BY <1>t, <1>c, <2>1, <2>2, HonestCompletes
  <2>4. QED BY <1>7, <1>p, <2>3 DEF Complete
<1>8. CASE Finish
  <2>1. Honest(IF cmd.config.bridge THEN mem ELSE DisableBridge(mem), ct)
    BY <1>h, <1>k
  <2>2. QED BY <1>8, <1>p, <2>1 DEF Finish
<1>9. CASE Return \/ Crash
  BY <1>9, <1>h, <1>k DEF Return, Crash, Forget, HonestInv
<1>10. CASE ~(\/ Observe \/ Apply \/ RecordBridgeStart \/ RecordBridge
              \/ BeginUpLifecycle \/ BeginRunLifecycle \/ Complete \/ Finish
              \/ Return \/ Crash)
  <2>1. disk' = disk /\ mem' = mem
    BY <1>10
       DEF Next, Start, CallFails, Reuse, StartStopped, Remove, Create, Inspect,
       StartBridge, CreateHooks, InstallDotfiles, EnterHooks, Meddle,
       GiveUp, vars, command
  <2>2. QED BY <1>g, <1>h, <2>1 DEF HonestInv
<1>11. QED
  BY <1>1, <1>2, <1>3, <1>4, <1>5, <1>6, <1>7, <1>8, <1>9, <1>10

\* The part of the inductive invariant on which every claim rests.
ClaimInv ==
  TypeOK /\ InstallInv /\ UnbornInv /\ HonestInv /\ TargetInv /\ PlanInv

\* It holds initially and every step keeps it.
LEMMA Claims == Spec => []ClaimInv
<1>1. Init => ClaimInv
  <2> SUFFICES ASSUME Init PROVE ClaimInv
    OBVIOUS
  <2>1. TypeOK /\ pc = "idle"
    BY InitTypeOK DEF Init
  <2>2. UnbornInv
    BY DEF Init, UnbornInv
  <2>3. HonestInv
    BY DEF Init, HonestInv, Honest, NoState
  <2>4. InstallInv /\ TargetInv /\ PlanInv
    BY DEF Init, InstallInv, TargetInv, PlanInv, Working
  <2>5. QED BY <2>1, <2>2, <2>3, <2>4 DEF ClaimInv
<1>2. ClaimInv /\ [Next]_vars => ClaimInv'
  BY TypeStep, InstallStep, GrowStep, HonestStep, TargetStep, PlanStep DEF ClaimInv
<1>3. QED BY <1>1, <1>2, PTL DEF Spec

\* What state.json calls ready is ready, in the container that it names.
THEOREM ReadyIsReady == Spec => []ReadyMeansRan
<1>1. ClaimInv => ReadyMeansRan
  BY DEF ClaimInv, HonestInv, Honest, ReadyMeansRan
<1>2. QED BY <1>1, Claims, PTL

\* Dotfiles recorded as installed were installed in the recorded container.
THEOREM RecordedDotfiles == Spec => []DotfilesInstalled
<1>1. ClaimInv => DotfilesInstalled
  BY DEF ClaimInv, HonestInv, Honest, DotfilesInstalled
<1>2. QED BY <1>1, Claims, PTL

-----------------------------------------------------------------------------
(* What a successful up delivers. *)

\* What an up has established so far stays established.
LEMMA UpStep ==
  ASSUME ClaimInv, UpInv, [Next]_vars
  PROVE  UpInv'
<1>t. /\ TypeOK /\ InstallInv /\ UnbornInv /\ TargetInv /\ PlanInv
      /\ ct \in [Ids -> Container]
      /\ mem \in State /\ disk \in State /\ plan \in Plan /\ created \in BOOLEAN
  BY DEF ClaimInv, TypeOK
<1>c. pc # "idle" => cmd.config.bridge \in BOOLEAN
  BY <1>t, ReconcileAssumption DEF TypeOK, Command, Config
<1>g. /\ Grown(ct, ct')
      /\ pc \notin {"container", "create"} => \A id \in Ids : ct'[id].key = ct[id].key
  BY <1>t, GrowStep
<1>u. TypeOK'
  BY <1>t, TypeStep
<1>q. CASE pc' \notin Working \cup {"done"}
  BY <1>q DEF UpInv, Working, Recorded
<1>r. CASE ~Up'
  BY <1>r DEF UpInv
<1>1. CASE Observe
  <2>1. pc' = "plan" => ~Up'
    BY <1>1 DEF Observe, Up
  <2>2. pc' \in {"container", "plan", "failed"}
    BY <1>1 DEF Observe
  <2>3. QED BY <1>q, <1>r, <2>1, <2>2 DEF Working
<1>2. CASE Reuse
  <2>1. /\ pc' = "apply" /\ target \in Ids /\ ct[target].key = Key
        /\ UNCHANGED <<ct, command>>
    BY <1>2, <1>t DEF Reuse, Replaceable, TargetInv, TypeOK, command
  <2>2. QED BY <2>1 DEF UpInv, Recorded, Working, command, Key, Up
<1>3. CASE StartStopped
  <2>1. CASE ~Exists(seen.id)
    BY <1>3, <1>q, <2>1 DEF StartStopped, GiveUp, Working
  <2>2. CASE Exists(seen.id)
    <3>1. /\ pc' = "apply" /\ target \in Ids /\ ct[target].key = Key
          /\ ct' = [ct EXCEPT ![target].status = "running"] /\ UNCHANGED command
      BY <1>3, <2>2, <1>t DEF StartStopped, Replaceable, TargetInv, Exists, command
    <3>2. ct'[target].key = ct[target].key
      BY <1>t, <3>1 DEF Container
    <3>3. QED BY <3>1, <3>2 DEF UpInv, Recorded, Working, command, Key, Up
  <2>3. QED BY <2>1, <2>2
<1>4. CASE Create
  <2>1. CASE pc' = "failed"
    BY <1>q, <2>1 DEF Working
  <2>2. CASE pc' # "failed"
    <3>1. /\ pc' = "apply" /\ target' \in Ids /\ cmd' = cmd
          /\ ct' = [ct EXCEPT ![target'] = [Unborn EXCEPT !.status = "running", !.key = Key]]
      BY <1>4, <2>2 DEF Create, GiveUp
    <3>2. ct'[target'].key = Key
      BY <1>t, <3>1 DEF Unborn
    <3>3. QED BY <3>1, <3>2 DEF UpInv, Recorded, Working, Key, Up, UpLifecycleKey
  <2>3. QED BY <2>1, <2>2
\* From here on the container and its key stay.
<1>w. ASSUME pc \in Working, UNCHANGED <<cmd, target>>
      PROVE  Up => target' \in Ids /\ ct'[target'].key = Key'
  BY <1>g, <1>w DEF UpInv, Working, Key
<1>5. CASE Apply
  <2>1. Persist(ApplyContainer(mem, target, Key, created), "inspect") /\ pc = "apply"
    BY <1>5 DEF Apply
  <2>2. /\ ApplyContainer(mem, target, Key, created).container = target
        /\ ApplyContainer(mem, target, Key, created).key = Key
    BY <1>t DEF ApplyContainer, BeginContainer, SetContainer, NoState, State
  <2>3. CASE pc' = "failed"
    BY <1>q, <2>3 DEF Working
  <2>4. CASE pc' # "failed"
    BY <1>w, <2>1, <2>2, <2>4
       DEF UpInv, Persist, Recorded, Working, Key, Up, UpLifecycleKey
  <2>5. QED BY <2>3, <2>4
<1>6. CASE Inspect
  <2>1. CASE ~Exists(target)
    BY <1>6, <1>q, <2>1 DEF Inspect, GiveUp, Working
  <2>2. CASE Exists(target)
    <3>1. /\ pc = "inspect" /\ pc' = IF cmd.config.bridge THEN "bridge" ELSE "plan"
          /\ UNCHANGED <<ct, disk, command>>
      BY <1>6, <2>2 DEF Inspect
    <3>2. QED BY <3>1 DEF UpInv, Recorded, Working, Key, Up, UpLifecycleKey, command
  <2>3. QED BY <2>1, <2>2
<1>7. CASE RecordBridgeStart
  <2>1. /\ BeginBridge(mem).container = mem.container /\ BeginBridge(mem).key = mem.key
    BY <1>t DEF BeginBridge, State
  <2>2. CASE pc' = "failed"
    BY <1>q, <2>2 DEF Working
  <2>3. CASE pc' # "failed"
    BY <1>w, <1>7, <2>1, <2>3
       DEF UpInv, RecordBridgeStart, Persist, Recorded, Working, Key, Up, UpLifecycleKey
  <2>4. QED BY <2>2, <2>3
<1>8. CASE StartBridge
  <2>1. CASE pc' = "failed"
    BY <1>q, <2>1 DEF Working
  <2>2. CASE pc' # "failed"
    BY <1>8, <2>2
       DEF UpInv, StartBridge, Recorded, Working, Key, Up, UpLifecycleKey, command
  <2>3. QED BY <2>1, <2>2
<1>9. CASE RecordBridge
  <2>1. /\ EnableBridge(mem).container = mem.container /\ EnableBridge(mem).key = mem.key
        /\ EnableBridge(mem).bridge /\ ~EnableBridge(mem).bridgeTransition
    BY <1>t DEF EnableBridge, State
  <2>2. CASE pc' = "failed"
    BY <1>q, <2>2 DEF Working
  <2>3. CASE pc' # "failed"
    BY <1>w, <1>9, <2>1, <2>3
       DEF UpInv, RecordBridge, Persist, Recorded, Working, Key, Up, UpLifecycleKey
  <2>4. QED BY <2>2, <2>3
<1>10. CASE BeginUpLifecycle
  <2>1. \A p : /\ BeginLifecycle(mem, p).container = mem.container
               /\ BeginLifecycle(mem, p).key = mem.key
               /\ BeginLifecycle(mem, p).bridge = mem.bridge
               /\ BeginLifecycle(mem, p).bridgeTransition = mem.bridgeTransition
    BY <1>t DEF BeginLifecycle, State
  <2>2. plan'.key = UpLifecycleKey
    BY <1>10 DEF BeginUpLifecycle, PlanUpLifecycle
  <2>3. CASE pc' = "failed"
    BY <1>q, <2>3 DEF Working
  <2>4. CASE pc' # "failed"
    BY <1>w, <1>10, <2>1, <2>2, <2>4
       DEF UpInv, BeginUpLifecycle, Persist, Recorded, Working, Key, Up, UpLifecycleKey
  <2>5. QED BY <2>3, <2>4
<1>11. CASE BeginRunLifecycle
  <2>1. ~Up'
    BY <1>11 DEF BeginRunLifecycle, Persist, Up
  <2>2. QED BY <1>r, <2>1
<1>12. CASE CreateHooks \/ InstallDotfiles \/ EnterHooks
  <2>1. CASE pc' = "failed"
    BY <1>q, <2>1 DEF Working
  <2>2. CASE pc' # "failed"
    <3>1. /\ pc \in {"hooks", "dotfiles", "enter"}
          /\ pc' \in {"dotfiles", "enter", "complete"} \/ (pc' = "done" /\ ~Up)
          /\ UNCHANGED <<disk, command>>
      BY <1>12, <2>2 DEF CreateHooks, InstallDotfiles, EnterHooks, GiveUp
    <3>2. QED
      BY <1>w, <3>1
         DEF UpInv, Recorded, Working, Key, Up, UpLifecycleKey, command
  <2>3. QED BY <2>1, <2>2
<1>13. CASE Complete
  <2> DEFINE s == CompleteLifecycle(mem, plan, cmd.config.dotfiles)
  <2>1. /\ s.container = mem.container /\ s.key = mem.key /\ s.bridge = mem.bridge
        /\ s.bridgeTransition = mem.bridgeTransition
        /\ s.ready /\ ~s.transition /\ s.lifecycleKey = plan.key
    BY <1>t DEF CompleteLifecycle, SetDotfiles, State
  <2>2. /\ pc = "complete" /\ Persist(s, IF Up THEN "final" ELSE "done")
        /\ UNCHANGED plan
    BY <1>13 DEF Complete
  <2>3. Up => /\ cmd.hooks \in ct[target].ran
              /\ cmd.config.dotfiles \in ct[target].installed \cup {NoDotfiles}
    BY <1>t, <2>2 DEF PlanInv
  <2> HIDE DEF s
  <2>4. CASE pc' = "failed"
    BY <1>q, <2>4 DEF Working
  <2>5. CASE pc' # "failed"
    BY <1>w, <2>1, <2>2, <2>3, <2>5
       DEF UpInv, Persist, Recorded, Working, Key, Up, UpLifecycleKey
  <2>6. QED BY <2>4, <2>5
<1>14. CASE Finish
  <2> DEFINE s == IF cmd.config.bridge THEN mem ELSE DisableBridge(mem)
  <2>1. pc = "final" /\ Persist(s, "done") /\ UNCHANGED plan
    BY <1>14 DEF Finish
  <2>2. /\ s.container = mem.container /\ s.key = mem.key
        /\ s.ready = mem.ready /\ s.transition = mem.transition
        /\ s.lifecycleKey = mem.lifecycleKey
    BY <1>t DEF DisableBridge, State
  <2>3. IF cmd.config.bridge THEN s = mem ELSE s.bridge = FALSE /\ s.bridgeTransition = FALSE
    BY <1>t DEF DisableBridge, State
  <2> HIDE DEF s
  <2>4. CASE pc' = "failed"
    BY <1>q, <2>4 DEF Working
  <2>5. CASE pc' # "failed" /\ Up
    BY <1>c, <1>w, <2>1, <2>2, <2>3, <2>5
       DEF UpInv, Persist, Recorded, Working, Key, Up, UpLifecycleKey
  <2>6. CASE ~Up
    BY <1>r, <2>1, <2>6 DEF Persist, Up
  <2>7. QED BY <2>4, <2>5, <2>6
<1>15. CASE Meddle
  <2>1. UNCHANGED <<disk, pc, command>> /\ \A id \in Ids : ct'[id].key = ct[id].key
    <3>1. UNCHANGED <<disk, pc, command>>
      BY <1>15 DEF Meddle
    <3>2. PICK i \in Ids, s \in {"running", "stopped", "removed"} :
            ct' = [ct EXCEPT ![i].status = s]
      BY <1>15 DEF Meddle, Existing
    <3>3. QED BY <1>t, <3>1, <3>2 DEF Container
  <2>2. QED
    BY <1>g, <2>1
       DEF UpInv, Grown, Recorded, Working, Key, Up, UpLifecycleKey, command
<1>16. CASE UNCHANGED vars
  BY <1>16 DEF UpInv, vars, Recorded, Working, Key, Up, UpLifecycleKey, command
<1>17. CASE Start \/ CallFails \/ Remove \/ Return \/ Crash
  BY <1>q, <1>17
     DEF Start, CallFails, Remove, Return, Crash, GiveUp, Forget, Working
<1>18. QED
  BY <1>1, <1>2, <1>3, <1>4, <1>5, <1>6, <1>7, <1>8, <1>9, <1>10, <1>11, <1>12,
     <1>13, <1>14, <1>15, <1>16, <1>17 DEF Next

\* What a successful up reports is so: the container, the commands and the
\* dotfiles in it, and what state.json says of them and of the bridge.
THEOREM UpIsDelivered == Spec => []UpDelivers
<1>1. Init => UpInv
  BY DEF Init, UpInv, Working, Recorded
<1>2. ClaimInv /\ UpInv /\ [Next]_vars => UpInv'
  BY UpStep
<1>3. ClaimInv /\ UpInv => UpDelivers
  BY DEF UpInv, UpDelivers, Working, Recorded, UpLifecycleKey
<1>4. QED BY <1>1, <1>2, <1>3, Claims, PTL DEF Spec

-----------------------------------------------------------------------------
(* An up under which nothing fails. *)

\* A step adds no second container, and none at all where it creates none.
LEMMA OneStep ==
  ASSUME TypeOK, InstallInv, OneInv, [Next]_vars
  PROVE  OneInv'
<1>t. ct \in [Ids -> Container] /\ TypeOK'
  BY TypeStep DEF TypeOK
<1>s. ASSUME Existing' \subseteq Existing
      PROVE  OneInv'
  BY <1>s DEF OneInv
<1>1. CASE ct' = ct
  BY <1>s, <1>1 DEF Existing, Exists
<1>2. ASSUME NEW i \in Ids, NEW x, ct' = [ct EXCEPT ![i].status = x], i \in Existing
      PROVE  Existing' \subseteq Existing
  BY <1>t, <1>2 DEF Existing, Exists, Container
<1>3. CASE StartStopped
  <2>1. ct' = ct \/ /\ seen.id \in Existing
                    /\ ct' = [ct EXCEPT ![seen.id].status = "running"]
    BY <1>3 DEF StartStopped, GiveUp, Exists, Existing
  <2>2. QED BY <1>1, <1>2, <1>s, <2>1 DEF Existing
<1>4. CASE Remove
  <2>1. seen.id \in Ids /\ ct' = [ct EXCEPT ![seen.id].status = "removed"]
    BY <1>4 DEF Remove, Replaceable, TypeOK
  <2>2. Existing' \subseteq Existing
    BY <1>t, <2>1 DEF Existing, Exists, Container
  <2>3. QED BY <1>s, <2>2
<1>5. CASE Create
  <2>1. CASE Existing # {}
    BY <1>1, <1>5, <2>1 DEF Create, GiveUp
  <2>2. CASE Existing = {}
    <3>1. PICK id \in Ids : \E k : ct' = [ct EXCEPT ![id] = k]
      BY <1>5, <2>2 DEF Create
    <3>2. Existing' \subseteq {id}
      BY <1>t, <2>2, <3>1 DEF Existing, Exists
    <3>3. QED BY <3>2 DEF OneInv
  <2>3. QED BY <2>1, <2>2
<1>6. CASE CreateHooks \/ InstallDotfiles
  <2>1. \A id \in Ids : ct'[id].status = ct[id].status
    <3>1. CASE ct' = ct
      BY <3>1
    <3>2. CASE CreateHooks /\ ct' # ct
      <4>1. PICK x : target \in Ids /\ ct' = [ct EXCEPT ![target].ran = x]
        BY <3>2 DEF CreateHooks, GiveUp, Running
      <4>2. QED BY <1>t, <4>1 DEF Container
    <3>3. CASE InstallDotfiles /\ ct' # ct
      <4> DEFINE d == cmd.config.dotfiles
                 there == ct[target].checkout[d.target]
                 x == IF there = {} THEN {d.repo} ELSE there
                 cloned == [ct EXCEPT ![target].checkout[d.target] = x]
      <4>1. /\ target \in Ids
            /\ ct' \in {cloned, [cloned EXCEPT ![target].installed = @ \cup {d}]}
        BY <3>3 DEF InstallDotfiles, GiveUp, Running
      <4> HIDE DEF d, there, x
      <4>2. \A id \in Ids : cloned[id].status = ct[id].status
        BY <1>t, <4>1 DEF Container
      <4>3. DOMAIN cloned = Ids /\ "status" \in DOMAIN cloned[target]
        BY <1>t, <4>1 DEF Container
      <4> HIDE DEF cloned
      <4>4. QED BY <4>1, <4>2, <4>3
    <3>4. QED BY <1>6, <3>1, <3>2, <3>3
  <2>2. Existing' \subseteq Existing
    BY <2>1 DEF Existing, Exists
  <2>3. QED BY <1>s, <2>2
<1>7. CASE Meddle
  <2>1. \E id \in Existing, x \in {"running", "stopped", "removed"} :
          ct' = [ct EXCEPT ![id].status = x]
    BY <1>7 DEF Meddle
  <2>2. QED BY <1>2, <1>s, <2>1 DEF Existing
<1>8. CASE ~(\/ StartStopped \/ Remove \/ Create \/ CreateHooks \/ InstallDotfiles
             \/ Meddle)
  <2>1. ct' = ct
    BY <1>8 DEF Next, Start, CallFails, Observe, Reuse, Apply, Inspect,
       RecordBridgeStart, StartBridge, RecordBridge, BeginUpLifecycle,
       BeginRunLifecycle, EnterHooks, Complete, Finish, Return, Crash,
       Persist, GiveUp, vars
  <2>2. QED BY <1>1, <2>1
<1>9. QED BY <1>3, <1>4, <1>5, <1>6, <1>7, <1>8

\* The work on a container does not stop it.
LEMMA StaysRunning ==
  ASSUME TypeOK, CreateHooks \/ InstallDotfiles, Running(target)
  PROVE  ct'[target].status = "running"
<1>t. ct \in [Ids -> Container] /\ target \in Ids /\ ct[target].status = "running"
  BY DEF TypeOK, Running
<1>1. CASE ct' = ct
  BY <1>t, <1>1
<1>2. CASE CreateHooks /\ ct' # ct
  <2>1. PICK x : ct' = [ct EXCEPT ![target].ran = x]
    BY <1>2 DEF CreateHooks, GiveUp
  <2>2. QED BY <1>t, <2>1 DEF Container
<1>3. CASE InstallDotfiles /\ ct' # ct
  <2> DEFINE d == cmd.config.dotfiles
             there == ct[target].checkout[d.target]
             x == IF there = {} THEN {d.repo} ELSE there
             cloned == [ct EXCEPT ![target].checkout[d.target] = x]
  <2>1. ct' \in {cloned, [cloned EXCEPT ![target].installed = @ \cup {d}]}
    BY <1>3 DEF InstallDotfiles, GiveUp
  <2> HIDE DEF d, there, x
  <2>2. /\ cloned[target].status = "running" /\ DOMAIN cloned = Ids
        /\ "status" \in DOMAIN cloned[target]
    BY <1>t DEF Container
  <2> HIDE DEF cloned
  <2>3. QED BY <1>t, <2>1, <2>2
<1>4. QED BY <1>1, <1>2, <1>3

\* Without a fault the world stays as an up has seen and changed it, and the
\* up goes on.
LEMMA WorldStep ==
  ASSUME ClaimInv, OneInv, WorldInv, UpRecovers, [Next]_vars
  PROVE  WorldInv' /\ UpRecovers'
<1>t. /\ TypeOK /\ InstallInv /\ TargetInv /\ PlanInv
      /\ ct \in [Ids -> Container] /\ pc \in Pcs
      /\ seen \in [id : Ids \cup {NoContainer}, running : BOOLEAN]
      /\ NoContainer \notin Ids /\ fault \in BOOLEAN
  BY ReconcileAssumption DEF ClaimInv, TypeOK
<1>u. TypeOK'
  BY <1>t, TypeStep
<1>x. CASE ~Up' \/ fault'
  BY <1>u, <1>x DEF WorldInv, UpRecovers
<1>q. CASE pc' \notin Working \cup {"container", "create", "failed"}
  BY <1>q DEF WorldInv, UpRecovers
<1>w. CASE /\ pc' \in Working /\ target' \in Ids /\ ct'[target'].status = "running"
  <2>1. Running(target)'
    BY <1>w DEF Running
  <2>2. pc' \notin {"container", "create", "failed"}
    BY <1>w DEF Working
  <2>3. QED BY <2>1, <2>2 DEF WorldInv, UpRecovers
<1>r. Up /\ ~fault /\ pc \in Working => Running(target) /\ target \in Ids
                                       /\ ct[target].status = "running"
  BY DEF WorldInv, Running
<1>e. \A id \in Ids : id \in Existing <=> Exists(id)
  BY DEF Existing, Exists
<1>1. CASE Observe /\ Up /\ ~fault
  <2>1. /\ pc = "observe" /\ seen = Unseen /\ UNCHANGED <<ct, cmd, fault>>
        /\ pc' \in {"container"}
    BY <1>1, <1>t DEF Observe, TargetInv
  <2>2. CASE \E id \in Ids : Exists(id) /\ seen' = [id |-> id, running |-> Running(id)]
    BY <1>t, <2>1, <2>2 DEF WorldInv, UpRecovers, Exists, Running, Working
  <2>3. CASE Existing = {} /\ seen' = Unseen
    BY <1>t, <2>1, <2>3 DEF WorldInv, UpRecovers, Exists, Existing, Unseen, Working
  <2>4. \A id \in BestContainers : id \in Ids /\ Exists(id)
    BY DEF BestContainers, Existing
  <2>5. \A id : Exists(id) => id \in Ids
    BY DEF Exists
  <2>6. BestContainers = {} => Existing = {}
    BY DEF BestContainers
  <2>7. QED BY <1>1, <2>1, <2>2, <2>3, <2>4, <2>5, <2>6 DEF Observe
<1>2. CASE Reuse /\ Up /\ ~fault
  <2>1. /\ pc' = "apply" /\ Running(seen.id) /\ seen.id = target
        /\ UNCHANGED <<ct, command>>
    BY <1>2, <1>t DEF Reuse, WorldInv, TargetInv
  <2>2. QED BY <1>w, <2>1 DEF Running, Working, command
<1>3. CASE StartStopped /\ Up /\ ~fault
  <2>1. /\ pc' = "apply" /\ Exists(seen.id) /\ seen.id = target /\ UNCHANGED command
        /\ ct' = [ct EXCEPT ![seen.id].status = "running"]
    BY <1>3, <1>t DEF StartStopped, WorldInv, TargetInv
  <2>2. target \in Ids /\ ct'[target].status = "running"
    BY <1>t, <2>1 DEF Exists, Container
  <2>3. QED BY <1>w, <2>1, <2>2 DEF Working, command
<1>4. CASE Remove /\ Up /\ ~fault
  <2>1. CASE fault'
    BY <1>x, <2>1
  <2>2. CASE ~fault'
    <3>1. /\ pc' = "create" /\ seen.id \in Ids /\ Exists(seen.id) /\ UNCHANGED command
          /\ ct' = [ct EXCEPT ![seen.id].status = "removed"]
      BY <1>4, <2>2, <1>t DEF Remove, Replaceable, WorldInv
    <3>2. Existing \subseteq {seen.id}
      BY <1>e, <3>1 DEF OneInv, Existing
    <3>3. Existing' = {}
      BY <1>t, <3>1, <3>2 DEF Existing, Exists, Container
    <3>4. QED BY <3>1, <3>3 DEF WorldInv, UpRecovers, Working
  <2>3. QED BY <2>1, <2>2
<1>5. CASE Create /\ Up /\ ~fault
  <2>1. Existing = {}
    BY <1>5, <1>t DEF Create, WorldInv
  <2>2. CASE fault'
    BY <1>x, <2>2
  <2>3. CASE ~fault'
    <3>1. /\ pc' = "apply" /\ target' \in Ids
          /\ ct' = [ct EXCEPT ![target'] = [Unborn EXCEPT !.status = "running", !.key = Key]]
      BY <1>5, <2>1, <2>3 DEF Create
    <3>2. ct'[target'].status = "running"
      BY <1>t, <3>1 DEF Unborn
    <3>3. QED BY <1>w, <3>1, <3>2 DEF Working
  <2>4. QED BY <2>2, <2>3
<1>6. CASE Inspect /\ Up /\ ~fault
  <2>1. pc = "inspect" /\ Exists(target)
    BY <1>6, <1>r DEF Inspect, Exists, Working
  <2>2. QED BY <1>6, <1>r, <1>w, <2>1 DEF Inspect, Working, command
<1>7. CASE /\ Up /\ ~fault
           /\ \/ Apply \/ RecordBridgeStart \/ StartBridge \/ RecordBridge
              \/ BeginUpLifecycle \/ Complete \/ Finish
  <2>1. CASE fault'
    BY <1>x, <2>1
  <2>2. CASE ~fault'
    <3>1. /\ pc \in Working /\ pc' \in Working \cup {"done"}
          /\ UNCHANGED <<ct, target>>
      BY <1>7, <2>2 DEF Apply, RecordBridgeStart, StartBridge, RecordBridge,
         BeginUpLifecycle, Complete, Finish, Persist, Working, command
    <3>2. QED BY <1>7, <1>r, <1>w, <1>q, <3>1 DEF Working
  <2>3. QED BY <2>1, <2>2
<1>8. CASE CreateHooks /\ Up /\ ~fault
  <2>1. pc = "hooks" /\ Running(target) /\ plan.create
    BY <1>8, <1>r, <1>t DEF CreateHooks, Working, PlanInv
  <2>2. CASE Denied
    <3>1. pc' = "failed" /\ UNCHANGED command
      BY <1>8, <2>2 DEF CreateHooks, GiveUp
    <3>2. QED BY <2>1, <2>2, <3>1 DEF WorldInv, UpRecovers, Working, Denied, command
  <2>3. CASE ~Denied
    <3>1. pc' \in Working /\ target' = target
      BY <1>8, <2>1, <2>3 DEF CreateHooks, Working, command
    <3>2. QED BY <1>8, <1>r, <1>t, <1>w, <2>1, <3>1, StaysRunning DEF Working
  <2>4. QED BY <2>2, <2>3
<1>9. CASE InstallDotfiles /\ Up /\ ~fault
  <2>1. pc = "dotfiles" /\ Running(target)
    BY <1>9, <1>r DEF InstallDotfiles, Working
  <2>2. CASE fault'
    BY <1>x, <2>2
  <2>3. CASE ~fault'
    <3>1. pc' \in Working /\ target' = target
      BY <1>9, <2>1, <2>3 DEF InstallDotfiles, Working, command
    <3>2. QED BY <1>9, <1>r, <1>t, <1>w, <2>1, <3>1, StaysRunning DEF Working
  <2>4. QED BY <2>2, <2>3
<1>10. CASE EnterHooks /\ Up /\ ~fault
  <2>1. pc = "enter" /\ Running(target)
    BY <1>10, <1>r DEF EnterHooks, Working
  <2>2. QED BY <1>10, <1>r, <1>w, <2>1 DEF EnterHooks, Working, command
<1>11. CASE Meddle
  <2>1. CASE pc = "idle"
    BY <1>11, <1>q, <2>1 DEF Meddle, Working
  <2>2. CASE pc # "idle"
    BY <1>11, <1>x, <2>2 DEF Meddle
  <2>3. QED BY <2>1, <2>2
<1>12. CASE UNCHANGED vars
  <2>1. UNCHANGED <<ct, pc, command, fault>>
    BY <1>12 DEF vars
  <2>2. QED
    BY <2>1
       DEF WorldInv, UpRecovers, Working, Existing, Exists, Running, Up, Denied,
       command
<1>13. CASE Start \/ CallFails \/ Return \/ Crash
  BY <1>13, <1>q, <1>x DEF Start, CallFails, Return, Crash, Forget, Working
<1>14. CASE ~Up /\ pc # "idle" /\ ~(Start \/ Return \/ Crash \/ Meddle)
  <2>1. cmd' = cmd
    BY <1>14
       DEF Next, CallFails, Observe, Reuse, StartStopped, Remove, Create, Apply,
       Inspect, RecordBridgeStart, StartBridge, RecordBridge, BeginUpLifecycle,
       BeginRunLifecycle, CreateHooks, InstallDotfiles, EnterHooks, Complete, Finish,
       Persist, GiveUp, vars, command
  <2>2. QED BY <1>14, <1>x, <2>1 DEF Up
<1>15. CASE fault /\ pc # "idle" /\ ~(Start \/ Return \/ Crash \/ Meddle)
  <2>1. fault' \in {fault, TRUE}
    BY <1>15
       DEF Next, CallFails, Observe, Reuse, StartStopped, Remove, Create, Apply,
       Inspect, RecordBridgeStart, StartBridge, RecordBridge, BeginUpLifecycle,
       BeginRunLifecycle, CreateHooks, InstallDotfiles, EnterHooks, Complete, Finish,
       Persist, GiveUp, vars, command
  <2>2. QED BY <1>15, <1>x, <2>1
<1>16. CASE BeginRunLifecycle /\ Up
  BY <1>16 DEF BeginRunLifecycle
<1>17. pc = "idle" => Start \/ Meddle \/ UNCHANGED vars
  BY DEF Next, CallFails, Observe, Reuse, StartStopped, Remove, Create, Apply,
     Inspect, RecordBridgeStart, StartBridge, RecordBridge, BeginUpLifecycle,
     BeginRunLifecycle, CreateHooks, InstallDotfiles, EnterHooks, Complete, Finish,
     Return, Crash
<1>18. QED
  BY <1>1, <1>2, <1>3, <1>4, <1>5, <1>6, <1>7, <1>8, <1>9, <1>10, <1>11, <1>12,
     <1>13, <1>14, <1>15, <1>16, <1>17 DEF Next

\* Whatever earlier commands left behind, an up under which nothing fails
\* succeeds, unless its host command was not permitted.
THEOREM UpSucceeds == Spec => []UpRecovers
<1>1. Init => OneInv /\ WorldInv /\ UpRecovers
  BY DEF Init, OneInv, WorldInv, UpRecovers, Existing, Exists, Unborn, Working
<1>2. ClaimInv /\ OneInv /\ [Next]_vars => OneInv'
  BY OneStep DEF ClaimInv
<1>3. ClaimInv /\ OneInv /\ WorldInv /\ UpRecovers /\ [Next]_vars
        => WorldInv' /\ UpRecovers'
  BY WorldStep
<1>4. QED BY <1>1, <1>2, <1>3, Claims, PTL DEF Spec

-----------------------------------------------------------------------------
(* A second up. *)

\* A settled container stays so while state.json and the keys do, and nothing
\* removes it.
LEMMA KeptStays ==
  ASSUME TypeOK, NEW c, Kept(c), disk' = disk,
         \A id \in Ids : ct'[id].key = ct[id].key,
         \A id \in Ids : Exists(id) => Exists(id)'
  PROVE  Kept(c)'
BY DEF Kept, Completed, Exists

\* Every step keeps what is settled settled, or no longer calls it so.
LEMMA SettledStep ==
  ASSUME ClaimInv, UpInv, SettledInv, [Next]_vars
  PROVE  SettledInv'
<1> SUFFICES ASSUME NEW c \in settled'
             PROVE  (AtRest(c) /\ DuringUp(c) /\ DuringRun(c))'
  BY DEF SettledInv
<1> DEFINE Goal == (AtRest(c) /\ DuringUp(c) /\ DuringRun(c))'
           Calm == Up => ~cmd.forced /\ cmd.config = c
<1>t. /\ TypeOK /\ InstallInv /\ UnbornInv /\ TargetInv /\ PlanInv
      /\ ct \in [Ids -> Container] /\ disk \in State /\ mem \in State
      /\ pc # "idle" => cmd \in Command
      /\ NoContainer \notin Ids
  BY ReconcileAssumption DEF ClaimInv, TypeOK
<1>l. pc # "idle" /\ Up => cmd.hooks = cmd.config.hooks
  BY <1>t, CommandTypes
<1>p. pc # "idle" => cmd.phase \in {"all", "create", "enter"}
  BY <1>t DEF Command, Phases
<1>h. c \in settled => AtRest(c) /\ DuringUp(c) /\ DuringRun(c)
  BY DEF SettledInv
<1>g. pc \notin {"container", "create"} => \A id \in Ids : ct'[id].key = ct[id].key
  BY <1>t, GrowStep
<1>k. ASSUME ct' = ct, disk' = disk, Kept(c)
      PROVE  Kept(c)'
  BY <1>k DEF Kept, Completed, Exists
<1>f. ASSUME pc' = "failed", UNCHANGED <<cmd, created, settled>>, pc # "idle"
      PROVE  Goal
  BY <1>f, <1>h DEF AtRest, DuringUp, DuringRun, Before, Up
<1>o. ASSUME ~Calm, cmd' = cmd, pc' \notin {"idle", "observe"}
      PROVE  Goal
  BY <1>o DEF AtRest, DuringUp, DuringRun, RunsLike, Up
<1>w. ASSUME Up, Calm, pc # "idle", UNCHANGED <<cmd, created, settled>>,
             pc' \notin Before \cup {"idle", "observe", "create", "hooks", "dotfiles"}
      PROVE  Goal
  BY <1>h, <1>w DEF AtRest, DuringUp, DuringRun, RunsLike, Up
<1>b. ASSUME Up, Calm, pc \in Before, UNCHANGED <<cmd, target, created, settled>>,
             pc' \in Before, mem' = disk', disk'.container = disk.container, Kept(c)'
      PROVE  Goal
  <2>1. ~created /\ Fresh
    BY <1>h, <1>b DEF DuringUp, Before
  <2>2. Fresh'
    BY <1>b, <2>1 DEF Fresh
  <2>3. QED BY <1>b, <2>1, <2>2 DEF AtRest, DuringUp, DuringRun, Before, Up
<1>c. Up /\ Calm /\ c \in settled /\ pc \in Before =>
        /\ Kept(c) /\ mem = disk /\ target = disk.container /\ target \in Ids
        /\ Key = ContainerKey(c) /\ ~created
  BY <1>h DEF DuringUp, Before, Fresh, Kept, Exists, Key
<1>1. CASE Start
  <2>1. /\ pc = "idle" /\ pc' = "observe" /\ ~created
        /\ UNCHANGED <<ct, disk, created, settled>>
    BY <1>1, <1>t DEF Start, TargetInv
  <2>2. Kept(c)'
    BY <1>h, <1>k, <2>1 DEF AtRest
  <2>3. QED BY <2>1, <2>2 DEF AtRest, DuringUp, DuringRun, Before
<1>2. CASE CallFails
  BY <1>2, <1>f DEF CallFails, GiveUp, command
<1>3. CASE Observe
  <2>1. /\ pc = "observe" /\ ~created
        /\ UNCHANGED <<ct, disk, cmd, created, settled>>
        /\ Kept(c) /\ Exists(disk.container)
    BY <1>3, <1>t, <1>h DEF Observe, TargetInv, AtRest, Kept
  <2>2. Observed(disk, disk.container) = disk
    BY <1>t DEF Observed, State
  <2>3. /\ mem' = disk /\ target' = disk.container
        /\ pc' = IF Up THEN "container" ELSE "plan"
    BY <1>3, <2>1, <2>2 DEF Observe
  <2>4. Kept(c)' /\ Fresh'
    BY <1>k, <2>1, <2>3 DEF Fresh
  <2>5. QED BY <2>1, <2>3, <2>4 DEF AtRest, DuringUp, DuringRun, Before, Up
<1>4. CASE Reuse \/ StartStopped \/ Remove \/ Create
  <2>1. /\ pc \in {"container", "create"} /\ UNCHANGED <<cmd, settled>>
        /\ pc' \notin {"idle", "observe"}
    BY <1>4 DEF Reuse, StartStopped, Remove, Create, GiveUp, command
  <2>2. CASE Up /\ ~Calm
    BY <1>o, <2>1, <2>2
  <2>3. CASE ~Up
    BY <1>h, <1>p, <2>1, <2>3 DEF DuringRun
  <2>4. CASE Up /\ Calm
    <3>1. pc = "container"
      BY <1>h, <2>1, <2>4 DEF DuringUp
    <3>2. /\ Kept(c) /\ mem = disk /\ seen.id = disk.container /\ seen.id \in Ids
          /\ Exists(seen.id) /\ ct[seen.id].key = Key
      BY <1>c, <1>t, <2>1, <2>4, <3>1 DEF Before, TargetInv, Kept
    <3>3. ~Replaceable /\ ~Remove /\ ~Create
      BY <1>t, <2>4, <3>1, <3>2 DEF Replaceable, Remove, Create
    <3>4. /\ pc' = "apply" /\ UNCHANGED <<disk, command>>
          /\ ct' = ct \/ ct' = [ct EXCEPT ![seen.id].status = "running"]
      BY <1>4, <3>2, <3>3 DEF Reuse, StartStopped
    <3>5. /\ \A id \in Ids : ct'[id].key = ct[id].key
          /\ \A id \in Ids : Exists(id) => Exists(id)'
      <4>1. CASE ct' = ct
        BY <4>1 DEF Exists
      <4>2. CASE ct' = [ct EXCEPT ![seen.id].status = "running"]
        <5>1. \A id \in Ids : /\ ct'[id].key = ct[id].key
                              /\ ct'[id].status \in {ct[id].status, "running"}
          BY <1>t, <3>2, <4>2 DEF Container
        <5>2. QED BY <5>1 DEF Exists
      <4>3. QED BY <3>4, <4>1, <4>2
    <3>6. Kept(c)'
      BY <1>t, <3>2, <3>4, <3>5, KeptStays
    <3>7. QED BY <1>b, <2>1, <2>4, <3>1, <3>2, <3>4, <3>6 DEF Before, command
  <2>5. QED BY <2>2, <2>3, <2>4
<1>5. CASE Apply \/ RecordBridgeStart \/ RecordBridge
  <2>1. /\ pc \in {"apply", "bridge", "enable"} /\ pc' \notin {"idle", "observe"}
        /\ UNCHANGED <<ct, cmd, target, created, settled>>
    BY <1>5 DEF Apply, RecordBridgeStart, RecordBridge, Persist
  <2>2. CASE Up /\ ~Calm
    BY <1>o, <2>1, <2>2
  <2>3. CASE ~Up
    BY <1>h, <1>p, <2>1, <2>3 DEF DuringRun
  <2>4. CASE pc' = "failed"
    BY <1>f, <2>1, <2>4
  <2>5. CASE Up /\ Calm /\ pc' # "failed"
    <3>1. /\ Kept(c) /\ mem = disk /\ target = disk.container
          /\ Key = ContainerKey(c) /\ ~created
      BY <1>c, <2>1, <2>5 DEF Before
    <3>2. /\ pc' \in Before /\ mem' = disk'
          /\ disk' \in {ApplyContainer(mem, target, Key, created), BeginBridge(mem),
                        EnableBridge(mem)}
      BY <1>5, <2>5 DEF Apply, RecordBridgeStart, RecordBridge, Persist, Before
    <3>3. /\ disk'.container = disk.container /\ disk'.key = ContainerKey(c)
          /\ disk'.ready = disk.ready /\ disk'.transition = disk.transition
          /\ disk'.lifecycleKey = disk.lifecycleKey
      BY <1>t, <3>1, <3>2
         DEF ApplyContainer, SetContainer, BeginBridge, EnableBridge, State, Kept,
             Completed
    <3>4. Kept(c)'
      BY <2>1, <3>1, <3>3 DEF Kept, Completed, Exists
    <3>5. QED BY <1>b, <2>1, <2>5, <3>2, <3>3, <3>4 DEF Before
  <2>6. QED BY <2>2, <2>3, <2>4, <2>5
<1>6. CASE Inspect \/ StartBridge
  <2>1. /\ pc \in {"inspect", "serve"} /\ pc' \in {"failed", "bridge", "plan", "enable"}
        /\ UNCHANGED <<ct, disk, cmd, mem, target, created, settled>>
    BY <1>6 DEF Inspect, StartBridge, GiveUp, command
  <2>2. CASE Up /\ ~Calm
    BY <1>o, <2>1, <2>2
  <2>3. CASE ~Up
    BY <1>h, <1>p, <2>1, <2>3 DEF DuringRun
  <2>4. CASE pc' = "failed"
    BY <1>f, <2>1, <2>4
  <2>5. CASE Up /\ Calm /\ pc' # "failed"
    <3>1. Kept(c) /\ mem = disk
      BY <1>c, <2>1, <2>5 DEF Before
    <3>2. QED BY <1>b, <1>k, <2>1, <2>5, <3>1 DEF Before
  <2>6. QED BY <2>2, <2>3, <2>4, <2>5
<1>7. CASE BeginUpLifecycle
  <2>1. /\ Up /\ pc = "plan" /\ pc' \in {"hooks", "enter", "failed"}
        /\ plan' = PlanUpLifecycle(mem, UpLifecycleKey, cmd.config.dotfiles, created)
        /\ pc' = "hooks" => plan'.create
        /\ UNCHANGED <<cmd, created, settled>>
    BY <1>7 DEF BeginUpLifecycle, Persist
  <2>2. CASE ~Calm
    BY <1>o, <2>1, <2>2
  <2>3. CASE Calm
    <3>1. /\ Completed(mem, c) /\ ~created /\ cmd.config = c
      BY <1>c, <2>1, <2>3 DEF Before, Kept
    <3>2. UpLifecycleKey = LifecycleKey(c.hooks, ContainerKey(c), c.dotfiles)
      BY <1>l, <2>1, <3>1 DEF UpLifecycleKey, Key
    <3>3. ~plan'.create
      BY <2>1, <3>1, <3>2 DEF PlanUpLifecycle, Completed
    <3>4. QED BY <1>w, <2>1, <2>3, <3>3 DEF Before
  <2>4. QED BY <2>2, <2>3
<1>8. CASE BeginRunLifecycle
  <2>1. /\ ~Up /\ pc = "plan" /\ Kept(c) /\ mem = disk /\ target = disk.container
        /\ UNCHANGED <<ct, cmd, target, created, settled>>
        /\ plan' = PlanLifecycleCommand(mem, RunLifecycleKey,
                                        cmd.config.dotfiles, cmd.phase)
    BY <1>8, <1>h DEF BeginRunLifecycle, DuringRun, Fresh, Persist
  <2>2. /\ plan'.create <=> cmd.phase \in {"all", "create"}
        /\ plan'.key = RunLifecycleKey
        /\ mem.key = ContainerKey(c) /\ ct[target].key = ContainerKey(c)
    <3>1. plan'.create <=> cmd.phase \in {"all", "create"}
      BY ONLY <2>1, Zenon DEF PlanLifecycleCommand
    <3>2. plan'.key = RunLifecycleKey
      BY ONLY <2>1 DEF PlanLifecycleCommand
    <3>3. mem.key = ContainerKey(c) /\ ct[target].key = ContainerKey(c)
      BY <2>1 DEF Kept, Completed
    <3>4. QED BY <3>1, <3>2, <3>3
  <2>3. CASE ~plan'.create
    <3>1. pc' = "enter" /\ disk' = disk /\ cmd.phase \notin {"all", "create"}
      BY <1>8, <2>2, <2>3 DEF BeginRunLifecycle
    <3>2. Kept(c)'
      BY <1>k, <2>1, <3>1
    <3>3. QED
      BY <2>1, <2>3, <3>1, <3>2
         DEF AtRest, DuringUp, DuringRun, RunsLike, Up
  <2>4. CASE plan'.create
    <3>1. pc' \in {"hooks", "failed"} /\ mem' = BeginLifecycle(mem, plan')
      BY <1>8, <2>4 DEF BeginRunLifecycle, Persist
    <3>2. mem'.container = mem.container /\ mem'.key = mem.key
      BY <1>t, <3>1 DEF BeginLifecycle, State
    <3>3. RunsLike(c) =>
            plan'.key = LifecycleKey(c.hooks, ContainerKey(c), c.dotfiles)
      BY <2>2 DEF RunsLike, RunLifecycleKey
    <3>4. QED
      BY <2>1, <2>2, <2>4, <3>1, <3>2, <3>3
         DEF AtRest, DuringUp, DuringRun, RunsLike, Up
  <2>5. QED BY <2>3, <2>4
<1>9. CASE CreateHooks \/ InstallDotfiles
  <2>1. /\ pc \in {"hooks", "dotfiles"}
        /\ pc' \in {"dotfiles", "enter", "complete", "failed"}
        /\ UNCHANGED <<disk, command, settled>>
    <3>1. CASE CreateHooks
      BY <3>1 DEF CreateHooks, GiveUp, command
    <3>2. CASE InstallDotfiles
      BY <3>2 DEF InstallDotfiles, GiveUp, command
    <3>3. QED BY <1>9, <3>1, <3>2
  <2>2. CASE Up /\ ~Calm
    BY <1>o, <2>1, <2>2 DEF command
  <2>3. CASE Up /\ Calm
    BY <1>h, <2>1, <2>3 DEF DuringUp
  <2>4. CASE pc' = "failed"
    BY <1>f, <2>1, <2>4 DEF command
  <2>5. CASE ~Up /\ pc' # "failed"
    <3>1. cmd.phase \in {"all", "create"}
      BY <1>h, <1>p, <2>1, <2>5 DEF DuringRun
    <3>2. ct'[target].key = ct[target].key
      BY <1>g, <1>t, <2>1 DEF TargetInv, Working
    <3>3. QED BY <1>h, <2>1, <2>5, <3>1, <3>2
         DEF AtRest, DuringUp, DuringRun, RunsLike, Up, command
  <2>6. QED BY <2>2, <2>3, <2>4, <2>5
<1>10. CASE EnterHooks
  <2>1. /\ pc = "enter" /\ pc' \in {"complete", "done", "failed"}
        /\ pc' \in {"complete", "done"} => pc' = IF Up \/ plan.create THEN "complete" ELSE "done"
        /\ UNCHANGED <<ct, disk, command, settled>>
    BY <1>10 DEF EnterHooks, GiveUp
  <2>2. CASE Up /\ ~Calm
    BY <1>o, <2>1, <2>2 DEF command
  <2>3. CASE Up /\ Calm
    BY <1>w, <2>1, <2>3 DEF Before, command
  <2>4. CASE pc' = "failed"
    BY <1>f, <2>1, <2>4 DEF command
  <2>5. CASE ~Up /\ pc' # "failed" /\ cmd.phase = "enter"
    <3>1. Kept(c)' /\ pc' = "done"
      BY <1>h, <1>k, <2>1, <2>5 DEF DuringRun
    <3>2. QED
      BY <2>1, <2>5, <3>1
         DEF AtRest, DuringUp, DuringRun, RunsLike, Up, command
  <2>6. CASE ~Up /\ pc' # "failed" /\ cmd.phase \in {"all", "create"}
    BY <1>h, <2>1, <2>6 DEF AtRest, DuringUp, DuringRun, RunsLike, Up, command
  <2>7. QED BY <1>p, <2>1, <2>2, <2>3, <2>4, <2>5, <2>6
<1>11. CASE Complete
  <2> DEFINE s == CompleteLifecycle(mem, plan, cmd.config.dotfiles)
  <2>1. /\ pc = "complete" /\ pc' \in {"final", "done", "failed"}
        /\ pc' = "final" => Up
        /\ mem' = s /\ (pc' = "done" => disk' = s /\ ~Up)
        /\ UNCHANGED <<ct, cmd, target, created, plan, settled>>
    BY <1>11 DEF Complete, Persist
  <2>2. /\ s.container = mem.container /\ s.key = mem.key
        /\ s.ready /\ ~s.transition /\ s.lifecycleKey = plan.key
    BY <1>t DEF CompleteLifecycle, SetDotfiles, State
  <2> HIDE DEF s
  <2>3. CASE Up /\ ~Calm
    BY <1>o, <2>1, <2>3
  <2>4. CASE pc' = "failed"
    BY <1>f, <2>1, <2>4
  <2>5. CASE Up /\ Calm /\ pc' # "failed"
    BY <1>w, <2>1, <2>5 DEF Before
  <2>6. CASE ~Up /\ pc' # "failed"
    <3>1. cmd.phase \in {"all", "create"} /\ pc' = "done"
      BY <1>h, <1>p, <2>1, <2>6 DEF DuringRun
    <3>2. CASE RunsLike(c)
      <4>1. mem' = disk' /\ Completed(mem', c)
        BY <1>h, <2>1, <2>2, <2>6, <3>1, <3>2 DEF DuringRun, Completed
      <4>2. QED BY <1>h, <2>1, <2>2, <2>6, <3>1, <3>2, <4>1
           DEF AtRest, DuringUp, DuringRun, RunsLike, Up, Completed
    <3>3. CASE ~RunsLike(c)
      BY <2>1, <2>6, <3>1, <3>3 DEF AtRest, DuringUp, DuringRun, RunsLike, Up
    <3>4. QED BY <3>2, <3>3
  <2>7. QED BY <2>3, <2>4, <2>5, <2>6
<1>12. CASE Finish
  <2>1. /\ pc = "final" /\ pc' \in {"done", "failed"}
        /\ UNCHANGED <<cmd, created, settled>>
    BY <1>12 DEF Finish, Persist
  <2>2. Up
    BY <1>h, <1>p, <2>1 DEF DuringRun
  <2>3. QED BY <1>o, <1>w, <2>1, <2>2 DEF Before
<1>13. CASE Return
  <2>1. pc = "done" /\ Exists(target) /\ pc' = "idle" /\ UNCHANGED <<ct, disk>>
    BY <1>13 DEF Return, Forget
  <2>2. Kept(c)
    <3>1. CASE Up
      <4>1. c = cmd.config
        BY <1>13, <2>1, <3>1 DEF Return
      <4>2. /\ disk = mem /\ mem.container = target /\ mem.key = Key
            /\ mem.ready /\ ~mem.transition
            /\ mem.lifecycleKey = UpLifecycleKey
            /\ ct[target].key = Key
        BY <2>1, <3>1 DEF UpInv, Recorded, Working
      <4>3. UpLifecycleKey = LifecycleKey(c.hooks, ContainerKey(c), c.dotfiles)
        BY <1>l, <2>1, <3>1, <4>1 DEF UpLifecycleKey, Key
      <4>4. QED BY <2>1, <4>1, <4>2, <4>3 DEF Kept, Completed, Key
    <3>2. CASE ~Up /\ cmd.phase = "enter"
      <4>1. c \in settled
        BY <1>13, <2>1, <3>2 DEF Return
      <4>2. QED BY <1>h, <2>1, <3>2, <4>1 DEF DuringRun
    <3>3. CASE ~Up /\ cmd.phase \in {"all", "create"}
      <4>1. c \in settled /\ RunsLike(c)
        BY <1>13, <2>1, <3>3 DEF Return
      <4>2. /\ ct[target].key = ContainerKey(c) /\ mem.container = target
            /\ disk = mem /\ Completed(mem, c)
        BY <1>h, <2>1, <3>3, <4>1 DEF DuringRun
      <4>3. QED BY <2>1, <4>2 DEF Kept
    <3>4. QED BY <1>p, <2>1, <3>1, <3>2, <3>3
  <2>3. Kept(c)'
    BY <1>k, <2>1, <2>2
  <2>4. QED BY <2>1, <2>3 DEF AtRest, DuringUp, DuringRun
<1>14. CASE Crash
  BY <1>14 DEF Crash
<1>15. CASE Meddle
  <2>1. PICK i \in Existing, s \in {"running", "stopped", "removed"} :
          /\ ct' = [ct EXCEPT ![i].status = s]
          /\ settled' = IF s = "removed" THEN {} ELSE settled
    BY <1>15 DEF Meddle
  <2>2. /\ s \in {"running", "stopped"} /\ c \in settled /\ i \in Ids
        /\ UNCHANGED <<disk, pc, command>>
    BY <1>15, <2>1 DEF Meddle, Existing
  <2>3. /\ \A id \in Ids : ct'[id].key = ct[id].key
        /\ \A id \in Ids : Exists(id) => Exists(id)'
    BY <1>t, <2>1, <2>2 DEF Container, Exists
  <2>4. Kept(c) => Kept(c)'
    BY <1>t, <2>2, <2>3, KeptStays
  <2>5. pc \in Working \cup {"done"} /\ target \in Ids => ct'[target].key = ct[target].key
    BY <2>3
  <2>6. ct'[target].key = ct[target].key
    BY <1>t, <2>1, <2>2, <2>3
  <2>7. QED BY <1>h, <2>2, <2>4, <2>6
       DEF AtRest, DuringUp, DuringRun, RunsLike, Fresh, Up, command
<1>16. CASE UNCHANGED vars
  <2>1. UNCHANGED <<ct, disk, pc, command, settled>>
    BY <1>16 DEF vars
  <2>2. Kept(c) => Kept(c)'
    BY <1>k, <2>1
  <2>3. QED
    BY <1>h, <2>1, <2>2
       DEF AtRest, DuringUp, DuringRun, RunsLike, Fresh, Up, command
<1>17. QED
  BY <1>1, <1>2, <1>3, <1>4, <1>5, <1>6, <1>7, <1>8, <1>9, <1>10, <1>11, <1>12,
     <1>13, <1>14, <1>15, <1>16 DEF Next

\* A second up with the configuration of a successful one creates no container
\* and runs no create command, if every run of the create phase since then came
\* to the same lifecycle commands and dotfiles.
THEOREM SecondUpDoesNothing == Spec => []UpIsIdempotent
<1>1. Init => UpInv /\ SettledInv
  BY DEF Init, UpInv, Working, Recorded, SettledInv
<1>2. ClaimInv /\ UpInv /\ [Next]_vars => UpInv'
  BY UpStep
<1>3. ClaimInv /\ UpInv /\ SettledInv /\ [Next]_vars => SettledInv'
  BY SettledStep
<1>4. SettledInv => UpIsIdempotent
  BY DEF SettledInv, DuringUp, UpIsIdempotent
<1>5. QED BY <1>1, <1>2, <1>3, <1>4, Claims, PTL DEF Spec

=============================================================================
