---------------------------- MODULE Coordination ----------------------------
(***************************************************************************)
(* The coordination of hatchctl processes that share one workspace state   *)
(* directory: the flock on "lock", the record "coordination.json" with its *)
(* generation, active owner and lease, the lease renewal goroutine, the    *)
(* repair that a refused process makes of the record, and the optimistic   *)
(* read protocol of exec.                                                  *)
(*                                                                         *)
(* A process is one invocation of the program.  It is used once: a retry   *)
(* is another member of Mutators or Executors.  Each action is one access  *)
(* to the lock or to the record; everything a process does between two     *)
(* such accesses is part of the action that precedes it.                   *)
(***************************************************************************)
EXTENDS Integers, FiniteSets

CONSTANTS
  Mutators,        \* invocations of up, build and run
  Executors,       \* invocations of exec
  NoOwner,         \* "no process"
  HostOf,          \* the host a process runs on
  LeaseDuration,   \* leaseDuration, in clock ticks
  RenewInterval,   \* renewInterval, in clock ticks
  MaxTime,         \* bound: the clock stops here
  MaxDamage,       \* bound: times an outsider removes or spoils the record
  FaultyDisk,      \* may a write of the record fail?
  PidReuse,        \* may the pid of a dead process be taken by another one?
  MayCrash         \* the processes that may be killed

Proc == Mutators \cup Executors

ASSUME ConstantsAssumption ==
  /\ Mutators \cap Executors = {}
  /\ NoOwner \notin Mutators \cup Executors
  /\ LeaseDuration \in Nat /\ RenewInterval \in Nat
  /\ MaxTime \in Nat /\ MaxDamage \in Nat
  /\ FaultyDisk \in BOOLEAN /\ PidReuse \in BOOLEAN
  /\ MayCrash \subseteq Mutators \cup Executors

VARIABLES
  flock,       \* the process whose descriptor holds the exclusive flock
  rec,         \* coordination.json
  stateDir,    \* does the state directory exist?
  now,         \* the wall clock
  pc,          \* where each process is
  renewer,     \* the renewal goroutine of each lock holder
  due,         \* when the renewal ticker fires next
  buf,         \* the record a process read last
  rbuf,        \* the record its renewal goroutine is about to write
  stamp,       \* LeaseExpiresAt of the owner built when acquisition began
  result,      \* how the process ended
  report,      \* the owner named by its WorkspaceBusyError
  \* history, read by no action:
  misrepaired, \* a repair destroyed what it had no business to change
  damage,      \* times an outsider touched the record
  overlap,     \* overlap[e]: a body ran since exec e observed the record
  gone         \* gone[p]: who had ended before p was refused the lock

vars == <<flock, rec, stateDir, now, pc, renewer, due, buf, rbuf, stamp,
          result, report, misrepaired, damage, overlap, gone>>
renewal == <<renewer, due, rbuf>>
history == <<misrepaired, damage, overlap, gone>>

-----------------------------------------------------------------------------
(* The record.  "missing" and "corrupt" are the two ways of not reading it. *)

Owner  == Proc \cup {NoOwner}
Record == [st : {"missing", "corrupt", "ok"}, gen : Nat, owner : Owner,
           lease : Nat]
Absent == [st |-> "missing", gen |-> 0, owner |-> NoOwner, lease |-> 0]
Fresh  == [Absent EXCEPT !.st = "ok"]

\* Acquire and Release take an unreadable record for a new one.
ReadOrFresh(r) == IF r.st = "ok" THEN r ELSE Fresh

Cleared(r) == [r EXCEPT !.owner = NoOwner, !.lease = 0]

\* What Acquire writes: the generation after the one it read, and itself.
Published(p) ==
  [st |-> "ok", gen |-> buf[p].gen + 1, owner |-> p, lease |-> stamp[p]]

\* A write is a temporary file, a rename and a sync of the directory: when
\* it fails, the rename may or may not have happened.
FailedWrite(r) == FaultyDisk /\ rec' \in {rec, r}

-----------------------------------------------------------------------------
(* Processes. *)

Gone == {"exited", "crashed"}
Alive(p) == pc[p] \notin {"idle"} \cup Gone

\* In its body a mutator believes that it owns the workspace.
Body(p) == p \in Mutators /\ pc[p] = "body"

\* Mutators that are no more, and those of them whose Release succeeded.
Ended == {q \in Mutators : pc[q] \in Gone}
ReleasedCleanly == {q \in Ended : pc[q] = "exited" /\ result[q] = "ok"}

Goto(p, l) == pc' = [pc EXCEPT ![p] = l]

\* The process returns: its locals vanish and its pid is free.
Exit(p, r) ==
  /\ pc' = [pc EXCEPT ![p] = "exited"]
  /\ result' = [result EXCEPT ![p] = r]
  /\ buf' = [buf EXCEPT ![p] = Fresh]
  /\ stamp' = [stamp EXCEPT ![p] = 0]
  /\ due' = [due EXCEPT ![p] = 0]

Init ==
  /\ flock = NoOwner
  /\ rec = Absent
  /\ stateDir = FALSE
  /\ now = 0
  /\ pc = [p \in Proc |-> "idle"]
  /\ renewer = [p \in Proc |-> "off"]
  /\ due = [p \in Proc |-> 0]
  /\ buf = [p \in Proc |-> Fresh]
  /\ rbuf = [p \in Proc |-> Fresh]
  /\ stamp = [p \in Proc |-> 0]
  /\ result = [p \in Proc |-> "none"]
  /\ report = [p \in Proc |-> NoOwner]
  /\ misrepaired = FALSE
  /\ damage = 0
  /\ overlap = [e \in Executors |-> FALSE]
  /\ gone = [p \in Proc |-> {}]

-----------------------------------------------------------------------------
(* AcquireWorkspaceLock. *)

\* MkdirAll, then the owner is built with its lease.
Start(p) ==
  /\ p \in Mutators /\ pc[p] = "idle"
  /\ stateDir' = TRUE
  /\ stamp' = [stamp EXCEPT ![p] = now + LeaseDuration]
  /\ Goto(p, "lock")
  /\ UNCHANGED <<flock, rec, now, renewal, buf, result, report, history>>

\* The context was cancelled before the lock file was opened.
CancelStart(p) ==
  /\ pc[p] = "lock"
  /\ Exit(p, "error")
  /\ UNCHANGED <<flock, rec, stateDir, now, renewer, rbuf, report, history>>

\* Mutant: a busy lock is taken for a granted one.
TryLockUnchecked(p) ==
  /\ pc[p] = "lock"
  /\ flock' = p
  /\ Goto(p, "acqRead")
  /\ UNCHANGED <<rec, stateDir, now, renewal, buf, stamp, result, report,
                 history>>

\* flock(LOCK_EX|LOCK_NB) by a mutator: granted, or busy.
TryLock(p) ==
  /\ pc[p] = "lock"
  /\ \/ /\ flock = NoOwner
        /\ flock' = p
        /\ Goto(p, "acqRead")
        /\ UNCHANGED gone
     \/ /\ flock # NoOwner
        /\ Goto(p, "busyRead")
        /\ gone' = [gone EXCEPT ![p] = Ended]
        /\ UNCHANGED flock
  /\ UNCHANGED <<rec, stateDir, now, renewal, buf, stamp, result, report,
                 misrepaired, damage, overlap>>

AcqRead(p) ==
  /\ pc[p] = "acqRead"
  /\ buf' = [buf EXCEPT ![p] = ReadOrFresh(rec)]
  /\ Goto(p, "acqWrite")
  /\ UNCHANGED <<flock, rec, stateDir, now, renewal, stamp, result, report,
                 history>>

\* Mutant: an owner left behind by a crash is kept.
AcqWriteKeepsOwner(p) ==
  /\ pc[p] = "acqWrite"
  /\ rec' = [Published(p) EXCEPT
               !.owner = IF buf[p].owner = NoOwner THEN p ELSE buf[p].owner]
  /\ renewer' = [renewer EXCEPT ![p] = "ticking"]
  /\ due' = [due EXCEPT ![p] = now + RenewInterval]
  /\ Goto(p, "body")
  /\ overlap' = [e \in Executors |-> overlap[e] \/ pc[e] = "observed"]
  /\ UNCHANGED <<flock, stateDir, now, buf, rbuf, stamp, result, report,
                 misrepaired, damage, gone>>

\* The record is published, the renewal goroutine starts, the body begins.
AcqWrite(p) ==
  /\ pc[p] = "acqWrite"
  /\ rec' = Published(p)
  /\ renewer' = [renewer EXCEPT ![p] = "ticking"]
  /\ due' = [due EXCEPT ![p] = now + RenewInterval]
  /\ Goto(p, "body")
  /\ overlap' = [e \in Executors |-> overlap[e] \/ pc[e] = "observed"]
  /\ UNCHANGED <<flock, stateDir, now, buf, rbuf, stamp, result, report,
                 misrepaired, damage, gone>>

AcqWriteFails(p) ==
  /\ pc[p] = "acqWrite"
  /\ FailedWrite(Published(p))
  /\ flock' = NoOwner
  /\ Exit(p, "error")
  /\ UNCHANGED <<stateDir, now, renewer, rbuf, report, history>>

-----------------------------------------------------------------------------
(* The renewal goroutine. *)

\* Mutant: a lease that expires just now is not renewed.
RenewReadStrict(p) ==
  /\ renewer[p] = "ticking"
  /\ now >= due[p]
  /\ LET ours == rec.st = "ok" /\ rec.owner = p /\ rec.lease > now IN
     /\ renewer' = [renewer EXCEPT ![p] = IF ours THEN "writing" ELSE "failed"]
     /\ rbuf' = IF ours
                THEN [rbuf EXCEPT ![p] = [rec EXCEPT
                                            !.lease = now + LeaseDuration]]
                ELSE rbuf
  /\ due' = [due EXCEPT ![p] = due[p] + RenewInterval]
  /\ UNCHANGED <<flock, rec, stateDir, now, pc, buf, stamp, result, report,
                 history>>

\* Mutant: the sign of the lease is wrong.
RenewReadBackdated(p) ==
  /\ renewer[p] = "ticking"
  /\ now >= due[p]
  /\ \/ /\ rec.st = "ok" /\ rec.owner = p
        /\ rbuf' = [rbuf EXCEPT
                      ![p] = [rec EXCEPT !.lease = now - LeaseDuration]]
        /\ renewer' = [renewer EXCEPT ![p] = "writing"]
     \/ /\ ~(rec.st = "ok" /\ rec.owner = p)
        /\ renewer' = [renewer EXCEPT ![p] = "failed"]
        /\ UNCHANGED rbuf
  /\ due' = [due EXCEPT ![p] = due[p] + RenewInterval]
  /\ UNCHANGED <<flock, rec, stateDir, now, pc, buf, stamp, result, report,
                 history>>

\* The ticker fired: read the record and give up unless it is still ours.
RenewRead(p) ==
  /\ renewer[p] = "ticking"
  /\ now >= due[p]
  /\ \/ /\ rec.st = "ok" /\ rec.owner = p
        /\ rbuf' = [rbuf EXCEPT
                      ![p] = [rec EXCEPT !.lease = now + LeaseDuration]]
        /\ renewer' = [renewer EXCEPT ![p] = "writing"]
     \/ /\ ~(rec.st = "ok" /\ rec.owner = p)
        /\ renewer' = [renewer EXCEPT ![p] = "failed"]
        /\ UNCHANGED rbuf
  /\ due' = [due EXCEPT ![p] = due[p] + RenewInterval]
  /\ UNCHANGED <<flock, rec, stateDir, now, pc, buf, stamp, result, report,
                 history>>

RenewWrite(p) ==
  /\ renewer[p] = "writing"
  /\ rec' = rbuf[p]
  /\ renewer' = [renewer EXCEPT ![p] = "ticking"]
  /\ rbuf' = [rbuf EXCEPT ![p] = Fresh]
  /\ UNCHANGED <<flock, stateDir, now, pc, due, buf, stamp, result, report,
                 history>>

RenewWriteFails(p) ==
  /\ renewer[p] = "writing"
  /\ FailedWrite(rbuf[p])
  /\ renewer' = [renewer EXCEPT ![p] = "failed"]
  /\ rbuf' = [rbuf EXCEPT ![p] = Fresh]
  /\ UNCHANGED <<flock, stateDir, now, pc, due, buf, stamp, result, report,
                 history>>

\* The lease context is cancelled and select takes that branch.
RenewStop(p) ==
  /\ renewer[p] = "ticking"
  /\ pc[p] = "release"
  /\ renewer' = [renewer EXCEPT ![p] = "stopped"]
  /\ UNCHANGED <<flock, rec, stateDir, now, pc, due, buf, rbuf, stamp, result,
                 report, history>>

-----------------------------------------------------------------------------
(* The body returns and Release runs. *)

\* The body returns, with or without an error; Release cancels the renewal.
Finish(p) ==
  /\ pc[p] = "body"
  /\ Goto(p, "release")
  /\ UNCHANGED <<flock, rec, stateDir, now, renewal, buf, stamp, result,
                 report, history>>

\* Mutant: Release does not wait for the goroutine.
RelReadNoWait(p) ==
  /\ pc[p] = "release"
  /\ buf' = [buf EXCEPT ![p] = ReadOrFresh(rec)]
  /\ Goto(p, IF ReadOrFresh(rec).owner = p THEN "relWrite" ELSE "unlock")
  /\ UNCHANGED <<flock, rec, stateDir, now, renewal, stamp, result, report,
                 history>>

\* Mutant: a goroutine that failed does not close the channel it waits for.
RelReadMissedClose(p) ==
  /\ pc[p] = "release"
  /\ renewer[p] = "stopped"
  /\ buf' = [buf EXCEPT ![p] = ReadOrFresh(rec)]
  /\ Goto(p, IF ReadOrFresh(rec).owner = p THEN "relWrite" ELSE "unlock")
  /\ UNCHANGED <<flock, rec, stateDir, now, renewal, stamp, result, report,
                 history>>

\* Release waits for the goroutine, then reads the record.
RelRead(p) ==
  /\ pc[p] = "release"
  /\ renewer[p] \in {"stopped", "failed"}
  /\ buf' = [buf EXCEPT ![p] = ReadOrFresh(rec)]
  /\ Goto(p, IF ReadOrFresh(rec).owner = p THEN "relWrite" ELSE "unlock")
  /\ UNCHANGED <<flock, rec, stateDir, now, renewal, stamp, result, report,
                 history>>

\* Mutant: the owner is not reset.
RelWriteKeepsOwner(p) ==
  /\ pc[p] = "relWrite"
  /\ rec' = buf[p]
  /\ Goto(p, "unlock")
  /\ UNCHANGED <<flock, stateDir, now, renewal, buf, stamp, result, report,
                 history>>

\* Mutant: the record is built anew, and with it the generation.
RelWriteForgets(p) ==
  /\ pc[p] = "relWrite"
  /\ rec' = Fresh
  /\ Goto(p, "unlock")
  /\ UNCHANGED <<flock, stateDir, now, renewal, buf, stamp, result, report,
                 history>>

RelWrite(p) ==
  /\ pc[p] = "relWrite"
  /\ rec' = Cleared(buf[p])
  /\ Goto(p, "unlock")
  /\ UNCHANGED <<flock, stateDir, now, renewal, buf, stamp, result, report,
                 history>>

RelWriteFails(p) ==
  /\ pc[p] = "relWrite"
  /\ FailedWrite(Cleared(buf[p]))
  /\ flock' = NoOwner
  /\ Exit(p, "error")
  /\ UNCHANGED <<stateDir, now, renewer, rbuf, report, history>>

\* A failed renewal is reported only now.
Unlock(p) ==
  /\ pc[p] = "unlock"
  /\ flock' = NoOwner
  /\ Exit(p, IF renewer[p] = "failed" THEN "error" ELSE "ok")
  /\ UNCHANGED <<rec, stateDir, now, renewer, rbuf, report, history>>

-----------------------------------------------------------------------------
(* A refused process reads, judges and repairs the record without a lock. *)

BusyRead(p) ==
  /\ pc[p] = "busyRead"
  /\ \/ /\ rec.st = "ok"
        /\ buf' = [buf EXCEPT ![p] = rec]
        /\ Goto(p, "judge")
        /\ UNCHANGED <<result, stamp, due>>
     \/ /\ rec.st # "ok"
        /\ Exit(p, "busy")
  /\ UNCHANGED <<flock, rec, stateDir, now, renewer, rbuf, report, history>>

SameHost(p, q) == HostOf[p] = HostOf[q]

\* kill(pid, 0): a dead process looks alive when its pid is taken again.
ProcessRunning(q) == IF Alive(q) THEN {TRUE}
                     ELSE IF PidReuse THEN BOOLEAN ELSE {FALSE}

\* normalizedActiveOwner, on p's host: is the owner in r to be cleared?
ToClear(p, r, running) ==
  /\ r.owner # NoOwner
  /\ ~(SameHost(p, r.owner) /\ running)
  /\ r.lease < now \/ SameHost(p, r.owner)

BusyJudge(p) ==
  /\ pc[p] = "judge"
  /\ \E running \in IF buf[p].owner = NoOwner THEN {FALSE}
                    ELSE ProcessRunning(buf[p].owner) :
       \/ /\ ToClear(p, buf[p], running)
          /\ Goto(p, "repair")
          /\ UNCHANGED <<buf, result, report, stamp, due>>
       \/ /\ ~ToClear(p, buf[p], running)
          /\ report' = [report EXCEPT ![p] = buf[p].owner]
          /\ Exit(p, "busy")
  /\ UNCHANGED <<flock, rec, stateDir, now, renewer, rbuf, history>>

\* A repair is sound when it changes nothing, or clears a dead owner.
SoundRepair(p) ==
  /\ rec.gen = buf[p].gen
  /\ rec.owner = NoOwner \/ ~Alive(rec.owner)

RepairWrite(p) ==
  /\ pc[p] = "repair"
  /\ rec' = Cleared(buf[p])
  /\ misrepaired' = (misrepaired \/ (rec' # rec /\ ~SoundRepair(p)))
  /\ Exit(p, "busy")
  /\ UNCHANGED <<flock, stateDir, now, renewer, rbuf, report, damage, overlap,
                 gone>>

RepairWriteFails(p) ==
  /\ pc[p] = "repair"
  /\ FailedWrite(Cleared(buf[p]))
  /\ misrepaired' = (misrepaired \/ (rec' # rec /\ ~SoundRepair(p)))
  /\ Exit(p, "busy")
  /\ UNCHANGED <<flock, stateDir, now, renewer, rbuf, report, damage, overlap,
                 gone>>

-----------------------------------------------------------------------------
(* exec: CheckWorkspaceBusy, then an optimistic read. *)

\* CheckWorkspaceBusy: without a state directory there is nothing to check;
\* otherwise it takes the flock for a moment, or is refused.
Probe(e) ==
  /\ e \in Executors /\ pc[e] = "idle"
  /\ \/ /\ ~stateDir
        /\ Goto(e, "observe")
        /\ UNCHANGED flock
     \/ /\ stateDir /\ flock = NoOwner
        /\ flock' = e
        /\ Goto(e, "unprobe")
     \/ /\ stateDir /\ flock # NoOwner
        /\ Goto(e, "busyRead")
        /\ UNCHANGED flock
  /\ gone' = [gone EXCEPT ![e] = Ended]
  /\ UNCHANGED <<rec, stateDir, now, renewal, buf, stamp, result, report,
                 misrepaired, damage, overlap>>

ProbeUnlock(e) ==
  /\ pc[e] = "unprobe"
  /\ flock' = NoOwner
  /\ Goto(e, "observe")
  /\ UNCHANGED <<rec, stateDir, now, renewal, buf, stamp, result, report,
                 history>>

\* What loadControlState makes of the record: a missing one is empty.
ObservedRecord == IF rec.st = "missing" THEN Fresh ELSE rec

\* Observe the record; any active owner, dead or alive, is a refusal.
ExecObserve(e) ==
  /\ pc[e] = "observe"
  /\ \/ /\ rec.st = "corrupt"
        /\ Exit(e, "error")
        /\ UNCHANGED <<report, overlap>>
     \/ /\ rec.st # "corrupt" /\ ObservedRecord.owner # NoOwner
        /\ report' = [report EXCEPT ![e] = rec.owner]
        /\ Exit(e, "busy")
        /\ UNCHANGED overlap
     \/ /\ rec.st # "corrupt" /\ ObservedRecord.owner = NoOwner
        /\ buf' = [buf EXCEPT ![e] = ObservedRecord]
        /\ overlap' = [overlap EXCEPT ![e] = \E p \in Mutators : Body(p)]
        /\ Goto(e, "observed")
        /\ UNCHANGED <<result, report, stamp, due>>
  /\ UNCHANGED <<flock, rec, stateDir, now, renewer, rbuf, misrepaired,
                 damage, gone>>

\* The target is missing, unsupported, or lacks the ssh agent.
ExecAbort(e) ==
  /\ pc[e] = "observed"
  /\ Exit(e, "error")
  /\ UNCHANGED <<flock, rec, stateDir, now, renewer, rbuf, report, history>>

\* Mutant: the generation is not compared.
StillFree(e) == ObservedRecord.owner = NoOwner

\* RevalidateReadToken: is the record still free and of the same generation?
StillValid(e) ==
  /\ ObservedRecord.owner = NoOwner
  /\ ObservedRecord.gen = buf[e].gen

ExecRevalidate(e) ==
  /\ pc[e] = "observed"
  /\ \/ /\ rec.st = "corrupt"
        /\ Exit(e, "error")
     \/ /\ rec.st # "corrupt" /\ ~StillValid(e)
        /\ Exit(e, "stale")
     \/ /\ rec.st # "corrupt" /\ StillValid(e)
        /\ Goto(e, "running")
        /\ UNCHANGED <<buf, result, stamp, due>>
  /\ UNCHANGED <<flock, rec, stateDir, now, renewer, rbuf, report, history>>

ExecFinish(e) ==
  /\ pc[e] = "running"
  /\ Exit(e, "ok")
  /\ UNCHANGED <<flock, rec, stateDir, now, renewer, rbuf, report, history>>

-----------------------------------------------------------------------------
(* The environment. *)

Tick ==
  /\ now < MaxTime
  /\ now' = now + 1
  /\ UNCHANGED <<flock, rec, stateDir, pc, renewal, buf, stamp, result,
                 report, history>>

\* A process is killed: the kernel closes its descriptors, hence its flock.
Crash(p) ==
  /\ p \in MayCrash /\ Alive(p)
  /\ Goto(p, "crashed")
  /\ flock' = IF flock = p THEN NoOwner ELSE flock
  /\ renewer' = [renewer EXCEPT ![p] = "off"]
  /\ buf' = [buf EXCEPT ![p] = Fresh]
  /\ rbuf' = [rbuf EXCEPT ![p] = Fresh]
  /\ stamp' = [stamp EXCEPT ![p] = 0]
  /\ due' = [due EXCEPT ![p] = 0]
  /\ UNCHANGED <<rec, stateDir, now, result, report, history>>

\* An outsider removes the record or leaves garbage in its place.
Damage ==
  /\ stateDir /\ damage < MaxDamage
  /\ damage' = damage + 1
  /\ \E st \in {"missing", "corrupt"} : rec' = [Absent EXCEPT !.st = st]
  /\ UNCHANGED <<flock, stateDir, now, pc, renewal, buf, stamp, result,
                 report, misrepaired, overlap, gone>>

\* Every process has ended: the behaviour may stop here.
AllEnded ==
  /\ \A p \in Proc : pc[p] \in Gone
  /\ UNCHANGED vars

MutatorStep(p) ==
  \/ CancelStart(p) \/ TryLock(p) \/ AcqRead(p) \/ AcqWrite(p)
  \/ AcqWriteFails(p) \/ Finish(p) \/ RelRead(p) \/ RelWrite(p)
  \/ RelWriteFails(p) \/ Unlock(p)
RenewStep(p) ==
  RenewRead(p) \/ RenewWrite(p) \/ RenewWriteFails(p) \/ RenewStop(p)
RefusedStep(p) ==
  BusyRead(p) \/ BusyJudge(p) \/ RepairWrite(p) \/ RepairWriteFails(p)
ExecutorStep(e) ==
  \/ ProbeUnlock(e) \/ ExecObserve(e) \/ ExecAbort(e) \/ ExecRevalidate(e)
  \/ ExecFinish(e)

Next ==
  \/ \E p \in Mutators : Start(p) \/ MutatorStep(p) \/ RenewStep(p)
  \/ \E e \in Executors : Probe(e) \/ ExecutorStep(e)
  \/ \E p \in Proc : RefusedStep(p) \/ Crash(p)
  \/ Tick
  \/ Damage
  \/ AllEnded

Spec == Init /\ [][Next]_vars

\* A process that has started keeps running, and so does its renewal
\* goroutine; command bodies and executed commands return.  Nothing obliges
\* a process to start, to crash, or an outsider to act.
Fairness ==
  /\ \A p \in Mutators : WF_vars(MutatorStep(p)) /\ WF_vars(RenewStep(p))
  /\ \A e \in Executors : WF_vars(ExecutorStep(e))
  /\ \A p \in Proc : WF_vars(RefusedStep(p))

FairSpec == Spec /\ Fairness

-----------------------------------------------------------------------------
(* Properties. *)

Phases == {"idle", "lock", "acqRead", "acqWrite", "body", "release",
           "relWrite", "unlock", "busyRead", "judge", "repair", "unprobe",
           "observe", "observed", "running"} \cup Gone

\* The types of the variables.
TypeOK ==
  /\ flock \in Owner
  /\ rec \in Record
  /\ stateDir \in BOOLEAN
  /\ now \in Nat
  /\ pc \in [Proc -> Phases]
  /\ renewer \in [Proc -> {"off", "ticking", "writing", "stopped", "failed"}]
  /\ due \in [Proc -> Nat]
  /\ buf \in [Proc -> Record]
  /\ rbuf \in [Proc -> Record]
  /\ stamp \in [Proc -> Nat]
  /\ result \in [Proc -> {"none", "ok", "busy", "error", "stale"}]
  /\ report \in [Proc -> Owner]
  /\ misrepaired \in BOOLEAN
  /\ damage \in Nat
  /\ overlap \in [Executors -> BOOLEAN]
  /\ gone \in [Proc -> SUBSET Mutators]

\* Where a mutator stands for the abstract lock: before, in or after its body.
PhaseOf(p) ==
  CASE pc[p] \in {"idle", "lock", "acqRead", "acqWrite", "busyRead", "judge",
                  "repair"} -> "before"
    [] pc[p] = "body" -> "in"
    [] OTHER -> "after"

Lock == INSTANCE MutationLock WITH phase <- [p \in Mutators |-> PhaseOf(p)]

\* The bodies of up, build and run never overlap, whatever crashes, expires,
\* is repaired or is destroyed: the flock alone decides, not the record.
BodiesExclude == Lock!Spec

\* While a body runs, coordination.json names its process, unless a refused
\* process repaired the record behind its back or an outsider destroyed it.
HolderRecorded ==
  ~misrepaired /\ damage = 0 =>
    \A p \in Mutators :
      pc[p] \in {"body", "release"} => rec.st = "ok" /\ rec.owner = p

\* The renewal goroutine gives up ("ownership changed while lock held") only
\* for an unsound repair, an outsider or a disk fault: it never trips over
\* what its own process, or a process that respects the flock, wrote.
RenewalLossExplained ==
  (\E p \in Mutators : renewer[p] = "failed") =>
    misrepaired \/ damage > 0 \/ FaultyDisk

\* Once Release has returned without an error the record never names that
\* process again: no renewal, repair or later owner writes it back.
ReleasedStaysGone == \A p \in ReleasedCleanly : rec.owner # p

\* An exec whose revalidation passed saw no mutation begin since it observed
\* the workspace, unless the record was repaired unsoundly or destroyed.
QuietExec ==
  ~misrepaired /\ damage = 0 =>
    \A e \in Executors : pc[e] = "running" => ~overlap[e]

\* "workspace is busy" never names a process that had released the workspace
\* before the refused process tried to lock it.
BusyNamesUnfinished ==
  \A p \in Proc : report[p] \notin gone[p] \cap ReleasedCleanly

\* The generation, which exec relies on to see a mutation, falls only when
\* a repair is unsound or an outsider destroys the record.
GenerationMonotone ==
  [][rec'.gen >= rec.gen \/ misrepaired' \/ damage' # damage]_vars

\* Every process that starts ends, killed or not: Release never waits for
\* ever for the renewal goroutine and no refusal loops.
Terminates ==
  \A p \in Proc : pc[p] # "idle" ~> pc[p] \in Gone

-----------------------------------------------------------------------------
(* The inductive invariant behind the proofs. *)

\* Where a mutator holds the flock.
Holding == {"acqRead", "acqWrite", "body", "release", "relWrite", "unlock"}

\* The flock is held exactly by the process that is where it holds it.
FlockInv ==
  /\ \A p \in Mutators : pc[p] \in Holding <=> flock = p
  /\ \A e \in Executors : pc[e] = "unprobe" <=> flock = e
  /\ \A e \in Executors : pc[e] \notin Holding \cup {"lock"}
  /\ \A p \in Mutators :
       pc[p] \notin {"unprobe", "observe", "observed", "running"}

\* The renewal goroutine lives only while its process waits for the body or
\* for the goroutine itself, and writes nothing but its own ownership.
RenewInv ==
  /\ \A p \in Mutators :
       renewer[p] \in {"ticking", "writing"} => pc[p] \in {"body", "release"}
  /\ \A p \in Mutators :
       renewer[p] = "writing" => rbuf[p].st = "ok" /\ rbuf[p].owner = p

\* What cannot be read says nothing, and is never written.
RecordInv ==
  /\ rec.st # "ok" => rec.gen = 0 /\ rec.owner = NoOwner
  /\ \A p \in Proc : buf[p].st = "ok"

\* A process that is about to unlock is not in the record.
UnlockInv == \A p \in Mutators : pc[p] = "unlock" => rec.owner # p

\* Nobody but the holder touched the record.
Undisturbed == ~misrepaired /\ damage = 0

\* Every value about to be written continues the generation in the record,
\* and the token of an exec is older than any mutation since.
GenInv ==
  Undisturbed =>
    /\ \A p \in Mutators : renewer[p] = "writing" => rbuf[p].gen = rec.gen
    /\ \A p \in Mutators :
         pc[p] \in {"acqWrite", "relWrite"} => buf[p].gen = rec.gen
    /\ \A e \in Executors :
         pc[e] = "observed" =>
           /\ buf[e].gen <= rec.gen
           /\ overlap[e] => buf[e].gen < rec.gen

-----------------------------------------------------------------------------
(* What the tests and the code's own messages claim, and the code does not  *)
(* deliver.                                                                 *)

\* A live owner of the lock stays visible in the record while its body runs.
LiveOwnerStaysVisible ==
  \A p \in Mutators : Body(p) => rec.owner = p
=============================================================================
