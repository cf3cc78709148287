------------------------------- MODULE Bridge -------------------------------
(***************************************************************************)
(* How "hatchctl up" replaces the bridge server of a workspace: it asks    *)
(* the old one to stop, or signals the process that the pid file and the   *)
(* status file agree on, then spawns a new one and waits until something   *)
(* listens on the port of the session.  Servers outlive the up that        *)
(* started them; an up may be killed at every step, a server may be slow   *)
(* or die, and pids and the port are there for other programs to take.     *)
(*                                                                         *)
(* One up runs at a time (module Coordination).  Each action is one access *)
(* to the port, to a process or to one of the files.  The session keeps    *)
(* its id, token and port for ever, so a request is always authorised.     *)
(***************************************************************************)
EXTENDS FiniteSets

CONSTANTS
  Pids,          \* process ids
  Containers,    \* containers a server may work for
  NoPid,         \* no process, or an absent pid file
  NoContainer    \* no container

ASSUME BridgeAssumption == NoPid \notin Pids /\ NoContainer \notin Containers

VARIABLES
  proc,      \* the process table
  serves,    \* the container of a bridge server
  port,      \* the process that listens on the port of the session
  pidFile,   \* bridge.pid
  status,    \* pid and last event of bridge-status.json
  pending,   \* servers with a stop request they have not read yet
  stopping,  \* servers that were told to stop
  pc,        \* where the up is in bridge.Start
  self,      \* its own pid
  want,      \* the container it starts a server for
  victim,    \* the process it waits for or signals
  child,     \* the server it spawned
  \* history, read by no action:
  astray,    \* servers that an up lost sight of
  lost       \* was there ever one?

up == <<pc, self, want, victim, child>>
server == <<serves, pending, stopping>>
history == <<astray, lost>>
vars == <<proc, server, port, pidFile, status, up, history>>

ServerPhases == {"boot", "bound", "named", "serving", "exiting"}
Servers == {p \in Pids : proc[p] \in ServerPhases}
Running(p) == p \in Pids /\ proc[p] # "free"

\* The pid of a dead child is not free before its parent is gone.
FreePids == {p \in Pids : proc[p] = "free"} \ {child}

Init ==
  /\ proc = [p \in Pids |-> "free"]
  /\ serves = [p \in Pids |-> NoContainer]
  /\ port = NoPid /\ pidFile = NoPid
  /\ status = [pid |-> NoPid, event |-> "none"]
  /\ pending = {} /\ stopping = {}
  /\ pc = "idle" /\ self = NoPid /\ want = NoContainer
  /\ victim = NoPid /\ child = NoPid
  /\ astray = {} /\ lost = FALSE

\* The spawned server, while it does not listen.
Unheard == {p \in Pids \cap {child} : proc[p] = "boot"}

LoseSight(ps) ==
  /\ astray' = astray \cup ps
  /\ lost' = (lost \/ ps # {})

Goto(l) == pc' = l /\ UNCHANGED <<self, want, victim, child>>

\* p and everything the kernel held for it are gone.
Dies(p) ==
  /\ proc' = [proc EXCEPT ![p] = "free"]
  /\ serves' = [serves EXCEPT ![p] = NoContainer]
  /\ port' = IF port = p THEN NoPid ELSE port
  /\ pending' = pending \ {p}
  /\ stopping' = stopping \ {p}
  /\ astray' = astray \ {p}
  /\ UNCHANGED lost

-----------------------------------------------------------------------------
(* stopExisting. *)

Begin ==
  /\ pc = "idle"
  /\ \E p \in FreePids, c \in Containers :
       /\ proc' = [proc EXCEPT ![p] = "cli"]
       /\ self' = p /\ want' = c
  /\ pc' = "request"
  /\ UNCHANGED <<server, port, pidFile, status, victim, child, history>>

\* requestBridgeStop: nobody listens, or a stranger who does not answer in
\* the protocol, or a server that will read the request sooner or later.
RequestStop ==
  /\ pc = "request"
  /\ IF port \in Servers
     THEN /\ pending' = pending \cup {port}
          /\ victim' = port
          /\ pc' = "asking"
          /\ UNCHANGED <<self, want, child>>
     ELSE Goto("lookup") /\ UNCHANGED pending
  /\ UNCHANGED <<proc, serves, port, pidFile, status, stopping, history>>

\* bridgeControlTimeout, or the connection broke.
RequestTimeout ==
  /\ pc = "asking"
  /\ Goto("lookup")
  /\ UNCHANGED <<proc, server, port, pidFile, status, history>>

\* The server agreed to stop: wait for the process in the pid file.  If the
\* file cannot be read the up goes on at once, and loses sight of the server
\* that is named there and may still listen.
ReadPid ==
  /\ pc = "answered"
  /\ \/ /\ pidFile \in {NoPid, self}
        /\ Goto("write") /\ UNCHANGED history
     \/ /\ pidFile \notin {NoPid, self}
        /\ victim' = pidFile /\ pc' = "await"
        /\ UNCHANGED <<self, want, child, history>>
     \/ /\ Goto("write")
        /\ LoseSight(Servers \cap {pidFile})
  /\ UNCHANGED <<proc, server, port, pidFile, status>>

\* Mutant: the up goes on when its patience is over.
AwaitImpatient ==
  /\ pc = "await"
  /\ Goto("write")
  /\ UNCHANGED <<proc, server, port, pidFile, status, history>>

\* waitForPIDStop.
Await ==
  /\ pc = "await"
  /\ \/ ~Running(victim) /\ Goto("write")
     \/ Running(victim) /\ Goto("failed")
  /\ UNCHANGED <<proc, server, port, pidFile, status, history>>

\* No answer: the pid file says which process to look at.  A server that is
\* not named there is lost from sight.
Lookup ==
  /\ pc = "lookup"
  /\ IF pidFile \in {NoPid, self} THEN Goto("write")
     ELSE /\ victim' = pidFile /\ pc' = "judge"
          /\ UNCHANGED <<self, want, child>>
  /\ LoseSight({p \in Pids \ {pidFile} : proc[p] = "bound"})
  /\ UNCHANGED <<proc, server, port, pidFile, status>>

CanForceStop == status.pid = victim

Judge ==
  /\ pc = "judge"
  /\ Goto(IF ~Running(victim) THEN "write"
          ELSE IF CanForceStop THEN "force" ELSE "failed")
  /\ UNCHANGED <<proc, server, port, pidFile, status, history>>

\* SIGTERM: a bridge server closes its listener, another program dies of it
\* or does not.
Terminate ==
  /\ pc = "force"
  /\ Goto("terminated")
  /\ \/ /\ victim \in Servers
        /\ stopping' = stopping \cup {victim}
        /\ UNCHANGED <<proc, serves, port, pending, history>>
     \/ /\ ~Running(victim)
        /\ UNCHANGED <<proc, server, port, history>>
     \/ /\ Running(victim) /\ victim \notin Servers
        /\ Dies(victim) \/ UNCHANGED <<proc, server, port, history>>
  /\ UNCHANGED <<pidFile, status>>

Terminated ==
  /\ pc = "terminated" /\ ~Running(victim)
  /\ Goto("write")
  /\ UNCHANGED <<proc, server, port, pidFile, status, history>>

\* SIGKILL after two seconds; the process may be slow to go all the same.
Kill ==
  /\ pc = "terminated" /\ Running(victim)
  /\ Dies(victim)
  /\ \/ Goto("write")
     \/ Goto("failed")
  /\ UNCHANGED <<pidFile, status>>

-----------------------------------------------------------------------------
(* Start, once the old server is out of the way. *)

\* The pid file cannot be read, the configuration of the bridge cannot be
\* written, or the server cannot be spawned.
CallFails ==
  /\ pc \in {"lookup", "write", "spawn"}
  /\ Goto("failed")
  /\ UNCHANGED <<proc, server, port, pidFile, status, history>>

\* The status file names the up itself until the server takes it over.
WriteStarting ==
  /\ pc = "write"
  /\ status' = [pid |-> self, event |-> "starting"]
  /\ Goto("spawn") \/ Goto("failed")
  /\ UNCHANGED <<proc, server, port, pidFile, history>>

Spawn ==
  /\ pc = "spawn"
  /\ \E p \in FreePids :
       /\ proc' = [proc EXCEPT ![p] = "boot"]
       /\ serves' = [serves EXCEPT ![p] = want]
       /\ child' = p
  /\ pc' = "wait"
  /\ UNCHANGED <<self, want, victim, port, pidFile, status, pending, stopping, history>>

\* waitForBridgeTCP: somebody listens on the port.
Connect ==
  /\ pc = "wait" /\ port # NoPid
  /\ Goto("ok")
  /\ UNCHANGED <<proc, server, port, pidFile, status, history>>

\* bridgeStartupTimeout: the child is killed, whatever it has come to by then.
WaitTimeout ==
  /\ pc = "wait" /\ port = NoPid
  /\ Goto("abandon")
  /\ UNCHANGED <<proc, server, port, pidFile, status, history>>

Abandon ==
  /\ pc = "abandon"
  /\ Goto("failed")
  /\ IF child \in Servers THEN Dies(child)
     ELSE UNCHANGED <<proc, server, port, astray, lost>>
  /\ UNCHANGED <<pidFile, status>>

Forget ==
  /\ pc' = "idle" /\ self' = NoPid /\ want' = NoContainer
  /\ victim' = NoPid /\ child' = NoPid
  /\ proc' = [proc EXCEPT ![self] = "free"]

\* The up ends; its server stays, even one that has not listened yet because
\* somebody else does.
Return ==
  /\ pc \in {"ok", "failed"}
  /\ Forget
  /\ LoseSight(Unheard)
  /\ UNCHANGED <<server, port, pidFile, status>>

\* The up is killed; a server that it was about to wait for comes up alone.
Killed ==
  /\ pc \notin {"idle", "ok", "failed"}
  /\ Forget
  /\ LoseSight(Unheard)
  /\ UNCHANGED <<server, port, pidFile, status>>

-----------------------------------------------------------------------------
(* A bridge server: Serve and its handlers. *)

\* Mutant: the pid file is written first.
BindNamed(p) ==
  /\ proc[p] = "boot"
  /\ pidFile' = p
  /\ \/ /\ port = NoPid
        /\ port' = p
        /\ proc' = [proc EXCEPT ![p] = "bound"]
        /\ UNCHANGED <<server, astray, lost>>
     \/ port # NoPid /\ Dies(p)
  /\ UNCHANGED <<status, up>>

\* listenBridgeTCP; a server that finds the port taken exits.
Bind(p) ==
  /\ proc[p] = "boot"
  /\ \/ /\ port = NoPid
        /\ port' = p
        /\ proc' = [proc EXCEPT ![p] = "bound"]
        /\ UNCHANGED <<server, astray, lost>>
     \/ port # NoPid /\ Dies(p)
  /\ UNCHANGED <<pidFile, status, up>>

WritePID(p) ==
  /\ proc[p] = "bound"
  /\ pidFile' = p
  /\ proc' = [proc EXCEPT ![p] = "named"]
  /\ UNCHANGED <<server, port, status, up, history>>

\* Mutant: the pid in the status file is left as it is.
AnnounceEventOnly(p) ==
  /\ proc[p] = "named"
  /\ status' = [status EXCEPT !.event = "running"]
  /\ proc' = [proc EXCEPT ![p] = "serving"]
  /\ UNCHANGED <<server, port, pidFile, up, history>>

\* The status says "running" and the server begins to accept.
Announce(p) ==
  /\ proc[p] = "named"
  /\ status' = [pid |-> p, event |-> "running"]
  /\ proc' = [proc EXCEPT ![p] = "serving"]
  /\ UNCHANGED <<server, port, pidFile, up, history>>

\* The stop request is read and answered, perhaps too late for its sender.
HandleStop(p) ==
  /\ proc[p] = "serving" /\ p \in pending
  /\ status' = [pid |-> p, event |-> "stopping"]
  /\ stopping' = stopping \cup {p}
  /\ pending' = pending \ {p}
  /\ IF pc = "asking" /\ victim = p THEN Goto("answered") ELSE UNCHANGED up
  /\ UNCHANGED <<proc, serves, port, pidFile, history>>

\* The handlers of other requests and of forwards write the status as well,
\* and do so until the process ends.
Report(p) ==
  /\ proc[p] \in {"serving", "exiting"}
  /\ status' = [pid |-> p, event |-> "forward"]
  /\ UNCHANGED <<proc, server, port, pidFile, up, history>>

\* Mutant: the listener stays open.
CloseLater(p) ==
  /\ proc[p] = "serving"
  /\ proc' = [proc EXCEPT ![p] = "exiting"]
  /\ pending' = pending \ {p}
  /\ status' = IF p \in stopping THEN status
               ELSE [pid |-> p, event |-> "error"]
  /\ UNCHANGED <<serves, stopping, port, pidFile, up, history>>

\* The listener is closed, because the server was told to, or on an error.
Close(p) ==
  /\ proc[p] = "serving"
  /\ port' = NoPid
  /\ proc' = [proc EXCEPT ![p] = "exiting"]
  /\ pending' = pending \ {p}
  /\ status' = IF p \in stopping THEN status
               ELSE [pid |-> p, event |-> "error"]
  /\ UNCHANGED <<serves, stopping, pidFile, up, history>>

Exit(p) ==
  /\ proc[p] = "exiting"
  /\ Dies(p)
  /\ UNCHANGED <<pidFile, status, up>>

\* A server crashes, fails on one of its files, or is killed.
ServerDies(p) ==
  /\ p \in Servers
  /\ Dies(p)
  /\ UNCHANGED <<pidFile, status, up>>

-----------------------------------------------------------------------------
(* Other programs. *)

StrangerStarts ==
  /\ \E p \in FreePids : proc' = [proc EXCEPT ![p] = "stranger"]
  /\ UNCHANGED <<server, port, pidFile, status, up, history>>

StrangerListens(p) ==
  /\ proc[p] = "stranger" /\ port = NoPid
  /\ port' = p
  /\ UNCHANGED <<proc, server, pidFile, status, up, history>>

StrangerEnds(p) ==
  /\ proc[p] = "stranger"
  /\ Dies(p)
  /\ UNCHANGED <<pidFile, status, up>>

Next ==
  \/ Begin \/ RequestStop \/ RequestTimeout \/ ReadPid \/ Await \/ Lookup
  \/ CallFails \/ Judge \/ Terminate \/ Terminated \/ Kill
  \/ WriteStarting \/ Spawn \/ Connect \/ WaitTimeout \/ Abandon
  \/ Return \/ Killed \/ StrangerStarts
  \/ \E p \in Pids :
       \/ Bind(p) \/ WritePID(p) \/ Announce(p) \/ HandleStop(p) \/ Report(p)
       \/ Close(p) \/ Exit(p) \/ ServerDies(p)
       \/ StrangerListens(p) \/ StrangerEnds(p)

Spec == Init /\ [][Next]_vars

-----------------------------------------------------------------------------
(* Properties. *)

Pcs == {"idle", "request", "asking", "answered", "await", "lookup", "judge",
        "force", "terminated", "write", "spawn", "wait", "abandon", "ok",
        "failed"}
Listening == {"bound", "named", "serving", "stranger"}
Events == {"none", "starting", "running", "forward", "stopping", "error"}

\* The types of the variables; what has the port is a process that listens.
TypeOK ==
  /\ proc \in [Pids -> ServerPhases \cup {"free", "cli", "stranger"}]
  /\ serves \in [Pids -> Containers \cup {NoContainer}]
  /\ port \in {p \in Pids : proc[p] \in Listening} \cup {NoPid}
  /\ pidFile \in Pids \cup {NoPid}
  /\ status \in [pid : Pids \cup {NoPid}, event : Events]
  /\ pending \subseteq Pids /\ stopping \subseteq Pids
  /\ pc \in Pcs
  /\ self \in Pids \cup {NoPid}
  /\ want \in Containers \cup {NoContainer}
  /\ victim \in Pids \cup {NoPid}
  /\ child \in Pids \cup {NoPid}
  /\ astray \subseteq Pids
  /\ lost \in BOOLEAN

\* When bridge.Start takes a bridge server for the one it spawned, it is one
\* for the container of this up.  The exceptions are servers of which an up
\* lost sight.  Either an earlier one did before they were in the pid file: it
\* was killed, it timed out, or it took somebody else's listener for theirs.
\* Or the server agreed to stop, and the up could not read the pid file to
\* wait for it.  A stranger that listens is taken for a server as well; this
\* is not about it.
StartedServes ==
  pc = "ok" /\ port \in Servers \ astray => serves[port] = want

\* The pid file names the server that serves, whoever else was spawned,
\* found the port taken or was killed in the meantime.
PidFileNamesServer ==
  \A p \in Pids : proc[p] \in {"named", "serving"} => pidFile = p

\* A server that a finished up left behind can be stopped by force if it
\* hangs, and bridge doctor sees it: status and pid file agree on it.  Once
\* an up has lost sight of a server, in one of the ways above, two servers may
\* write these files and nothing is said.
Stoppable ==
  pc = "idle" /\ ~lost =>
    \A p \in Pids : proc[p] = "serving" => pidFile = p /\ status.pid = p

-----------------------------------------------------------------------------
(* The inductive invariant behind the proofs. *)

\* A bridge server that listens has the port, and then the pid file.
PortInv ==
  \A p \in Pids :
    /\ proc[p] \in {"bound", "named", "serving"} => port = p
    /\ proc[p] \in {"named", "serving"} => pidFile = p

Chasing == {"await", "judge", "force", "terminated"}
Waiting == {"wait", "abandon", "ok"}

\* An up has its own pid, does not chase itself and spawns one server.
CommandInv ==
  /\ pc # "idle" => self \in Pids /\ proc[self] = "cli"
  /\ pc \in Chasing => victim # self
  /\ pc \in Waiting /\ child \in Servers => serves[child] = want
  /\ pc \notin Waiting \cup {"failed"} => child = NoPid

\* The servers that may come to listen, short of those out of sight.
Known ==
  {p \in Pids \ astray : proc[p] \in {"boot", "bound", "named", "serving"}}

\* Such a server is the one that listens or the one just spawned, and an up
\* goes on only when it has dealt with the former.
KnownInv ==
  \A p \in Known :
    /\ p \in {port, child}
    /\ pc = "answered" => p = pidFile
    /\ pc \in Chasing => p = victim
    /\ pc \notin {"write", "spawn"}
    /\ pc \in Waiting => p = child

\* Until an up loses sight of a server there is at most one, dying ones
\* included, and it has the status file to itself.
SoleInv ==
  ~lost =>
    \A p \in Servers :
      /\ Servers = {p}
      /\ p \in {port, child, pidFile}
      /\ proc[p] = "exiting" => p = pidFile
      /\ pc = "answered" => p = pidFile
      /\ pc \in Chasing => p = victim
      /\ pc \notin {"write", "spawn"}
      /\ pc \in Waiting => p = child
      /\ proc[p] = "serving" => status.pid = p

=============================================================================
