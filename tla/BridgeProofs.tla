---------------------------- MODULE BridgeProofs ----------------------------
(***************************************************************************)
(* Theorems of module Bridge: type correctness, the pid file names the     *)
(* server that serves, and an up takes no server but its own for its own.  *)
(***************************************************************************)
EXTENDS Bridge, TLAPS

\* Whether a server was ever lost sight of is a Boolean.
LEMMA LostType ==
  ASSUME NEW ps, lost \in BOOLEAN, LoseSight(ps)
  PROVE  lost' \in BOOLEAN
BY DEF LoseSight

\* Initially every variable has its type.
LEMMA InitTypeOK == Init => TypeOK
<1> SUFFICES ASSUME Init PROVE TypeOK
  OBVIOUS
<1>1. lost \in BOOLEAN
  BY DEF Init
<1>2. QED
  BY <1>1 DEF Init, TypeOK, Events, Pcs, ServerPhases, Listening

-----------------------------------------------------------------------------
(* What each step keeps. *)

\* The types: that only what listens has the port needs to know that the up
\* which ends is none of that.
LEMMA TypeStep ==
  TypeOK /\ CommandInv /\ [Next]_vars => TypeOK'
<1> SUFFICES ASSUME TypeOK /\ CommandInv, [Next]_vars
             PROVE  TypeOK'
  OBVIOUS
<1> USE BridgeAssumption DEF TypeOK, CommandInv, Events, Pcs, ServerPhases, Listening
<1>1. CASE Begin
  BY <1>1 DEF Begin, FreePids, server, history
<1>2. CASE RequestStop
  BY <1>2 DEF RequestStop, Servers, Goto, history
<1>3. CASE RequestTimeout
  BY <1>3 DEF RequestTimeout, Goto, server, history
<1>4. CASE ReadPid
  <2>1. lost' \in BOOLEAN
    BY <1>4, LostType DEF ReadPid, history
  <2>2. QED
    BY <1>4, <2>1 DEF ReadPid, Goto, LoseSight, Servers, server, history
<1>5. CASE Await
  BY <1>5 DEF Await, Running, Goto, server, history
<1>6. CASE Lookup
  <2>1. lost' \in BOOLEAN
    BY <1>6, LostType DEF Lookup
  <2>2. QED
    BY <1>6, <2>1 DEF Lookup, Goto, LoseSight, server
<1>7. CASE CallFails
  BY <1>7 DEF CallFails, Goto, server, history
<1>8. CASE Judge
  BY <1>8 DEF Judge, Goto, Running, CanForceStop, server, history
<1>9. CASE Terminate
  <2>1. lost' \in BOOLEAN
    BY <1>9 DEF Terminate, Dies, history
  <2>2. QED
    BY <1>9, <2>1 DEF Terminate, Goto, Servers, history, Running, server, Dies
<1>10. CASE Terminated
  BY <1>10 DEF Terminated, Running, Goto, server, history
<1>11. CASE Kill
  BY <1>11 DEF Kill, Running, Servers, Dies, Goto
<1>12. CASE WriteStarting
  BY <1>12 DEF WriteStarting, Goto, server, history
<1>13. CASE Spawn
  BY <1>13 DEF Spawn, FreePids, history
<1>14. CASE Connect
  BY <1>14 DEF Connect, Goto, server, history
<1>15. CASE WaitTimeout
  BY <1>15 DEF WaitTimeout, Goto, server, history
<1>16. CASE Abandon
  BY <1>16 DEF Abandon, Goto, Servers, Dies, server
<1>17. CASE Return
  <2>1. lost' \in BOOLEAN
    BY <1>17, LostType DEF Return
  <2>2. QED
    BY <1>17, <2>1 DEF Return, Forget, LoseSight, Unheard, server
<1>18. CASE Killed
  <2>1. lost' \in BOOLEAN
    BY <1>18, LostType DEF Killed
  <2>2. QED
    BY <1>18, <2>1 DEF Killed, Forget, LoseSight, Unheard, server
<1>19. CASE StrangerStarts
  BY <1>19 DEF StrangerStarts, FreePids, server, up, history
<1>20. CASE \E p \in Pids : Bind(p)
  BY <1>20 DEF Bind, server, Dies, up
<1>21. CASE \E p \in Pids : WritePID(p)
  BY <1>21 DEF WritePID, server, up, history
<1>22. CASE \E p \in Pids : Announce(p)
  BY <1>22 DEF Announce, server, up, history
<1>23. CASE \E p \in Pids : HandleStop(p)
  BY <1>23 DEF HandleStop, Goto, up, history
<1>24. CASE \E p \in Pids : Report(p)
  BY <1>24 DEF Report, server, up, history
<1>25. CASE \E p \in Pids : Close(p)
  BY <1>25 DEF Close, up, history
<1>26. CASE \E p \in Pids : Exit(p)
  BY <1>26 DEF Exit, Dies, up
<1>27. CASE \E p \in Pids : ServerDies(p)
  BY <1>27 DEF ServerDies, Servers, Dies, up
<1>28. CASE \E p \in Pids : StrangerListens(p)
  BY <1>28 DEF StrangerListens, server, up, history
<1>29. CASE \E p \in Pids : StrangerEnds(p)
  BY <1>29 DEF StrangerEnds, Dies, up
<1>30. CASE UNCHANGED vars
  BY <1>30 DEF vars, server, up, history
<1>31. QED
  BY <1>1, <1>2, <1>3, <1>4, <1>5, <1>6, <1>7, <1>8, <1>9, <1>10, <1>11,
     <1>12, <1>13, <1>14, <1>15, <1>16, <1>17, <1>18, <1>19, <1>20, <1>21,
     <1>22, <1>23, <1>24, <1>25, <1>26, <1>27, <1>28, <1>29, <1>30 DEF Next

\* A listening server keeps the port, and the pid file once it has written it.
LEMMA PortStep ==
  TypeOK /\ CommandInv /\ PortInv /\ [Next]_vars => PortInv'
<1> SUFFICES ASSUME TypeOK /\ CommandInv /\ PortInv, [Next]_vars
             PROVE  PortInv'
  OBVIOUS
<1> USE BridgeAssumption DEF TypeOK, CommandInv, PortInv, ServerPhases, Listening
<1>1. CASE Begin
  BY <1>1 DEF Begin, FreePids, server, history
<1>2. CASE RequestStop
  BY <1>2 DEF RequestStop, Servers, Goto, history
<1>3. CASE RequestTimeout
  BY <1>3 DEF RequestTimeout, Goto, server, history
<1>4. CASE ReadPid
  BY <1>4 DEF ReadPid, Goto, LoseSight, server, history
<1>5. CASE Await
  BY <1>5 DEF Await, Running, Goto, server, history
<1>6. CASE Lookup
  BY <1>6 DEF Lookup, Goto, LoseSight, server
<1>7. CASE CallFails
  BY <1>7 DEF CallFails, Goto, server, history
<1>8. CASE Judge
  BY <1>8 DEF Judge, Goto, Running, CanForceStop, server, history
<1>9. CASE Terminate
  BY <1>9 DEF Terminate, Goto, Servers, history, Running, server, Dies
<1>10. CASE Terminated
  BY <1>10 DEF Terminated, Running, Goto, server, history
<1>11. CASE Kill
  BY <1>11 DEF Kill, Running, Servers, Dies, Goto
<1>12. CASE WriteStarting
  BY <1>12 DEF WriteStarting, Goto, server, history
<1>13. CASE Spawn
  BY <1>13 DEF Spawn, FreePids, history
<1>14. CASE Connect
  BY <1>14 DEF Connect, Goto, server, history
<1>15. CASE WaitTimeout
  BY <1>15 DEF WaitTimeout, Goto, server, history
<1>16. CASE Abandon
  BY <1>16 DEF Abandon, Goto, Servers, Dies, server
<1>17. CASE Return
  BY <1>17 DEF Return, Forget, LoseSight, Unheard, server
<1>18. CASE Killed
  BY <1>18 DEF Killed, Forget, LoseSight, Unheard, server
<1>19. CASE StrangerStarts
  BY <1>19 DEF StrangerStarts, FreePids, server, up, history
<1>20. CASE \E p \in Pids : Bind(p)
  BY <1>20 DEF Bind, server, Dies, up
<1>21. CASE \E p \in Pids : WritePID(p)
  BY <1>21 DEF WritePID, server, up, history
<1>22. CASE \E p \in Pids : Announce(p)
  BY <1>22 DEF Announce, server, up, history
<1>23. CASE \E p \in Pids : HandleStop(p)
  BY <1>23 DEF HandleStop, Goto, up, history
<1>24. CASE \E p \in Pids : Report(p)
  BY <1>24 DEF Report, server, up, history
<1>25. CASE \E p \in Pids : Close(p)
  BY <1>25 DEF Close, up, history
<1>26. CASE \E p \in Pids : Exit(p)
  BY <1>26 DEF Exit, Dies, up
<1>27. CASE \E p \in Pids : ServerDies(p)
  BY <1>27 DEF ServerDies, Servers, Dies, up
<1>28. CASE \E p \in Pids : StrangerListens(p)
  BY <1>28 DEF StrangerListens, server, up, history
<1>29. CASE \E p \in Pids : StrangerEnds(p)
  BY <1>29 DEF StrangerEnds, Dies, up
<1>30. CASE UNCHANGED vars
  BY <1>30 DEF vars, server, up, history
<1>31. QED
  BY <1>1, <1>2, <1>3, <1>4, <1>5, <1>6, <1>7, <1>8, <1>9, <1>10, <1>11,
     <1>12, <1>13, <1>14, <1>15, <1>16, <1>17, <1>18, <1>19, <1>20, <1>21,
     <1>22, <1>23, <1>24, <1>25, <1>26, <1>27, <1>28, <1>29, <1>30 DEF Next

\* An up keeps its pid and its child.
LEMMA CommandStep ==
  TypeOK /\ CommandInv /\ [Next]_vars => CommandInv'
<1> SUFFICES ASSUME TypeOK /\ CommandInv, [Next]_vars
             PROVE  CommandInv'
  OBVIOUS
<1> USE BridgeAssumption DEF TypeOK, CommandInv, Waiting, Chasing, Servers, ServerPhases
<1>1. CASE Begin
  BY <1>1 DEF Begin, FreePids, server, history
<1>2. CASE RequestStop
  BY <1>2 DEF RequestStop, Goto, history
<1>3. CASE RequestTimeout
  BY <1>3 DEF RequestTimeout, Goto, server, history
<1>4. CASE ReadPid
  BY <1>4 DEF ReadPid, Goto, LoseSight, server, history
<1>5. CASE Await
  BY <1>5 DEF Await, Running, Goto, server, history
<1>6. CASE Lookup
  BY <1>6 DEF Lookup, Goto, LoseSight, server
<1>7. CASE CallFails
  BY <1>7 DEF CallFails, Goto, server, history
<1>8. CASE Judge
  BY <1>8 DEF Judge, Goto, Running, CanForceStop, server, history
<1>9. CASE Terminate
  BY <1>9 DEF Terminate, Goto, history, Running, server, Dies
<1>10. CASE Terminated
  BY <1>10 DEF Terminated, Running, Goto, server, history
<1>11. CASE Kill
  BY <1>11 DEF Kill, Running, Dies, Goto
<1>12. CASE WriteStarting
  BY <1>12 DEF WriteStarting, Goto, server, history
<1>13. CASE Spawn
  BY <1>13 DEF Spawn, FreePids, history
<1>14. CASE Connect
  BY <1>14 DEF Connect, Goto, server, history
<1>15. CASE WaitTimeout
  BY <1>15 DEF WaitTimeout, Goto, server, history
<1>16. CASE Abandon
  BY <1>16 DEF Abandon, Goto, Dies, server
<1>17. CASE Return
  BY <1>17 DEF Return, Forget, LoseSight, Unheard, server
<1>18. CASE Killed
  BY <1>18 DEF Killed, Forget, LoseSight, Unheard, server
<1>19. CASE StrangerStarts
  BY <1>19 DEF StrangerStarts, FreePids, server, up, history
<1>20. CASE \E p \in Pids : Bind(p)
  BY <1>20 DEF Bind, server, Dies, up
<1>21. CASE \E p \in Pids : WritePID(p)
  BY <1>21 DEF WritePID, server, up, history
<1>22. CASE \E p \in Pids : Announce(p)
  BY <1>22 DEF Announce, server, up, history
<1>23. CASE \E p \in Pids : HandleStop(p)
  BY <1>23 DEF HandleStop, Goto, up, history
<1>24. CASE \E p \in Pids : Report(p)
  BY <1>24 DEF Report, server, up, history
<1>25. CASE \E p \in Pids : Close(p)
  BY <1>25 DEF Close, up, history
<1>26. CASE \E p \in Pids : Exit(p)
  BY <1>26 DEF Exit, Dies, up
<1>27. CASE \E p \in Pids : ServerDies(p)
  BY <1>27 DEF ServerDies, Dies, up
<1>28. CASE \E p \in Pids : StrangerListens(p)
  BY <1>28 DEF StrangerListens, server, up, history
<1>29. CASE \E p \in Pids : StrangerEnds(p)
  BY <1>29 DEF StrangerEnds, Dies, up
<1>30. CASE UNCHANGED vars
  BY <1>30 DEF vars, server, up, history
<1>31. QED
  BY <1>1, <1>2, <1>3, <1>4, <1>5, <1>6, <1>7, <1>8, <1>9, <1>10, <1>11,
     <1>12, <1>13, <1>14, <1>15, <1>16, <1>17, <1>18, <1>19, <1>20, <1>21,
     <1>22, <1>23, <1>24, <1>25, <1>26, <1>27, <1>28, <1>29, <1>30 DEF Next

\* No server but the one in charge and the one just spawned comes to listen.
LEMMA KnownStep ==
  TypeOK /\ PortInv /\ CommandInv /\ KnownInv /\ [Next]_vars => KnownInv'
<1> SUFFICES ASSUME TypeOK /\ PortInv /\ CommandInv /\ KnownInv, [Next]_vars
             PROVE  KnownInv'
  OBVIOUS
<1> USE BridgeAssumption
       DEF TypeOK, PortInv, CommandInv, KnownInv, Known, Waiting, Chasing
<1>1. CASE Begin
  BY <1>1 DEF Begin, Listening, FreePids, server, history
<1>2. CASE RequestStop
  BY <1>2 DEF RequestStop, Listening, Servers, Goto, history, ServerPhases
<1>3. CASE RequestTimeout
  BY <1>3 DEF RequestTimeout, Listening, Goto, server, history
<1>4. CASE ReadPid
  BY <1>4 DEF ReadPid, Listening, Goto, LoseSight, Servers, server, history,
     ServerPhases
<1>5. CASE Await
  BY <1>5 DEF Await, Listening, Running, Goto, server, history
<1>6. CASE Lookup
  BY <1>6 DEF Lookup, Listening, Goto, LoseSight, server
<1>7. CASE CallFails
  BY <1>7 DEF CallFails, Listening, Goto, server, history
<1>8. CASE Judge
  BY <1>8 DEF Judge, Listening, Goto, Running, CanForceStop, server, history
<1>9. CASE Terminate
  BY <1>9 DEF Terminate, Listening, Goto, Servers, history, Running, server,
     Dies, ServerPhases
<1>10. CASE Terminated
  BY <1>10 DEF Terminated, Listening, Running, Goto, server, history
<1>11. CASE Kill
  BY <1>11 DEF Kill, Listening, Running, Servers, Dies, Goto, ServerPhases
<1>12. CASE WriteStarting
  BY <1>12 DEF WriteStarting, Listening, Goto, server, history
<1>13. CASE Spawn
  BY <1>13 DEF Spawn, Listening, FreePids, history
<1>14. CASE Connect
  BY <1>14 DEF Connect, Listening, Goto, server, history
<1>15. CASE WaitTimeout
  BY <1>15 DEF WaitTimeout, Listening, Goto, server, history
<1>16. CASE Abandon
  BY <1>16 DEF Abandon, Listening, Goto, Servers, Dies, server, ServerPhases
<1>17. CASE Return
  BY <1>17 DEF Return, Listening, Forget, LoseSight, Unheard, server
<1>18. CASE Killed
  BY <1>18 DEF Killed, Listening, Forget, LoseSight, Unheard, server
<1>19. CASE StrangerStarts
  BY <1>19 DEF StrangerStarts, Listening, FreePids, server, up, history
<1>20. CASE \E p \in Pids : Bind(p)
  BY <1>20 DEF Bind, Listening, server, Dies, up
<1>21. CASE \E p \in Pids : WritePID(p)
  BY <1>21 DEF WritePID, Listening, server, up, history
<1>22. CASE \E p \in Pids : Announce(p)
  BY <1>22 DEF Announce, Listening, server, up, history
<1>23. CASE \E p \in Pids : HandleStop(p)
  BY <1>23 DEF HandleStop, Listening, Goto, up, history
<1>24. CASE \E p \in Pids : Report(p)
  BY <1>24 DEF Report, Listening, server, up, history
<1>25. CASE \E p \in Pids : Close(p)
  BY <1>25 DEF Close, Listening, up, history
<1>26. CASE \E p \in Pids : Exit(p)
  BY <1>26 DEF Exit, Listening, Dies, up
<1>27. CASE \E p \in Pids : ServerDies(p)
  BY <1>27 DEF ServerDies, Listening, Servers, Dies, up, ServerPhases
<1>28. CASE \E p \in Pids : StrangerListens(p)
  BY <1>28 DEF StrangerListens, Listening, server, up, history
<1>29. CASE \E p \in Pids : StrangerEnds(p)
  BY <1>29 DEF StrangerEnds, Listening, Dies, up
<1>30. CASE UNCHANGED vars
  BY <1>30 DEF vars, Listening, server, up, history
<1>31. QED
  BY <1>1, <1>2, <1>3, <1>4, <1>5, <1>6, <1>7, <1>8, <1>9, <1>10, <1>11,
     <1>12, <1>13, <1>14, <1>15, <1>16, <1>17, <1>18, <1>19, <1>20, <1>21,
     <1>22, <1>23, <1>24, <1>25, <1>26, <1>27, <1>28, <1>29, <1>30 DEF Next

\* There is one server, and what it wrote to the status file stays.
LEMMA SoleStep ==
  TypeOK /\ PortInv /\ CommandInv /\ SoleInv /\ [Next]_vars => SoleInv'
<1> SUFFICES ASSUME TypeOK /\ PortInv /\ CommandInv /\ SoleInv, [Next]_vars
             PROVE  SoleInv'
  OBVIOUS
<1> USE BridgeAssumption
       DEF TypeOK, PortInv, CommandInv, SoleInv, Servers, ServerPhases, Waiting, Chasing
<1>1. CASE Begin
  BY <1>1 DEF Begin, Listening, FreePids, server, history
<1>2. CASE RequestStop
  BY <1>2 DEF RequestStop, Listening, Goto, history
<1>3. CASE RequestTimeout
  BY <1>3 DEF RequestTimeout, Listening, Goto, server, history
<1>4. CASE ReadPid
  <2> SUFFICES ASSUME ~lost'
               PROVE  SoleInv'
    OBVIOUS
  <2>1. CASE pidFile \in {NoPid, self} /\ Goto("write") /\ UNCHANGED history
    BY <1>4, <2>1 DEF ReadPid, Listening, Goto, server, history
  <2>2. CASE pidFile \notin {NoPid, self} /\ victim' = pidFile /\ pc' = "await"
             /\ UNCHANGED <<self, want, child, history>>
    BY <1>4, <2>2 DEF ReadPid, Listening, server, history
  <2>3. CASE Goto("write") /\ LoseSight(Servers \cap {pidFile})
    <3>1. ~lost /\ Servers \cap {pidFile} = {}
      BY <2>3 DEF LoseSight
    <3>2. Servers = {}
      BY <1>4, <3>1 DEF ReadPid
    <3>3. QED
      BY <1>4, <2>3, <3>1, <3>2 DEF ReadPid, Goto, server
  <2>4. QED
    BY <1>4, <2>1, <2>2, <2>3 DEF ReadPid
<1>5. CASE Await
  BY <1>5 DEF Await, Listening, Running, Goto, server, history
<1>6. CASE Lookup
  <2> SUFFICES ASSUME ~lost'
               PROVE  SoleInv'
    OBVIOUS
  <2>1. ~lost /\ {p \in Pids \ {pidFile} : proc[p] = "bound"} = {}
    BY <1>6 DEF Lookup, LoseSight
  <2>2. \A p \in Servers : p = pidFile
    BY <1>6, <2>1 DEF Lookup, Listening
  <2>3. QED
    BY <1>6, <2>1, <2>2 DEF Lookup, Goto, server
<1>7. CASE CallFails
  BY <1>7 DEF CallFails, Listening, Goto, server, history
<1>8. CASE Judge
  BY <1>8 DEF Judge, Listening, Goto, Running, CanForceStop, server, history
<1>9. CASE Terminate
  BY <1>9 DEF Terminate, Listening, Goto, history, Running, server, Dies
<1>10. CASE Terminated
  BY <1>10 DEF Terminated, Listening, Running, Goto, server, history
<1>11. CASE Kill
  BY <1>11 DEF Kill, Listening, Running, Dies, Goto
<1>12. CASE WriteStarting
  BY <1>12 DEF WriteStarting, Listening, Goto, server, history
<1>13. CASE Spawn
  BY <1>13 DEF Spawn, Listening, FreePids, history
<1>14. CASE Connect
  BY <1>14 DEF Connect, Listening, Goto, server, history
<1>15. CASE WaitTimeout
  BY <1>15 DEF WaitTimeout, Listening, Goto, server, history
<1>16. CASE Abandon
  BY <1>16 DEF Abandon, Listening, Goto, Dies, server
<1>17. CASE Return
  BY <1>17 DEF Return, Listening, Forget, LoseSight, Unheard, server
<1>18. CASE Killed
  BY <1>18 DEF Killed, Listening, Forget, LoseSight, Unheard, server
<1>19. CASE StrangerStarts
  BY <1>19 DEF StrangerStarts, Listening, FreePids, server, up, history
<1>20. CASE \E p \in Pids : Bind(p)
  BY <1>20 DEF Bind, Listening, server, Dies, up
<1>21. CASE \E p \in Pids : WritePID(p)
  BY <1>21 DEF WritePID, Listening, server, up, history
<1>22. CASE \E p \in Pids : Announce(p)
  BY <1>22 DEF Announce, Listening, server, up, history
<1>23. CASE \E p \in Pids : HandleStop(p)
  BY <1>23 DEF HandleStop, Listening, Goto, up, history
<1>24. CASE \E p \in Pids : Report(p)
  BY <1>24 DEF Report, Listening, server, up, history
<1>25. CASE \E p \in Pids : Close(p)
  BY <1>25 DEF Close, Listening, up, history
<1>26. CASE \E p \in Pids : Exit(p)
  BY <1>26 DEF Exit, Listening, Dies, up
<1>27. CASE \E p \in Pids : ServerDies(p)
  BY <1>27 DEF ServerDies, Listening, Dies, up
<1>28. CASE \E p \in Pids : StrangerListens(p)
  BY <1>28 DEF StrangerListens, Listening, server, up, history
<1>29. CASE \E p \in Pids : StrangerEnds(p)
  BY <1>29 DEF StrangerEnds, Listening, Dies, up
<1>30. CASE UNCHANGED vars
  BY <1>30 DEF vars, Listening, server, up, history
<1>31. QED
  BY <1>1, <1>2, <1>3, <1>4, <1>5, <1>6, <1>7, <1>8, <1>9, <1>10, <1>11,
     <1>12, <1>13, <1>14, <1>15, <1>16, <1>17, <1>18, <1>19, <1>20, <1>21,
     <1>22, <1>23, <1>24, <1>25, <1>26, <1>27, <1>28, <1>29, <1>30 DEF Next

-----------------------------------------------------------------------------
(* Theorems. *)

\* The conjunction that every step keeps.
BridgeInv == TypeOK /\ PortInv /\ CommandInv /\ KnownInv /\ SoleInv

\* It holds in every reachable state.
LEMMA Inductive == Spec => []BridgeInv
<1>1. Init => BridgeInv
  BY InitTypeOK, BridgeAssumption
     DEF Init, BridgeInv, PortInv, CommandInv, KnownInv, SoleInv, Known, Servers,
         ServerPhases, Chasing, Waiting
<1>2. BridgeInv /\ [Next]_vars => BridgeInv'
  BY TypeStep, PortStep, CommandStep, KnownStep, SoleStep DEF BridgeInv
<1>3. QED
  BY <1>1, <1>2, PTL DEF Spec

\* The variables keep their types, and only a process that listens has the
\* port, for any number of processes.
THEOREM TypeCorrect == Spec => []TypeOK
<1>1. BridgeInv => TypeOK
  BY DEF BridgeInv
<1>2. QED
  BY <1>1, Inductive, PTL

\* The pid file names the server that serves, so that the next up can find
\* it, for any number of processes that come, die and reuse pids.
THEOREM PidFileIsRight == Spec => []PidFileNamesServer
<1>1. BridgeInv => PidFileNamesServer
  BY DEF BridgeInv, PortInv, PidFileNamesServer
<1>2. QED
  BY <1>1, Inductive, PTL

\* A server that bridge.Start finds listening is one for the container of
\* this up, unless an earlier up lost sight of it.
THEOREM StartIsServed == Spec => []StartedServes
<1>1. BridgeInv => StartedServes
  <2> SUFFICES ASSUME BridgeInv, pc = "ok", port \in Servers \ astray
               PROVE  serves[port] = want
    BY DEF StartedServes
  <2>1. port \in Known
    BY BridgeAssumption DEF BridgeInv, TypeOK, Servers, ServerPhases, Listening, Known
  <2>2. port = child
    BY <2>1 DEF BridgeInv, KnownInv, Waiting
  <2>3. QED
    BY <2>2 DEF BridgeInv, CommandInv, Waiting
<1>2. QED
  BY <1>1, Inductive, PTL

\* A server left behind by a finished up is named by the pid file and by the
\* status file, as long as no up lost sight of one.
THEOREM ServerIsStoppable == Spec => []Stoppable
<1>1. BridgeInv => Stoppable
  BY DEF BridgeInv, PortInv, SoleInv, Servers, ServerPhases, Stoppable
<1>2. QED
  BY <1>1, Inductive, PTL
=============================================================================
