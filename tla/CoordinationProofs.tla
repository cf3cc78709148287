------------------------- MODULE CoordinationProofs -------------------------
(***************************************************************************)
(* Theorems about Coordination, for every set of processes, every placing  *)
(* on hosts, every lease and every bound.                                  *)
(***************************************************************************)
EXTENDS Coordination, TLAPS

-----------------------------------------------------------------------------
(* Type correctness. *)

\* The constant records are records, and clearing or defaulting keeps them so.
LEMMA RecordFacts ==
  /\ Absent \in Record /\ Fresh \in Record
  /\ \A r \in Record : ReadOrFresh(r) \in Record /\ Cleared(r) \in Record
  /\ \A r \in Record, n \in Nat : [r EXCEPT !.lease = n] \in Record
  /\ \A st \in {"missing", "corrupt"} : [Absent EXCEPT !.st = st] \in Record
BY DEF Absent, Fresh, Record, Owner, ReadOrFresh, Cleared

\* Clearing a record keeps its generation and removes its owner.
LEMMA ClearedFacts ==
  \A r \in Record : /\ Cleared(r).owner = NoOwner
                     /\ Cleared(r).gen = r.gen /\ Cleared(r).st = r.st
BY DEF Record, Cleared

\* What an acquisition publishes is a record.
LEMMA PublishedType ==
  ASSUME TypeOK, NEW p \in Proc
  PROVE  Published(p) \in Record
BY DEF TypeOK, Record, Published, Owner

\* Every step keeps the types.
LEMMA TypeStep == TypeOK /\ [Next]_vars => TypeOK'
<1> SUFFICES ASSUME TypeOK, [Next]_vars PROVE TypeOK'
  OBVIOUS
<1>a. Fresh \in Record
  BY RecordFacts
<1>b. \A r \in Record : ReadOrFresh(r) \in Record
  BY RecordFacts
<1>c. \A r \in Record : Cleared(r) \in Record
  BY RecordFacts
<1> USE DEF Proc, TypeOK, Owner, Phases, Gone, Goto, Exit, renewal, history
<1>1. ASSUME NEW p \in Mutators, Start(p) PROVE TypeOK'
  BY <1>1, ConstantsAssumption DEF Start
<1>2. ASSUME NEW p \in Mutators, CancelStart(p) PROVE TypeOK'
  BY <1>2, <1>a DEF CancelStart
<1>3. ASSUME NEW p \in Mutators, TryLock(p) PROVE TypeOK'
  <2>1. Ended \in SUBSET Mutators
    BY DEF Ended
  <2>2. CASE flock = NoOwner
    BY <1>3, <2>2 DEF TryLock
  <2>3. CASE flock # NoOwner
    BY <1>3, <2>1, <2>3 DEF TryLock
  <2>4. QED BY <2>2, <2>3
<1>4. ASSUME NEW p \in Mutators, AcqRead(p) PROVE TypeOK'
  BY <1>4, <1>b DEF AcqRead
<1>5. ASSUME NEW p \in Mutators, AcqWrite(p) PROVE TypeOK'
  BY <1>5, PublishedType, ConstantsAssumption DEF AcqWrite
<1>6. ASSUME NEW p \in Mutators, AcqWriteFails(p) PROVE TypeOK'
  BY <1>6, PublishedType, <1>a DEF AcqWriteFails, FailedWrite
<1>7. ASSUME NEW p \in Mutators, Finish(p) PROVE TypeOK'
  BY <1>7 DEF Finish
<1>8. ASSUME NEW p \in Mutators, RelRead(p) PROVE TypeOK'
  BY <1>8, <1>b DEF RelRead
<1>9. ASSUME NEW p \in Mutators, RelWrite(p) PROVE TypeOK'
  BY <1>9, <1>c DEF RelWrite
<1>10. ASSUME NEW p \in Mutators, RelWriteFails(p) PROVE TypeOK'
  BY <1>10, <1>a, <1>c DEF RelWriteFails, FailedWrite
<1>11. ASSUME NEW p \in Mutators, Unlock(p) PROVE TypeOK'
  BY <1>11, <1>a DEF Unlock
<1>12. ASSUME NEW p \in Mutators, RenewRead(p) PROVE TypeOK'
  <2>1. [rec EXCEPT !.lease = now + LeaseDuration] \in Record
    <3>1. now + LeaseDuration \in Nat
      BY ConstantsAssumption
    <3>2. QED BY <3>1, RecordFacts
  <2>2. rbuf' \in [Proc -> Record]
    BY <1>12, <2>1 DEF RenewRead
  <2>3. renewer' \in [Proc -> {"off", "ticking", "writing", "stopped",
                               "failed"}]
    BY <1>12 DEF RenewRead
  <2>4. due' \in [Proc -> Nat]
    BY <1>12, ConstantsAssumption DEF RenewRead
  <2>5. QED BY <1>12, <2>2, <2>3, <2>4 DEF RenewRead
<1>13. ASSUME NEW p \in Mutators, RenewWrite(p) PROVE TypeOK'
  BY <1>13, <1>a DEF RenewWrite
<1>14. ASSUME NEW p \in Mutators, RenewWriteFails(p) PROVE TypeOK'
  BY <1>14, <1>a DEF RenewWriteFails, FailedWrite
<1>15. ASSUME NEW p \in Mutators, RenewStop(p) PROVE TypeOK'
  BY <1>15 DEF RenewStop
<1>16. ASSUME NEW e \in Executors, Probe(e) PROVE TypeOK'
  BY <1>16 DEF Probe, Ended
<1>17. ASSUME NEW e \in Executors, ProbeUnlock(e) PROVE TypeOK'
  BY <1>17 DEF ProbeUnlock
<1>18. ASSUME NEW e \in Executors, ExecObserve(e) PROVE TypeOK'
  <2>1. rec.owner \in Owner /\ ObservedRecord \in Record
    BY <1>a DEF ObservedRecord, Record
  <2>2. CASE rec.st = "corrupt"
    BY <1>a, <1>18, <2>2 DEF ExecObserve
  <2>3. CASE rec.st # "corrupt" /\ ObservedRecord.owner # NoOwner
    BY <1>a, <1>18, <2>1, <2>3 DEF ExecObserve
  <2>4. CASE rec.st # "corrupt" /\ ObservedRecord.owner = NoOwner
    <3>1. overlap' \in [Executors -> BOOLEAN]
      BY <1>18, <2>4 DEF ExecObserve
    <3>2. /\ Goto(e, "observed")
          /\ buf' = [buf EXCEPT ![e] = ObservedRecord]
          /\ UNCHANGED <<result, report, stamp, due>>
          /\ UNCHANGED <<flock, rec, stateDir, now, renewer, rbuf, misrepaired,
                         damage, gone>>
      BY ONLY <1>18, <2>4 DEF ExecObserve
    <3>3. QED BY <2>1, <3>1, <3>2
  <2>5. QED BY <2>2, <2>3, <2>4
<1>19. ASSUME NEW e \in Executors, ExecAbort(e) PROVE TypeOK'
  BY <1>19, <1>a DEF ExecAbort
<1>20. ASSUME NEW e \in Executors, ExecRevalidate(e) PROVE TypeOK'
  <2>1. CASE rec.st = "corrupt"
    BY <1>a, <1>20, <2>1 DEF ExecRevalidate
  <2>2. CASE rec.st # "corrupt" /\ ~StillValid(e)
    BY <1>a, <1>20, <2>2 DEF ExecRevalidate
  <2>3. CASE rec.st # "corrupt" /\ StillValid(e)
    BY <1>20, <2>3 DEF ExecRevalidate
  <2>4. QED BY <2>1, <2>2, <2>3
<1>21. ASSUME NEW e \in Executors, ExecFinish(e) PROVE TypeOK'
  BY <1>21, <1>a DEF ExecFinish
<1>22. ASSUME NEW p \in Proc, BusyRead(p) PROVE TypeOK'
  <2>1. CASE rec.st = "ok"
    BY <1>a, <1>22, <2>1 DEF BusyRead
  <2>2. CASE rec.st # "ok"
    BY <1>a, <1>22, <2>2 DEF BusyRead
  <2>3. QED BY <2>1, <2>2
<1>23. ASSUME NEW p \in Proc, BusyJudge(p) PROVE TypeOK'
  <2>1. buf[p].owner \in Owner
    BY DEF Record
  <2>2. PICK running \in IF buf[p].owner = NoOwner THEN {FALSE}
                        ELSE ProcessRunning(buf[p].owner) :
          \/ /\ ToClear(p, buf[p], running)
             /\ Goto(p, "repair")
             /\ UNCHANGED <<buf, result, report, stamp, due>>
          \/ /\ ~ToClear(p, buf[p], running)
             /\ report' = [report EXCEPT ![p] = buf[p].owner]
             /\ Exit(p, "busy")
    BY <1>23 DEF BusyJudge
  <2>3. UNCHANGED <<flock, rec, stateDir, now, renewer, rbuf, history>>
    BY <1>23 DEF BusyJudge
  <2>4. CASE ToClear(p, buf[p], running)
    BY <2>2, <2>3, <2>4
  <2>5. CASE ~ToClear(p, buf[p], running)
    BY <1>a, <2>1, <2>2, <2>3, <2>5
  <2>6. QED BY <2>4, <2>5
<1>24. ASSUME NEW p \in Proc, RepairWrite(p) PROVE TypeOK'
  BY <1>24, <1>a, <1>c DEF RepairWrite
<1>25. ASSUME NEW p \in Proc, RepairWriteFails(p) PROVE TypeOK'
  BY <1>25, <1>a, <1>c DEF RepairWriteFails, FailedWrite
<1>26. ASSUME NEW p \in Proc, Crash(p) PROVE TypeOK'
  BY <1>26, <1>a DEF Crash
<1>27. ASSUME Tick PROVE TypeOK'
  BY <1>27 DEF Tick
<1>28. ASSUME Damage PROVE TypeOK'
  <2>1. rec' \in Record
    BY ONLY <1>28, RecordFacts DEF Damage
  <2>2. QED BY <1>28, <2>1 DEF Damage
<1>29. CASE UNCHANGED vars
  BY <1>29 DEF vars
<1> QED
  BY ONLY [Next]_vars, <1>1, <1>2, <1>3, <1>4, <1>5, <1>6, <1>7, <1>8, <1>9,
     <1>10, <1>11, <1>12, <1>13, <1>14, <1>15, <1>16, <1>17, <1>18, <1>19,
     <1>20, <1>21, <1>22, <1>23, <1>24, <1>25, <1>26, <1>27, <1>28, <1>29
     DEF Next, MutatorStep, RenewStep, ExecutorStep, RefusedStep, AllEnded

\* The initial state is well typed.
LEMMA InitTypeOK == Init => TypeOK
<1> SUFFICES ASSUME Init PROVE TypeOK
  OBVIOUS
<1>1. rec \in Record /\ Fresh \in Record
  BY RecordFacts DEF Init
<1>2. QED
  BY <1>1, ConstantsAssumption DEF Init, TypeOK, Owner, Phases, Gone, Proc

\* The variables keep their types.
THEOREM TypeCorrect == Spec => []TypeOK
BY InitTypeOK, TypeStep, PTL DEF Spec

-----------------------------------------------------------------------------
(* Mutual exclusion. *)

\* Every step keeps the flock with the one process that is where it holds it.
LEMMA FlockStep == TypeOK /\ FlockInv /\ [Next]_vars => FlockInv'
<1> SUFFICES ASSUME TypeOK, FlockInv, [Next]_vars PROVE FlockInv'
  OBVIOUS
<1>t. pc \in [Proc -> Phases] /\ flock \in Proc \cup {NoOwner}
  BY DEF TypeOK, Owner
<1>c. Mutators \cap Executors = {} /\ NoOwner \notin Proc
  BY ConstantsAssumption DEF Proc
<1> USE DEF Proc, FlockInv, Holding, Gone, Goto, Exit
<1>1. ASSUME NEW p \in Mutators, Start(p) PROVE FlockInv'
  BY <1>1, <1>t, <1>c DEF Start
<1>2. ASSUME NEW p \in Mutators, CancelStart(p) PROVE FlockInv'
  BY <1>2, <1>t, <1>c DEF CancelStart
<1>3. ASSUME NEW p \in Mutators, TryLock(p) PROVE FlockInv'
  BY <1>3, <1>t, <1>c DEF TryLock
<1>4. ASSUME NEW p \in Mutators, AcqRead(p) PROVE FlockInv'
  BY <1>4, <1>t, <1>c DEF AcqRead
<1>5. ASSUME NEW p \in Mutators, AcqWrite(p) PROVE FlockInv'
  BY <1>5, <1>t, <1>c DEF AcqWrite
<1>6. ASSUME NEW p \in Mutators, AcqWriteFails(p) PROVE FlockInv'
  BY <1>6, <1>t, <1>c DEF AcqWriteFails
<1>7. ASSUME NEW p \in Mutators, Finish(p) PROVE FlockInv'
  BY <1>7, <1>t, <1>c DEF Finish
<1>8. ASSUME NEW p \in Mutators, RelRead(p) PROVE FlockInv'
  BY <1>8, <1>t, <1>c DEF RelRead
<1>9. ASSUME NEW p \in Mutators, RelWrite(p) PROVE FlockInv'
  BY <1>9, <1>t, <1>c DEF RelWrite
<1>10. ASSUME NEW p \in Mutators, RelWriteFails(p) PROVE FlockInv'
  BY <1>10, <1>t, <1>c DEF RelWriteFails
<1>11. ASSUME NEW p \in Mutators, Unlock(p) PROVE FlockInv'
  BY <1>11, <1>t, <1>c DEF Unlock
<1>12. ASSUME NEW p \in Mutators, RenewRead(p) PROVE FlockInv'
  BY <1>12, <1>t, <1>c DEF RenewRead
<1>13. ASSUME NEW p \in Mutators, RenewWrite(p) PROVE FlockInv'
  BY <1>13, <1>t, <1>c DEF RenewWrite
<1>14. ASSUME NEW p \in Mutators, RenewWriteFails(p) PROVE FlockInv'
  BY <1>14, <1>t, <1>c DEF RenewWriteFails
<1>15. ASSUME NEW p \in Mutators, RenewStop(p) PROVE FlockInv'
  BY <1>15, <1>t, <1>c DEF RenewStop
<1>16. ASSUME NEW e \in Executors, Probe(e) PROVE FlockInv'
  BY <1>16, <1>t, <1>c DEF Probe
<1>17. ASSUME NEW e \in Executors, ProbeUnlock(e) PROVE FlockInv'
  BY <1>17, <1>t, <1>c DEF ProbeUnlock
<1>18. ASSUME NEW e \in Executors, ExecObserve(e) PROVE FlockInv'
  BY <1>18, <1>t, <1>c DEF ExecObserve
<1>19. ASSUME NEW e \in Executors, ExecAbort(e) PROVE FlockInv'
  BY <1>19, <1>t, <1>c DEF ExecAbort
<1>20. ASSUME NEW e \in Executors, ExecRevalidate(e) PROVE FlockInv'
  BY <1>20, <1>t, <1>c DEF ExecRevalidate
<1>21. ASSUME NEW e \in Executors, ExecFinish(e) PROVE FlockInv'
  BY <1>21, <1>t, <1>c DEF ExecFinish
<1>22. ASSUME NEW p \in Proc, BusyRead(p) PROVE FlockInv'
  BY <1>22, <1>t, <1>c DEF BusyRead
<1>23. ASSUME NEW p \in Proc, BusyJudge(p) PROVE FlockInv'
  BY <1>23, <1>t, <1>c DEF BusyJudge
<1>24. ASSUME NEW p \in Proc, RepairWrite(p) PROVE FlockInv'
  BY <1>24, <1>t, <1>c DEF RepairWrite
<1>25. ASSUME NEW p \in Proc, RepairWriteFails(p) PROVE FlockInv'
  BY <1>25, <1>t, <1>c DEF RepairWriteFails
<1>26. ASSUME NEW p \in Proc, Crash(p) PROVE FlockInv'
  BY <1>26, <1>t, <1>c DEF Crash
<1>27. ASSUME Tick PROVE FlockInv'
  BY <1>27 DEF Tick
<1>28. ASSUME Damage PROVE FlockInv'
  BY <1>28 DEF Damage
<1>29. CASE UNCHANGED vars
  BY <1>29 DEF vars
<1> QED
  BY ONLY [Next]_vars, <1>1, <1>2, <1>3, <1>4, <1>5, <1>6, <1>7, <1>8,
     <1>9, <1>10, <1>11, <1>12, <1>13, <1>14, <1>15, <1>16, <1>17, <1>18,
     <1>19, <1>20, <1>21, <1>22, <1>23, <1>24, <1>25, <1>26, <1>27, <1>28,
     <1>29
     DEF Next, MutatorStep, RenewStep, ExecutorStep, RefusedStep, AllEnded

-----------------------------------------------------------------------------
(* The renewal goroutine. *)

\* Every step keeps the renewal goroutine inside the body or the release of its
\* process, with only its own ownership to write.
LEMMA RenewInvStep ==
  TypeOK /\ FlockInv /\ RenewInv /\ [Next]_vars => RenewInv'
<1> SUFFICES ASSUME TypeOK, FlockInv, RenewInv, [Next]_vars PROVE RenewInv'
  OBVIOUS
<1>t. /\ pc \in [Proc -> Phases] /\ renewer \in [Proc -> {"off", "ticking",
                         "writing", "stopped", "failed"}]
      /\ rbuf \in [Proc -> Record] /\ rec \in Record
  BY DEF TypeOK
<1>c. Mutators \cap Executors = {}
  BY ConstantsAssumption
<1> USE DEF Proc, FlockInv, RenewInv, Holding, Gone, Goto, Exit, renewal, history,
        Record, Fresh, Absent
<1>1. ASSUME NEW p \in Mutators, Start(p) PROVE RenewInv'
  BY <1>1, <1>t, <1>c DEF Start
<1>2. ASSUME NEW p \in Mutators, CancelStart(p) PROVE RenewInv'
  BY <1>2, <1>t, <1>c DEF CancelStart
<1>3. ASSUME NEW p \in Mutators, TryLock(p) PROVE RenewInv'
  BY <1>3, <1>t, <1>c DEF TryLock
<1>4. ASSUME NEW p \in Mutators, AcqRead(p) PROVE RenewInv'
  BY <1>4, <1>t, <1>c DEF AcqRead
<1>5. ASSUME NEW p \in Mutators, AcqWrite(p) PROVE RenewInv'
  BY <1>5, <1>t, <1>c DEF AcqWrite
<1>6. ASSUME NEW p \in Mutators, AcqWriteFails(p) PROVE RenewInv'
  BY <1>6, <1>t, <1>c DEF AcqWriteFails
<1>7. ASSUME NEW p \in Mutators, Finish(p) PROVE RenewInv'
  BY <1>7, <1>t, <1>c DEF Finish
<1>8. ASSUME NEW p \in Mutators, RelRead(p) PROVE RenewInv'
  BY <1>8, <1>t, <1>c DEF RelRead
<1>9. ASSUME NEW p \in Mutators, RelWrite(p) PROVE RenewInv'
  BY <1>9, <1>t, <1>c DEF RelWrite
<1>10. ASSUME NEW p \in Mutators, RelWriteFails(p) PROVE RenewInv'
  BY <1>10, <1>t, <1>c DEF RelWriteFails
<1>11. ASSUME NEW p \in Mutators, Unlock(p) PROVE RenewInv'
  BY <1>11, <1>t, <1>c DEF Unlock
<1>12. ASSUME NEW p \in Mutators, RenewRead(p) PROVE RenewInv'
  BY <1>12, <1>t, <1>c DEF RenewRead
<1>13. ASSUME NEW p \in Mutators, RenewWrite(p) PROVE RenewInv'
  BY <1>13, <1>t, <1>c DEF RenewWrite
<1>14. ASSUME NEW p \in Mutators, RenewWriteFails(p) PROVE RenewInv'
  BY <1>14, <1>t, <1>c DEF RenewWriteFails
<1>15. ASSUME NEW p \in Mutators, RenewStop(p) PROVE RenewInv'
  BY <1>15, <1>t, <1>c DEF RenewStop
<1>16. ASSUME NEW e \in Executors, Probe(e) PROVE RenewInv'
  BY <1>16, <1>t, <1>c DEF Probe
<1>17. ASSUME NEW e \in Executors, ProbeUnlock(e) PROVE RenewInv'
  BY <1>17, <1>t, <1>c DEF ProbeUnlock
<1>18. ASSUME NEW e \in Executors, ExecObserve(e) PROVE RenewInv'
  BY <1>18, <1>t, <1>c DEF ExecObserve
<1>19. ASSUME NEW e \in Executors, ExecAbort(e) PROVE RenewInv'
  BY <1>19, <1>t, <1>c DEF ExecAbort
<1>20. ASSUME NEW e \in Executors, ExecRevalidate(e) PROVE RenewInv'
  BY <1>20, <1>t, <1>c DEF ExecRevalidate
<1>21. ASSUME NEW e \in Executors, ExecFinish(e) PROVE RenewInv'
  BY <1>21, <1>t, <1>c DEF ExecFinish
<1>22. ASSUME NEW p \in Proc, BusyRead(p) PROVE RenewInv'
  BY <1>22, <1>t, <1>c DEF BusyRead
<1>23. ASSUME NEW p \in Proc, BusyJudge(p) PROVE RenewInv'
  BY <1>23, <1>t, <1>c DEF BusyJudge
<1>24. ASSUME NEW p \in Proc, RepairWrite(p) PROVE RenewInv'
  BY <1>24, <1>t, <1>c DEF RepairWrite
<1>25. ASSUME NEW p \in Proc, RepairWriteFails(p) PROVE RenewInv'
  BY <1>25, <1>t, <1>c DEF RepairWriteFails
<1>26. ASSUME NEW p \in Proc, Crash(p) PROVE RenewInv'
  BY <1>26, <1>t, <1>c DEF Crash
<1>27. ASSUME Tick PROVE RenewInv'
  BY <1>27 DEF Tick
<1>28. ASSUME Damage PROVE RenewInv'
  BY <1>28 DEF Damage
<1>29. CASE UNCHANGED vars
  BY <1>29 DEF vars
<1> QED
  BY ONLY [Next]_vars, <1>1, <1>2, <1>3, <1>4, <1>5, <1>6, <1>7, <1>8,
     <1>9, <1>10, <1>11, <1>12, <1>13, <1>14, <1>15, <1>16, <1>17, <1>18,
     <1>19, <1>20, <1>21, <1>22, <1>23, <1>24, <1>25, <1>26, <1>27, <1>28,
     <1>29
     DEF Next, MutatorStep, RenewStep, ExecutorStep, RefusedStep, AllEnded

-----------------------------------------------------------------------------
(* Readable records. *)

\* Every step keeps unreadable records empty, and none is ever about to be
\* written.
LEMMA RecordInvStep ==
  TypeOK /\ RenewInv /\ RecordInv /\ [Next]_vars => RecordInv'
<1> SUFFICES ASSUME TypeOK, RenewInv, RecordInv, [Next]_vars PROVE RecordInv'
  OBVIOUS
<1>t. pc \in [Proc -> Phases] /\ buf \in [Proc -> Record] /\ rec \in Record
      /\ renewer \in [Proc -> {"off", "ticking", "writing", "stopped",
                              "failed"}]
  BY DEF TypeOK
<1> USE DEF Proc, RenewInv, RecordInv, Goto, Exit, Record, Fresh, Absent,
        Published, Cleared, FailedWrite, ReadOrFresh, ObservedRecord
<1>1. ASSUME NEW p \in Mutators, Start(p) PROVE RecordInv'
  BY <1>1, <1>t DEF Start
<1>2. ASSUME NEW p \in Mutators, CancelStart(p) PROVE RecordInv'
  BY <1>2, <1>t DEF CancelStart
<1>3. ASSUME NEW p \in Mutators, TryLock(p) PROVE RecordInv'
  BY <1>3, <1>t DEF TryLock
<1>4. ASSUME NEW p \in Mutators, AcqRead(p) PROVE RecordInv'
  BY <1>4, <1>t DEF AcqRead
<1>5. ASSUME NEW p \in Mutators, AcqWrite(p) PROVE RecordInv'
  BY <1>5, <1>t DEF AcqWrite
<1>6. ASSUME NEW p \in Mutators, AcqWriteFails(p) PROVE RecordInv'
  BY <1>6, <1>t DEF AcqWriteFails
<1>7. ASSUME NEW p \in Mutators, Finish(p) PROVE RecordInv'
  BY <1>7, <1>t DEF Finish
<1>8. ASSUME NEW p \in Mutators, RelRead(p) PROVE RecordInv'
  BY <1>8, <1>t DEF RelRead
<1>9. ASSUME NEW p \in Mutators, RelWrite(p) PROVE RecordInv'
  BY <1>9, <1>t DEF RelWrite
<1>10. ASSUME NEW p \in Mutators, RelWriteFails(p) PROVE RecordInv'
  <2>1. Cleared(buf[p]).st = "ok"
    BY <1>t, ClearedFacts
  <2>2. rec' = rec \/ rec' = Cleared(buf[p])
    BY <1>10 DEF RelWriteFails
  <2>3. buf' = [buf EXCEPT ![p] = Fresh]
    BY <1>10 DEF RelWriteFails
  <2>4. QED BY <2>1, <2>2, <2>3, <1>t
<1>11. ASSUME NEW p \in Mutators, Unlock(p) PROVE RecordInv'
  BY <1>11, <1>t DEF Unlock
<1>12. ASSUME NEW p \in Mutators, RenewRead(p) PROVE RecordInv'
  BY <1>12, <1>t DEF RenewRead
<1>13. ASSUME NEW p \in Mutators, RenewWrite(p) PROVE RecordInv'
  BY <1>13, <1>t DEF RenewWrite
<1>14. ASSUME NEW p \in Mutators, RenewWriteFails(p) PROVE RecordInv'
  BY <1>14, <1>t DEF RenewWriteFails
<1>15. ASSUME NEW p \in Mutators, RenewStop(p) PROVE RecordInv'
  BY <1>15, <1>t DEF RenewStop
<1>16. ASSUME NEW e \in Executors, Probe(e) PROVE RecordInv'
  BY <1>16, <1>t DEF Probe
<1>17. ASSUME NEW e \in Executors, ProbeUnlock(e) PROVE RecordInv'
  BY <1>17, <1>t DEF ProbeUnlock
<1>18. ASSUME NEW e \in Executors, ExecObserve(e) PROVE RecordInv'
  BY <1>18, <1>t DEF ExecObserve
<1>19. ASSUME NEW e \in Executors, ExecAbort(e) PROVE RecordInv'
  BY <1>19, <1>t DEF ExecAbort
<1>20. ASSUME NEW e \in Executors, ExecRevalidate(e) PROVE RecordInv'
  BY <1>20, <1>t DEF ExecRevalidate
<1>21. ASSUME NEW e \in Executors, ExecFinish(e) PROVE RecordInv'
  BY <1>21, <1>t DEF ExecFinish
<1>22. ASSUME NEW p \in Proc, BusyRead(p) PROVE RecordInv'
  BY <1>22, <1>t DEF BusyRead
<1>23. ASSUME NEW p \in Proc, BusyJudge(p) PROVE RecordInv'
  BY <1>23, <1>t DEF BusyJudge
<1>24. ASSUME NEW p \in Proc, RepairWrite(p) PROVE RecordInv'
  BY <1>24, <1>t DEF RepairWrite
<1>25. ASSUME NEW p \in Proc, RepairWriteFails(p) PROVE RecordInv'
  BY <1>25, <1>t DEF RepairWriteFails
<1>26. ASSUME NEW p \in Proc, Crash(p) PROVE RecordInv'
  BY <1>26, <1>t DEF Crash
<1>27. ASSUME Tick PROVE RecordInv'
  BY <1>27 DEF Tick
<1>28. ASSUME Damage PROVE RecordInv'
  BY <1>28, <1>t DEF Damage
<1>29. CASE UNCHANGED vars
  BY <1>29 DEF vars
<1> QED
  BY ONLY [Next]_vars, <1>1, <1>2, <1>3, <1>4, <1>5, <1>6, <1>7, <1>8,
     <1>9, <1>10, <1>11, <1>12, <1>13, <1>14, <1>15, <1>16, <1>17, <1>18,
     <1>19, <1>20, <1>21, <1>22, <1>23, <1>24, <1>25, <1>26, <1>27, <1>28,
     <1>29
     DEF Next, MutatorStep, RenewStep, ExecutorStep, RefusedStep, AllEnded

-----------------------------------------------------------------------------
(* What Release leaves behind. *)

\* Every step keeps a process that is about to unlock out of the record.
LEMMA UnlockInvStep ==
  TypeOK /\ FlockInv /\ RenewInv /\ RecordInv /\ UnlockInv
    /\ [Next]_vars => UnlockInv'
<1> SUFFICES ASSUME TypeOK, FlockInv, RenewInv, RecordInv, UnlockInv, [Next]_vars PROVE UnlockInv'
  OBVIOUS
<1>t. pc \in [Proc -> Phases] /\ flock \in Proc \cup {NoOwner}
      /\ buf \in [Proc -> Record] /\ rec \in Record
  BY DEF TypeOK, Owner
<1>c. Mutators \cap Executors = {} /\ NoOwner \notin Proc
  BY ConstantsAssumption DEF Proc
<1> USE DEF Proc, FlockInv, RenewInv, RecordInv, UnlockInv, Holding, Gone, Goto, Exit, renewal,
        history, Record, Fresh, Absent, Published, Cleared, FailedWrite,
        ReadOrFresh
<1>1. ASSUME NEW p \in Mutators, Start(p) PROVE UnlockInv'
  BY <1>1, <1>t, <1>c DEF Start
<1>2. ASSUME NEW p \in Mutators, CancelStart(p) PROVE UnlockInv'
  BY <1>2, <1>t, <1>c DEF CancelStart
<1>3. ASSUME NEW p \in Mutators, TryLock(p) PROVE UnlockInv'
  BY <1>3, <1>t, <1>c DEF TryLock
<1>4. ASSUME NEW p \in Mutators, AcqRead(p) PROVE UnlockInv'
  BY <1>4, <1>t, <1>c DEF AcqRead
<1>5. ASSUME NEW p \in Mutators, AcqWrite(p) PROVE UnlockInv'
  BY <1>5, <1>t, <1>c DEF AcqWrite
<1>6. ASSUME NEW p \in Mutators, AcqWriteFails(p) PROVE UnlockInv'
  BY <1>6, <1>t, <1>c DEF AcqWriteFails
<1>7. ASSUME NEW p \in Mutators, Finish(p) PROVE UnlockInv'
  BY <1>7, <1>t, <1>c DEF Finish
<1>8. ASSUME NEW p \in Mutators, RelRead(p) PROVE UnlockInv'
  BY <1>8, <1>t, <1>c DEF RelRead
<1>9. ASSUME NEW p \in Mutators, RelWrite(p) PROVE UnlockInv'
  BY <1>9, <1>t, <1>c DEF RelWrite
<1>10. ASSUME NEW p \in Mutators, RelWriteFails(p) PROVE UnlockInv'
  BY <1>10, <1>t, <1>c DEF RelWriteFails
<1>11. ASSUME NEW p \in Mutators, Unlock(p) PROVE UnlockInv'
  BY <1>11, <1>t, <1>c DEF Unlock
<1>12. ASSUME NEW p \in Mutators, RenewRead(p) PROVE UnlockInv'
  BY <1>12, <1>t, <1>c DEF RenewRead
<1>13. ASSUME NEW p \in Mutators, RenewWrite(p) PROVE UnlockInv'
  BY <1>13, <1>t, <1>c DEF RenewWrite
<1>14. ASSUME NEW p \in Mutators, RenewWriteFails(p) PROVE UnlockInv'
  BY <1>14, <1>t, <1>c DEF RenewWriteFails
<1>15. ASSUME NEW p \in Mutators, RenewStop(p) PROVE UnlockInv'
  BY <1>15, <1>t, <1>c DEF RenewStop
<1>16. ASSUME NEW e \in Executors, Probe(e) PROVE UnlockInv'
  BY <1>16, <1>t, <1>c DEF Probe
<1>17. ASSUME NEW e \in Executors, ProbeUnlock(e) PROVE UnlockInv'
  BY <1>17, <1>t, <1>c DEF ProbeUnlock
<1>18. ASSUME NEW e \in Executors, ExecObserve(e) PROVE UnlockInv'
  BY <1>18, <1>t, <1>c DEF ExecObserve
<1>19. ASSUME NEW e \in Executors, ExecAbort(e) PROVE UnlockInv'
  BY <1>19, <1>t, <1>c DEF ExecAbort
<1>20. ASSUME NEW e \in Executors, ExecRevalidate(e) PROVE UnlockInv'
  BY <1>20, <1>t, <1>c DEF ExecRevalidate
<1>21. ASSUME NEW e \in Executors, ExecFinish(e) PROVE UnlockInv'
  BY <1>21, <1>t, <1>c DEF ExecFinish
<1>22. ASSUME NEW p \in Proc, BusyRead(p) PROVE UnlockInv'
  BY <1>22, <1>t, <1>c DEF BusyRead
<1>23. ASSUME NEW p \in Proc, BusyJudge(p) PROVE UnlockInv'
  BY <1>23, <1>t, <1>c DEF BusyJudge
<1>24. ASSUME NEW p \in Proc, RepairWrite(p) PROVE UnlockInv'
  BY <1>24, <1>t, <1>c DEF RepairWrite
<1>25. ASSUME NEW p \in Proc, RepairWriteFails(p) PROVE UnlockInv'
  <2>1. Cleared(buf[p]).owner = NoOwner
    BY <1>t, ClearedFacts
  <2>2. rec' = rec \/ rec' = Cleared(buf[p])
    BY <1>25 DEF RepairWriteFails
  <2>3. \A q \in Mutators : pc'[q] = "unlock" => pc[q] = "unlock"
    BY <1>25, <1>t DEF RepairWriteFails
  <2>4. rec'.owner = rec.owner \/ rec'.owner = NoOwner
    BY ONLY <2>1, <2>2
  <2>5. QED BY <2>3, <2>4, <1>c
<1>26. ASSUME NEW p \in Proc, Crash(p) PROVE UnlockInv'
  BY <1>26, <1>t, <1>c DEF Crash
<1>27. ASSUME Tick PROVE UnlockInv'
  BY <1>27 DEF Tick
<1>28. ASSUME Damage PROVE UnlockInv'
  BY <1>28, <1>t, <1>c DEF Damage
<1>29. CASE UNCHANGED vars
  BY <1>29 DEF vars
<1> QED
  BY ONLY [Next]_vars, <1>1, <1>2, <1>3, <1>4, <1>5, <1>6, <1>7, <1>8,
     <1>9, <1>10, <1>11, <1>12, <1>13, <1>14, <1>15, <1>16, <1>17, <1>18,
     <1>19, <1>20, <1>21, <1>22, <1>23, <1>24, <1>25, <1>26, <1>27, <1>28,
     <1>29
     DEF Next, MutatorStep, RenewStep, ExecutorStep, RefusedStep, AllEnded

-----------------------------------------------------------------------------
(* The holder is on record. *)

\* Every step keeps the holder in the record, while nobody else touches it.
LEMMA HolderStep ==
  TypeOK /\ FlockInv /\ RenewInv /\ RecordInv /\ HolderRecorded /\ [Next]_vars
    => HolderRecorded'
<1> SUFFICES ASSUME TypeOK, FlockInv, RenewInv, RecordInv, HolderRecorded,
                    [Next]_vars,
                    Undisturbed'
             PROVE  \A q \in Mutators : pc'[q] \in {"body", "release"} =>
                      rec'.st = "ok" /\ rec'.owner = q
  BY DEF HolderRecorded, Undisturbed
<1> DEFINE Held(q) == pc[q] \in {"body", "release"} =>
                        rec.st = "ok" /\ rec.owner = q
<1>t. /\ pc \in [Proc -> Phases] /\ flock \in Proc \cup {NoOwner}
      /\ buf \in [Proc -> Record] /\ rec \in Record
      /\ misrepaired \in BOOLEAN /\ damage \in Nat
  BY DEF TypeOK, Owner
<1>c. Mutators \cap Executors = {} /\ NoOwner \notin Proc
  BY ConstantsAssumption DEF Proc
<1>u. Undisturbed => \A q \in Mutators : Held(q)
  BY DEF HolderRecorded, Undisturbed
<1> USE DEF Proc, FlockInv, RenewInv, Holding, Gone, Goto, Exit, renewal, history,
        Record, Published, FailedWrite, Undisturbed
<1>1. ASSUME NEW p \in Mutators, Start(p) PROVE (\A q \in Mutators : Held(q))'
  BY <1>1, <1>t, <1>c, <1>u DEF Start
<1>2. ASSUME NEW p \in Mutators, CancelStart(p) PROVE (\A q \in Mutators : Held(q))'
  BY <1>2, <1>t, <1>c, <1>u DEF CancelStart
<1>3. ASSUME NEW p \in Mutators, TryLock(p) PROVE (\A q \in Mutators : Held(q))'
  BY <1>3, <1>t, <1>c, <1>u DEF TryLock
<1>4. ASSUME NEW p \in Mutators, AcqRead(p) PROVE (\A q \in Mutators : Held(q))'
  BY <1>4, <1>t, <1>c, <1>u DEF AcqRead
<1>5. ASSUME NEW p \in Mutators, AcqWrite(p) PROVE (\A q \in Mutators : Held(q))'
  BY <1>5, <1>t, <1>c, <1>u DEF AcqWrite
<1>6. ASSUME NEW p \in Mutators, AcqWriteFails(p) PROVE (\A q \in Mutators : Held(q))'
  BY <1>6, <1>t, <1>c, <1>u DEF AcqWriteFails
<1>7. ASSUME NEW p \in Mutators, Finish(p) PROVE (\A q \in Mutators : Held(q))'
  BY <1>7, <1>t, <1>c, <1>u DEF Finish
<1>8. ASSUME NEW p \in Mutators, RelRead(p) PROVE (\A q \in Mutators : Held(q))'
  BY <1>8, <1>t, <1>c, <1>u DEF RelRead
<1>9. ASSUME NEW p \in Mutators, RelWrite(p) PROVE (\A q \in Mutators : Held(q))'
  BY <1>9, <1>t, <1>c, <1>u DEF RelWrite
<1>10. ASSUME NEW p \in Mutators, RelWriteFails(p) PROVE (\A q \in Mutators : Held(q))'
  BY <1>10, <1>t, <1>c, <1>u DEF RelWriteFails
<1>11. ASSUME NEW p \in Mutators, Unlock(p) PROVE (\A q \in Mutators : Held(q))'
  BY <1>11, <1>t, <1>c, <1>u DEF Unlock
<1>12. ASSUME NEW p \in Mutators, RenewRead(p) PROVE (\A q \in Mutators : Held(q))'
  BY <1>12, <1>t, <1>c, <1>u DEF RenewRead
<1>13. ASSUME NEW p \in Mutators, RenewWrite(p) PROVE (\A q \in Mutators : Held(q))'
  BY <1>13, <1>t, <1>c, <1>u DEF RenewWrite
<1>14. ASSUME NEW p \in Mutators, RenewWriteFails(p) PROVE (\A q \in Mutators : Held(q))'
  BY <1>14, <1>t, <1>c, <1>u DEF RenewWriteFails
<1>15. ASSUME NEW p \in Mutators, RenewStop(p) PROVE (\A q \in Mutators : Held(q))'
  BY <1>15, <1>t, <1>c, <1>u DEF RenewStop
<1>16. ASSUME NEW e \in Executors, Probe(e) PROVE (\A q \in Mutators : Held(q))'
  BY <1>16, <1>t, <1>c, <1>u DEF Probe
<1>17. ASSUME NEW e \in Executors, ProbeUnlock(e) PROVE (\A q \in Mutators : Held(q))'
  BY <1>17, <1>t, <1>c, <1>u DEF ProbeUnlock
<1>18. ASSUME NEW e \in Executors, ExecObserve(e) PROVE (\A q \in Mutators : Held(q))'
  BY <1>18, <1>t, <1>c, <1>u DEF ExecObserve
<1>19. ASSUME NEW e \in Executors, ExecAbort(e) PROVE (\A q \in Mutators : Held(q))'
  BY <1>19, <1>t, <1>c, <1>u DEF ExecAbort
<1>20. ASSUME NEW e \in Executors, ExecRevalidate(e) PROVE (\A q \in Mutators : Held(q))'
  BY <1>20, <1>t, <1>c, <1>u DEF ExecRevalidate
<1>21. ASSUME NEW e \in Executors, ExecFinish(e) PROVE (\A q \in Mutators : Held(q))'
  BY <1>21, <1>t, <1>c, <1>u DEF ExecFinish
<1>22. ASSUME NEW p \in Proc, BusyRead(p) PROVE (\A q \in Mutators : Held(q))'
  BY <1>22, <1>t, <1>c, <1>u DEF BusyRead
<1>23. ASSUME NEW p \in Proc, BusyJudge(p) PROVE (\A q \in Mutators : Held(q))'
  BY <1>23, <1>t, <1>c, <1>u DEF BusyJudge
<1>24. ASSUME NEW p \in Proc, RepairWrite(p) PROVE (\A q \in Mutators : Held(q))'
  <2>1. Undisturbed /\ (rec' = rec \/ SoundRepair(p))
    BY <1>24, <1>t DEF RepairWrite
  <2>2. \A q \in Mutators : pc'[q] \in {"body", "release"} => pc'[q] = pc[q]
    BY <1>24, <1>t DEF RepairWrite
  <2>3. CASE rec' = rec
    BY <2>1, <2>2, <2>3, <1>u
  <2>4. CASE SoundRepair(p)
    <3>1. \A q \in Mutators : pc[q] \notin {"body", "release"}
      BY <2>1, <2>4, <1>u, <1>c DEF SoundRepair, Alive
    <3>2. QED BY <2>2, <3>1
  <2>5. QED BY <2>1, <2>3, <2>4
<1>25. ASSUME NEW p \in Proc, RepairWriteFails(p) PROVE (\A q \in Mutators : Held(q))'
  <2>1. Undisturbed /\ (rec' = rec \/ SoundRepair(p))
    BY <1>25, <1>t DEF RepairWriteFails
  <2>2. \A q \in Mutators : pc'[q] \in {"body", "release"} => pc'[q] = pc[q]
    BY <1>25, <1>t DEF RepairWriteFails
  <2>3. CASE rec' = rec
    BY <2>1, <2>2, <2>3, <1>u
  <2>4. CASE SoundRepair(p)
    <3>1. \A q \in Mutators : pc[q] \notin {"body", "release"}
      BY <2>1, <2>4, <1>u, <1>c DEF SoundRepair, Alive
    <3>2. QED BY <2>2, <3>1
  <2>5. QED BY <2>1, <2>3, <2>4
<1>26. ASSUME NEW p \in Proc, Crash(p) PROVE (\A q \in Mutators : Held(q))'
  BY <1>26, <1>t, <1>c, <1>u DEF Crash
<1>27. ASSUME Tick PROVE (\A q \in Mutators : Held(q))'
  BY <1>27, <1>u DEF Tick
<1>28. ASSUME Damage PROVE (\A q \in Mutators : Held(q))'
  BY <1>28, <1>t, <1>c, <1>u DEF Damage
<1>29. CASE UNCHANGED vars
  BY <1>29, <1>u DEF vars
<1> QED
  BY ONLY [Next]_vars, <1>1, <1>2, <1>3, <1>4, <1>5, <1>6, <1>7, <1>8,
     <1>9, <1>10, <1>11, <1>12, <1>13, <1>14, <1>15, <1>16, <1>17, <1>18,
     <1>19, <1>20, <1>21, <1>22, <1>23, <1>24, <1>25, <1>26, <1>27, <1>28,
     <1>29
     DEF Next, MutatorStep, RenewStep, ExecutorStep, RefusedStep, AllEnded

-----------------------------------------------------------------------------
(* Generations. *)

\* Every step keeps the pending writes at the generation of the record, and the
\* token of an exec behind every mutation since.
LEMMA GenInvStep ==
  TypeOK /\ FlockInv /\ RenewInv /\ RecordInv /\ HolderRecorded /\ GenInv
    /\ [Next]_vars => GenInv'
<1> DEFINE RenewGen == \A q \in Mutators :
                         renewer[q] = "writing" => rbuf[q].gen = rec.gen
           WriteGen == \A q \in Mutators :
                         pc[q] \in {"acqWrite", "relWrite"} =>
                           buf[q].gen = rec.gen
           ReadGen  == \A x \in Executors :
                         pc[x] = "observed" =>
                           /\ buf[x].gen <= rec.gen
                           /\ overlap[x] => buf[x].gen < rec.gen
           Gens     == RenewGen /\ WriteGen /\ ReadGen
<1> SUFFICES ASSUME TypeOK, FlockInv, RenewInv, RecordInv, HolderRecorded,
                    GenInv, [Next]_vars, Undisturbed'
             PROVE  Gens'
  BY DEF GenInv
<1>t. /\ pc \in [Proc -> Phases] /\ flock \in Proc \cup {NoOwner}
      /\ buf \in [Proc -> Record] /\ rec \in Record
      /\ rbuf \in [Proc -> Record]
      /\ renewer \in [Proc -> {"off", "ticking", "writing", "stopped",
                              "failed"}]
      /\ overlap \in [Executors -> BOOLEAN]
      /\ misrepaired \in BOOLEAN /\ damage \in Nat
  BY DEF TypeOK, Owner
<1>c. Mutators \cap Executors = {} /\ NoOwner \notin Proc
  BY ConstantsAssumption DEF Proc
<1>u. Undisturbed => Gens
  BY DEF GenInv
<1>h. Undisturbed => \A q \in Mutators :
        pc[q] \in {"body", "release"} => rec.st = "ok" /\ rec.owner = q
  BY DEF HolderRecorded, Undisturbed
<1> USE DEF Proc, FlockInv, RenewInv, RecordInv, Holding, Gone, Goto, Exit,
        renewal, history, Record, Fresh, Absent, Published, FailedWrite,
        ReadOrFresh, ObservedRecord, Undisturbed
<1>1. ASSUME NEW p \in Mutators, Start(p) PROVE Gens'
  BY <1>1, <1>t, <1>c, <1>u DEF Start
<1>2. ASSUME NEW p \in Mutators, CancelStart(p) PROVE Gens'
  BY <1>2, <1>t, <1>c, <1>u DEF CancelStart
<1>3. ASSUME NEW p \in Mutators, TryLock(p) PROVE Gens'
  BY <1>3, <1>t, <1>c, <1>u DEF TryLock
<1>4. ASSUME NEW p \in Mutators, AcqRead(p) PROVE Gens'
  BY <1>4, <1>t, <1>c, <1>u DEF AcqRead
<1>5. ASSUME NEW p \in Mutators, AcqWrite(p) PROVE Gens'
  BY <1>5, <1>t, <1>c, <1>u DEF AcqWrite
<1>6. ASSUME NEW p \in Mutators, AcqWriteFails(p) PROVE Gens'
  BY <1>6, <1>t, <1>c, <1>u DEF AcqWriteFails
<1>7. ASSUME NEW p \in Mutators, Finish(p) PROVE Gens'
  BY <1>7, <1>t, <1>c, <1>u DEF Finish
<1>8. ASSUME NEW p \in Mutators, RelRead(p) PROVE Gens'
  BY <1>8, <1>t, <1>c, <1>u DEF RelRead
<1>9. ASSUME NEW p \in Mutators, RelWrite(p) PROVE Gens'
  <2>1. Undisturbed /\ pc[p] = "relWrite"
    BY <1>9 DEF RelWrite
  <2>2. rec'.gen = rec.gen
    <3>1. Cleared(buf[p]).gen = buf[p].gen
      BY <1>t, ClearedFacts
    <3>2. rec' = Cleared(buf[p])
      BY <1>9 DEF RelWrite
    <3>3. buf[p].gen = rec.gen
      BY <1>u, <2>1
    <3>4. QED BY ONLY <3>1, <3>2, <3>3
  <2>3. pc' = [pc EXCEPT ![p] = "unlock"]
        /\ UNCHANGED <<buf, rbuf, renewer, overlap>>
    BY <1>9 DEF RelWrite
  <2>4. QED BY <1>t, <1>u, <2>1, <2>2, <2>3
<1>10. ASSUME NEW p \in Mutators, RelWriteFails(p) PROVE Gens'
  <2>1. Undisturbed /\ pc[p] = "relWrite"
    BY <1>10 DEF RelWriteFails
  <2>2. rec'.gen = rec.gen
    <3>1. Cleared(buf[p]).gen = buf[p].gen
      BY <1>t, ClearedFacts
    <3>2. rec' = rec \/ rec' = Cleared(buf[p])
      BY <1>10 DEF RelWriteFails
    <3>3. buf[p].gen = rec.gen
      BY <1>u, <2>1
    <3>4. QED BY ONLY <3>1, <3>2, <3>3
  <2>3. pc' = [pc EXCEPT ![p] = "exited"]
        /\ buf' = [buf EXCEPT ![p] = Fresh]
        /\ UNCHANGED <<rbuf, renewer, overlap>>
    BY <1>10 DEF RelWriteFails
  <2>4. QED BY <1>t, <1>u, <2>1, <2>2, <2>3
<1>11. ASSUME NEW p \in Mutators, Unlock(p) PROVE Gens'
  BY <1>11, <1>t, <1>c, <1>u DEF Unlock
<1>12. ASSUME NEW p \in Mutators, RenewRead(p) PROVE Gens'
  BY <1>12, <1>t, <1>c, <1>u DEF RenewRead
<1>13. ASSUME NEW p \in Mutators, RenewWrite(p) PROVE Gens'
  BY <1>13, <1>t, <1>c, <1>u DEF RenewWrite
<1>14. ASSUME NEW p \in Mutators, RenewWriteFails(p) PROVE Gens'
  BY <1>14, <1>t, <1>c, <1>u DEF RenewWriteFails
<1>15. ASSUME NEW p \in Mutators, RenewStop(p) PROVE Gens'
  BY <1>15, <1>t, <1>c, <1>u DEF RenewStop
<1>16. ASSUME NEW e \in Executors, Probe(e) PROVE Gens'
  BY <1>16, <1>t, <1>c, <1>u DEF Probe
<1>17. ASSUME NEW e \in Executors, ProbeUnlock(e) PROVE Gens'
  BY <1>17, <1>t, <1>c, <1>u DEF ProbeUnlock
<1>18. ASSUME NEW e \in Executors, ExecObserve(e) PROVE Gens'
  <2>1. Undisturbed /\ UNCHANGED <<rec, rbuf, renewer>>
    BY <1>18 DEF ExecObserve
  <2>2. CASE pc' = [pc EXCEPT ![e] = "exited"]
    <3>1. UNCHANGED overlap /\ buf' = [buf EXCEPT ![e] = Fresh]
      BY <1>18, <1>t, <2>2 DEF ExecObserve
    <3>2. QED BY <1>t, <1>u, <2>1, <2>2, <3>1
  <2>3. CASE pc' = [pc EXCEPT ![e] = "observed"]
    <3>1. /\ ObservedRecord.owner = NoOwner
          /\ buf' = [buf EXCEPT ![e] = ObservedRecord]
          /\ overlap' = [overlap EXCEPT ![e] = \E p \in Mutators : Body(p)]
      BY <1>18, <1>t, <2>3 DEF ExecObserve
    <3>2. ~\E p \in Mutators : Body(p)
      BY <1>h, <1>c, <2>1, <3>1 DEF Body
    <3>3. ObservedRecord.gen = rec.gen
      OBVIOUS
    <3>4. QED BY <1>t, <1>c, <1>u, <2>1, <2>3, <3>1, <3>2, <3>3
  <2>4. QED BY <1>18, <2>2, <2>3 DEF ExecObserve
<1>19. ASSUME NEW e \in Executors, ExecAbort(e) PROVE Gens'
  BY <1>19, <1>t, <1>c, <1>u DEF ExecAbort
<1>20. ASSUME NEW e \in Executors, ExecRevalidate(e) PROVE Gens'
  BY <1>20, <1>t, <1>c, <1>u DEF ExecRevalidate
<1>21. ASSUME NEW e \in Executors, ExecFinish(e) PROVE Gens'
  BY <1>21, <1>t, <1>c, <1>u DEF ExecFinish
<1>22. ASSUME NEW p \in Proc, BusyRead(p) PROVE Gens'
  BY <1>22, <1>t, <1>c, <1>u DEF BusyRead
<1>23. ASSUME NEW p \in Proc, BusyJudge(p) PROVE Gens'
  <2>1. /\ Undisturbed /\ UNCHANGED <<rec, rbuf, renewer, overlap>>
        /\ \/ pc' = [pc EXCEPT ![p] = "repair"] /\ UNCHANGED buf
           \/ /\ pc' = [pc EXCEPT ![p] = "exited"]
              /\ buf' = [buf EXCEPT ![p] = Fresh]
    BY <1>23 DEF BusyJudge
  <2>2. QED BY <1>t, <1>u, <2>1
<1>24. ASSUME NEW p \in Proc, RepairWrite(p) PROVE Gens'
  <2>1. Undisturbed /\ (rec' = rec \/ SoundRepair(p))
    BY <1>24, <1>t DEF RepairWrite
  <2>2. rec'.gen = rec.gen
    <3>1. Cleared(buf[p]).gen = buf[p].gen
      BY <1>t, ClearedFacts
    <3>2. rec' = rec \/ rec' = Cleared(buf[p])
      BY <1>24 DEF RepairWrite
    <3>3. SoundRepair(p) => buf[p].gen = rec.gen
      BY DEF SoundRepair
    <3>4. QED BY ONLY <2>1, <3>1, <3>2, <3>3
  <2>3. pc' = [pc EXCEPT ![p] = "exited"]
        /\ buf' = [buf EXCEPT ![p] = Fresh]
        /\ UNCHANGED <<rbuf, renewer, overlap>>
    BY <1>24 DEF RepairWrite
  <2>4. QED BY <1>t, <1>u, <2>1, <2>2, <2>3
<1>25. ASSUME NEW p \in Proc, RepairWriteFails(p) PROVE Gens'
  <2>1. Undisturbed /\ (rec' = rec \/ SoundRepair(p))
    BY <1>25, <1>t DEF RepairWriteFails
  <2>2. rec'.gen = rec.gen
    <3>1. Cleared(buf[p]).gen = buf[p].gen
      BY <1>t, ClearedFacts
    <3>2. rec' = rec \/ rec' = Cleared(buf[p])
      BY <1>25 DEF RepairWriteFails
    <3>3. SoundRepair(p) => buf[p].gen = rec.gen
      BY DEF SoundRepair
    <3>4. QED BY ONLY <2>1, <3>1, <3>2, <3>3
  <2>3. pc' = [pc EXCEPT ![p] = "exited"]
        /\ buf' = [buf EXCEPT ![p] = Fresh]
        /\ UNCHANGED <<rbuf, renewer, overlap>>
    BY <1>25 DEF RepairWriteFails
  <2>4. QED BY <1>t, <1>u, <2>1, <2>2, <2>3
<1>26. ASSUME NEW p \in Proc, Crash(p) PROVE Gens'
  BY <1>26, <1>t, <1>c, <1>u DEF Crash
<1>27. ASSUME Tick PROVE Gens'
  BY <1>27, <1>u DEF Tick
<1>28. ASSUME Damage PROVE Gens'
  BY <1>28, <1>t, <1>c, <1>u DEF Damage
<1>29. CASE UNCHANGED vars
  BY <1>29, <1>u DEF vars
<1> QED
  BY ONLY [Next]_vars, <1>1, <1>2, <1>3, <1>4, <1>5, <1>6, <1>7, <1>8,
     <1>9, <1>10, <1>11, <1>12, <1>13, <1>14, <1>15, <1>16, <1>17, <1>18,
     <1>19, <1>20, <1>21, <1>22, <1>23, <1>24, <1>25, <1>26, <1>27, <1>28,
     <1>29
     DEF Next, MutatorStep, RenewStep, ExecutorStep, RefusedStep, AllEnded

\* While no repair was unsound, what is about to be written is never older than
\* the record, whatever an outsider destroyed meanwhile.
NothingOlder ==
  ~misrepaired =>
    /\ \A p \in Mutators : renewer[p] = "writing" => rbuf[p].gen >= rec.gen
    /\ \A p \in Mutators :
         pc[p] \in {"acqWrite", "relWrite"} => buf[p].gen >= rec.gen

\* Every step keeps the pending writes no older than the record, and takes the
\* generation back only where GenerationMonotone makes an exception.
LEMMA NothingOlderStep ==
  TypeOK /\ FlockInv /\ RenewInv /\ RecordInv /\ NothingOlder /\ [Next]_vars
    => /\ NothingOlder'
       /\ rec'.gen >= rec.gen \/ misrepaired' \/ damage' # damage
<1> DEFINE RenewGen == \A q \in Mutators :
                         renewer[q] = "writing" => rbuf[q].gen >= rec.gen
           WriteGen == \A q \in Mutators :
                         pc[q] \in {"acqWrite", "relWrite"} =>
                           buf[q].gen >= rec.gen
           Onward   == /\ RenewGen' /\ WriteGen'
                       /\ rec'.gen >= rec.gen \/ damage' # damage
<1> SUFFICES ASSUME TypeOK, FlockInv, RenewInv, RecordInv, NothingOlder,
                    [Next]_vars, ~misrepaired'
             PROVE  Onward
  BY DEF NothingOlder
<1>t. /\ pc \in [Proc -> Phases] /\ flock \in Proc \cup {NoOwner}
      /\ buf \in [Proc -> Record] /\ rec \in Record
      /\ rbuf \in [Proc -> Record]
      /\ renewer \in [Proc -> {"off", "ticking", "writing", "stopped",
                              "failed"}]
      /\ misrepaired \in BOOLEAN /\ damage \in Nat
  BY DEF TypeOK, Owner
<1>c. Mutators \cap Executors = {} /\ NoOwner \notin Proc
  BY ConstantsAssumption DEF Proc
<1>u. ~misrepaired => RenewGen /\ WriteGen
  BY DEF NothingOlder
<1> USE DEF Proc, FlockInv, RenewInv, RecordInv, Holding, Gone, Goto, Exit,
        renewal, history, Record, Fresh, Absent, Published, FailedWrite,
        ReadOrFresh, ObservedRecord
<1>1. ASSUME NEW p \in Mutators, Start(p) PROVE Onward
  BY <1>1, <1>t, <1>c, <1>u DEF Start
<1>2. ASSUME NEW p \in Mutators, CancelStart(p) PROVE Onward
  BY <1>2, <1>t, <1>c, <1>u DEF CancelStart
<1>3. ASSUME NEW p \in Mutators, TryLock(p) PROVE Onward
  BY <1>3, <1>t, <1>c, <1>u DEF TryLock
<1>4. ASSUME NEW p \in Mutators, AcqRead(p) PROVE Onward
  BY <1>4, <1>t, <1>c, <1>u DEF AcqRead
<1>5. ASSUME NEW p \in Mutators, AcqWrite(p) PROVE Onward
  BY <1>5, <1>t, <1>c, <1>u DEF AcqWrite
<1>6. ASSUME NEW p \in Mutators, AcqWriteFails(p) PROVE Onward
  BY <1>6, <1>t, <1>c, <1>u DEF AcqWriteFails
<1>7. ASSUME NEW p \in Mutators, Finish(p) PROVE Onward
  BY <1>7, <1>t, <1>c, <1>u DEF Finish
<1>8. ASSUME NEW p \in Mutators, RelRead(p) PROVE Onward
  BY <1>8, <1>t, <1>c, <1>u DEF RelRead
<1>9. ASSUME NEW p \in Mutators, RelWrite(p) PROVE Onward
  <2>1. ~misrepaired /\ pc[p] = "relWrite" /\ flock = p
    BY <1>9, <1>t, <1>c DEF RelWrite
  <2>2. rec'.gen >= rec.gen
    <3>1. Cleared(buf[p]).gen = buf[p].gen
      BY <1>t, ClearedFacts
    <3>2. rec' = rec \/ rec' = Cleared(buf[p])
      BY <1>9 DEF RelWrite
    <3>3. buf[p].gen >= rec.gen /\ rec.gen \in Nat
      BY <1>t, <1>u, <2>1
    <3>4. QED BY <3>1, <3>2, <3>3
  <2>3. \A q \in Mutators :
          pc[q] \notin {"body", "release", "acqWrite"}
            /\ (pc[q] = "relWrite" => q = p)
    BY <1>t, <1>c, <2>1
  <2>4. /\ pc' = [pc EXCEPT ![p] = "unlock"]
        /\ UNCHANGED <<rbuf, renewer>>
    BY <1>9 DEF RelWrite
  <2>5. QED BY <1>t, <2>2, <2>3, <2>4
<1>10. ASSUME NEW p \in Mutators, RelWriteFails(p) PROVE Onward
  <2>1. ~misrepaired /\ pc[p] = "relWrite" /\ flock = p
    BY <1>10, <1>t, <1>c DEF RelWriteFails
  <2>2. rec'.gen >= rec.gen
    <3>1. Cleared(buf[p]).gen = buf[p].gen
      BY <1>t, ClearedFacts
    <3>2. rec' = rec \/ rec' = Cleared(buf[p])
      BY <1>10 DEF RelWriteFails
    <3>3. buf[p].gen >= rec.gen /\ rec.gen \in Nat
      BY <1>t, <1>u, <2>1
    <3>4. QED BY <3>1, <3>2, <3>3
  <2>3. \A q \in Mutators :
          pc[q] \notin {"body", "release", "acqWrite"}
            /\ (pc[q] = "relWrite" => q = p)
    BY <1>t, <1>c, <2>1
  <2>4. /\ pc' = [pc EXCEPT ![p] = "exited"]
        /\ UNCHANGED <<rbuf, renewer>>
    BY <1>10 DEF RelWriteFails
  <2>5. QED BY <1>t, <2>2, <2>3, <2>4
<1>11. ASSUME NEW p \in Mutators, Unlock(p) PROVE Onward
  BY <1>11, <1>t, <1>c, <1>u DEF Unlock
<1>12. ASSUME NEW p \in Mutators, RenewRead(p) PROVE Onward
  BY <1>12, <1>t, <1>c, <1>u DEF RenewRead
<1>13. ASSUME NEW p \in Mutators, RenewWrite(p) PROVE Onward
  BY <1>13, <1>t, <1>c, <1>u DEF RenewWrite
<1>14. ASSUME NEW p \in Mutators, RenewWriteFails(p) PROVE Onward
  BY <1>14, <1>t, <1>c, <1>u DEF RenewWriteFails
<1>15. ASSUME NEW p \in Mutators, RenewStop(p) PROVE Onward
  BY <1>15, <1>t, <1>c, <1>u DEF RenewStop
<1>16. ASSUME NEW e \in Executors, Probe(e) PROVE Onward
  BY <1>16, <1>t, <1>c, <1>u DEF Probe
<1>17. ASSUME NEW e \in Executors, ProbeUnlock(e) PROVE Onward
  BY <1>17, <1>t, <1>c, <1>u DEF ProbeUnlock
<1>18. ASSUME NEW e \in Executors, ExecObserve(e) PROVE Onward
  BY <1>18, <1>t, <1>c, <1>u DEF ExecObserve
<1>19. ASSUME NEW e \in Executors, ExecAbort(e) PROVE Onward
  BY <1>19, <1>t, <1>c, <1>u DEF ExecAbort
<1>20. ASSUME NEW e \in Executors, ExecRevalidate(e) PROVE Onward
  BY <1>20, <1>t, <1>c, <1>u DEF ExecRevalidate
<1>21. ASSUME NEW e \in Executors, ExecFinish(e) PROVE Onward
  BY <1>21, <1>t, <1>c, <1>u DEF ExecFinish
<1>22. ASSUME NEW p \in Proc, BusyRead(p) PROVE Onward
  BY <1>22, <1>t, <1>c, <1>u DEF BusyRead
<1>23. ASSUME NEW p \in Proc, BusyJudge(p) PROVE Onward
  BY <1>23, <1>t, <1>c, <1>u DEF BusyJudge
<1>24. ASSUME NEW p \in Proc, RepairWrite(p) PROVE Onward
  <2>1. ~misrepaired /\ (rec' = rec \/ SoundRepair(p))
    BY <1>24, <1>t DEF RepairWrite
  <2>2. rec'.gen = rec.gen
    <3>1. Cleared(buf[p]).gen = buf[p].gen
      BY <1>t, ClearedFacts
    <3>2. rec' = rec \/ rec' = Cleared(buf[p])
      BY <1>24 DEF RepairWrite
    <3>3. SoundRepair(p) => buf[p].gen = rec.gen
      BY DEF SoundRepair
    <3>4. QED BY ONLY <2>1, <3>1, <3>2, <3>3
  <2>3. pc' = [pc EXCEPT ![p] = "exited"]
        /\ buf' = [buf EXCEPT ![p] = Fresh]
        /\ UNCHANGED <<rbuf, renewer>>
    BY <1>24 DEF RepairWrite
  <2>4. QED BY <1>t, <1>u, <2>1, <2>2, <2>3
<1>25. ASSUME NEW p \in Proc, RepairWriteFails(p) PROVE Onward
  <2>1. ~misrepaired /\ (rec' = rec \/ SoundRepair(p))
    BY <1>25, <1>t DEF RepairWriteFails
  <2>2. rec'.gen = rec.gen
    <3>1. Cleared(buf[p]).gen = buf[p].gen
      BY <1>t, ClearedFacts
    <3>2. rec' = rec \/ rec' = Cleared(buf[p])
      BY <1>25 DEF RepairWriteFails
    <3>3. SoundRepair(p) => buf[p].gen = rec.gen
      BY DEF SoundRepair
    <3>4. QED BY ONLY <2>1, <3>1, <3>2, <3>3
  <2>3. pc' = [pc EXCEPT ![p] = "exited"]
        /\ buf' = [buf EXCEPT ![p] = Fresh]
        /\ UNCHANGED <<rbuf, renewer>>
    BY <1>25 DEF RepairWriteFails
  <2>4. QED BY <1>t, <1>u, <2>1, <2>2, <2>3
<1>26. ASSUME NEW p \in Proc, Crash(p) PROVE Onward
  BY <1>26, <1>t, <1>c, <1>u DEF Crash
<1>27. ASSUME Tick PROVE Onward
  BY <1>27, <1>t, <1>u DEF Tick
<1>28. ASSUME Damage PROVE Onward
  BY <1>28, <1>t, <1>c, <1>u DEF Damage
<1>29. CASE UNCHANGED vars
  BY <1>29, <1>t, <1>u DEF vars
<1> QED
  BY ONLY [Next]_vars, <1>1, <1>2, <1>3, <1>4, <1>5, <1>6, <1>7, <1>8,
     <1>9, <1>10, <1>11, <1>12, <1>13, <1>14, <1>15, <1>16, <1>17, <1>18,
     <1>19, <1>20, <1>21, <1>22, <1>23, <1>24, <1>25, <1>26, <1>27, <1>28,
     <1>29
     DEF Next, MutatorStep, RenewStep, ExecutorStep, RefusedStep, AllEnded

-----------------------------------------------------------------------------
(* What follows from the invariant, action by action. *)

\* No step lets an exec run that overlooked a mutation.
LEMMA QuietStep ==
  TypeOK /\ FlockInv /\ RecordInv /\ GenInv /\ QuietExec /\ [Next]_vars
    => QuietExec'
<1> DEFINE Quiet == \A x \in Executors : pc[x] = "running" => ~overlap[x]
<1> SUFFICES ASSUME TypeOK, FlockInv, RecordInv, GenInv, QuietExec, [Next]_vars,
                    Undisturbed'
             PROVE  Quiet'
  BY DEF QuietExec, Undisturbed
<1>t. /\ pc \in [Proc -> Phases] /\ overlap \in [Executors -> BOOLEAN]
      /\ buf \in [Proc -> Record] /\ rec \in Record
      /\ misrepaired \in BOOLEAN /\ damage \in Nat
  BY DEF TypeOK
<1>c. Mutators \cap Executors = {}
  BY ConstantsAssumption
<1>u. Undisturbed => Quiet
  BY DEF QuietExec, Undisturbed
<1> USE DEF Proc, FlockInv, Holding, Gone, Goto, Exit, renewal, history, Undisturbed
<1>1. ASSUME NEW p \in Mutators, Start(p) PROVE Quiet'
  BY <1>1, <1>t, <1>c, <1>u DEF Start
<1>2. ASSUME NEW p \in Mutators, CancelStart(p) PROVE Quiet'
  BY <1>2, <1>t, <1>c, <1>u DEF CancelStart
<1>3. ASSUME NEW p \in Mutators, TryLock(p) PROVE Quiet'
  BY <1>3, <1>t, <1>c, <1>u DEF TryLock
<1>4. ASSUME NEW p \in Mutators, AcqRead(p) PROVE Quiet'
  BY <1>4, <1>t, <1>c, <1>u DEF AcqRead
<1>5. ASSUME NEW p \in Mutators, AcqWrite(p) PROVE Quiet'
  BY <1>5, <1>t, <1>c, <1>u DEF AcqWrite
<1>6. ASSUME NEW p \in Mutators, AcqWriteFails(p) PROVE Quiet'
  BY <1>6, <1>t, <1>c, <1>u DEF AcqWriteFails
<1>7. ASSUME NEW p \in Mutators, Finish(p) PROVE Quiet'
  BY <1>7, <1>t, <1>c, <1>u DEF Finish
<1>8. ASSUME NEW p \in Mutators, RelRead(p) PROVE Quiet'
  BY <1>8, <1>t, <1>c, <1>u DEF RelRead
<1>9. ASSUME NEW p \in Mutators, RelWrite(p) PROVE Quiet'
  BY <1>9, <1>t, <1>c, <1>u DEF RelWrite
<1>10. ASSUME NEW p \in Mutators, RelWriteFails(p) PROVE Quiet'
  BY <1>10, <1>t, <1>c, <1>u DEF RelWriteFails
<1>11. ASSUME NEW p \in Mutators, Unlock(p) PROVE Quiet'
  BY <1>11, <1>t, <1>c, <1>u DEF Unlock
<1>12. ASSUME NEW p \in Mutators, RenewRead(p) PROVE Quiet'
  BY <1>12, <1>t, <1>c, <1>u DEF RenewRead
<1>13. ASSUME NEW p \in Mutators, RenewWrite(p) PROVE Quiet'
  BY <1>13, <1>t, <1>c, <1>u DEF RenewWrite
<1>14. ASSUME NEW p \in Mutators, RenewWriteFails(p) PROVE Quiet'
  BY <1>14, <1>t, <1>c, <1>u DEF RenewWriteFails
<1>15. ASSUME NEW p \in Mutators, RenewStop(p) PROVE Quiet'
  BY <1>15, <1>t, <1>c, <1>u DEF RenewStop
<1>16. ASSUME NEW e \in Executors, Probe(e) PROVE Quiet'
  BY <1>16, <1>t, <1>c, <1>u DEF Probe
<1>17. ASSUME NEW e \in Executors, ProbeUnlock(e) PROVE Quiet'
  BY <1>17, <1>t, <1>c, <1>u DEF ProbeUnlock
<1>18. ASSUME NEW e \in Executors, ExecObserve(e) PROVE Quiet'
  BY <1>18, <1>t, <1>c, <1>u DEF ExecObserve
<1>19. ASSUME NEW e \in Executors, ExecAbort(e) PROVE Quiet'
  BY <1>19, <1>t, <1>c, <1>u DEF ExecAbort
<1>20. ASSUME NEW e \in Executors, ExecRevalidate(e) PROVE Quiet'
  <2>1. Undisturbed /\ UNCHANGED overlap
    BY <1>20 DEF ExecRevalidate
  <2>2. CASE StillValid(e)
    <3>1. ObservedRecord.gen = rec.gen
      BY <1>t DEF ObservedRecord, RecordInv, Record, Fresh, Absent
    <3>2. ~overlap[e]
      <4>1. pc[e] = "observed"
        BY <1>20 DEF ExecRevalidate
      <4>2. overlap[e] => buf[e].gen < rec.gen
        BY <2>1, <4>1 DEF GenInv
      <4>3. buf[e].gen = rec.gen
        BY <2>2, <3>1 DEF StillValid
      <4>4. buf[e].gen \in Nat
        BY <1>t DEF Record
      <4>5. QED BY ONLY <4>2, <4>3, <4>4
    <3>3. QED BY <1>20, <1>t, <1>u, <2>1, <2>2, <3>2 DEF ExecRevalidate
  <2>3. CASE ~StillValid(e)
    BY <1>20, <1>t, <1>u, <2>1, <2>3 DEF ExecRevalidate
  <2>4. QED BY <2>2, <2>3
<1>21. ASSUME NEW e \in Executors, ExecFinish(e) PROVE Quiet'
  BY <1>21, <1>t, <1>c, <1>u DEF ExecFinish
<1>22. ASSUME NEW p \in Proc, BusyRead(p) PROVE Quiet'
  BY <1>22, <1>t, <1>c, <1>u DEF BusyRead
<1>23. ASSUME NEW p \in Proc, BusyJudge(p) PROVE Quiet'
  BY <1>23, <1>t, <1>c, <1>u DEF BusyJudge
<1>24. ASSUME NEW p \in Proc, RepairWrite(p) PROVE Quiet'
  BY <1>24, <1>t, <1>c, <1>u DEF RepairWrite
<1>25. ASSUME NEW p \in Proc, RepairWriteFails(p) PROVE Quiet'
  BY <1>25, <1>t, <1>c, <1>u DEF RepairWriteFails
<1>26. ASSUME NEW p \in Proc, Crash(p) PROVE Quiet'
  BY <1>26, <1>t, <1>c, <1>u DEF Crash
<1>27. ASSUME Tick PROVE Quiet'
  BY <1>27, <1>u DEF Tick
<1>28. ASSUME Damage PROVE Quiet'
  BY <1>28, <1>t, <1>c, <1>u DEF Damage
<1>29. CASE UNCHANGED vars
  BY <1>29, <1>u DEF vars
<1> QED
  BY ONLY [Next]_vars, <1>1, <1>2, <1>3, <1>4, <1>5, <1>6, <1>7, <1>8,
     <1>9, <1>10, <1>11, <1>12, <1>13, <1>14, <1>15, <1>16, <1>17, <1>18,
     <1>19, <1>20, <1>21, <1>22, <1>23, <1>24, <1>25, <1>26, <1>27, <1>28,
     <1>29
     DEF Next, MutatorStep, RenewStep, ExecutorStep, RefusedStep, AllEnded

\* No step writes a process that released back into the record.
LEMMA ReleasedStep ==
  TypeOK /\ FlockInv /\ RenewInv /\ RecordInv /\ UnlockInv /\ ReleasedStaysGone
    /\ [Next]_vars => ReleasedStaysGone'
<1> DEFINE Clean(q) == pc[q] = "exited" /\ result[q] = "ok"
<1> SUFFICES ASSUME TypeOK, FlockInv, RenewInv, RecordInv, UnlockInv,
                    ReleasedStaysGone, [Next]_vars
             PROVE  (\A q \in Mutators : Clean(q) => rec.owner # q)'
  BY DEF ReleasedStaysGone, ReleasedCleanly, Ended, Gone
<1>t. /\ pc \in [Proc -> Phases] /\ flock \in Proc \cup {NoOwner}
      /\ buf \in [Proc -> Record] /\ rec \in Record /\ rbuf \in [Proc -> Record]
      /\ result \in [Proc -> {"none", "ok", "busy", "error", "stale"}]
  BY DEF TypeOK, Owner
<1>c. Mutators \cap Executors = {} /\ NoOwner \notin Proc
  BY ConstantsAssumption DEF Proc
<1>u. \A q \in Mutators : Clean(q) => rec.owner # q
  BY DEF ReleasedStaysGone, ReleasedCleanly, Ended, Gone
<1>d. \A q \in Proc : Cleared(buf[q]).owner = NoOwner
  BY <1>t, ClearedFacts
<1> USE DEF Proc, FlockInv, RenewInv, UnlockInv, Holding, Gone, Goto, Exit,
        renewal, history, Record, Absent, Published, FailedWrite
<1>1. ASSUME NEW p \in Mutators, Start(p) PROVE (\A q \in Mutators : Clean(q) => rec.owner # q)'
  BY <1>1, <1>t, <1>c, <1>d, <1>u DEF Start
<1>2. ASSUME NEW p \in Mutators, CancelStart(p) PROVE (\A q \in Mutators : Clean(q) => rec.owner # q)'
  BY <1>2, <1>t, <1>c, <1>d, <1>u DEF CancelStart
<1>3. ASSUME NEW p \in Mutators, TryLock(p) PROVE (\A q \in Mutators : Clean(q) => rec.owner # q)'
  BY <1>3, <1>t, <1>c, <1>d, <1>u DEF TryLock
<1>4. ASSUME NEW p \in Mutators, AcqRead(p) PROVE (\A q \in Mutators : Clean(q) => rec.owner # q)'
  BY <1>4, <1>t, <1>c, <1>d, <1>u DEF AcqRead
<1>5. ASSUME NEW p \in Mutators, AcqWrite(p) PROVE (\A q \in Mutators : Clean(q) => rec.owner # q)'
  BY <1>5, <1>t, <1>c, <1>d, <1>u DEF AcqWrite
<1>6. ASSUME NEW p \in Mutators, AcqWriteFails(p) PROVE (\A q \in Mutators : Clean(q) => rec.owner # q)'
  BY <1>6, <1>t, <1>c, <1>d, <1>u DEF AcqWriteFails
<1>7. ASSUME NEW p \in Mutators, Finish(p) PROVE (\A q \in Mutators : Clean(q) => rec.owner # q)'
  BY <1>7, <1>t, <1>c, <1>d, <1>u DEF Finish
<1>8. ASSUME NEW p \in Mutators, RelRead(p) PROVE (\A q \in Mutators : Clean(q) => rec.owner # q)'
  BY <1>8, <1>t, <1>c, <1>d, <1>u DEF RelRead
<1>9. ASSUME NEW p \in Mutators, RelWrite(p) PROVE (\A q \in Mutators : Clean(q) => rec.owner # q)'
  BY <1>9, <1>t, <1>c, <1>d, <1>u DEF RelWrite
<1>10. ASSUME NEW p \in Mutators, RelWriteFails(p) PROVE (\A q \in Mutators : Clean(q) => rec.owner # q)'
  BY <1>10, <1>t, <1>c, <1>d, <1>u DEF RelWriteFails
<1>11. ASSUME NEW p \in Mutators, Unlock(p) PROVE (\A q \in Mutators : Clean(q) => rec.owner # q)'
  BY <1>11, <1>t, <1>c, <1>d, <1>u DEF Unlock
<1>12. ASSUME NEW p \in Mutators, RenewRead(p) PROVE (\A q \in Mutators : Clean(q) => rec.owner # q)'
  BY <1>12, <1>t, <1>c, <1>d, <1>u DEF RenewRead
<1>13. ASSUME NEW p \in Mutators, RenewWrite(p) PROVE (\A q \in Mutators : Clean(q) => rec.owner # q)'
  BY <1>13, <1>t, <1>c, <1>d, <1>u DEF RenewWrite
<1>14. ASSUME NEW p \in Mutators, RenewWriteFails(p) PROVE (\A q \in Mutators : Clean(q) => rec.owner # q)'
  BY <1>14, <1>t, <1>c, <1>d, <1>u DEF RenewWriteFails
<1>15. ASSUME NEW p \in Mutators, RenewStop(p) PROVE (\A q \in Mutators : Clean(q) => rec.owner # q)'
  BY <1>15, <1>t, <1>c, <1>d, <1>u DEF RenewStop
<1>16. ASSUME NEW e \in Executors, Probe(e) PROVE (\A q \in Mutators : Clean(q) => rec.owner # q)'
  BY <1>16, <1>t, <1>c, <1>d, <1>u DEF Probe
<1>17. ASSUME NEW e \in Executors, ProbeUnlock(e) PROVE (\A q \in Mutators : Clean(q) => rec.owner # q)'
  BY <1>17, <1>t, <1>c, <1>d, <1>u DEF ProbeUnlock
<1>18. ASSUME NEW e \in Executors, ExecObserve(e) PROVE (\A q \in Mutators : Clean(q) => rec.owner # q)'
  BY <1>18, <1>t, <1>c, <1>d, <1>u DEF ExecObserve
<1>19. ASSUME NEW e \in Executors, ExecAbort(e) PROVE (\A q \in Mutators : Clean(q) => rec.owner # q)'
  BY <1>19, <1>t, <1>c, <1>d, <1>u DEF ExecAbort
<1>20. ASSUME NEW e \in Executors, ExecRevalidate(e) PROVE (\A q \in Mutators : Clean(q) => rec.owner # q)'
  BY <1>20, <1>t, <1>c, <1>d, <1>u DEF ExecRevalidate
<1>21. ASSUME NEW e \in Executors, ExecFinish(e) PROVE (\A q \in Mutators : Clean(q) => rec.owner # q)'
  BY <1>21, <1>t, <1>c, <1>d, <1>u DEF ExecFinish
<1>22. ASSUME NEW p \in Proc, BusyRead(p) PROVE (\A q \in Mutators : Clean(q) => rec.owner # q)'
  BY <1>22, <1>t, <1>c, <1>d, <1>u DEF BusyRead
<1>23. ASSUME NEW p \in Proc, BusyJudge(p) PROVE (\A q \in Mutators : Clean(q) => rec.owner # q)'
  BY <1>23, <1>t, <1>c, <1>d, <1>u DEF BusyJudge
<1>24. ASSUME NEW p \in Proc, RepairWrite(p) PROVE (\A q \in Mutators : Clean(q) => rec.owner # q)'
  BY <1>24, <1>t, <1>c, <1>d, <1>u DEF RepairWrite
<1>25. ASSUME NEW p \in Proc, RepairWriteFails(p) PROVE (\A q \in Mutators : Clean(q) => rec.owner # q)'
  BY <1>25, <1>t, <1>c, <1>d, <1>u DEF RepairWriteFails
<1>26. ASSUME NEW p \in Proc, Crash(p) PROVE (\A q \in Mutators : Clean(q) => rec.owner # q)'
  BY <1>26, <1>t, <1>c, <1>d, <1>u DEF Crash
<1>27. ASSUME Tick PROVE (\A q \in Mutators : Clean(q) => rec.owner # q)'
  BY <1>27, <1>u DEF Tick
<1>28. ASSUME Damage PROVE (\A q \in Mutators : Clean(q) => rec.owner # q)'
  BY <1>28, <1>t, <1>c, <1>d, <1>u DEF Damage
<1>29. CASE UNCHANGED vars
  BY <1>29, <1>u DEF vars
<1> QED
  BY ONLY [Next]_vars, <1>1, <1>2, <1>3, <1>4, <1>5, <1>6, <1>7, <1>8,
     <1>9, <1>10, <1>11, <1>12, <1>13, <1>14, <1>15, <1>16, <1>17, <1>18,
     <1>19, <1>20, <1>21, <1>22, <1>23, <1>24, <1>25, <1>26, <1>27, <1>28,
     <1>29
     DEF Next, MutatorStep, RenewStep, ExecutorStep, RefusedStep, AllEnded

\* No step makes a renewal fail without a cause.
LEMMA RenewalLossStep ==
  TypeOK /\ FlockInv /\ RenewInv /\ HolderRecorded /\ RenewalLossExplained
    /\ [Next]_vars => RenewalLossExplained'
<1> SUFFICES ASSUME TypeOK, FlockInv, RenewInv, HolderRecorded,
                    RenewalLossExplained, [Next]_vars,
                    Undisturbed', ~FaultyDisk
             PROVE  (\A q \in Mutators : renewer[q] # "failed")'
  <2>1. TypeOK' => damage' \in Nat
    BY DEF TypeOK
  <2>2. QED BY <2>1, TypeStep DEF RenewalLossExplained, Undisturbed
<1>t. /\ pc \in [Proc -> Phases] /\ misrepaired \in BOOLEAN /\ damage \in Nat
      /\ renewer \in [Proc -> {"off", "ticking", "writing", "stopped",
                              "failed"}]
  BY DEF TypeOK
<1>u. Undisturbed => \A q \in Mutators : renewer[q] # "failed"
  BY DEF RenewalLossExplained, Undisturbed
<1> USE DEF Proc, RenewInv, renewal, history, Undisturbed, FailedWrite
<1>1. ASSUME NEW p \in Mutators, Start(p) PROVE (\A q \in Mutators : renewer[q] # "failed")'
  BY <1>1, <1>t, <1>u DEF Start
<1>2. ASSUME NEW p \in Mutators, CancelStart(p) PROVE (\A q \in Mutators : renewer[q] # "failed")'
  BY <1>2, <1>t, <1>u DEF CancelStart
<1>3. ASSUME NEW p \in Mutators, TryLock(p) PROVE (\A q \in Mutators : renewer[q] # "failed")'
  BY <1>3, <1>t, <1>u DEF TryLock
<1>4. ASSUME NEW p \in Mutators, AcqRead(p) PROVE (\A q \in Mutators : renewer[q] # "failed")'
  BY <1>4, <1>t, <1>u DEF AcqRead
<1>5. ASSUME NEW p \in Mutators, AcqWrite(p) PROVE (\A q \in Mutators : renewer[q] # "failed")'
  BY <1>5, <1>t, <1>u DEF AcqWrite
<1>6. ASSUME NEW p \in Mutators, AcqWriteFails(p) PROVE (\A q \in Mutators : renewer[q] # "failed")'
  BY <1>6, <1>t, <1>u DEF AcqWriteFails
<1>7. ASSUME NEW p \in Mutators, Finish(p) PROVE (\A q \in Mutators : renewer[q] # "failed")'
  BY <1>7, <1>t, <1>u DEF Finish
<1>8. ASSUME NEW p \in Mutators, RelRead(p) PROVE (\A q \in Mutators : renewer[q] # "failed")'
  BY <1>8, <1>t, <1>u DEF RelRead
<1>9. ASSUME NEW p \in Mutators, RelWrite(p) PROVE (\A q \in Mutators : renewer[q] # "failed")'
  BY <1>9, <1>t, <1>u DEF RelWrite
<1>10. ASSUME NEW p \in Mutators, RelWriteFails(p) PROVE (\A q \in Mutators : renewer[q] # "failed")'
  BY <1>10, <1>t, <1>u DEF RelWriteFails
<1>11. ASSUME NEW p \in Mutators, Unlock(p) PROVE (\A q \in Mutators : renewer[q] # "failed")'
  BY <1>11, <1>t, <1>u DEF Unlock
<1>12. ASSUME NEW p \in Mutators, RenewRead(p) PROVE (\A q \in Mutators : renewer[q] # "failed")'
  <2>1. Undisturbed /\ renewer[p] = "ticking"
    BY <1>12 DEF RenewRead
  <2>2. rec.st = "ok" /\ rec.owner = p
    BY <2>1 DEF HolderRecorded
  <2>3. QED BY <1>12, <1>t, <1>u, <2>1, <2>2 DEF RenewRead
<1>13. ASSUME NEW p \in Mutators, RenewWrite(p) PROVE (\A q \in Mutators : renewer[q] # "failed")'
  BY <1>13, <1>t, <1>u DEF RenewWrite
<1>14. ASSUME NEW p \in Mutators, RenewWriteFails(p) PROVE (\A q \in Mutators : renewer[q] # "failed")'
  BY <1>14, <1>t, <1>u DEF RenewWriteFails
<1>15. ASSUME NEW p \in Mutators, RenewStop(p) PROVE (\A q \in Mutators : renewer[q] # "failed")'
  BY <1>15, <1>t, <1>u DEF RenewStop
<1>16. ASSUME NEW e \in Executors, Probe(e) PROVE (\A q \in Mutators : renewer[q] # "failed")'
  BY <1>16, <1>t, <1>u DEF Probe
<1>17. ASSUME NEW e \in Executors, ProbeUnlock(e) PROVE (\A q \in Mutators : renewer[q] # "failed")'
  BY <1>17, <1>t, <1>u DEF ProbeUnlock
<1>18. ASSUME NEW e \in Executors, ExecObserve(e) PROVE (\A q \in Mutators : renewer[q] # "failed")'
  BY <1>18, <1>t, <1>u DEF ExecObserve
<1>19. ASSUME NEW e \in Executors, ExecAbort(e) PROVE (\A q \in Mutators : renewer[q] # "failed")'
  BY <1>19, <1>t, <1>u DEF ExecAbort
<1>20. ASSUME NEW e \in Executors, ExecRevalidate(e) PROVE (\A q \in Mutators : renewer[q] # "failed")'
  BY <1>20, <1>t, <1>u DEF ExecRevalidate
<1>21. ASSUME NEW e \in Executors, ExecFinish(e) PROVE (\A q \in Mutators : renewer[q] # "failed")'
  BY <1>21, <1>t, <1>u DEF ExecFinish
<1>22. ASSUME NEW p \in Proc, BusyRead(p) PROVE (\A q \in Mutators : renewer[q] # "failed")'
  BY <1>22, <1>t, <1>u DEF BusyRead
<1>23. ASSUME NEW p \in Proc, BusyJudge(p) PROVE (\A q \in Mutators : renewer[q] # "failed")'
  BY <1>23, <1>t, <1>u DEF BusyJudge
<1>24. ASSUME NEW p \in Proc, RepairWrite(p) PROVE (\A q \in Mutators : renewer[q] # "failed")'
  BY <1>24, <1>t, <1>u DEF RepairWrite
<1>25. ASSUME NEW p \in Proc, RepairWriteFails(p) PROVE (\A q \in Mutators : renewer[q] # "failed")'
  BY <1>25, <1>t, <1>u DEF RepairWriteFails
<1>26. ASSUME NEW p \in Proc, Crash(p) PROVE (\A q \in Mutators : renewer[q] # "failed")'
  BY <1>26, <1>t, <1>u DEF Crash
<1>27. ASSUME Tick PROVE (\A q \in Mutators : renewer[q] # "failed")'
  BY <1>27, <1>u DEF Tick
<1>28. ASSUME Damage PROVE (\A q \in Mutators : renewer[q] # "failed")'
  BY <1>28, <1>t, <1>u DEF Damage
<1>29. CASE UNCHANGED vars
  BY <1>29, <1>u DEF vars
<1> QED
  BY ONLY [Next]_vars, <1>1, <1>2, <1>3, <1>4, <1>5, <1>6, <1>7, <1>8,
     <1>9, <1>10, <1>11, <1>12, <1>13, <1>14, <1>15, <1>16, <1>17, <1>18,
     <1>19, <1>20, <1>21, <1>22, <1>23, <1>24, <1>25, <1>26, <1>27, <1>28,
     <1>29
     DEF Next, MutatorStep, RenewStep, ExecutorStep, RefusedStep, AllEnded

\* A process is refused in view of those who had ended, and these stay as they
\* ended; it reports nothing before it exits, and judges no one who had released.
NamesInv ==
  /\ \A p \in Proc : gone[p] \subseteq Ended
  /\ \A p \in Proc : pc[p] \notin Gone => report[p] = NoOwner
  /\ \A p \in Proc :
       pc[p] = "judge" => buf[p].owner \notin gone[p] \cap ReleasedCleanly
  /\ BusyNamesUnfinished

\* Every step keeps it.
LEMMA NamesStep ==
  TypeOK /\ FlockInv /\ ReleasedStaysGone /\ NamesInv /\ [Next]_vars
    => NamesInv'
<1> DEFINE Clean(q)  == pc[q] = "exited" /\ result[q] = "ok"
           Past      == \A x \in Proc : \A q \in gone[x] : pc[q] \in Gone
           Mute      == \A x \in Proc : pc[x] \notin Gone => report[x] = NoOwner
           Judged    == \A x \in Proc : pc[x] = "judge" =>
                          ~(buf[x].owner \in gone[x] /\ Clean(buf[x].owner))
           Reported  == \A x \in Proc :
                          ~(report[x] \in gone[x] /\ Clean(report[x]))
           Named     == Past /\ Mute /\ Judged /\ Reported
<1>i. /\ TypeOK => (NamesInv <=> Named)
      /\ TypeOK' => (NamesInv' <=> Named')
  BY DEF NamesInv, BusyNamesUnfinished, ReleasedCleanly, Ended, TypeOK, Gone
<1> SUFFICES ASSUME TypeOK, FlockInv, ReleasedStaysGone, Named, [Next]_vars
             PROVE  Named'
  BY <1>i, TypeStep
<1>t. /\ pc \in [Proc -> Phases] /\ flock \in Proc \cup {NoOwner}
      /\ buf \in [Proc -> Record] /\ rec \in Record
      /\ result \in [Proc -> {"none", "ok", "busy", "error", "stale"}]
      /\ report \in [Proc -> Proc \cup {NoOwner}]
      /\ gone \in [Proc -> SUBSET Mutators]
  BY DEF TypeOK, Owner
<1>c. Mutators \cap Executors = {} /\ NoOwner \notin Proc
  BY ConstantsAssumption DEF Proc
<1>r. \A q \in Mutators : Clean(q) => rec.owner # q
  BY DEF ReleasedStaysGone, ReleasedCleanly, Ended, Gone
<1> USE DEF Proc, FlockInv, Holding, Gone, Goto, Exit, renewal, history, Record,
        Fresh
<1>1. ASSUME NEW p \in Mutators, Start(p) PROVE Named'
  BY <1>1, <1>t, <1>c, <1>r DEF Start
<1>2. ASSUME NEW p \in Mutators, CancelStart(p) PROVE Named'
  BY <1>2, <1>t, <1>c, <1>r DEF CancelStart
<1>3. ASSUME NEW p \in Mutators, TryLock(p) PROVE Named'
  BY <1>3, <1>t, <1>c, <1>r DEF TryLock, Ended
<1>4. ASSUME NEW p \in Mutators, AcqRead(p) PROVE Named'
  BY <1>4, <1>t, <1>c, <1>r DEF AcqRead
<1>5. ASSUME NEW p \in Mutators, AcqWrite(p) PROVE Named'
  BY <1>5, <1>t, <1>c, <1>r DEF AcqWrite
<1>6. ASSUME NEW p \in Mutators, AcqWriteFails(p) PROVE Named'
  BY <1>6, <1>t, <1>c, <1>r DEF AcqWriteFails
<1>7. ASSUME NEW p \in Mutators, Finish(p) PROVE Named'
  BY <1>7, <1>t, <1>c, <1>r DEF Finish
<1>8. ASSUME NEW p \in Mutators, RelRead(p) PROVE Named'
  BY <1>8, <1>t, <1>c, <1>r DEF RelRead
<1>9. ASSUME NEW p \in Mutators, RelWrite(p) PROVE Named'
  BY <1>9, <1>t, <1>c, <1>r DEF RelWrite
<1>10. ASSUME NEW p \in Mutators, RelWriteFails(p) PROVE Named'
  BY <1>10, <1>t, <1>c, <1>r DEF RelWriteFails
<1>11. ASSUME NEW p \in Mutators, Unlock(p) PROVE Named'
  BY <1>11, <1>t, <1>c, <1>r DEF Unlock
<1>12. ASSUME NEW p \in Mutators, RenewRead(p) PROVE Named'
  BY <1>12, <1>t, <1>c, <1>r DEF RenewRead
<1>13. ASSUME NEW p \in Mutators, RenewWrite(p) PROVE Named'
  BY <1>13, <1>t, <1>c, <1>r DEF RenewWrite
<1>14. ASSUME NEW p \in Mutators, RenewWriteFails(p) PROVE Named'
  BY <1>14, <1>t, <1>c, <1>r DEF RenewWriteFails
<1>15. ASSUME NEW p \in Mutators, RenewStop(p) PROVE Named'
  BY <1>15, <1>t, <1>c, <1>r DEF RenewStop
<1>16. ASSUME NEW e \in Executors, Probe(e) PROVE Named'
  BY <1>16, <1>t, <1>c, <1>r DEF Probe, Ended
<1>17. ASSUME NEW e \in Executors, ProbeUnlock(e) PROVE Named'
  BY <1>17, <1>t, <1>c, <1>r DEF ProbeUnlock
<1>18. ASSUME NEW e \in Executors, ExecObserve(e) PROVE Named'
  BY <1>18, <1>t, <1>c, <1>r DEF ExecObserve, ObservedRecord
<1>19. ASSUME NEW e \in Executors, ExecAbort(e) PROVE Named'
  BY <1>19, <1>t, <1>c, <1>r DEF ExecAbort
<1>20. ASSUME NEW e \in Executors, ExecRevalidate(e) PROVE Named'
  BY <1>20, <1>t, <1>c, <1>r DEF ExecRevalidate
<1>21. ASSUME NEW e \in Executors, ExecFinish(e) PROVE Named'
  BY <1>21, <1>t, <1>c, <1>r DEF ExecFinish
<1>22. ASSUME NEW p \in Proc, BusyRead(p) PROVE Named'
  BY <1>22, <1>t, <1>c, <1>r DEF BusyRead
<1>23. ASSUME NEW p \in Proc, BusyJudge(p) PROVE Named'
  BY <1>23, <1>t, <1>c, <1>r DEF BusyJudge, ToClear, Alive
<1>24. ASSUME NEW p \in Proc, RepairWrite(p) PROVE Named'
  BY <1>24, <1>t, <1>c, <1>r DEF RepairWrite
<1>25. ASSUME NEW p \in Proc, RepairWriteFails(p) PROVE Named'
  BY <1>25, <1>t, <1>c, <1>r DEF RepairWriteFails
<1>26. ASSUME NEW p \in Proc, Crash(p) PROVE Named'
  BY <1>26, <1>t, <1>c, <1>r DEF Crash, Alive
<1>27. ASSUME Tick PROVE Named'
  BY <1>27 DEF Tick
<1>28. ASSUME Damage PROVE Named'
  BY <1>28 DEF Damage
<1>29. CASE UNCHANGED vars
  BY <1>29 DEF vars
<1> QED
  BY ONLY [Next]_vars, <1>1, <1>2, <1>3, <1>4, <1>5, <1>6, <1>7, <1>8,
     <1>9, <1>10, <1>11, <1>12, <1>13, <1>14, <1>15, <1>16, <1>17, <1>18,
     <1>19, <1>20, <1>21, <1>22, <1>23, <1>24, <1>25, <1>26, <1>27, <1>28,
     <1>29
     DEF Next, MutatorStep, RenewStep, ExecutorStep, RefusedStep, AllEnded

-----------------------------------------------------------------------------
(* Theorems. *)

\* The inductive invariant: who holds the flock, what the renewal goroutine
\* may write, what a record says, and how generations follow each other.
IInv == /\ TypeOK /\ FlockInv /\ RenewInv /\ RecordInv /\ UnlockInv
        /\ HolderRecorded /\ GenInv

\* The invariant holds initially.
LEMMA InitIInv == Init => IInv
<1> SUFFICES ASSUME Init PROVE IInv
  OBVIOUS
<1>1. TypeOK
  BY InitTypeOK
<1>2. FlockInv
  BY ConstantsAssumption DEF Init, FlockInv, Holding, Proc
<1>3. RenewInv
  BY DEF Init, RenewInv, Proc
<1>4. RecordInv
  BY DEF Init, RecordInv, Absent, Fresh
<1>5. UnlockInv /\ HolderRecorded /\ GenInv
  BY DEF Init, UnlockInv, HolderRecorded, GenInv, Proc
<1>6. QED BY <1>1, <1>2, <1>3, <1>4, <1>5 DEF IInv

\* Every step keeps the invariant.
LEMMA StepIInv == IInv /\ [Next]_vars => IInv'
BY TypeStep, FlockStep, RenewInvStep, RecordInvStep, UnlockInvStep,
   HolderStep, GenInvStep DEF IInv

\* The inductive invariant holds in every reachable state.
THEOREM Inductive == Spec => []IInv
BY InitIInv, StepIInv, PTL DEF Spec

\* Bodies of mutating commands never overlap: at most one process is past its
\* acquisition, and it holds the flock.
THEOREM HolderIsAlone ==
  Spec => [](\A p, q \in Mutators : Body(p) /\ Body(q) => p = q)
<1>1. IInv => \A p, q \in Mutators : Body(p) /\ Body(q) => p = q
  BY DEF IInv, FlockInv, Holding, Body
<1>2. QED BY <1>1, Inductive, PTL

\* While a body runs the record names its process, unless a refused process
\* repaired the record unsoundly or an outsider destroyed it.
THEOREM HolderIsRecorded == Spec => []HolderRecorded
<1>1. IInv => HolderRecorded
  BY DEF IInv
<1>2. QED BY <1>1, Inductive, PTL

\* An exec that passed revalidation overlooked no mutation, with the same two
\* exceptions.
THEOREM ExecIsQuiet == Spec => []QuietExec
<1>1. Init => QuietExec
  BY DEF Init, QuietExec, Proc
<1>2. IInv /\ QuietExec /\ [Next]_vars => QuietExec'
  BY QuietStep DEF IInv
<1>3. QED BY <1>1, <1>2, Inductive, PTL DEF Spec

\* A released process never comes back into the record.
THEOREM ReleasedNeverReturns == Spec => []ReleasedStaysGone
<1>1. Init => ReleasedStaysGone
  BY DEF Init, ReleasedStaysGone, ReleasedCleanly, Ended, Gone, Proc
<1>2. IInv /\ ReleasedStaysGone /\ [Next]_vars => ReleasedStaysGone'
  BY ReleasedStep DEF IInv
<1>3. QED BY <1>1, <1>2, Inductive, PTL DEF Spec

\* The renewal goroutine fails only for an unsound repair, an outsider or a
\* disk fault.
THEOREM RenewalLossHasACause == Spec => []RenewalLossExplained
<1>1. Init => RenewalLossExplained
  BY DEF Init, RenewalLossExplained, Proc
<1>2. IInv /\ RenewalLossExplained /\ [Next]_vars => RenewalLossExplained'
  BY RenewalLossStep DEF IInv
<1>3. QED BY <1>1, <1>2, Inductive, PTL DEF Spec

\* The generation never goes back, so no exec takes a later mutation for an
\* earlier state, unless a repair was unsound or an outsider destroyed the
\* record.
THEOREM GenerationsGrow == Spec => GenerationMonotone
<1>1. Init => NothingOlder
  BY DEF Init, NothingOlder, Proc
<1>2. IInv /\ NothingOlder /\ [Next]_vars
        => /\ NothingOlder'
           /\ rec'.gen >= rec.gen \/ misrepaired' \/ damage' # damage
  BY NothingOlderStep DEF IInv
<1>3. QED BY <1>1, <1>2, Inductive, PTL DEF Spec, GenerationMonotone

\* A refused process never blames one that had released the workspace before it
\* tried the lock.
THEOREM BusyIsNotStale == Spec => []BusyNamesUnfinished
<1>1. Init => NamesInv
  BY ConstantsAssumption
     DEF Init, NamesInv, BusyNamesUnfinished, ReleasedCleanly, Proc
<1>2. IInv /\ ReleasedStaysGone /\ NamesInv /\ [Next]_vars => NamesInv'
  BY NamesStep DEF IInv
<1>3. NamesInv => BusyNamesUnfinished
  BY DEF NamesInv
<1>4. QED
  BY <1>1, <1>2, <1>3, Inductive, ReleasedNeverReturns, PTL DEF Spec

-----------------------------------------------------------------------------
(* Refinement. *)

\* Every step of the protocol is a step of the abstract lock or a stutter.
LEMMA RefinementStep ==
  IInv /\ IInv' /\ [Next]_vars
    => [Lock!Next]_([p \in Mutators |-> PhaseOf(p)])
<1> DEFINE phases == [p \in Mutators |-> PhaseOf(p)]
<1> SUFFICES ASSUME IInv, IInv', [Next]_vars
             PROVE  Lock!Next \/ phases' = phases
  OBVIOUS
<1>t. pc \in [Proc -> Phases] /\ pc' \in [Proc -> Phases]
  BY DEF IInv, TypeOK
<1>a. ASSUME NEW p \in Mutators, PhaseOf(p) = "before", PhaseOf(p)' = "in",
             \A q \in Mutators \ {p} : pc'[q] = pc[q]
      PROVE  Lock!Next
  <2>1. \A q \in Mutators : PhaseOf(q) # "in"
    <3> SUFFICES ASSUME NEW q \in Mutators, PhaseOf(q) = "in" PROVE FALSE
      OBVIOUS
    <3>1. pc[q] = "body" /\ q # p
      BY <1>a DEF PhaseOf
    <3>2. pc'[q] = "body" /\ pc'[p] = "body"
      BY <1>a, <3>1 DEF PhaseOf
    <3>3. QED BY <3>1, <3>2 DEF IInv, FlockInv, Holding
  <2>2. phases' = [phases EXCEPT ![p] = "in"]
    BY <1>a DEF PhaseOf
  <2>3. Lock!Enter(p)
    BY <1>a, <2>1, <2>2 DEF Lock!Enter
  <2>4. QED BY <2>3 DEF Lock!Next
<1>b. ASSUME NEW p \in Mutators, PhaseOf(p)' = "after",
             \A q \in Mutators \ {p} : pc'[q] = pc[q]
      PROVE  Lock!Next \/ phases' = phases
  <2>1. phases' = [phases EXCEPT ![p] = "after"]
    BY <1>b DEF PhaseOf
  <2>2. PhaseOf(p) \in {"before", "in", "after"}
    BY DEF PhaseOf
  <2>3. CASE PhaseOf(p) = "before"
    BY <2>1, <2>3 DEF Lock!Next, Lock!Refuse
  <2>4. CASE PhaseOf(p) = "in"
    BY <2>1, <2>4 DEF Lock!Next, Lock!Leave
  <2>5. CASE PhaseOf(p) = "after"
    BY <2>1, <2>5
  <2>6. QED BY <2>2, <2>3, <2>4, <2>5
<1>c. ASSUME \A q \in Mutators : PhaseOf(q)' = PhaseOf(q)
      PROVE  phases' = phases
  BY <1>c
<1>d. Mutators \cap Executors = {}
  BY ConstantsAssumption
<1> USE DEF Proc, Goto, Exit, Gone, renewal, history
<1>1. ASSUME NEW p \in Mutators, Start(p) PROVE Lock!Next \/ phases' = phases
  <2>1. \A q \in Mutators : PhaseOf(q)' = PhaseOf(q)
    BY <1>1, <1>t, <1>d DEF Start, PhaseOf
  <2>2. QED BY <2>1, <1>c
<1>2. ASSUME NEW p \in Mutators, CancelStart(p) PROVE Lock!Next \/ phases' = phases
  <2>1. PhaseOf(p)' = "after" /\ \A q \in Mutators \ {p} : pc'[q] = pc[q]
    BY <1>2, <1>t DEF CancelStart, PhaseOf
  <2>2. QED BY <2>1, <1>b
<1>3. ASSUME NEW p \in Mutators, TryLock(p) PROVE Lock!Next \/ phases' = phases
  <2>1. \A q \in Mutators : PhaseOf(q)' = PhaseOf(q)
    BY <1>3, <1>t, <1>d DEF TryLock, PhaseOf
  <2>2. QED BY <2>1, <1>c
<1>4. ASSUME NEW p \in Mutators, AcqRead(p) PROVE Lock!Next \/ phases' = phases
  <2>1. \A q \in Mutators : PhaseOf(q)' = PhaseOf(q)
    BY <1>4, <1>t, <1>d DEF AcqRead, PhaseOf
  <2>2. QED BY <2>1, <1>c
<1>5. ASSUME NEW p \in Mutators, AcqWrite(p) PROVE Lock!Next \/ phases' = phases
  <2>1. PhaseOf(p) = "before" /\ PhaseOf(p)' = "in"
    BY <1>5, <1>t DEF AcqWrite, PhaseOf
  <2>2. \A q \in Mutators \ {p} : pc'[q] = pc[q]
    BY <1>5, <1>t DEF AcqWrite
  <2>3. QED BY <2>1, <2>2, <1>a
<1>6. ASSUME NEW p \in Mutators, AcqWriteFails(p) PROVE Lock!Next \/ phases' = phases
  <2>1. PhaseOf(p)' = "after" /\ \A q \in Mutators \ {p} : pc'[q] = pc[q]
    BY <1>6, <1>t DEF AcqWriteFails, PhaseOf
  <2>2. QED BY <2>1, <1>b
<1>7. ASSUME NEW p \in Mutators, Finish(p) PROVE Lock!Next \/ phases' = phases
  <2>1. PhaseOf(p)' = "after" /\ \A q \in Mutators \ {p} : pc'[q] = pc[q]
    BY <1>7, <1>t DEF Finish, PhaseOf
  <2>2. QED BY <2>1, <1>b
<1>8. ASSUME NEW p \in Mutators, RelRead(p) PROVE Lock!Next \/ phases' = phases
  <2>1. PhaseOf(p)' = "after" /\ \A q \in Mutators \ {p} : pc'[q] = pc[q]
    BY <1>8, <1>t DEF RelRead, PhaseOf
  <2>2. QED BY <2>1, <1>b
<1>9. ASSUME NEW p \in Mutators, RelWrite(p) PROVE Lock!Next \/ phases' = phases
  <2>1. PhaseOf(p)' = "after" /\ \A q \in Mutators \ {p} : pc'[q] = pc[q]
    BY <1>9, <1>t DEF RelWrite, PhaseOf
  <2>2. QED BY <2>1, <1>b
<1>10. ASSUME NEW p \in Mutators, RelWriteFails(p) PROVE Lock!Next \/ phases' = phases
  <2>1. PhaseOf(p)' = "after" /\ \A q \in Mutators \ {p} : pc'[q] = pc[q]
    BY <1>10, <1>t DEF RelWriteFails, PhaseOf
  <2>2. QED BY <2>1, <1>b
<1>11. ASSUME NEW p \in Mutators, Unlock(p) PROVE Lock!Next \/ phases' = phases
  <2>1. PhaseOf(p)' = "after" /\ \A q \in Mutators \ {p} : pc'[q] = pc[q]
    BY <1>11, <1>t DEF Unlock, PhaseOf
  <2>2. QED BY <2>1, <1>b
<1>12. ASSUME NEW p \in Mutators, RenewRead(p) PROVE Lock!Next \/ phases' = phases
  <2>1. \A q \in Mutators : PhaseOf(q)' = PhaseOf(q)
    BY <1>12, <1>t, <1>d DEF RenewRead, PhaseOf
  <2>2. QED BY <2>1, <1>c
<1>13. ASSUME NEW p \in Mutators, RenewWrite(p) PROVE Lock!Next \/ phases' = phases
  <2>1. \A q \in Mutators : PhaseOf(q)' = PhaseOf(q)
    BY <1>13, <1>t, <1>d DEF RenewWrite, PhaseOf
  <2>2. QED BY <2>1, <1>c
<1>14. ASSUME NEW p \in Mutators, RenewWriteFails(p) PROVE Lock!Next \/ phases' = phases
  <2>1. \A q \in Mutators : PhaseOf(q)' = PhaseOf(q)
    BY <1>14, <1>t, <1>d DEF RenewWriteFails, PhaseOf
  <2>2. QED BY <2>1, <1>c
<1>15. ASSUME NEW p \in Mutators, RenewStop(p) PROVE Lock!Next \/ phases' = phases
  <2>1. \A q \in Mutators : PhaseOf(q)' = PhaseOf(q)
    BY <1>15, <1>t, <1>d DEF RenewStop, PhaseOf
  <2>2. QED BY <2>1, <1>c
<1>16. ASSUME NEW e \in Executors, Probe(e) PROVE Lock!Next \/ phases' = phases
  <2>1. \A q \in Mutators : PhaseOf(q)' = PhaseOf(q)
    BY <1>16, <1>t, <1>d DEF Probe, PhaseOf
  <2>2. QED BY <2>1, <1>c
<1>17. ASSUME NEW e \in Executors, ProbeUnlock(e) PROVE Lock!Next \/ phases' = phases
  <2>1. \A q \in Mutators : PhaseOf(q)' = PhaseOf(q)
    BY <1>17, <1>t, <1>d DEF ProbeUnlock, PhaseOf
  <2>2. QED BY <2>1, <1>c
<1>18. ASSUME NEW e \in Executors, ExecObserve(e) PROVE Lock!Next \/ phases' = phases
  <2>1. \A q \in Mutators : PhaseOf(q)' = PhaseOf(q)
    BY <1>18, <1>t, <1>d DEF ExecObserve, PhaseOf
  <2>2. QED BY <2>1, <1>c
<1>19. ASSUME NEW e \in Executors, ExecAbort(e) PROVE Lock!Next \/ phases' = phases
  <2>1. \A q \in Mutators : PhaseOf(q)' = PhaseOf(q)
    BY <1>19, <1>t, <1>d DEF ExecAbort, PhaseOf
  <2>2. QED BY <2>1, <1>c
<1>20. ASSUME NEW e \in Executors, ExecRevalidate(e) PROVE Lock!Next \/ phases' = phases
  <2>1. \A q \in Mutators : PhaseOf(q)' = PhaseOf(q)
    BY <1>20, <1>t, <1>d DEF ExecRevalidate, PhaseOf
  <2>2. QED BY <2>1, <1>c
<1>21. ASSUME NEW e \in Executors, ExecFinish(e) PROVE Lock!Next \/ phases' = phases
  <2>1. \A q \in Mutators : PhaseOf(q)' = PhaseOf(q)
    BY <1>21, <1>t, <1>d DEF ExecFinish, PhaseOf
  <2>2. QED BY <2>1, <1>c
<1>22. ASSUME NEW p \in Proc, BusyRead(p) PROVE Lock!Next \/ phases' = phases
  <2>1. CASE p \in Executors
    <3>1. \A q \in Mutators : PhaseOf(q)' = PhaseOf(q)
      BY <1>22, <1>t, <1>d, <2>1 DEF BusyRead, PhaseOf
    <3>2. QED BY <3>1, <1>c
  <2>2. CASE p \in Mutators
    <3>1. \A q \in Mutators \ {p} : pc'[q] = pc[q]
      BY <1>22, <1>t DEF BusyRead
    <3>2. PhaseOf(p)' = "after" \/ PhaseOf(p)' = PhaseOf(p)
      BY <1>22, <1>t, <2>2 DEF BusyRead, PhaseOf
    <3>3. CASE PhaseOf(p)' = "after"
      BY <3>1, <3>3, <2>2, <1>b
    <3>4. CASE PhaseOf(p)' = PhaseOf(p)
      <4>1. \A q \in Mutators : PhaseOf(q)' = PhaseOf(q)
        BY <3>1, <3>4 DEF PhaseOf
      <4>2. QED BY <4>1, <1>c
    <3>5. QED BY <3>2, <3>3, <3>4
  <2>3. QED BY <2>1, <2>2
<1>23. ASSUME NEW p \in Proc, BusyJudge(p) PROVE Lock!Next \/ phases' = phases
  <2>1. CASE p \in Executors
    <3>1. \A q \in Mutators : PhaseOf(q)' = PhaseOf(q)
      BY <1>23, <1>t, <1>d, <2>1 DEF BusyJudge, PhaseOf
    <3>2. QED BY <3>1, <1>c
  <2>2. CASE p \in Mutators
    <3>1. \A q \in Mutators \ {p} : pc'[q] = pc[q]
      BY <1>23, <1>t DEF BusyJudge
    <3>2. PhaseOf(p)' = "after" \/ PhaseOf(p)' = PhaseOf(p)
      BY <1>23, <1>t, <2>2 DEF BusyJudge, PhaseOf
    <3>3. CASE PhaseOf(p)' = "after"
      BY <3>1, <3>3, <2>2, <1>b
    <3>4. CASE PhaseOf(p)' = PhaseOf(p)
      <4>1. \A q \in Mutators : PhaseOf(q)' = PhaseOf(q)
        BY <3>1, <3>4 DEF PhaseOf
      <4>2. QED BY <4>1, <1>c
    <3>5. QED BY <3>2, <3>3, <3>4
  <2>3. QED BY <2>1, <2>2
<1>24. ASSUME NEW p \in Proc, RepairWrite(p) PROVE Lock!Next \/ phases' = phases
  <2>1. CASE p \in Executors
    <3>1. \A q \in Mutators : PhaseOf(q)' = PhaseOf(q)
      BY <1>24, <1>t, <1>d, <2>1 DEF RepairWrite, PhaseOf
    <3>2. QED BY <3>1, <1>c
  <2>2. CASE p \in Mutators
    <3>1. \A q \in Mutators \ {p} : pc'[q] = pc[q]
      BY <1>24, <1>t DEF RepairWrite
    <3>2. PhaseOf(p)' = "after" \/ PhaseOf(p)' = PhaseOf(p)
      BY <1>24, <1>t, <2>2 DEF RepairWrite, PhaseOf
    <3>3. CASE PhaseOf(p)' = "after"
      BY <3>1, <3>3, <2>2, <1>b
    <3>4. CASE PhaseOf(p)' = PhaseOf(p)
      <4>1. \A q \in Mutators : PhaseOf(q)' = PhaseOf(q)
        BY <3>1, <3>4 DEF PhaseOf
      <4>2. QED BY <4>1, <1>c
    <3>5. QED BY <3>2, <3>3, <3>4
  <2>3. QED BY <2>1, <2>2
<1>25. ASSUME NEW p \in Proc, RepairWriteFails(p) PROVE Lock!Next \/ phases' = phases
  <2>1. CASE p \in Executors
    <3>1. \A q \in Mutators : PhaseOf(q)' = PhaseOf(q)
      BY <1>25, <1>t, <1>d, <2>1 DEF RepairWriteFails, PhaseOf
    <3>2. QED BY <3>1, <1>c
  <2>2. CASE p \in Mutators
    <3>1. \A q \in Mutators \ {p} : pc'[q] = pc[q]
      BY <1>25, <1>t DEF RepairWriteFails
    <3>2. PhaseOf(p)' = "after" \/ PhaseOf(p)' = PhaseOf(p)
      BY <1>25, <1>t, <2>2 DEF RepairWriteFails, PhaseOf
    <3>3. CASE PhaseOf(p)' = "after"
      BY <3>1, <3>3, <2>2, <1>b
    <3>4. CASE PhaseOf(p)' = PhaseOf(p)
      <4>1. \A q \in Mutators : PhaseOf(q)' = PhaseOf(q)
        BY <3>1, <3>4 DEF PhaseOf
      <4>2. QED BY <4>1, <1>c
    <3>5. QED BY <3>2, <3>3, <3>4
  <2>3. QED BY <2>1, <2>2
<1>26. ASSUME NEW p \in Proc, Crash(p) PROVE Lock!Next \/ phases' = phases
  <2>1. CASE p \in Executors
    <3>1. \A q \in Mutators : PhaseOf(q)' = PhaseOf(q)
      BY <1>26, <1>t, <1>d, <2>1 DEF Crash, PhaseOf
    <3>2. QED BY <3>1, <1>c
  <2>2. CASE p \in Mutators
    <3>1. \A q \in Mutators \ {p} : pc'[q] = pc[q]
      BY <1>26, <1>t DEF Crash
    <3>2. PhaseOf(p)' = "after" \/ PhaseOf(p)' = PhaseOf(p)
      BY <1>26, <1>t, <2>2 DEF Crash, PhaseOf
    <3>3. CASE PhaseOf(p)' = "after"
      BY <3>1, <3>3, <2>2, <1>b
    <3>4. CASE PhaseOf(p)' = PhaseOf(p)
      <4>1. \A q \in Mutators : PhaseOf(q)' = PhaseOf(q)
        BY <3>1, <3>4 DEF PhaseOf
      <4>2. QED BY <4>1, <1>c
    <3>5. QED BY <3>2, <3>3, <3>4
  <2>3. QED BY <2>1, <2>2
<1>27. ASSUME Tick PROVE Lock!Next \/ phases' = phases
  <2>1. UNCHANGED pc
    BY <1>27 DEF Tick
  <2>2. QED BY <2>1, <1>c DEF PhaseOf
<1>28. ASSUME Damage PROVE Lock!Next \/ phases' = phases
  <2>1. UNCHANGED pc
    BY <1>28 DEF Damage
  <2>2. QED BY <2>1, <1>c DEF PhaseOf
<1>29. CASE UNCHANGED vars
  BY <1>29, <1>c DEF vars, PhaseOf
<1> QED
  BY ONLY [Next]_vars, <1>1, <1>2, <1>3, <1>4, <1>5, <1>6, <1>7, <1>8,
     <1>9, <1>10, <1>11, <1>12, <1>13, <1>14, <1>15, <1>16, <1>17, <1>18,
     <1>19, <1>20, <1>21, <1>22, <1>23, <1>24, <1>25, <1>26, <1>27, <1>28,
     <1>29
     DEF Next, MutatorStep, RenewStep, ExecutorStep, RefusedStep, AllEnded

\* The coordination protocol implements the abstract lock: every step of a
\* process enters, leaves or refuses a body, or changes nothing of it.
THEOREM Refinement == Spec => BodiesExclude
<1>1. Init => Lock!Init
  BY DEF Init, Lock!Init, PhaseOf, Proc
<1>2. QED
  BY <1>1, RefinementStep, Inductive, PTL DEF Spec, BodiesExclude, Lock!Spec
=============================================================================
