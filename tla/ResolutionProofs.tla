-------------------------- MODULE ResolutionProofs --------------------------
(***************************************************************************)
(* Theorems of module Resolution: the cached plan belongs to its key, what *)
(* a command resolves is what the lock file says, an up leaves everything  *)
(* locked and cached, and from then on offline commands do not fail for    *)
(* want of it.                                                             *)
(***************************************************************************)
EXTENDS Resolution, TLAPS

\* What a command remembers before it begins has the types.
LEMMA BlankTypes ==
  ASSUME input \in Inputs
  PROVE  /\ AnyInput \in Inputs
         /\ Unlocked \in Pins
         /\ <<AnyInput, Unlocked>> \in Key
BY DEF AnyInput, Unlocked, Pins, Key

\* Initially every variable has its type.
LEMMA InitTypeOK == Init => TypeOK
<1> SUFFICES ASSUME Init PROVE TypeOK
  OBVIOUS
<1>1. /\ AnyInput \in Inputs /\ Unlocked \in Pins
      /\ <<AnyInput, Unlocked>> \in Key
  BY BlankTypes DEF Init
<1>2. 0 \in 0..MaxChanges
  BY ResolutionAssumption
<1>3. QED
  BY <1>1, <1>2 DEF Init, TypeOK, Policies, Pcs

\* Resolving one more feature.
LEMMA OneMorePin ==
  ASSUME NEW f \in [Procs -> Pins], NEW p \in Procs, NEW s \in Sources,
         NEW d \in Digests \cup {NoDigest}
  PROVE  /\ [f EXCEPT ![p][s] = d] \in [Procs -> Pins]
         /\ \A q \in Procs \ {p} : [f EXCEPT ![p][s] = d][q] = f[q]
         /\ \A t \in Sources :
              [f EXCEPT ![p][s] = d][p][t] = IF t = s THEN d ELSE f[p][t]
BY DEF Pins

\* A feature to be resolved is a source, and what is served for it a digest.
LEMMA ServedType ==
  ASSUME TypeOK, NEW p \in Procs, NEW s \in Missing(p)
  PROVE  s \in Sources /\ Served(p, s) \in Digests
<1>1. s \in Sources
  BY ResolutionAssumption DEF Missing, TypeOK
<1>2. locks[p] \in Pins /\ upstream \in [Sources -> Digests]
  BY DEF TypeOK
<1>3. QED
  BY <1>1, <1>2 DEF Served, Pins

\* What the plan says is typed.
LEMMA PlanType ==
  ASSUME TypeOK, plan # NoPlan
  PROVE  plan.key \in Key /\ plan.input \in Inputs /\ plan.features \in Pins
BY DEF TypeOK, Plan

-----------------------------------------------------------------------------
(* What each step keeps. *)

\* The types.
LEMMA TypeStep == TypeOK /\ [Next]_vars => TypeOK'
<1> SUFFICES ASSUME TypeOK, [Next]_vars PROVE TypeOK'
  OBVIOUS
<1>b. /\ AnyInput \in Inputs /\ Unlocked \in Pins
      /\ <<AnyInput, Unlocked>> \in Key
  BY BlankTypes DEF TypeOK
<1>c. Change => changes' \in 0..MaxChanges
  BY ResolutionAssumption DEF Change, TypeOK
<1> USE ResolutionAssumption DEF TypeOK, Policies, Pcs, disk, local, history,
        Goto, Forget
<1>1. ASSUME NEW p \in Procs, Begin(p) PROVE TypeOK'
  BY <1>1, <1>b DEF Begin
<1>2. ASSUME NEW p \in Procs, Hash(p) PROVE TypeOK'
  <2>1. <<input, lock>> \in Key
    BY DEF Key
  <2>2. QED BY <1>2, <2>1 DEF Hash, Hashed
<1>3. ASSUME NEW p \in Procs, ReadPlan(p) PROVE TypeOK'
  <2>1. Usable(p) => plan.features \in Pins /\ plan.input \in Inputs
    BY PlanType DEF Usable
  <2>2. QED BY <1>3, <2>1 DEF ReadPlan
<1>4. ASSUME NEW p \in Procs, ReadLock(p) PROVE TypeOK'
  BY <1>4, <1>b DEF ReadLock
<1>5. ASSUME NEW p \in Procs, Fetch(p) PROVE TypeOK'
  <2>1. PICK s \in Missing(p) :
          /\ cache' = cache \cup {<<s, Served(p, s)>>}
          /\ got' = [got EXCEPT ![p][s] = Served(p, s)]
    BY <1>5 DEF Fetch
  <2>2. s \in Sources /\ Served(p, s) \in Digests
    BY ServedType
  <2>3. got' \in [Procs -> Pins]
    BY <2>1, <2>2, OneMorePin
  <2>4. cache' \subseteq Sources \X Digests
    BY <2>1, <2>2
  <2>5. QED BY <1>5, <2>3, <2>4 DEF Fetch
<1>6. ASSUME NEW p \in Procs, UseCached(p) PROVE TypeOK'
  <2>1. PICK s \in Missing(p) : got' = [got EXCEPT ![p][s] = locks[p][s]]
    BY <1>6 DEF UseCached
  <2>2. s \in Sources /\ locks[p][s] \in Digests \cup {NoDigest}
    BY ServedType DEF Pins
  <2>3. got' \in [Procs -> Pins]
    BY <2>1, <2>2, OneMorePin
  <2>4. QED BY <1>6, <2>3 DEF UseCached
<1>7. ASSUME NEW p \in Procs, CannotResolve(p) PROVE TypeOK'
  BY <1>7, <1>b DEF CannotResolve
<1>8. ASSUME NEW p \in Procs, Resolved(p) PROVE TypeOK'
  BY <1>8, <1>b DEF Resolved
<1>9. ASSUME NEW p \in Procs, WriteLock(p) PROVE TypeOK'
  <2>1. lock' \in Pins
    BY <1>9 DEF WriteLock
  <2>2. QED BY <1>9, <2>1 DEF WriteLock, Active
<1>10. ASSUME NEW p \in Procs, WritePlan(p) PROVE TypeOK'
  <2>1. [key |-> key[p], input |-> spec[p], features |-> got[p]] \in Plan
    BY DEF Plan
  <2>2. tainted' \in BOOLEAN
    <3>1. tainted' = (p \in raced) \/ tainted' = tainted
      BY ONLY <1>10, Zenon DEF WritePlan
    <3>2. CASE tainted' = (p \in raced)
      BY ONLY <3>2
    <3>3. CASE tainted' = tainted
      BY <3>3
    <3>4. QED BY ONLY <3>1, <3>2, <3>3, Zenon
  <2>3. plan' \in Plan \cup {NoPlan}
    BY <1>10, <2>1 DEF WritePlan
  <2>4. QED BY <1>10, <2>2, <2>3 DEF WritePlan
<1>11. ASSUME NEW p \in Procs, CallFails(p) PROVE TypeOK'
  BY <1>11, <1>b DEF CallFails
<1>12. ASSUME NEW p \in Procs, Return(p) PROVE TypeOK'
  BY <1>12, <1>b DEF Return
<1>13. CASE EditInput
  BY <1>13, <1>c DEF EditInput, Active
<1>14. CASE EditLock
  <2>1. lock' \in Pins
    BY <1>14, <1>b DEF EditLock, Pins
  <2>2. QED BY <1>14, <1>c, <2>1 DEF EditLock, Active
<1>15. CASE ClearCache
  <2>1. tainted' \in BOOLEAN
    BY <1>15 DEF ClearCache
  <2>2. QED BY <1>15, <1>c, <2>1 DEF ClearCache, Active
<1>16. CASE Publish
  <2>1. upstream' \in [Sources -> Digests]
    BY <1>16 DEF Publish
  <2>2. QED BY <1>16, <1>c, <2>1 DEF Publish
<1>17. CASE UNCHANGED vars
  BY <1>17, <1>b DEF vars
<1>18. ASSUME NEW p \in Procs, HashLock(p) PROVE TypeOK'
  <2>1. <<input, lock>> \in Key
    BY DEF Key
  <2>2. QED BY <1>18, <2>1 DEF HashLock, Hashed
<1>19. ASSUME NEW p \in Procs, LockFileGone(p) PROVE TypeOK'
  BY <1>19, <1>b DEF LockFileGone
<1>20. ASSUME NEW p \in Procs, Clash(p) PROVE TypeOK'
  BY <1>20, <1>b DEF Clash
<1> QED
  BY ONLY [Next]_vars, <1>1, <1>2, <1>3, <1>4, <1>5, <1>6, <1>7, <1>8,
     <1>9, <1>10, <1>11, <1>12, <1>13, <1>14, <1>15, <1>16, <1>17,
     <1>18, <1>19, <1>20 DEF Next

\* Who writes, and where.
LEMMA WriterStep ==
  TypeOK /\ WriterInv /\ [Next]_vars => WriterInv'
<1> SUFFICES ASSUME TypeOK, WriterInv, [Next]_vars
             PROVE  WriterInv'
  OBVIOUS
<1>t. /\ pc \in [Procs -> Pcs] /\ got \in [Procs -> Pins]
      /\ locks \in [Procs -> Pins] /\ key \in [Procs -> Key]
      /\ spec \in [Procs -> Inputs] /\ from \in [Procs -> Inputs]
      /\ policy \in [Procs -> Policies] /\ lock \in Pins
      /\ raced \subseteq Procs /\ Writers \subseteq Procs
  BY ResolutionAssumption DEF TypeOK
<1> USE DEF disk, local, history, Goto, Forget, WriterInv
<1>1. ASSUME NEW p \in Procs, Begin(p) PROVE WriterInv'
  BY <1>1, <1>t DEF Begin
<1>2. ASSUME NEW p \in Procs, Hash(p) PROVE WriterInv'
  BY <1>2, <1>t DEF Hash, Hashed
<1>3. ASSUME NEW p \in Procs, ReadPlan(p) PROVE WriterInv'
  BY <1>3, <1>t DEF ReadPlan
<1>4. ASSUME NEW p \in Procs, ReadLock(p) PROVE WriterInv'
  BY <1>4, <1>t DEF ReadLock
<1>5. ASSUME NEW p \in Procs, Fetch(p) PROVE WriterInv'
  <2>1. PICK s \in Missing(p) : got' = [got EXCEPT ![p][s] = Served(p, s)]
    BY <1>5 DEF Fetch
  <2>2. s \in Sources /\ Served(p, s) \in Digests
    BY ServedType
  <2>3. \A q \in Procs \ {p} : got'[q] = got[q]
    BY <1>t, <2>1, <2>2, OneMorePin
  <2>4. QED BY <1>5, <1>t, <2>3 DEF Fetch
<1>6. ASSUME NEW p \in Procs, UseCached(p) PROVE WriterInv'
  <2>1. PICK s \in Missing(p) : got' = [got EXCEPT ![p][s] = locks[p][s]]
    BY <1>6 DEF UseCached
  <2>2. s \in Sources /\ locks[p][s] \in Digests \cup {NoDigest}
    BY <1>t, ServedType DEF Pins
  <2>3. \A q \in Procs \ {p} : got'[q] = got[q]
    BY <1>t, <2>1, <2>2, OneMorePin
  <2>4. QED BY <1>6, <1>t, <2>3 DEF UseCached
<1>7. ASSUME NEW p \in Procs, CannotResolve(p) PROVE WriterInv'
  BY <1>7, <1>t DEF CannotResolve
<1>8. ASSUME NEW p \in Procs, Resolved(p) PROVE WriterInv'
  BY <1>8, <1>t DEF Resolved
<1>9. ASSUME NEW p \in Procs, WriteLock(p) PROVE WriterInv'
  BY <1>9, <1>t DEF WriteLock
<1>10. ASSUME NEW p \in Procs, WritePlan(p) PROVE WriterInv'
  BY <1>10, <1>t DEF WritePlan
<1>11. ASSUME NEW p \in Procs, CallFails(p) PROVE WriterInv'
  BY <1>11, <1>t DEF CallFails
<1>12. ASSUME NEW p \in Procs, Return(p) PROVE WriterInv'
  BY <1>12, <1>t DEF Return
<1>13. CASE EditInput
  BY <1>13, <1>t DEF EditInput
<1>14. CASE EditLock
  BY <1>14, <1>t DEF EditLock
<1>15. CASE ClearCache
  BY <1>15, <1>t DEF ClearCache
<1>16. CASE Publish
  BY <1>16, <1>t DEF Publish
<1>17. CASE UNCHANGED vars
  BY <1>17, <1>t DEF vars
<1>18. ASSUME NEW p \in Procs, HashLock(p) PROVE WriterInv'
  BY <1>18, <1>t DEF HashLock, Hashed
<1>19. ASSUME NEW p \in Procs, LockFileGone(p) PROVE WriterInv'
  BY <1>19, <1>t DEF LockFileGone
<1>20. ASSUME NEW p \in Procs, Clash(p) PROVE WriterInv'
  BY <1>20, <1>t DEF Clash
<1> QED
  BY ONLY [Next]_vars, <1>1, <1>2, <1>3, <1>4, <1>5, <1>6, <1>7, <1>8,
     <1>9, <1>10, <1>11, <1>12, <1>13, <1>14, <1>15, <1>16, <1>17,
     <1>18, <1>19, <1>20 DEF Next

\* The configuration that was loaded.
LEMMA LoadStep ==
  TypeOK /\ LoadInv /\ KeyInv /\ PlanHonest /\ [Next]_vars => LoadInv'
<1> SUFFICES ASSUME TypeOK, LoadInv, KeyInv, PlanHonest, [Next]_vars
             PROVE  LoadInv'
  OBVIOUS
<1>t. /\ pc \in [Procs -> Pcs] /\ got \in [Procs -> Pins]
      /\ locks \in [Procs -> Pins] /\ key \in [Procs -> Key]
      /\ spec \in [Procs -> Inputs] /\ from \in [Procs -> Inputs]
      /\ policy \in [Procs -> Policies] /\ lock \in Pins
      /\ raced \subseteq Procs /\ Writers \subseteq Procs
  BY ResolutionAssumption DEF TypeOK
<1> USE DEF disk, local, history, Goto, Forget, LoadInv, Undisturbed
<1>1. ASSUME NEW p \in Procs, Begin(p) PROVE LoadInv'
  BY <1>1, <1>t DEF Begin
<1>2. ASSUME NEW p \in Procs, Hash(p) PROVE LoadInv'
  BY <1>2, <1>t DEF Hash, Hashed
<1>3. ASSUME NEW p \in Procs, ReadPlan(p) PROVE LoadInv'
  <2>1. CASE Usable(p) /\ ~tainted
    <3>1. p \in Undisturbed => plan.input = input
      BY <1>3, <2>1 DEF ReadPlan, Usable, KeyInv, PlanHonest, Undisturbed
    <3>2. QED BY <1>3, <1>t, <2>1, <3>1 DEF ReadPlan
  <2>2. CASE Usable(p) /\ tainted
    BY <1>3, <1>t, <2>2 DEF ReadPlan
  <2>3. CASE ~Usable(p)
    BY <1>3, <1>t, <2>3 DEF ReadPlan
  <2>4. QED BY <2>1, <2>2, <2>3
<1>4. ASSUME NEW p \in Procs, ReadLock(p) PROVE LoadInv'
  BY <1>4, <1>t DEF ReadLock
<1>5. ASSUME NEW p \in Procs, Fetch(p) PROVE LoadInv'
  BY <1>5, <1>t DEF Fetch
<1>6. ASSUME NEW p \in Procs, UseCached(p) PROVE LoadInv'
  BY <1>6, <1>t DEF UseCached
<1>7. ASSUME NEW p \in Procs, CannotResolve(p) PROVE LoadInv'
  BY <1>7, <1>t DEF CannotResolve
<1>8. ASSUME NEW p \in Procs, Resolved(p) PROVE LoadInv'
  BY <1>8, <1>t DEF Resolved
<1>9. ASSUME NEW p \in Procs, WriteLock(p) PROVE LoadInv'
  BY <1>9, <1>t DEF WriteLock, Active
<1>10. ASSUME NEW p \in Procs, WritePlan(p) PROVE LoadInv'
  BY <1>10, <1>t DEF WritePlan
<1>11. ASSUME NEW p \in Procs, CallFails(p) PROVE LoadInv'
  BY <1>11, <1>t DEF CallFails
<1>12. ASSUME NEW p \in Procs, Return(p) PROVE LoadInv'
  BY <1>12, <1>t DEF Return
<1>13. CASE EditInput
  BY <1>13, <1>t DEF EditInput, Active
<1>14. CASE EditLock
  BY <1>14, <1>t DEF EditLock, Active
<1>15. CASE ClearCache
  BY <1>15, <1>t DEF ClearCache, Active
<1>16. CASE Publish
  BY <1>16, <1>t DEF Publish
<1>17. CASE UNCHANGED vars
  BY <1>17, <1>t DEF vars
<1>18. ASSUME NEW p \in Procs, HashLock(p) PROVE LoadInv'
  BY <1>18, <1>t DEF HashLock, Hashed
<1>19. ASSUME NEW p \in Procs, LockFileGone(p) PROVE LoadInv'
  BY <1>19, <1>t DEF LockFileGone
<1>20. ASSUME NEW p \in Procs, Clash(p) PROVE LoadInv'
  BY <1>20, <1>t DEF Clash
<1> QED
  BY ONLY [Next]_vars, <1>1, <1>2, <1>3, <1>4, <1>5, <1>6, <1>7, <1>8,
     <1>9, <1>10, <1>11, <1>12, <1>13, <1>14, <1>15, <1>16, <1>17,
     <1>18, <1>19, <1>20 DEF Next

\* A command that writes the lock file keeps what it says of the enabled
\* features, and leaves the resolution of the command in it.
LEMMA LockGrows ==
  ASSUME TypeOK, GotInv, NEW p \in Undisturbed, WriteLock(p)
  PROVE  \A s \in Wants[input] :
           /\ lock'[s] = got[p][s] /\ got[p][s] # NoDigest
           /\ lock[s] # NoDigest => lock'[s] = lock[s]
<1>1. pc[p] \in {"writeLock", "reuse"} /\ p \in Procs
  BY DEF WriteLock, Undisturbed
<1>2. Wants[input] \subseteq Sources
  BY ResolutionAssumption DEF TypeOK
<1>3. \A s \in Wants[input] :
        /\ got[p][s] # NoDigest
        /\ lock[s] = got[p][s] \/ lock[s] = NoDigest
        /\ policy[p] = "frozen" => lock[s] = got[p][s]
  BY <1>1, <1>2 DEF GotInv
<1>4. lock' = IF policy[p] = "frozen" THEN lock ELSE got[p]
  BY DEF WriteLock
<1>5. QED
  BY <1>3, <1>4

\* The key of an undisturbed command.
LEMMA KeyStep ==
  TypeOK /\ WriterInv /\ GotInv /\ KeyInv /\ [Next]_vars => KeyInv'
<1> SUFFICES ASSUME TypeOK, WriterInv, GotInv, KeyInv, [Next]_vars
             PROVE  KeyInv'
  OBVIOUS
<1>t. /\ pc \in [Procs -> Pcs] /\ got \in [Procs -> Pins]
      /\ locks \in [Procs -> Pins] /\ key \in [Procs -> Key]
      /\ spec \in [Procs -> Inputs] /\ from \in [Procs -> Inputs]
      /\ policy \in [Procs -> Policies] /\ lock \in Pins
      /\ raced \subseteq Procs /\ Writers \subseteq Procs
  BY ResolutionAssumption DEF TypeOK
<1>l. \A s \in Sources : lock[s] \in Digests \cup {NoDigest}
  BY <1>t DEF Pins
<1> USE DEF disk, local, history, Goto, Forget, KeyInv, Undisturbed, StillLocked
<1>1. ASSUME NEW p \in Procs, Begin(p) PROVE KeyInv'
  BY <1>1, <1>t DEF Begin
<1>2. ASSUME NEW p \in Procs, Hash(p) PROVE KeyInv'
  BY <1>2, <1>t DEF Hash, Hashed
<1>3. ASSUME NEW p \in Procs, ReadPlan(p) PROVE KeyInv'
  BY <1>3, <1>t DEF ReadPlan
<1>4. ASSUME NEW p \in Procs, ReadLock(p) PROVE KeyInv'
  BY <1>4, <1>t DEF ReadLock
<1>5. ASSUME NEW p \in Procs, Fetch(p) PROVE KeyInv'
  BY <1>5, <1>t DEF Fetch
<1>6. ASSUME NEW p \in Procs, UseCached(p) PROVE KeyInv'
  BY <1>6, <1>t DEF UseCached
<1>7. ASSUME NEW p \in Procs, CannotResolve(p) PROVE KeyInv'
  BY <1>7, <1>t DEF CannotResolve
<1>8. ASSUME NEW p \in Procs, Resolved(p) PROVE KeyInv'
  BY <1>8, <1>t DEF Resolved
<1>9. ASSUME NEW p \in Procs, WriteLock(p) PROVE KeyInv'
  <2>1. CASE p \in raced
    BY <1>9, <1>t, <2>1 DEF WriteLock, Active
  <2>2. CASE p \notin raced
    <3>1. p \in Undisturbed /\ p \in Writers
      BY <1>9, <2>2 DEF WriteLock, WriterInv
    <3>2. \A s \in Wants[input] : lock[s] # NoDigest => lock'[s] = lock[s]
      BY <1>9, <3>1, LockGrows
    <3>3. QED BY <1>9, <1>t, <2>2, <3>1, <3>2 DEF WriteLock, WriterInv
  <2>3. QED BY <2>1, <2>2
<1>10. ASSUME NEW p \in Procs, WritePlan(p) PROVE KeyInv'
  BY <1>10, <1>t DEF WritePlan
<1>11. ASSUME NEW p \in Procs, CallFails(p) PROVE KeyInv'
  BY <1>11, <1>t DEF CallFails
<1>12. ASSUME NEW p \in Procs, Return(p) PROVE KeyInv'
  BY <1>12, <1>t DEF Return
<1>13. CASE EditInput
  BY <1>13, <1>t DEF EditInput, Active
<1>14. CASE EditLock
  BY <1>14, <1>t DEF EditLock, Active
<1>15. CASE ClearCache
  BY <1>15, <1>t DEF ClearCache, Active
<1>16. CASE Publish
  BY <1>16, <1>t DEF Publish
<1>17. CASE UNCHANGED vars
  BY <1>17, <1>t DEF vars
<1>18. ASSUME NEW p \in Procs, HashLock(p) PROVE KeyInv'
  BY <1>18, <1>t DEF HashLock, Hashed
<1>19. ASSUME NEW p \in Procs, LockFileGone(p) PROVE KeyInv'
  BY <1>19, <1>t DEF LockFileGone
<1>20. ASSUME NEW p \in Procs, Clash(p) PROVE KeyInv'
  BY <1>20, <1>t DEF Clash
<1> QED
  BY ONLY [Next]_vars, <1>1, <1>2, <1>3, <1>4, <1>5, <1>6, <1>7, <1>8,
     <1>9, <1>10, <1>11, <1>12, <1>13, <1>14, <1>15, <1>16, <1>17,
     <1>18, <1>19, <1>20 DEF Next

\* What a command has resolved so far.
LEMMA ResolveStep ==
  TypeOK /\ WriterInv /\ LoadInv /\ GotInv /\ ResolveInv /\ [Next]_vars
    => ResolveInv'
<1> SUFFICES ASSUME TypeOK, WriterInv, LoadInv, GotInv, ResolveInv, [Next]_vars
             PROVE  ResolveInv'
  OBVIOUS
<1>t. /\ pc \in [Procs -> Pcs] /\ got \in [Procs -> Pins]
      /\ locks \in [Procs -> Pins] /\ key \in [Procs -> Key]
      /\ spec \in [Procs -> Inputs] /\ from \in [Procs -> Inputs]
      /\ policy \in [Procs -> Policies] /\ lock \in Pins
      /\ raced \subseteq Procs /\ Writers \subseteq Procs
  BY ResolutionAssumption DEF TypeOK
<1>l. \A s \in Sources : lock[s] \in Digests \cup {NoDigest}
  BY <1>t DEF Pins
<1> USE DEF disk, local, history, Goto, Forget, ResolveInv, Undisturbed, StillLocked
<1>1. ASSUME NEW p \in Procs, Begin(p) PROVE ResolveInv'
  BY <1>1, <1>t DEF Begin
<1>2. ASSUME NEW p \in Procs, Hash(p) PROVE ResolveInv'
  BY <1>2, <1>t DEF Hash, Hashed
<1>3. ASSUME NEW p \in Procs, ReadPlan(p) PROVE ResolveInv'
  BY <1>3, <1>t DEF ReadPlan
<1>4. ASSUME NEW p \in Procs, ReadLock(p) PROVE ResolveInv'
  <2>1. got[p] = Unlocked
    BY <1>4 DEF ReadLock, WriterInv
  <2>2. \A s \in Sources : got[p][s] = NoDigest
    BY <2>1 DEF Unlocked
  <2>3. QED BY <1>4, <1>t, <2>2 DEF ReadLock
<1>5. ASSUME NEW p \in Procs, Fetch(p) PROVE ResolveInv'
  <2>1. PICK s \in Missing(p) :
          /\ ~Refused(p, s)
          /\ s \in Tarballs => locks[p][s] \in {NoDigest, upstream[s]}
          /\ got' = [got EXCEPT ![p][s] = Served(p, s)]
    BY <1>5 DEF Fetch
  <2>2. s \in Sources /\ Served(p, s) \in Digests
    BY ServedType
  <2>3. /\ \A q \in Procs \ {p} : got'[q] = got[q]
        /\ \A t \in Sources :
             got'[p][t] = IF t = s THEN Served(p, s) ELSE got[p][t]
    BY <1>t, <2>1, <2>2, OneMorePin
  <2>4. p \in Undisturbed => s \in Wants[input]
    BY DEF Missing, LoadInv
  <2>5. \/ Served(p, s) = locks[p][s]
        \/ locks[p][s] = NoDigest /\ policy[p] # "frozen"
    BY <2>1, <2>2 DEF Served, Refused
  <2>6. QED BY <1>5, <1>t, <2>2, <2>3, <2>4, <2>5 DEF Fetch
<1>6. ASSUME NEW p \in Procs, UseCached(p) PROVE ResolveInv'
  <2>1. PICK s \in Missing(p) :
          Cached(s, locks[p][s]) /\ got' = [got EXCEPT ![p][s] = locks[p][s]]
    BY <1>6 DEF UseCached
  <2>2. s \in Sources /\ locks[p][s] \in Digests
    BY <2>1, ServedType DEF Cached, TypeOK
  <2>3. /\ \A q \in Procs \ {p} : got'[q] = got[q]
        /\ \A t \in Sources :
             got'[p][t] = IF t = s THEN locks[p][s] ELSE got[p][t]
    BY <1>t, <2>1, <2>2, OneMorePin
  <2>4. p \in Undisturbed => s \in Wants[input]
    BY DEF Missing, LoadInv
  <2>5. QED BY <1>6, <1>t, <2>2, <2>3, <2>4 DEF UseCached
<1>7. ASSUME NEW p \in Procs, CannotResolve(p) PROVE ResolveInv'
  BY <1>7, <1>t DEF CannotResolve
<1>8. ASSUME NEW p \in Procs, Resolved(p) PROVE ResolveInv'
  BY <1>8, <1>t DEF Resolved
<1>9. ASSUME NEW p \in Procs, WriteLock(p) PROVE ResolveInv'
  <2>1. CASE p \in raced
    BY <1>9, <1>t, <2>1 DEF WriteLock, Active
  <2>2. CASE p \notin raced
    <3>1. p \in Undisturbed /\ p \in Writers
      BY <1>9, <2>2 DEF WriteLock, WriterInv
    <3>2. \A s \in Wants[input] : lock[s] # NoDigest => lock'[s] = lock[s]
      BY <1>9, <3>1, LockGrows
    <3>3. QED BY <1>9, <1>t, <2>2, <3>1, <3>2 DEF WriteLock, WriterInv
  <2>3. QED BY <2>1, <2>2
<1>10. ASSUME NEW p \in Procs, WritePlan(p) PROVE ResolveInv'
  BY <1>10, <1>t DEF WritePlan
<1>11. ASSUME NEW p \in Procs, CallFails(p) PROVE ResolveInv'
  BY <1>11, <1>t DEF CallFails
<1>12. ASSUME NEW p \in Procs, Return(p) PROVE ResolveInv'
  BY <1>12, <1>t DEF Return
<1>13. CASE EditInput
  BY <1>13, <1>t DEF EditInput, Active
<1>14. CASE EditLock
  BY <1>14, <1>t DEF EditLock, Active
<1>15. CASE ClearCache
  BY <1>15, <1>t DEF ClearCache, Active
<1>16. CASE Publish
  BY <1>16, <1>t DEF Publish
<1>17. CASE UNCHANGED vars
  BY <1>17, <1>t DEF vars
<1>18. ASSUME NEW p \in Procs, HashLock(p) PROVE ResolveInv'
  BY <1>18, <1>t DEF HashLock, Hashed
<1>19. ASSUME NEW p \in Procs, LockFileGone(p) PROVE ResolveInv'
  BY <1>19, <1>t DEF LockFileGone
<1>20. ASSUME NEW p \in Procs, Clash(p) PROVE ResolveInv'
  BY <1>20, <1>t DEF Clash
<1> QED
  BY ONLY [Next]_vars, <1>1, <1>2, <1>3, <1>4, <1>5, <1>6, <1>7, <1>8,
     <1>9, <1>10, <1>11, <1>12, <1>13, <1>14, <1>15, <1>16, <1>17,
     <1>18, <1>19, <1>20 DEF Next

\* What a command has resolved when it has resolved everything.
LEMMA GotStep ==
  TypeOK /\ WriterInv /\ LoadInv /\ KeyInv /\ ResolveInv /\ PlanHonest /\ GotInv
  /\ [Next]_vars
    => GotInv'
<1> SUFFICES ASSUME TypeOK, WriterInv, LoadInv, KeyInv, ResolveInv, PlanHonest,
                    GotInv, [Next]_vars
             PROVE  GotInv'
  OBVIOUS
<1>t. /\ pc \in [Procs -> Pcs] /\ got \in [Procs -> Pins]
      /\ locks \in [Procs -> Pins] /\ key \in [Procs -> Key]
      /\ spec \in [Procs -> Inputs] /\ from \in [Procs -> Inputs]
      /\ policy \in [Procs -> Policies] /\ lock \in Pins
      /\ raced \subseteq Procs /\ Writers \subseteq Procs
  BY ResolutionAssumption DEF TypeOK
<1>l. \A s \in Sources : lock[s] \in Digests \cup {NoDigest}
  BY <1>t DEF Pins
<1> USE DEF disk, local, history, Goto, Forget, GotInv, Undisturbed
<1>1. ASSUME NEW p \in Procs, Begin(p) PROVE GotInv'
  BY <1>1, <1>t DEF Begin
<1>2. ASSUME NEW p \in Procs, Hash(p) PROVE GotInv'
  BY <1>2, <1>t DEF Hash, Hashed
<1>3. ASSUME NEW p \in Procs, ReadPlan(p) PROVE GotInv'
  <2>1. CASE Usable(p) /\ ~tainted /\ p \in Undisturbed
    <3>1. /\ plan.key = key[p] /\ plan.input = key[p][1]
          /\ plan.features = Restricted(plan.input, key[p][2])
          /\ key[p][1] = input /\ StillLocked(key[p][2])
          /\ \A s \in Wants[plan.input] : plan.features[s] # NoDigest
      BY <1>3, <2>1 DEF ReadPlan, Usable, KeyInv, PlanHonest
    <3>2. \A s \in Sources :
            /\ plan.features[s] # NoDigest <=> s \in Wants[input]
            /\ s \in Wants[input] => lock[s] = plan.features[s]
      BY <3>1 DEF Restricted, StillLocked
    <3>3. QED BY <1>3, <1>t, <2>1, <3>2 DEF ReadPlan
  <2>2. CASE Usable(p) /\ tainted
    BY <1>3, <1>t, <2>2 DEF ReadPlan
  <2>3. CASE Usable(p) /\ p \notin Undisturbed
    BY <1>3, <1>t, <2>3 DEF ReadPlan
  <2>4. CASE ~Usable(p)
    BY <1>3, <1>t, <2>4 DEF ReadPlan
  <2>5. QED BY <2>1, <2>2, <2>3, <2>4
<1>4. ASSUME NEW p \in Procs, ReadLock(p) PROVE GotInv'
  BY <1>4, <1>t DEF ReadLock
<1>5. ASSUME NEW p \in Procs, Fetch(p) PROVE GotInv'
  <2>1. PICK s \in Missing(p) : got' = [got EXCEPT ![p][s] = Served(p, s)]
    BY <1>5 DEF Fetch
  <2>2. s \in Sources /\ Served(p, s) \in Digests
    BY ServedType
  <2>3. \A q \in Procs \ {p} : got'[q] = got[q]
    BY <1>t, <2>1, <2>2, OneMorePin
  <2>4. QED BY <1>5, <1>t, <2>3 DEF Fetch
<1>6. ASSUME NEW p \in Procs, UseCached(p) PROVE GotInv'
  <2>1. PICK s \in Missing(p) : got' = [got EXCEPT ![p][s] = locks[p][s]]
    BY <1>6 DEF UseCached
  <2>2. s \in Sources /\ locks[p][s] \in Digests \cup {NoDigest}
    BY <1>t, ServedType DEF Pins
  <2>3. \A q \in Procs \ {p} : got'[q] = got[q]
    BY <1>t, <2>1, <2>2, OneMorePin
  <2>4. QED BY <1>6, <1>t, <2>3 DEF UseCached
<1>7. ASSUME NEW p \in Procs, CannotResolve(p) PROVE GotInv'
  BY <1>7, <1>t DEF CannotResolve
<1>8. ASSUME NEW p \in Procs, Resolved(p) PROVE GotInv'
  <2>1. p \in Undisturbed =>
          \A s \in Sources :
            /\ got[p][s] # NoDigest <=> s \in Wants[input]
            /\ s \in Wants[input] =>
                 \/ lock[s] = got[p][s]
                 \/ /\ lock[s] = NoDigest
                    /\ p \in Writers /\ policy[p] # "frozen"
    <3>1. SUFFICES ASSUME p \in Undisturbed, NEW s \in Sources
                   PROVE  /\ got[p][s] # NoDigest <=> s \in Wants[input]
                          /\ s \in Wants[input] =>
                               \/ lock[s] = got[p][s]
                               \/ /\ lock[s] = NoDigest
                                  /\ p \in Writers /\ policy[p] # "frozen"
      OBVIOUS
    <3>2. pc[p] = "resolve" /\ Missing(p) = {}
      BY <1>8 DEF Resolved
    <3>3. s \in Wants[input] => got[p][s] # NoDigest
      BY <3>1, <3>2 DEF Missing, LoadInv
    <3>4. got[p][s] # NoDigest =>
            /\ s \in Wants[input]
            /\ \/ got[p][s] = locks[p][s]
               \/ /\ locks[p][s] = NoDigest
                  /\ p \in Writers /\ policy[p] # "frozen"
      BY <3>1, <3>2 DEF ResolveInv
    <3>5. /\ p \in Writers => locks[p] = lock
          /\ s \in Wants[input] /\ locks[p][s] # NoDigest =>
               lock[s] = locks[p][s]
      BY <3>1, <3>2 DEF ResolveInv, StillLocked
    <3>6. QED BY <3>3, <3>4, <3>5
  <2>2. QED BY <1>8, <1>t, <2>1 DEF Resolved
<1>9. ASSUME NEW p \in Procs, WriteLock(p) PROVE GotInv'
  <2>1. CASE p \in raced
    BY <1>9, <1>t, <2>1 DEF WriteLock, Active
  <2>2. CASE p \notin raced
    <3>1. p \in Undisturbed /\ p \in Writers
      BY <1>9, <2>2 DEF WriteLock, WriterInv
    <3>2. \A s \in Wants[input] :
            /\ lock'[s] = got[p][s] /\ got[p][s] # NoDigest
            /\ lock[s] # NoDigest => lock'[s] = lock[s]
      BY <1>9, <3>1, LockGrows
    <3>3. \A q \in Undisturbed' : q # p =>
            q \in Undisturbed /\ pc'[q] = pc[q] /\ pc[q] # "writeLock"
      BY <1>9, <1>t, <2>2, <3>1 DEF WriteLock, WriterInv
    <3>4. QED BY <1>9, <1>t, <2>2, <3>1, <3>2, <3>3 DEF WriteLock
  <2>3. QED BY <2>1, <2>2
<1>10. ASSUME NEW p \in Procs, WritePlan(p) PROVE GotInv'
  BY <1>10, <1>t DEF WritePlan
<1>11. ASSUME NEW p \in Procs, CallFails(p) PROVE GotInv'
  BY <1>11, <1>t DEF CallFails
<1>12. ASSUME NEW p \in Procs, Return(p) PROVE GotInv'
  BY <1>12, <1>t DEF Return
<1>13. CASE EditInput
  BY <1>13, <1>t DEF EditInput, Active
<1>14. CASE EditLock
  BY <1>14, <1>t DEF EditLock, Active
<1>15. CASE ClearCache
  BY <1>15, <1>t DEF ClearCache, Active
<1>16. CASE Publish
  BY <1>16, <1>t DEF Publish
<1>17. CASE UNCHANGED vars
  BY <1>17, <1>t DEF vars
<1>18. ASSUME NEW p \in Procs, HashLock(p) PROVE GotInv'
  BY <1>18, <1>t DEF HashLock, Hashed
<1>19. ASSUME NEW p \in Procs, LockFileGone(p) PROVE GotInv'
  BY <1>19, <1>t DEF LockFileGone
<1>20. ASSUME NEW p \in Procs, Clash(p) PROVE GotInv'
  BY <1>20, <1>t DEF Clash
<1> QED
  BY ONLY [Next]_vars, <1>1, <1>2, <1>3, <1>4, <1>5, <1>6, <1>7, <1>8,
     <1>9, <1>10, <1>11, <1>12, <1>13, <1>14, <1>15, <1>16, <1>17,
     <1>18, <1>19, <1>20 DEF Next

\* What was resolved is cached.
LEMMA CacheStep ==
  TypeOK /\ WriterInv /\ CacheInv /\ [Next]_vars => CacheInv'
<1> SUFFICES ASSUME TypeOK, WriterInv, CacheInv, [Next]_vars
             PROVE  CacheInv'
  OBVIOUS
<1>t. /\ pc \in [Procs -> Pcs] /\ got \in [Procs -> Pins]
      /\ locks \in [Procs -> Pins] /\ key \in [Procs -> Key]
      /\ spec \in [Procs -> Inputs] /\ from \in [Procs -> Inputs]
      /\ policy \in [Procs -> Policies] /\ lock \in Pins
      /\ raced \subseteq Procs /\ Writers \subseteq Procs
  BY ResolutionAssumption DEF TypeOK
<1>n. \A s \in Sources : Unlocked[s] = NoDigest
  BY DEF Unlocked
<1> USE DEF disk, local, history, Goto, Forget, CacheInv, Cached
<1>1. ASSUME NEW p \in Procs, Begin(p) PROVE CacheInv'
  BY <1>1, <1>t, <1>n DEF Begin
<1>2. ASSUME NEW p \in Procs, Hash(p) PROVE CacheInv'
  BY <1>2, <1>t, <1>n DEF Hash, Hashed
<1>3. ASSUME NEW p \in Procs, ReadPlan(p) PROVE CacheInv'
  <2>1. Usable(p) => \A s \in Sources : plan.features[s] # NoDigest =>
                        Cached(s, plan.features[s])
    BY DEF Usable
  <2>2. QED BY <1>3, <1>t, <2>1 DEF ReadPlan
<1>4. ASSUME NEW p \in Procs, ReadLock(p) PROVE CacheInv'
  BY <1>4, <1>t, <1>n DEF ReadLock
<1>5. ASSUME NEW p \in Procs, Fetch(p) PROVE CacheInv'
  <2>1. PICK s \in Missing(p) :
          /\ cache' = cache \cup {<<s, Served(p, s)>>}
          /\ got' = [got EXCEPT ![p][s] = Served(p, s)]
    BY <1>5 DEF Fetch
  <2>2. s \in Sources /\ Served(p, s) \in Digests
    BY ServedType
  <2>3. /\ \A q \in Procs \ {p} : got'[q] = got[q]
        /\ \A t \in Sources :
             got'[p][t] = IF t = s THEN Served(p, s) ELSE got[p][t]
    BY <1>t, <2>1, <2>2, OneMorePin
  <2>4. robbed' = robbed
    BY <1>5 DEF Fetch
  <2>5. QED BY <2>1, <2>3, <2>4
<1>6. ASSUME NEW p \in Procs, UseCached(p) PROVE CacheInv'
  <2>1. PICK s \in Missing(p) :
          Cached(s, locks[p][s]) /\ got' = [got EXCEPT ![p][s] = locks[p][s]]
    BY <1>6 DEF UseCached
  <2>2. s \in Sources /\ locks[p][s] \in Digests
    BY <2>1, ServedType DEF Cached, TypeOK
  <2>3. /\ \A q \in Procs \ {p} : got'[q] = got[q]
        /\ \A t \in Sources :
             got'[p][t] = IF t = s THEN locks[p][s] ELSE got[p][t]
    BY <1>t, <2>1, <2>2, OneMorePin
  <2>4. robbed' = robbed /\ cache' = cache
    BY <1>6 DEF UseCached
  <2>5. QED BY <2>1, <2>3, <2>4
<1>7. ASSUME NEW p \in Procs, CannotResolve(p) PROVE CacheInv'
  BY <1>7, <1>t, <1>n DEF CannotResolve
<1>8. ASSUME NEW p \in Procs, Resolved(p) PROVE CacheInv'
  BY <1>8, <1>t, <1>n DEF Resolved
<1>9. ASSUME NEW p \in Procs, WriteLock(p) PROVE CacheInv'
  BY <1>9, <1>t, <1>n DEF WriteLock
<1>10. ASSUME NEW p \in Procs, WritePlan(p) PROVE CacheInv'
  BY <1>10, <1>t, <1>n DEF WritePlan
<1>11. ASSUME NEW p \in Procs, CallFails(p) PROVE CacheInv'
  BY <1>11, <1>t, <1>n DEF CallFails
<1>12. ASSUME NEW p \in Procs, Return(p) PROVE CacheInv'
  BY <1>12, <1>t, <1>n DEF Return
<1>13. CASE EditInput
  BY <1>13, <1>t, <1>n DEF EditInput
<1>14. CASE EditLock
  BY <1>14, <1>t, <1>n DEF EditLock
<1>15. CASE ClearCache
  <2>1. \A q \in Procs \ robbed' : pc[q] = "idle"
    BY <1>15 DEF ClearCache, Active
  <2>2. \A q \in Procs \ robbed' : got[q] = Unlocked
    BY <2>1 DEF WriterInv
  <2>3. QED BY <1>15, <1>n, <2>2 DEF ClearCache
<1>16. CASE Publish
  BY <1>16, <1>t, <1>n DEF Publish
<1>17. CASE UNCHANGED vars
  BY <1>17, <1>t, <1>n DEF vars
<1>18. ASSUME NEW p \in Procs, HashLock(p) PROVE CacheInv'
  BY <1>18, <1>t, <1>n DEF HashLock, Hashed
<1>19. ASSUME NEW p \in Procs, LockFileGone(p) PROVE CacheInv'
  BY <1>19, <1>t, <1>n DEF LockFileGone
<1>20. ASSUME NEW p \in Procs, Clash(p) PROVE CacheInv'
  BY <1>20, <1>t, <1>n DEF Clash
<1> QED
  BY ONLY [Next]_vars, <1>1, <1>2, <1>3, <1>4, <1>5, <1>6, <1>7, <1>8,
     <1>9, <1>10, <1>11, <1>12, <1>13, <1>14, <1>15, <1>16, <1>17,
     <1>18, <1>19, <1>20 DEF Next

\* The promises that were made.
LEMMA PromiseStep ==
  TypeOK /\ WriterInv /\ GotInv /\ PromiseInv /\ [Next]_vars
    => PromiseInv'
<1> SUFFICES ASSUME TypeOK, WriterInv, GotInv, PromiseInv, [Next]_vars
             PROVE  PromiseInv'
  OBVIOUS
<1>t. /\ pc \in [Procs -> Pcs] /\ got \in [Procs -> Pins]
      /\ locks \in [Procs -> Pins] /\ key \in [Procs -> Key]
      /\ spec \in [Procs -> Inputs] /\ from \in [Procs -> Inputs]
      /\ policy \in [Procs -> Policies] /\ lock \in Pins
      /\ raced \subseteq Procs /\ Writers \subseteq Procs
      /\ promised \subseteq Procs
  BY ResolutionAssumption DEF TypeOK
<1>w. Wants[input] \subseteq Sources
  BY ResolutionAssumption DEF TypeOK
<1>d. promised # {} => \A s \in Wants[input] : lock[s] # NoDigest
  <2>1. Offline => \A s \in Wants[input] : lock[s] \in Digests
    BY <1>w DEF Offline, Cached, TypeOK
  <2>2. promised # {} => Offline
    BY DEF PromiseInv
  <2>3. QED BY <2>1, <2>2, ResolutionAssumption
<1>e. promised # {} => (LockFileThere <=> Wants[input] # {})
  <2>1. promised # {} /\ Wants[input] # {} => LockFileThere
    BY <1>d, <1>w DEF LockFileThere, Unlocked
  <2>2. promised # {} => LockFileStays
    BY DEF PromiseInv
  <2>3. QED BY <2>1, <2>2 DEF LockFileStays
<1>k. UNCHANGED <<input, lock>> =>
        UNCHANGED <<Compatible, LockFileThere, LockFileStays>>
  BY DEF Compatible, LockFileThere, LockFileStays
<1> USE DEF disk, local, history, Goto, Forget, PromiseInv, Offline, Cached
<1>1. ASSUME NEW p \in Procs, Begin(p) PROVE PromiseInv'
  BY <1>1, <1>t, <1>k DEF Begin
<1>2. ASSUME NEW p \in Procs, Hash(p) PROVE PromiseInv'
  BY <1>2, <1>t, <1>k DEF Hash, Hashed
<1>3. ASSUME NEW p \in Procs, ReadPlan(p) PROVE PromiseInv'
  BY <1>3, <1>t, <1>k DEF ReadPlan
<1>4. ASSUME NEW p \in Procs, ReadLock(p) PROVE PromiseInv'
  <2>1. \A s \in Sources : got[p][s] = NoDigest
    BY <1>4 DEF ReadLock, WriterInv, Unlocked
  <2>2. QED BY <1>4, <1>t, <1>k, <2>1 DEF ReadLock
<1>5. ASSUME NEW p \in Procs, Fetch(p) PROVE PromiseInv'
  <2>1. PICK s \in Missing(p) : got' = [got EXCEPT ![p][s] = Served(p, s)]
    BY <1>5 DEF Fetch
  <2>2. s \in Sources /\ Served(p, s) \in Digests
    BY ServedType
  <2>3. \A q \in Procs \ {p} : got'[q] = got[q]
    BY <1>t, <2>1, <2>2, OneMorePin
  <2>4. QED BY <1>5, <1>t, <1>k, <2>3 DEF Fetch
<1>6. ASSUME NEW p \in Procs, UseCached(p) PROVE PromiseInv'
  <2>1. PICK s \in Missing(p) : got' = [got EXCEPT ![p][s] = locks[p][s]]
    BY <1>6 DEF UseCached
  <2>2. s \in Sources /\ locks[p][s] \in Digests \cup {NoDigest}
    BY <1>t, ServedType DEF Pins
  <2>3. /\ \A q \in Procs \ {p} : got'[q] = got[q]
        /\ \A t \in Sources :
             got'[p][t] = IF t = s THEN locks[p][s] ELSE got[p][t]
    <3> DEFINE d == locks[p][s]
    <3>1. got' = [got EXCEPT ![p][s] = d] /\ d \in Digests \cup {NoDigest}
      BY <2>1, <2>2
    <3> HIDE DEF d
    <3>2. /\ \A q \in Procs \ {p} : got'[q] = got[q]
          /\ \A t \in Sources : got'[p][t] = IF t = s THEN d ELSE got[p][t]
      BY <1>t, <2>2, <3>1, OneMorePin
    <3>3. QED BY <3>2 DEF d
  <2>4. p \in promised => s \in Wants[input] /\ locks[p][s] = lock[s]
    BY <1>6 DEF UseCached, Missing
  <2>5. QED BY <1>6, <1>t, <1>k, <2>3, <2>4 DEF UseCached
<1>7. ASSUME NEW p \in Procs, CannotResolve(p) PROVE PromiseInv'
  BY <1>7, <1>t, <1>k DEF CannotResolve
<1>8. ASSUME NEW p \in Procs, Resolved(p) PROVE PromiseInv'
  BY <1>8, <1>t, <1>k DEF Resolved
<1>9. ASSUME NEW p \in Procs, WriteLock(p) PROVE PromiseInv'
  <2>1. CASE p \in raced
    BY <1>9, <1>t, <2>1 DEF WriteLock
  <2>2. CASE p \notin raced
    <3>1. p \in Undisturbed
      BY <1>9, <2>2 DEF WriteLock, Undisturbed
    <3>2. \A s \in Wants[input] : lock[s] # NoDigest => lock'[s] = lock[s]
      BY <1>9, <3>1, LockGrows
    <3>3. promised # {} => \A s \in Wants[input] : lock'[s] = lock[s]
      BY <1>d, <3>2
    <3>4. promised # {} => (LockFileThere' <=> Wants[input] # {})
      <4>1. CASE Wants[input] = {} /\ promised # {}
        <5>1. \A s \in Sources : got[p][s] = NoDigest
          BY <1>9, <3>1, <4>1 DEF WriteLock, GotInv
        <5>2. got[p] = Unlocked /\ lock = Unlocked
          BY <1>e, <1>t, <4>1, <5>1 DEF Pins, Unlocked, LockFileThere
        <5>3. lock' = Unlocked
          BY <1>9, <5>2 DEF WriteLock
        <5>4. QED BY <4>1, <5>3 DEF LockFileThere, Unlocked
      <4>2. CASE Wants[input] # {} /\ promised # {}
        BY <1>d, <1>w, <3>3, <4>2 DEF LockFileThere, Unlocked
      <4>3. QED BY <4>1, <4>2
    <3>5. promised # {} => Compatible'
      <4>1. promised # {} => Restricted(input, lock') = Restricted(input, lock)
        BY <3>3 DEF Restricted
      <4>2. input' = input
        BY <1>9 DEF WriteLock
      <4>3. promised # {} => Compatible
        OBVIOUS
      <4>4. QED BY <4>1, <4>2, <4>3 DEF Compatible
    <3>6. QED
      BY <1>9, <1>e, <1>t, <2>2, <3>3, <3>4, <3>5 DEF WriteLock, LockFileStays
  <2>3. QED BY <2>1, <2>2
<1>10. ASSUME NEW p \in Procs, WritePlan(p) PROVE PromiseInv'
  BY <1>10, <1>t, <1>k DEF WritePlan
<1>11. ASSUME NEW p \in Procs, CallFails(p) PROVE PromiseInv'
  BY <1>11, <1>t, <1>k DEF CallFails
<1>12. ASSUME NEW p \in Procs, Return(p) PROVE PromiseInv'
  BY <1>12, <1>t, <1>k DEF Return
<1>13. CASE EditInput
  BY <1>13, <1>t, <1>k DEF EditInput
<1>14. CASE EditLock
  BY <1>14, <1>t, <1>k DEF EditLock
<1>15. CASE ClearCache
  BY <1>15, <1>t, <1>k DEF ClearCache
<1>16. CASE Publish
  BY <1>16, <1>t, <1>k DEF Publish
<1>17. CASE UNCHANGED vars
  BY <1>17, <1>t, <1>k DEF vars
<1>18. ASSUME NEW p \in Procs, HashLock(p) PROVE PromiseInv'
  BY <1>18, <1>t, <1>k DEF HashLock, Hashed
<1>19. ASSUME NEW p \in Procs, LockFileGone(p) PROVE PromiseInv'
  BY <1>19, <1>t, <1>k DEF LockFileGone
<1>20. ASSUME NEW p \in Procs, Clash(p) PROVE PromiseInv'
  BY <1>20, <1>t, <1>k DEF Clash
<1> QED
  BY ONLY [Next]_vars, <1>1, <1>2, <1>3, <1>4, <1>5, <1>6, <1>7, <1>8,
     <1>9, <1>10, <1>11, <1>12, <1>13, <1>14, <1>15, <1>16, <1>17,
     <1>18, <1>19, <1>20 DEF Next

\* What is written as the plan belongs to the key it is written under.
LEMMA PlanStep ==
  TypeOK /\ LoadInv /\ KeyInv /\ GotInv /\ PlanHonest /\ [Next]_vars
    => PlanHonest'
<1> SUFFICES ASSUME TypeOK, LoadInv, KeyInv, GotInv, PlanHonest, [Next]_vars
             PROVE  PlanHonest'
  OBVIOUS
<1>t. /\ pc \in [Procs -> Pcs] /\ got \in [Procs -> Pins]
      /\ locks \in [Procs -> Pins] /\ key \in [Procs -> Key]
      /\ spec \in [Procs -> Inputs] /\ from \in [Procs -> Inputs]
      /\ policy \in [Procs -> Policies] /\ lock \in Pins
      /\ raced \subseteq Procs /\ Writers \subseteq Procs
      /\ promised \subseteq Procs
  BY ResolutionAssumption DEF TypeOK
<1> USE DEF disk, local, history, Goto, Forget, PlanHonest
<1>1. ASSUME NEW p \in Procs, Begin(p) PROVE PlanHonest'
  BY <1>1, <1>t DEF Begin
<1>2. ASSUME NEW p \in Procs, Hash(p) PROVE PlanHonest'
  BY <1>2, <1>t DEF Hash, Hashed
<1>3. ASSUME NEW p \in Procs, ReadPlan(p) PROVE PlanHonest'
  BY <1>3, <1>t DEF ReadPlan
<1>4. ASSUME NEW p \in Procs, ReadLock(p) PROVE PlanHonest'
  BY <1>4, <1>t DEF ReadLock
<1>5. ASSUME NEW p \in Procs, Fetch(p) PROVE PlanHonest'
  BY <1>5, <1>t DEF Fetch
<1>6. ASSUME NEW p \in Procs, UseCached(p) PROVE PlanHonest'
  BY <1>6, <1>t DEF UseCached
<1>7. ASSUME NEW p \in Procs, CannotResolve(p) PROVE PlanHonest'
  BY <1>7, <1>t DEF CannotResolve
<1>8. ASSUME NEW p \in Procs, Resolved(p) PROVE PlanHonest'
  BY <1>8, <1>t DEF Resolved
<1>9. ASSUME NEW p \in Procs, WriteLock(p) PROVE PlanHonest'
  BY <1>9, <1>t DEF WriteLock
<1>10. ASSUME NEW p \in Procs, WritePlan(p) PROVE PlanHonest'
  <2>1. CASE UNCHANGED <<plan, tainted>>
    BY <2>1
  <2>2. CASE /\ plan' = [key |-> key[p], input |-> spec[p], features |-> got[p]]
             /\ tainted' = (p \in raced)
    <3>1. SUFFICES ASSUME p \notin raced PROVE PlanHonest'
      BY <2>2
    <3>2. p \in Undisturbed /\ pc[p] = "writePlan"
      BY <1>10, <3>1 DEF WritePlan, Undisturbed
    <3>3. key[p] = <<input, lock>> /\ spec[p] = input
      BY <3>2 DEF KeyInv, LoadInv
    <3>4. \A s \in Sources :
            /\ got[p][s] # NoDigest <=> s \in Wants[input]
            /\ s \in Wants[input] => lock[s] = got[p][s]
      BY <3>2 DEF GotInv
    <3>5. got[p] = Restricted(input, lock)
      BY <1>t, <3>4 DEF Restricted, Pins
    <3>6. \A s \in Wants[input] : got[p][s] # NoDigest
      BY <3>4, ResolutionAssumption DEF TypeOK
    <3>7. QED BY <2>2, <3>3, <3>5, <3>6
  <2>3. QED BY <1>10, <2>1, <2>2 DEF WritePlan
<1>11. ASSUME NEW p \in Procs, CallFails(p) PROVE PlanHonest'
  BY <1>11, <1>t DEF CallFails
<1>12. ASSUME NEW p \in Procs, Return(p) PROVE PlanHonest'
  BY <1>12, <1>t DEF Return
<1>13. CASE EditInput
  BY <1>13, <1>t DEF EditInput
<1>14. CASE EditLock
  BY <1>14, <1>t DEF EditLock
<1>15. CASE ClearCache
  BY <1>15, <1>t DEF ClearCache
<1>16. CASE Publish
  BY <1>16, <1>t DEF Publish
<1>17. CASE UNCHANGED vars
  BY <1>17, <1>t DEF vars
<1>18. ASSUME NEW p \in Procs, HashLock(p) PROVE PlanHonest'
  BY <1>18, <1>t DEF HashLock, Hashed
<1>19. ASSUME NEW p \in Procs, LockFileGone(p) PROVE PlanHonest'
  BY <1>19, <1>t DEF LockFileGone
<1>20. ASSUME NEW p \in Procs, Clash(p) PROVE PlanHonest'
  BY <1>20, <1>t DEF Clash
<1> QED
  BY ONLY [Next]_vars, <1>1, <1>2, <1>3, <1>4, <1>5, <1>6, <1>7, <1>8,
     <1>9, <1>10, <1>11, <1>12, <1>13, <1>14, <1>15, <1>16, <1>17,
     <1>18, <1>19, <1>20 DEF Next

\* A command to which success was promised does not fail.
LEMMA OfflineStep ==
  TypeOK /\ WriterInv /\ PromiseInv /\ OfflineSucceeds /\ [Next]_vars
    => OfflineSucceeds'
<1> SUFFICES ASSUME TypeOK, WriterInv, PromiseInv, OfflineSucceeds, [Next]_vars
             PROVE  OfflineSucceeds'
  OBVIOUS
<1>t. /\ pc \in [Procs -> Pcs] /\ got \in [Procs -> Pins]
      /\ locks \in [Procs -> Pins] /\ key \in [Procs -> Key]
      /\ spec \in [Procs -> Inputs] /\ from \in [Procs -> Inputs]
      /\ policy \in [Procs -> Policies] /\ lock \in Pins
      /\ raced \subseteq Procs /\ Writers \subseteq Procs
      /\ promised \subseteq Procs
  BY ResolutionAssumption DEF TypeOK
<1> USE DEF disk, local, history, Goto, Forget, OfflineSucceeds
<1>1. ASSUME NEW p \in Procs, Begin(p) PROVE OfflineSucceeds'
  BY <1>1, <1>t DEF Begin
<1>2. ASSUME NEW p \in Procs, Hash(p) PROVE OfflineSucceeds'
  BY <1>2, <1>t DEF Hash, Hashed
<1>3. ASSUME NEW p \in Procs, ReadPlan(p) PROVE OfflineSucceeds'
  BY <1>3, <1>t DEF ReadPlan
<1>4. ASSUME NEW p \in Procs, ReadLock(p) PROVE OfflineSucceeds'
  BY <1>4, <1>t DEF ReadLock
<1>5. ASSUME NEW p \in Procs, Fetch(p) PROVE OfflineSucceeds'
  BY <1>5, <1>t DEF Fetch
<1>6. ASSUME NEW p \in Procs, UseCached(p) PROVE OfflineSucceeds'
  BY <1>6, <1>t DEF UseCached
<1>7. ASSUME NEW p \in Procs, CannotResolve(p) PROVE OfflineSucceeds'
  <2>1. ASSUME p \in promised, p \notin Writers, policy[p] # "update"
        PROVE  FALSE
    <3>1. PICK s \in Missing(p) : Refused(p, s) \/ ~Cached(s, locks[p][s])
      BY <1>7, <2>1 DEF CannotResolve
    <3>2. /\ spec[p] = input /\ Offline
          /\ \A t \in Wants[input] : locks[p][t] = lock[t]
      BY <1>7, <2>1 DEF CannotResolve, PromiseInv
    <3>3. s \in Wants[input]
      BY <3>1, <3>2 DEF Missing
    <3>4. Cached(s, locks[p][s])
      BY <3>2, <3>3 DEF Offline
    <3>5. locks[p][s] \in Digests
      BY <3>4 DEF Cached, TypeOK
    <3>6. locks[p][s] # NoDigest
      BY <3>5, ResolutionAssumption
    <3>7. QED BY <3>1, <3>4, <3>6, <2>1 DEF Refused
  <2>2. QED BY <1>7, <1>t, <2>1 DEF CannotResolve
<1>8. ASSUME NEW p \in Procs, Resolved(p) PROVE OfflineSucceeds'
  BY <1>8, <1>t DEF Resolved
<1>9. ASSUME NEW p \in Procs, WriteLock(p) PROVE OfflineSucceeds'
  BY <1>9, <1>t DEF WriteLock
<1>10. ASSUME NEW p \in Procs, WritePlan(p) PROVE OfflineSucceeds'
  BY <1>10, <1>t DEF WritePlan
<1>11. ASSUME NEW p \in Procs, CallFails(p) PROVE OfflineSucceeds'
  BY <1>11, <1>t DEF CallFails
<1>12. ASSUME NEW p \in Procs, Return(p) PROVE OfflineSucceeds'
  BY <1>12, <1>t DEF Return
<1>13. CASE EditInput
  BY <1>13, <1>t DEF EditInput
<1>14. CASE EditLock
  BY <1>14, <1>t DEF EditLock
<1>15. CASE ClearCache
  BY <1>15, <1>t DEF ClearCache
<1>16. CASE Publish
  BY <1>16, <1>t DEF Publish
<1>17. CASE UNCHANGED vars
  BY <1>17, <1>t DEF vars
<1>18. ASSUME NEW p \in Procs, HashLock(p) PROVE OfflineSucceeds'
  BY <1>18, <1>t DEF HashLock, Hashed
<1>19. ASSUME NEW p \in Procs, LockFileGone(p) PROVE OfflineSucceeds'
  BY <1>19, <1>t DEF LockFileGone, PromiseInv
<1>20. ASSUME NEW p \in Procs, Clash(p) PROVE OfflineSucceeds'
  <2>1. ASSUME p \in promised, p \notin Writers
        PROVE  FALSE
    <3>1. /\ pc[p] = "resolve" /\ Missing(p) = {}
          /\ <<spec[p], got[p]>> \in Clashing
      BY <1>20 DEF Clash
    <3>2. /\ spec[p] = input /\ Compatible
          /\ \A s \in Sources :
               got[p][s] # NoDigest => s \in Wants[input] /\ got[p][s] = lock[s]
      BY <2>1, <3>1 DEF PromiseInv
    <3>3. \A s \in Wants[input] : got[p][s] # NoDigest
      BY <3>1, <3>2 DEF Missing
    <3>4. got[p] = Restricted(input, lock)
      BY <1>t, <3>2, <3>3 DEF Restricted, Pins
    <3>5. QED BY <3>1, <3>2, <3>4 DEF Compatible
  <2>2. QED BY <1>20, <1>t, <2>1 DEF Clash
<1> QED
  BY ONLY [Next]_vars, <1>1, <1>2, <1>3, <1>4, <1>5, <1>6, <1>7, <1>8,
     <1>9, <1>10, <1>11, <1>12, <1>13, <1>14, <1>15, <1>16, <1>17,
     <1>18, <1>19, <1>20 DEF Next

-----------------------------------------------------------------------------
(* The theorems. *)

\* The invariant holds initially.
LEMMA InitIInv == Init => IInv
<1> SUFFICES ASSUME Init PROVE IInv
  OBVIOUS
<1>1. TypeOK
  BY InitTypeOK
<1>2. \A p \in Procs : pc[p] = "idle" /\ got[p] = Unlocked
  BY DEF Init
<1>3. WriterInv
  BY <1>2, ResolutionAssumption DEF WriterInv
<1>4. Undisturbed = {}
  BY <1>2 DEF Undisturbed
<1>5. LoadInv /\ KeyInv /\ ResolveInv /\ GotInv
  BY <1>4 DEF LoadInv, KeyInv, ResolveInv, GotInv
<1>6. CacheInv
  BY <1>2 DEF CacheInv, Unlocked
<1>7. PromiseInv /\ PlanHonest /\ OfflineSucceeds
  BY DEF Init, PromiseInv, PlanHonest, OfflineSucceeds
<1>8. QED BY <1>1, <1>3, <1>5, <1>6, <1>7 DEF IInv

\* Every step keeps the invariant.
LEMMA StepIInv == IInv /\ [Next]_vars => IInv'
BY TypeStep, WriterStep, LoadStep, KeyStep, ResolveStep, GotStep, CacheStep,
   PromiseStep, PlanStep, OfflineStep
   DEF IInv

\* The invariant holds always.
THEOREM Inductive == Spec => []IInv
BY InitIInv, StepIInv, PTL DEF Spec

\* The variables have their types, for any commands, features and contents.
THEOREM TypeCorrect == Spec => []TypeOK
<1>1. IInv => TypeOK
  BY DEF IInv
<1>2. QED BY <1>1, Inductive, PTL

\* A cached plan is what its key stands for, however many commands write,
\* fail and are killed in whatever order, unless a file was edited under them.
THEOREM PlanIsHonest == Spec => []PlanHonest
<1>1. IInv => PlanHonest
  BY DEF IInv
<1>2. QED BY <1>1, Inductive, PTL

\* What a command resolved is what the lock file says, with the plan or
\* without it, and next to any number of other commands.
THEOREM LockIsFollowed == Spec => []FollowsLock
<1>1. IInv => FollowsLock
  <2>1. SUFFICES ASSUME IInv, NEW p \in Procs \ raced, pc[p] = "done"
                 PROVE  /\ from[p] = input
                        /\ \A s \in Wants[input] :
                             got[p][s] = lock[s] /\ lock[s] # NoDigest
    BY DEF FollowsLock
  <2>2. p \in Undisturbed
    BY <2>1 DEF Undisturbed
  <2>3. from[p] = input
    BY <2>1, <2>2 DEF IInv, LoadInv
  <2>4. Wants[input] \subseteq Sources
    BY <2>1, ResolutionAssumption DEF IInv, TypeOK
  <2>5. \A s \in Wants[input] : got[p][s] = lock[s] /\ lock[s] # NoDigest
    BY <2>1, <2>2, <2>4 DEF IInv, GotInv
  <2>6. QED BY <2>3, <2>5
<1>2. QED BY <1>1, Inductive, PTL

\* After an up or build every enabled feature is locked and cached, unless a
\* file was edited or the cache cleared meanwhile.
THEOREM UpIsSettled == Spec => []UpSettles
<1>1. IInv => UpSettles
  <2>1. SUFFICES ASSUME IInv, NEW p \in Procs \ (raced \cup robbed),
                        pc[p] = "done", NEW s \in Wants[input]
                 PROVE  Cached(s, lock[s])
    BY DEF UpSettles, Offline
  <2>2. p \in Undisturbed /\ s \in Sources
    BY <2>1, ResolutionAssumption DEF Undisturbed, IInv, TypeOK
  <2>3. got[p][s] # NoDigest /\ lock[s] = got[p][s]
    BY <2>1, <2>2 DEF IInv, GotInv
  <2>4. QED BY <2>1, <2>2, <2>3 DEF IInv, CacheInv
<1>2. QED BY <1>1, Inductive, PTL

\* An offline command that begins when all that it needs is there does not
\* fail but for an error of its own in reading a file, whatever other commands
\* do next to it.
THEOREM OfflineIsServed == Spec => []OfflineSucceeds
<1>1. IInv => OfflineSucceeds
  BY DEF IInv
<1>2. QED BY <1>1, Inductive, PTL
=============================================================================
