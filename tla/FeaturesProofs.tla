--------------------------- MODULE FeaturesProofs ---------------------------
(***************************************************************************)
(* Theorems of module Features, for any number of commands, features and   *)
(* digests: type correctness, the lock of the cache, what commands have    *)
(* resolved, and that the cache implements FeatureStore.                   *)
(***************************************************************************)
EXTENDS Features, WellFoundedInduction, TLAPS

\* A set of features that is not empty has a first one in the order of the IDs.
LEMMA FirstExists ==
  ASSUME NEW T, T \subseteq Nat, T # {}
  PROVE  \E s \in T : \A r \in T : s <= r
<1> DEFINE R == {ss \in Nat \X Nat : ss[1] < ss[2]}
<1>1. IsWellFoundedOn(R, Nat)
  BY NatLessThanWellFounded DEF OpToRel
<1> HIDE DEF R
<1>2. \E s \in T : \A r \in T : <<r, s>> \notin R
  BY <1>1, WFMin
<1>3. PICK s \in T : \A r \in T : <<r, s>> \notin R
  BY <1>2
<1>4. ASSUME NEW r \in T PROVE s <= r
  <2>1. r \in Nat /\ s \in Nat /\ <<r, s>> \notin R
    BY <1>3
  <2>2. ~(r < s)
    BY <2>1 DEF R
  <2>3. QED
    BY <2>1, <2>2
<1>5. QED
  BY <1>4

\* The turn of the loop of orderFeatures takes a feature that is ready.
LEMMA ChosenIsReady ==
  ASSUME NEW p, NEW ready, ready \subseteq Sources, ready # {}
  PROVE  Chosen(p, ready) \in ready
<1>1. \E s \in ready : \A r \in ready : s <= r
  BY FirstExists, FeaturesAssumption
<1>2. QED
  BY <1>1 DEF Chosen

-----------------------------------------------------------------------------
(* The inductive invariant. *)

\* The types of the variables.
Types ==
  /\ graph \in Graphs
  /\ entry \in [Entries -> SUBSET Complete]
  /\ holder \in [Sources -> Procs \cup {None}]
  /\ pc \in [Procs -> Pcs] /\ network \in [Procs -> BOOLEAN]
  /\ lock \in [Procs -> [Sources -> Digests \cup {None}]]
  /\ source \in [Procs -> Sources \cup {None}]
  /\ digest \in [Procs -> Digests \cup {None}]
  /\ temp \in [Procs -> SUBSET Complete]
  /\ list \in [Procs -> Seq(Sources \X (Digests \cup {None}))]
  /\ order \in [Procs -> Seq(Sources)]
  /\ faults \in 0..MaxFaults
  /\ spoilt \subseteq Entries

\* What a command is resolving: from the moment it knows the digest it has a
\* directory of the cache in mind, which it wants and has not resolved yet.
InMind ==
  \A p \in Procs :
    /\ source[p] # None => source[p] \in Wants[p] \ Resolved(p)
    /\ pc[p] \in {"cached", "request"} => source[p] \in Remote
    /\ pc[p] \in Inside \cup {"look", "lock"} => This(p) \in Entries
    /\ pc[p] = "load" => source[p] \in Locals \/ This(p) \in Entries

\* A directory with a manifest is whole, and so is what is going to be one.
Whole ==
  /\ \A e \in Entries : HasManifest(e) => entry[e] = Complete \/ e \in spoilt
  /\ \A p \in Procs : pc[p] \in {"rename", "remove", "retry"} => temp[p] = Complete

\* What a command removes is not what others take.
RemovesBroken ==
  \A p \in Procs :
    pc[p] = "remove" => entry[This(p)] # Complete \/ This(p) \in spoilt

-----------------------------------------------------------------------------
(* What each step keeps. *)

\* Releasing the lock and leaving the loop keep the types.
LEMMA UnlockTypes ==
  ASSUME Types, NEW p \in Procs, Unlock(p)
  PROVE  holder' \in [Sources -> Procs \cup {None}] /\ temp' \in [Procs -> SUBSET Complete]
<1>1. {} \in SUBSET Complete
  OBVIOUS
<1>2. QED
  BY <1>1 DEF Types, Unlock

LEMMA ExitTypes ==
  ASSUME Types, NEW p \in Procs, Exit(p)
  PROVE  /\ graph' \in Graphs
         /\ entry' \in [Entries -> SUBSET Complete]
         /\ pc' \in [Procs -> Pcs] /\ network' \in [Procs -> BOOLEAN]
         /\ lock' \in [Procs -> [Sources -> Digests \cup {None}]]
         /\ source' \in [Procs -> Sources \cup {None}]
         /\ digest' \in [Procs -> Digests \cup {None}]
         /\ list' \in [Procs -> Seq(Sources \X (Digests \cup {None}))]
         /\ order' \in [Procs -> Seq(Sources)]
<1>1. [s \in Sources |-> None] \in [Sources -> Digests \cup {None}]
  OBVIOUS
<1>2. << >> \in Seq(Sources) /\ << >> \in Seq(Sources \X (Digests \cup {None}))
  OBVIOUS
<1>3. "failed" \in Pcs
  BY DEF Pcs, Ended
<1>4. QED
  BY <1>1, <1>2, <1>3 DEF Types, Exit, Goto

\* The types.
LEMMA TypeStep == Types /\ Turns /\ InMind /\ [Next]_vars => Types'
<1> SUFFICES ASSUME Types /\ Turns /\ InMind, [Next]_vars PROVE Types'
  OBVIOUS
<1> USE DEF Types, Pcs, Ended, shared
<1>1. ASSUME NEW p \in Procs, Start(p) PROVE Types'
  BY <1>1, FeaturesAssumption DEF Start, Goto, At
<1>2. ASSUME NEW p \in Procs, Pick(p) PROVE Types'
  <2>1. CASE Resolved(p) = Wants[p]
    BY <1>2, <2>1 DEF Pick, Goto
  <2>2. CASE Resolved(p) # Wants[p]
    <3>1. PICK s \in Wants[p] : source' = [source EXCEPT ![p] = s]
      BY <1>2, <2>2 DEF Pick
    <3>2. s \in Sources
      BY FeaturesAssumption
    <3>3. \E l \in {"load", "request", "cached"} : pc' = [pc EXCEPT ![p] = l]
      BY <1>2, <2>2 DEF Pick, Goto
    <3>4. QED
      BY <1>2, <3>1, <3>2, <3>3 DEF Pick
  <2>3. QED
    BY <2>1, <2>2
<1>3. ASSUME NEW p \in Procs, UseCached(p) PROVE Types'
  <2>1. source[p] \in Sources
    BY <1>3 DEF UseCached, At, InMind, Remote
  <2>2. digest' \in [Procs -> Digests \cup {None}]
    BY <1>3, <2>1 DEF UseCached
  <2>3. QED
    BY <1>3, <2>2 DEF UseCached, Goto
<1>4. ASSUME NEW p \in Procs, Request(p) PROVE Types'
  <2>1. source[p] \in Sources
    BY <1>4 DEF Request, At, InMind, Remote
  <2> DEFINE d == IF source[p] \in Tarballs \/ lock[p][source[p]] = None
                  THEN Upstream[source[p]] ELSE lock[p][source[p]]
  <2>2. d \in Digests \cup {None}
    <3>1. Upstream[source[p]] \in Digests
      BY <2>1, FeaturesAssumption
    <3>2. lock[p] \in [Sources -> Digests \cup {None}]
      OBVIOUS
    <3>3. lock[p][source[p]] \in Digests \cup {None}
      BY <2>1, <3>2
    <3>4. QED
      BY <3>1, <3>3
  <2>3. digest' = [digest EXCEPT ![p] = d]
    BY <1>4 DEF Request
  <2> HIDE DEF d
  <2>4. QED
    BY <1>4, <2>2, <2>3 DEF Request, Goto
<1>5. ASSUME NEW p \in Procs, Look(p) PROVE Types'
  BY <1>5 DEF Look, Goto, At
<1>6. ASSUME NEW p \in Procs, Lock(p) PROVE Types'
  <2>1. source[p] \in Sources
    BY <1>6 DEF Lock, At, Turns
  <2>2. QED
    BY <1>6, <2>1 DEF Lock, Goto, TakeLock
<1>7. ASSUME NEW p \in Procs, Recheck(p) PROVE Types'
  <2>1. \E l \in {"load", "extract"} : pc' = [pc EXCEPT ![p] = l]
    BY <1>7 DEF Recheck, Goto
  <2>2. Unlock(p) \/ UNCHANGED <<holder, temp>>
    BY <1>7 DEF Recheck
  <2>3. QED
    BY <1>7, <2>1, <2>2, UnlockTypes DEF Recheck
<1>8. ASSUME NEW p \in Procs, Extract(p) PROVE Types'
  <2>1. CASE temp[p] = Complete
    BY <1>8, <2>1 DEF Extract, Goto
  <2>2. CASE temp[p] # Complete
    <3>1. PICK f \in Complete : temp' = [temp EXCEPT ![p] = @ \cup {f}]
      BY <1>8, <2>2 DEF Extract, ExtractFile
    <3>2. temp[p] \cup {f} \in SUBSET Complete
      OBVIOUS
    <3>3. temp' \in [Procs -> SUBSET Complete]
      BY <3>1, <3>2
    <3>4. UNCHANGED <<entry, pc>>
      BY <1>8, <2>2 DEF Extract, ExtractFile
    <3>5. QED
      BY <1>8, <3>3, <3>4 DEF Extract
  <2>3. QED
    BY <2>1, <2>2
<1>9. ASSUME NEW p \in Procs, Rename(p) PROVE Types'
  <2>1. entry' \in [Entries -> SUBSET Complete]
    BY <1>9 DEF Rename, Publish
  <2>2. \E l \in {"load", "remove"} : pc' = [pc EXCEPT ![p] = l]
    BY <1>9 DEF Rename, Publish, Goto
  <2>3. Unlock(p) \/ UNCHANGED <<holder, temp>>
    BY <1>9 DEF Rename, Publish
  <2>4. QED
    BY <1>9, <2>1, <2>2, <2>3, UnlockTypes DEF Rename
<1>10. ASSUME NEW p \in Procs, RemoveBroken(p) PROVE Types'
  <2>1. entry' \in [Entries -> SUBSET Complete]
    BY <1>10 DEF RemoveBroken
  <2>2. QED
    BY <1>10, <2>1 DEF RemoveBroken, Goto
<1>11. ASSUME NEW p \in Procs, Retry(p) PROVE Types'
  <2>1. entry' \in [Entries -> SUBSET Complete]
    BY <1>11 DEF Retry, Publish
  <2>2. \E l \in {"load"} : pc' = [pc EXCEPT ![p] = l]
    BY <1>11 DEF Retry, Publish, Goto
  <2>3. Unlock(p) \/ UNCHANGED <<holder, temp>>
    BY <1>11 DEF Retry, Publish
  <2>4. QED
    BY <1>11, <2>1, <2>2, <2>3, UnlockTypes DEF Retry
<1>12. ASSUME NEW p \in Procs, Load(p) PROVE Types'
  <2>1. This(p) \in Sources \X (Digests \cup {None})
    BY <1>12 DEF Load, At, This, Turns
  <2>2. list' \in [Procs -> Seq(Sources \X (Digests \cup {None}))]
    BY <1>12, <2>1 DEF Load
  <2>3. QED
    BY <1>12, <2>2 DEF Load, Goto
<1>13. ASSUME NEW p \in Procs, Order(p) PROVE Types'
  <2>1. Ready(p) \subseteq Sources
    BY DEF Ready, Resolved
  <2>2. CASE Ready(p) # {}
    <3>1. Chosen(p, Ready(p)) \in Sources
      BY <2>1, <2>2, ChosenIsReady
    <3>2. Append(order[p], Chosen(p, Ready(p))) \in Seq(Sources)
      BY <3>1
    <3>3. order' = [order EXCEPT ![p] = Append(order[p], Chosen(p, Ready(p)))]
      BY <1>13, <2>2 DEF Order
    <3>4. order' \in [Procs -> Seq(Sources)]
      BY <3>2, <3>3
    <3>5. QED
      BY <1>13, <2>2, <3>4 DEF Order
  <2>3. CASE Ready(p) = {}
    BY <1>13, <2>3 DEF Order, Goto
  <2>4. QED
    BY <2>2, <2>3
<1>14. ASSUME NEW p \in Procs, Fail(p) PROVE Types'
  BY <1>14, UnlockTypes, ExitTypes DEF Fail
<1>15. ASSUME NEW p \in Procs, Kill(p) PROVE Types'
  <2>1. faults' \in 0..MaxFaults
    BY <1>15, FeaturesAssumption DEF Kill
  <2>2. QED
    BY <1>15, <2>1, UnlockTypes, ExitTypes DEF Kill, Died
<1>16. ASSUME NEW e \in Entries, Touch(e) PROVE Types'
  <2>1. entry' \in [Entries -> SUBSET Complete]
    BY <1>16 DEF Touch
  <2>2. faults' \in 0..MaxFaults
    BY <1>16, FeaturesAssumption DEF Touch
  <2>3. QED
    BY <1>16, <2>1, <2>2 DEF Touch, local
<1>17. CASE UNCHANGED vars
  BY <1>17 DEF vars, local
<1>18. QED
  BY <1>1, <1>2, <1>3, <1>4, <1>5, <1>6, <1>7, <1>8, <1>9, <1>10, <1>11, <1>12,
     <1>13, <1>14, <1>15, <1>16, <1>17 DEF Next, Step

\* A command changes nothing that belongs to another.
LEMMA OthersKeep ==
  ASSUME Types, NEW p \in Procs, Start(p) \/ Step(p) \/ Kill(p),
         NEW q \in Procs, q # p
  PROVE  /\ pc'[q] = pc[q] /\ source'[q] = source[q] /\ digest'[q] = digest[q]
         /\ temp'[q] = temp[q] /\ list'[q] = list[q]
<1> USE DEF Types, Goto, shared
<1>1. CASE Start(p)
  BY <1>1 DEF Start
<1>2. CASE Pick(p)
  BY <1>2 DEF Pick
<1>3. CASE UseCached(p)
  BY <1>3 DEF UseCached
<1>4. CASE Request(p)
  BY <1>4 DEF Request
<1>5. CASE Look(p)
  BY <1>5 DEF Look
<1>6. CASE Lock(p)
  BY <1>6 DEF Lock
<1>7. CASE Recheck(p)
  BY <1>7 DEF Recheck, Unlock
<1>8. CASE Extract(p)
  BY <1>8 DEF Extract, ExtractFile
<1>9. CASE Rename(p)
  BY <1>9 DEF Rename, Publish, Unlock
<1>10. CASE RemoveBroken(p)
  BY <1>10 DEF RemoveBroken
<1>11. CASE Retry(p)
  BY <1>11 DEF Retry, Publish, Unlock
<1>12. CASE Load(p)
  BY <1>12 DEF Load
<1>13. CASE Order(p)
  BY <1>13 DEF Order
<1>14. CASE Fail(p)
  BY <1>14 DEF Fail, Exit, Unlock
<1>15. CASE Kill(p)
  BY <1>15 DEF Kill, Died, Exit, Unlock
<1>16. QED
  BY <1>1, <1>2, <1>3, <1>4, <1>5, <1>6, <1>7, <1>8, <1>9, <1>10, <1>11, <1>12,
     <1>13, <1>14, <1>15 DEF Step

\* What a command does to the cache and to the list of what it has resolved.
Moves(p) ==
  \/ UNCHANGED <<entry, list>>
  \/ /\ pc[p] \in {"rename", "retry"}
     /\ entry' = [entry EXCEPT ![This(p)] = temp[p]]
     /\ UNCHANGED list
  \/ RemoveBroken(p)
  \/ Load(p)
  \/ list' = [list EXCEPT ![p] = << >>] /\ UNCHANGED entry

LEMMA StepMoves ==
  ASSUME NEW p \in Procs, Start(p) \/ Step(p) \/ Kill(p)
  PROVE  Moves(p) /\ UNCHANGED spoilt
<1> USE DEF Moves, shared
<1>1. CASE Start(p)
  BY <1>1 DEF Start
<1>2. CASE Pick(p)
  BY <1>2 DEF Pick
<1>3. CASE UseCached(p)
  BY <1>3 DEF UseCached
<1>4. CASE Request(p)
  BY <1>4 DEF Request
<1>5. CASE Look(p)
  BY <1>5 DEF Look
<1>6. CASE Lock(p)
  BY <1>6 DEF Lock
<1>7. CASE Recheck(p)
  BY <1>7 DEF Recheck
<1>8. CASE Extract(p)
  BY <1>8 DEF Extract, ExtractFile
<1>9. CASE Rename(p)
  BY <1>9 DEF Rename, Publish, At
<1>10. CASE RemoveBroken(p)
  BY <1>10 DEF RemoveBroken
<1>11. CASE Retry(p)
  BY <1>11 DEF Retry, Publish, At
<1>12. CASE Load(p)
  BY <1>12 DEF Load
<1>13. CASE Order(p)
  BY <1>13 DEF Order
<1>14. CASE Fail(p)
  BY <1>14 DEF Fail, Exit
<1>15. CASE Kill(p)
  BY <1>15 DEF Kill, Died, Exit
<1>16. QED
  BY <1>1, <1>2, <1>3, <1>4, <1>5, <1>6, <1>7, <1>8, <1>9, <1>10, <1>11, <1>12,
     <1>13, <1>14, <1>15 DEF Step

\* What a command has in mind.
LEMMA MindStep == Types /\ Turns /\ InMind /\ [Next]_vars => Turns' /\ InMind'
<1> SUFFICES ASSUME Types /\ Turns /\ InMind, [Next]_vars PROVE Turns' /\ InMind'
  OBVIOUS
<1> DEFINE Fine(q) ==
      /\ source[q] = None <=> pc[q] \in Ended \cup {"start", "next", "order"}
      /\ temp[q] # {} => pc[q] \in Inside
      /\ Resolved(q) \subseteq Wants[q]
      /\ \A i, j \in DOMAIN list[q] : list[q][i][1] = list[q][j][1] => i = j
      /\ source[q] # None => source[q] \in Wants[q] \ Resolved(q)
      /\ pc[q] \in {"cached", "request"} => source[q] \in Remote
      /\ pc[q] \in Inside \cup {"look", "lock"} => This(q) \in Entries
      /\ pc[q] = "load" => source[q] \in Locals \/ This(q) \in Entries
<1>0. /\ Turns /\ InMind <=> \A q \in Procs : Fine(q)
      /\ Turns' /\ InMind' <=> \A q \in Procs : Fine(q)'
  BY DEF Turns, InMind
<1>1. ASSUME NEW p \in Procs, Start(p) PROVE Fine(p)'
  <2>1. /\ pc[p] = "start" /\ pc'[p] = "next"
        /\ UNCHANGED <<source, digest, temp, list>>
    BY <1>1 DEF Start, At, Goto, Types
  <2>2. QED
    BY <1>0, <2>1 DEF Resolved, Ended, Inside
<1>2. ASSUME NEW p \in Procs, Pick(p) PROVE Fine(p)'
  <2>1. pc[p] = "next" /\ UNCHANGED <<digest, temp, list>>
    BY <1>2 DEF Pick, At
  <2>2. CASE Resolved(p) = Wants[p]
    <3>1. pc'[p] = "order" /\ UNCHANGED source
      BY <1>2, <2>2 DEF Pick, Goto, Types
    <3>2. QED
      BY <1>0, <2>1, <3>1 DEF Resolved, Ended, Inside
  <2>3. CASE Resolved(p) # Wants[p]
    <3>1. PICK s \in Wants[p] \ Resolved(p) : source' = [source EXCEPT ![p] = s]
      BY <1>2, <2>3 DEF Pick
    <3>2. s \in Sources /\ s # None /\ source'[p] = s
      <4>1. s \in Sources /\ s # None
        BY FeaturesAssumption
      <4>2. QED
        BY <3>1, <4>1 DEF Types
    <3>3. pc'[p] = IF s \in Locals THEN "load"
                   ELSE IF network[p] THEN "request" ELSE "cached"
      BY <1>2, <2>3, <3>2 DEF Pick, Goto, Types
    <3>4. Resolved(p)' = Resolved(p)
      BY <2>1 DEF Resolved
    <3>5. QED
      BY <1>0, <2>1, <3>1, <3>2, <3>3, <3>4 DEF Ended, Inside, Remote
  <2>4. QED
    BY <2>2, <2>3
<1>3. ASSUME NEW p \in Procs, UseCached(p) PROVE Fine(p)'
  <2> DEFINE d == lock[p][source[p]]
  <2>1. /\ pc[p] = "cached" /\ pc'[p] = "load" /\ digest'[p] = d /\ d # None
        /\ UNCHANGED <<source, temp, list>>
    BY <1>3 DEF UseCached, At, Goto, Types
  <2>2. source[p] \in Remote
    BY <1>0, <2>1
  <2>3. d \in Digests
    <3>1. lock[p] \in [Sources -> Digests \cup {None}]
      BY DEF Types
    <3>2. QED
      BY <2>1, <2>2, <3>1 DEF Remote
  <2> HIDE DEF d
  <2>4. Resolved(p)' = Resolved(p)
    BY <2>1 DEF Resolved
  <2>5. This(p)' \in Entries
    BY <2>1, <2>2, <2>3 DEF This, Entries
  <2>6. QED
    BY <1>0, <2>1, <2>4, <2>5 DEF Ended, Inside
<1>4. ASSUME NEW p \in Procs, Request(p) PROVE Fine(p)'
  <2> DEFINE d == IF source[p] \in Tarballs \/ lock[p][source[p]] = None
                  THEN Upstream[source[p]] ELSE lock[p][source[p]]
  <2>1. /\ pc[p] = "request" /\ pc'[p] = "look" /\ digest'[p] = d
        /\ UNCHANGED <<source, temp, list>>
    BY <1>4 DEF Request, At, Goto, Types
  <2>2. source[p] \in Remote
    BY <1>0, <2>1
  <2>3. d \in Digests
    <3>1. lock[p] \in [Sources -> Digests \cup {None}]
      BY DEF Types
    <3>2. lock[p][source[p]] \in Digests \cup {None}
      BY <2>2, <3>1 DEF Remote
    <3>3. Upstream[source[p]] \in Digests
      BY <2>2, FeaturesAssumption DEF Remote
    <3>4. QED
      BY <3>2, <3>3
  <2> HIDE DEF d
  <2>4. Resolved(p)' = Resolved(p)
    BY <2>1 DEF Resolved
  <2>5. This(p)' \in Entries
    BY <2>1, <2>2, <2>3 DEF This, Entries
  <2>6. QED
    BY <1>0, <2>1, <2>4, <2>5 DEF Ended, Inside
<1>5. ASSUME NEW p \in Procs, Look(p) PROVE Fine(p)'
  BY <1>0, <1>5 DEF Look, At, Goto, Resolved, This, Inside, Ended, Entries, Types, shared, Remote
<1>6. ASSUME NEW p \in Procs, Lock(p) PROVE Fine(p)'
  BY <1>0, <1>6 DEF Lock, At, Goto, Resolved, This, Inside, Ended, Entries, Types, shared, Remote
<1>7. ASSUME NEW p \in Procs, Recheck(p) PROVE Fine(p)'
  BY <1>0, <1>7 DEF Recheck, Unlock, At, Goto, Resolved, This, Inside, Ended, Entries, Types, shared, Remote
<1>8. ASSUME NEW p \in Procs, Extract(p) PROVE Fine(p)'
  BY <1>0, <1>8 DEF Extract, ExtractFile, At, Goto, Resolved, This, Inside, Ended, Entries, Types, shared, Remote
<1>9. ASSUME NEW p \in Procs, Rename(p) PROVE Fine(p)'
  BY <1>0, <1>9 DEF Rename, Publish, Unlock, At, Goto, Resolved, This, Inside, Ended, Entries, Types, shared, Remote
<1>10. ASSUME NEW p \in Procs, RemoveBroken(p) PROVE Fine(p)'
  BY <1>0, <1>10 DEF RemoveBroken, At, Goto, Resolved, This, Inside, Ended, Entries, Types, shared, Remote
<1>11. ASSUME NEW p \in Procs, Retry(p) PROVE Fine(p)'
  BY <1>0, <1>11 DEF Retry, Publish, Unlock, At, Goto, Resolved, This, Inside, Ended, Entries, Types, shared, Remote
<1>12. ASSUME NEW p \in Procs, Load(p) PROVE Fine(p)'
  <2>1. This(p) \in Sources \X (Digests \cup {None}) /\ source[p] \notin Resolved(p)
    BY <1>0, <1>12 DEF Types, Load, At, This, Ended
  <2>2. /\ DOMAIN list'[p] = 1..Len(list[p]) + 1
        /\ \A i \in 1..Len(list[p]) : list'[p][i] = list[p][i]
        /\ list'[p][Len(list[p]) + 1] = This(p)
        /\ DOMAIN list[p] = 1..Len(list[p]) /\ Len(list[p]) \in Nat
    BY <1>12, <2>1 DEF Types, Load
  <2> DEFINE n == Len(list[p])
  <2>3. n \in Nat /\ list'[p][n + 1][1] = source[p]
    BY <2>2 DEF This
  <2>4. DOMAIN list'[p] = 1..n \cup {n + 1}
    BY <2>2, <2>3
  <2>5. Resolved(p)' = Resolved(p) \cup {source[p]}
    BY <2>2, <2>3, <2>4 DEF Resolved
  <2>6. \A i \in 1..n : /\ list'[p][i][1] # source[p] /\ i # n + 1
                        /\ \A j \in 1..n : list'[p][i][1] = list'[p][j][1] => i = j
    <3>1. \A i \in 1..n : list[p][i][1] # source[p]
      BY <2>1, <2>2 DEF Resolved
    <3>2. \A i, j \in 1..n : list[p][i][1] = list[p][j][1] => i = j
      BY <1>0, <2>2
    <3>3. \A i \in 1..n : list'[p][i] = list[p][i] /\ i # n + 1
      BY <2>2, <2>3
    <3>4. QED
      BY <3>1, <3>2, <3>3
  <2>7. \A i, j \in DOMAIN list'[p] : list'[p][i][1] = list'[p][j][1] => i = j
    BY <2>3, <2>4, <2>6
  <2>8. /\ source'[p] = None /\ pc[p] = "load" /\ pc'[p] = "next"
        /\ source[p] # None /\ temp' = temp
    BY <1>0, <1>12 DEF Types, Load, At, Goto, Ended
  <2>9. QED
    BY <1>0, <2>5, <2>7, <2>8 DEF Ended, Inside
<1>13. ASSUME NEW p \in Procs, Order(p) PROVE Fine(p)'
  BY <1>0, <1>13 DEF Order, At, Goto, Resolved, This, Inside, Ended, Entries, Types, shared, Remote
<1>14. ASSUME NEW p \in Procs, Fail(p) PROVE Fine(p)'
  BY <1>0, <1>14 DEF Fail, Exit, Unlock, At, Goto, Resolved, This, Inside, Ended, Entries, Types, shared, Remote
<1>15. ASSUME NEW p \in Procs, Kill(p) PROVE Fine(p)'
  BY <1>0, <1>15 DEF Kill, Died, Exit, Unlock, At, Goto, Resolved, This, Inside, Ended, Entries, Types, shared, Remote
<1>16. ASSUME NEW p \in Procs, Start(p) \/ Step(p) \/ Kill(p),
              NEW q \in Procs, q # p
       PROVE  Fine(q)'
  BY <1>0, <1>16, OthersKeep DEF Resolved, This
<1>17. ASSUME NEW e \in Entries, Touch(e), NEW q \in Procs PROVE Fine(q)'
  BY <1>0, <1>17 DEF Touch, local, Resolved, This
<1>18. ASSUME UNCHANGED vars, NEW q \in Procs PROVE Fine(q)'
  BY <1>0, <1>18 DEF vars, local, Resolved, This
<1> HIDE DEF Fine
<1>19. ASSUME NEW p \in Procs, Start(p) \/ Step(p) \/ Kill(p) PROVE Fine(p)'
  BY <1>19, <1>1, <1>2, <1>3, <1>4, <1>5, <1>6, <1>7, <1>8, <1>9, <1>10, <1>11,
     <1>12, <1>13, <1>14, <1>15 DEF Step
<1>20. QED
  BY <1>0, <1>16, <1>17, <1>18, <1>19 DEF Next

\* What a command does to the lock.
LockMoves(p) ==
  \/ /\ UNCHANGED holder
     /\ pc[p] \in Inside <=> pc'[p] \in Inside
     /\ pc[p] \in Inside => source'[p] = source[p]
  \/ /\ TakeLock(p, source[p])
     /\ pc[p] = "lock" /\ pc'[p] \in Inside /\ source'[p] = source[p]
  \/ /\ holder' = [s \in Sources |-> IF holder[s] = p THEN None ELSE holder[s]]
     /\ pc'[p] \notin Inside

LEMMA StepLocks ==
  ASSUME Types, NEW p \in Procs, Start(p) \/ Step(p) \/ Kill(p)
  PROVE  LockMoves(p)
<1> USE DEF LockMoves, Types, Goto, At, shared, Inside
<1>1. CASE Start(p)
  BY <1>1 DEF Start
<1>2. CASE Pick(p)
  BY <1>2 DEF Pick
<1>3. CASE UseCached(p)
  BY <1>3 DEF UseCached
<1>4. CASE Request(p)
  BY <1>4 DEF Request
<1>5. CASE Look(p)
  BY <1>5 DEF Look
<1>6. CASE Lock(p)
  BY <1>6 DEF Lock
<1>7. CASE Recheck(p)
  BY <1>7 DEF Recheck, Unlock
<1>8. CASE Extract(p)
  BY <1>8 DEF Extract
<1>9. CASE Rename(p)
  BY <1>9 DEF Rename, Publish, Unlock
<1>10. CASE RemoveBroken(p)
  BY <1>10 DEF RemoveBroken
<1>11. CASE Retry(p)
  BY <1>11 DEF Retry, Publish, Unlock
<1>12. CASE Load(p)
  BY <1>12 DEF Load
<1>13. CASE Order(p)
  BY <1>13 DEF Order
<1>14. CASE Fail(p)
  BY <1>14 DEF Fail, Exit, Unlock
<1>15. CASE Kill(p)
  BY <1>15 DEF Kill, Died, Exit, Unlock
<1>16. QED
  BY <1>1, <1>2, <1>3, <1>4, <1>5, <1>6, <1>7, <1>8, <1>9, <1>10, <1>11, <1>12,
     <1>13, <1>14, <1>15 DEF Step

\* The lock of the cache belongs to the command that is inside.
LEMMA LockStep ==
  Types /\ InMind /\ OnePopulates /\ [Next]_vars => OnePopulates'
<1> SUFFICES ASSUME Types /\ InMind /\ OnePopulates, [Next]_vars,
                    NEW q \in Procs, NEW s \in Sources
             PROVE  holder'[s] = q <=> pc'[q] \in Inside /\ source'[q] = s
  BY DEF OnePopulates
<1>0. q # None /\ (holder[s] = q <=> pc[q] \in Inside /\ source[q] = s)
  BY FeaturesAssumption DEF OnePopulates
<1>1. ASSUME NEW p \in Procs, Start(p) \/ Step(p) \/ Kill(p)
      PROVE  holder'[s] = q <=> pc'[q] \in Inside /\ source'[q] = s
  <2>1. LockMoves(p)
    BY <1>1, StepLocks
  <2>2. q # p => pc'[q] = pc[q] /\ source'[q] = source[q]
    BY <1>1, OthersKeep
  <2>3. CASE UNCHANGED holder /\ (pc[p] \in Inside <=> pc'[p] \in Inside)
             /\ (pc[p] \in Inside => source'[p] = source[p])
    BY <1>0, <2>2, <2>3
  <2>4. CASE /\ TakeLock(p, source[p])
             /\ pc[p] = "lock" /\ pc'[p] \in Inside /\ source'[p] = source[p]
    <3>1. source[p] \in Sources
      BY <2>4 DEF InMind, This, Entries, Remote
    <3>2. holder'[s] = IF s = source[p] THEN p ELSE holder[s]
      BY <2>4, <3>1 DEF TakeLock, Types
    <3>3. holder[source[p]] = None /\ pc[p] \notin Inside
      BY <2>4 DEF TakeLock, Inside
    <3>4. QED
      BY <1>0, <2>2, <2>4, <3>2, <3>3
  <2>5. CASE /\ holder' = [r \in Sources |-> IF holder[r] = p THEN None ELSE holder[r]]
             /\ pc'[p] \notin Inside
    BY <1>0, <2>2, <2>5
  <2>6. QED
    BY <2>1, <2>3, <2>4, <2>5 DEF LockMoves
<1>2. ASSUME NEW e \in Entries, Touch(e)
      PROVE  holder'[s] = q <=> pc'[q] \in Inside /\ source'[q] = s
  BY <1>0, <1>2 DEF Touch, local
<1>3. CASE UNCHANGED vars
  BY <1>0, <1>3 DEF vars, shared, local
<1>4. QED
  BY <1>1, <1>2, <1>3 DEF Next

\* What a command is about to store is whole.
LEMMA TempMoves ==
  ASSUME Types, Whole, NEW p \in Procs, Start(p) \/ Step(p) \/ Kill(p),
         pc'[p] \in {"rename", "remove", "retry"}
  PROVE  temp'[p] = Complete
<1> USE DEF Types, Goto, At, shared, Whole
<1>1. CASE Start(p)
  BY <1>1 DEF Start
<1>2. CASE Pick(p)
  BY <1>2 DEF Pick
<1>3. CASE UseCached(p)
  BY <1>3 DEF UseCached
<1>4. CASE Request(p)
  BY <1>4 DEF Request
<1>5. CASE Look(p)
  BY <1>5 DEF Look
<1>6. CASE Lock(p)
  BY <1>6 DEF Lock
<1>7. CASE Recheck(p)
  BY <1>7 DEF Recheck
<1>8. CASE Extract(p)
  BY <1>8 DEF Extract
<1>9. CASE Rename(p)
  BY <1>9 DEF Rename, Publish
<1>10. CASE RemoveBroken(p)
  BY <1>10 DEF RemoveBroken
<1>11. CASE Retry(p)
  BY <1>11 DEF Retry, Publish
<1>12. CASE Load(p)
  BY <1>12 DEF Load
<1>13. CASE Order(p)
  BY <1>13 DEF Order
<1>14. CASE Fail(p)
  BY <1>14 DEF Fail, Exit
<1>15. CASE Kill(p)
  BY <1>15 DEF Kill, Died, Exit
<1>16. QED
  BY <1>1, <1>2, <1>3, <1>4, <1>5, <1>6, <1>7, <1>8, <1>9, <1>10, <1>11, <1>12,
     <1>13, <1>14, <1>15 DEF Step

\* What has a manifest is whole.
LEMMA WholeStep ==
  Types /\ InMind /\ Whole /\ [Next]_vars => Whole'
<1> SUFFICES ASSUME Types /\ InMind /\ Whole, [Next]_vars PROVE Whole'
  OBVIOUS
<1> DEFINE Good(e) == HasManifest(e) => entry[e] = Complete \/ e \in spoilt
           Filled(q) == pc[q] \in {"rename", "remove", "retry"} => temp[q] = Complete
<1>1. ASSUME NEW p \in Procs, Start(p) \/ Step(p) \/ Kill(p), NEW e \in Entries
      PROVE  Good(e)'
  <2>1. Good(e)
    BY DEF Whole
  <2>2. Moves(p) /\ UNCHANGED spoilt
    BY <1>1, StepMoves
  <2>3. CASE UNCHANGED entry
    BY <2>1, <2>2, <2>3 DEF HasManifest
  <2>4. CASE pc[p] \in {"rename", "retry"} /\ entry' = [entry EXCEPT ![This(p)] = temp[p]]
    <3>1. temp[p] = Complete
      BY <2>4 DEF Whole
    <3>2. entry'[e] = Complete \/ entry'[e] = entry[e]
      BY <2>4, <3>1 DEF Types
    <3>3. QED
      BY <2>1, <2>2, <3>2 DEF HasManifest
  <2>5. CASE RemoveBroken(p)
    <3>1. entry'[e] = {} \/ entry'[e] = entry[e]
      BY <2>5 DEF RemoveBroken, Types
    <3>2. QED
      BY <2>1, <2>2, <3>1 DEF HasManifest
  <2>6. QED
    BY <2>2, <2>3, <2>4, <2>5 DEF Moves, Load, shared
<1>2. ASSUME NEW p \in Procs, Start(p) \/ Step(p) \/ Kill(p), NEW q \in Procs
      PROVE  Filled(q)'
  <2>1. CASE q = p
    BY <1>2, <2>1, TempMoves
  <2>2. CASE q # p
    BY <1>2, <2>2, OthersKeep DEF Whole
  <2>3. QED
    BY <2>1, <2>2
<1>3. ASSUME NEW f \in Entries, Touch(f), NEW e \in Entries PROVE Good(e)'
  <2>1. e = f \/ entry'[e] = entry[e]
    BY <1>3 DEF Touch, Types
  <2>2. QED
    BY <1>3, <2>1 DEF Touch, Whole, HasManifest
<1>4. ASSUME NEW f \in Entries, Touch(f), NEW q \in Procs PROVE Filled(q)'
  BY <1>4 DEF Touch, local, Whole
<1>5. CASE UNCHANGED vars
  BY <1>5 DEF vars, shared, local, Whole, HasManifest
<1>6. QED
  BY <1>1, <1>2, <1>3, <1>4, <1>5 DEF Next, Whole

\* What a command is about to remove has no manifest: the first attempt to
\* rename has seen it, and the lock keeps others from storing it since.
LEMMA BrokenStep ==
  Types /\ InMind /\ OnePopulates /\ RemovesBroken /\ [Next]_vars => RemovesBroken'
<1> SUFFICES ASSUME Types /\ InMind /\ OnePopulates /\ RemovesBroken, [Next]_vars,
                    NEW q \in Procs, pc'[q] = "remove"
             PROVE  (entry[This(q)] # Complete \/ This(q) \in spoilt)'
  BY DEF RemovesBroken
<1>1. ASSUME NEW p \in Procs, Start(p) \/ Step(p) \/ Kill(p), q = p
      PROVE  (entry[This(q)] # Complete \/ This(q) \in spoilt)'
  <2>1. Rename(p)
    BY <1>1 DEF Types, Step, Start, Pick, UseCached, Request, Look, Lock, Recheck,
       Extract, RemoveBroken, Retry, Publish, Load, Order, Fail, Kill, Exit, Goto, At, shared
  <2>2. /\ pc[p] = "rename" /\ ~HasManifest(This(p))
        /\ UNCHANGED <<entry, source, digest, spoilt>>
    BY <1>1, <2>1 DEF Rename, Publish, Goto, At, Types, shared
  <2>3. QED
    BY <1>1, <2>2 DEF HasManifest, This, Complete
<1>2. ASSUME NEW p \in Procs, Start(p) \/ Step(p) \/ Kill(p), q # p
      PROVE  (entry[This(q)] # Complete \/ This(q) \in spoilt)'
  <2>1. pc[q] = "remove" /\ This(q)' = This(q)
    BY <1>2, OthersKeep DEF This
  <2>2. entry[This(q)] # Complete \/ This(q) \in spoilt
    BY <2>1 DEF RemovesBroken
  <2>3. Moves(p) /\ UNCHANGED spoilt
    BY <1>2, StepMoves
  <2>4. CASE UNCHANGED entry
    BY <2>1, <2>2, <2>3, <2>4
  <2>5. CASE pc[p] \in {"rename", "retry"} /\ entry' = [entry EXCEPT ![This(p)] = temp[p]]
    <3>1. This(p) \in Entries /\ This(q) \in Entries
      BY <2>1, <2>5 DEF InMind, Inside
    <3>2. source[p] \in Sources /\ source[q] \in Sources
      BY <3>1 DEF This, Entries, Remote
    <3>3. holder[source[p]] = p /\ holder[source[q]] = q
      BY <2>1, <2>5, <3>2 DEF OnePopulates, Inside
    <3>4. This(p) # This(q)
      BY <1>2, <3>3 DEF This
    <3>5. entry'[This(q)] = entry[This(q)]
      BY <2>5, <3>1, <3>4 DEF Types
    <3>6. QED
      BY <2>1, <2>2, <2>3, <3>5
  <2>6. CASE RemoveBroken(p)
    <3>1. This(q) \in Entries
      BY <2>1 DEF InMind, Inside
    <3>2. entry'[This(q)] = {} \/ entry'[This(q)] = entry[This(q)]
      BY <2>6, <3>1 DEF RemoveBroken, Types
    <3>3. QED
      BY <2>1, <2>2, <2>3, <3>2 DEF Complete
  <2>7. QED
    BY <2>3, <2>4, <2>5, <2>6 DEF Moves, Load, shared
<1>3. ASSUME NEW f \in Entries, Touch(f)
      PROVE  (entry[This(q)] # Complete \/ This(q) \in spoilt)'
  <2>1. pc[q] = "remove" /\ This(q)' = This(q)
    BY <1>3 DEF Touch, local, This
  <2>2. This(q) \in Entries
    BY <2>1 DEF InMind, Inside
  <2>3. This(q) = f \/ entry'[This(q)] = entry[This(q)]
    BY <1>3, <2>2 DEF Touch, Types
  <2>4. QED
    BY <1>3, <2>1, <2>3 DEF Touch, RemovesBroken
<1>4. CASE UNCHANGED vars
  BY <1>4 DEF vars, shared, local, RemovesBroken, This
<1>5. QED
  BY <1>1, <1>2, <1>3, <1>4 DEF Next

\* What is appended is an element.
LEMMA ElementsOfAppend ==
  ASSUME NEW S, NEW t \in Seq(S), NEW x \in S
  PROVE  Elements(Append(t, x)) = Elements(t) \cup {x}
<1> DEFINE n == Len(t)
<1>1. n \in Nat /\ DOMAIN t = 1..n
  OBVIOUS
<1>2. /\ DOMAIN Append(t, x) = 1..n + 1
      /\ \A i \in 1..n : Append(t, x)[i] = t[i]
      /\ Append(t, x)[n + 1] = x
  OBVIOUS
<1> HIDE DEF n
<1>3. DOMAIN Append(t, x) = 1..n \cup {n + 1}
  BY <1>1, <1>2
<1>4. QED
  BY <1>1, <1>2, <1>3 DEF Elements

\* What a command resolves.
LEMMA Loaded ==
  ASSUME Types, Turns, InMind, NEW p \in Procs, Load(p)
  PROVE  /\ Elements(list'[p]) = Elements(list[p]) \cup {This(p)}
         /\ source[p] \notin Locals => This(p) \in Entries /\ HasManifest(This(p))
         /\ UNCHANGED <<entry, spoilt>>
         /\ \A q \in Procs \ {p} : list'[q] = list[q]
<1>1. This(p) \in Sources \X (Digests \cup {None})
  BY DEF Load, At, This, Turns, Types, Ended
<1>2. list[p] \in Seq(Sources \X (Digests \cup {None})) /\ list'[p] = Append(list[p], This(p))
  BY DEF Types, Load
<1>3. Elements(list'[p]) = Elements(list[p]) \cup {This(p)}
  BY <1>1, <1>2, ElementsOfAppend
<1>4. QED
  BY <1>3 DEF Load, At, Found, InMind, Types, shared

\* What a command has resolved stays.
LEMMA TakenStep ==
  /\ Types /\ Turns /\ InMind /\ Whole /\ RemovesBroken /\ TakenStays
  /\ [Next]_vars
  => TakenStays'
<1> SUFFICES ASSUME Types, Turns, InMind, Whole, RemovesBroken, TakenStays, [Next]_vars,
                    NEW q \in Procs, NEW e \in Elements(list'[q]), e[1] \in Remote
             PROVE  (entry[e] = Complete \/ e \in spoilt)'
  BY DEF TakenStays
<1>1. ASSUME NEW p \in Procs, Start(p) \/ Step(p) \/ Kill(p)
      PROVE  (entry[e] = Complete \/ e \in spoilt)'
  <2>1. Moves(p) /\ UNCHANGED spoilt
    BY <1>1, StepMoves
  <2>2. CASE UNCHANGED <<entry, list>>
    BY <2>1, <2>2 DEF TakenStays
  <2>3. CASE /\ pc[p] \in {"rename", "retry"}
             /\ entry' = [entry EXCEPT ![This(p)] = temp[p]]
             /\ UNCHANGED list
    <3>1. entry[e] = Complete \/ e \in spoilt
      BY <2>3 DEF TakenStays
    <3>2. This(p) \in Entries /\ temp[p] = Complete
      BY <2>3 DEF InMind, Inside, Whole
    <3>3. entry'[This(p)] = Complete /\ (e # This(p) => entry'[e] = entry[e])
      BY <2>3, <3>2 DEF Types
    <3>4. QED
      BY <2>1, <3>1, <3>3
  <2>4. CASE RemoveBroken(p)
    <3>1. entry[e] = Complete \/ e \in spoilt
      BY <2>4 DEF TakenStays, RemoveBroken
    <3>2. entry[This(p)] # Complete \/ This(p) \in spoilt
      BY <2>4 DEF RemoveBroken, At, RemovesBroken
    <3>3. e # This(p) => entry'[e] = entry[e]
      BY <2>4 DEF RemoveBroken, Types
    <3>4. QED
      BY <2>1, <3>1, <3>2, <3>3
  <2>5. CASE Load(p)
    <3>1. CASE q = p /\ e = This(p)
      <4>1. e \in Entries /\ HasManifest(e)
        BY <2>5, <3>1, Loaded DEF Remote, This
      <4>2. QED
        BY <2>5, <4>1, Loaded DEF Whole
    <3>2. CASE ~(q = p /\ e = This(p))
      <4>1. e \in Elements(list[q])
        BY <2>5, <3>2, Loaded
      <4>2. QED
        BY <2>5, <4>1, Loaded DEF TakenStays
    <3>3. QED
      BY <3>1, <3>2
  <2>6. CASE list' = [list EXCEPT ![p] = << >>] /\ UNCHANGED entry
    <3>1. q # p
      BY <2>6 DEF Types, Elements
    <3>2. list'[q] = list[q]
      BY <2>6, <3>1 DEF Types
    <3>3. QED
      BY <2>1, <2>6, <3>2 DEF TakenStays
  <2>7. QED
    BY <2>1, <2>2, <2>3, <2>4, <2>5, <2>6 DEF Moves
<1>2. ASSUME NEW f \in Entries, Touch(f)
      PROVE  (entry[e] = Complete \/ e \in spoilt)'
  <2>1. list' = list /\ spoilt' = spoilt \cup {f}
    BY <1>2 DEF Touch, local
  <2>2. e # f => entry'[e] = entry[e]
    BY <1>2 DEF Touch, Types
  <2>3. QED
    BY <2>1, <2>2 DEF TakenStays
<1>3. CASE UNCHANGED vars
  BY <1>3 DEF vars, shared, local, TakenStays
<1>4. QED
  BY <1>1, <1>2, <1>3 DEF Next

-----------------------------------------------------------------------------
(* Theorems. *)

\* The conjunction that every step keeps.
FeaturesInv ==
  Types /\ Turns /\ InMind /\ OnePopulates /\ Whole /\ RemovesBroken /\ TakenStays

\* It holds at first.
LEMMA InitInv == Init => FeaturesInv
<1> SUFFICES ASSUME Init PROVE FeaturesInv
  OBVIOUS
<1>1. Types
  <2>1. entry \in [Entries -> SUBSET Complete]
    BY FeaturesAssumption DEF Init, Entries, Remote, Complete
  <2>2. << >> \in Seq(Sources) /\ << >> \in Seq(Sources \X (Digests \cup {None}))
    OBVIOUS
  <2>3. {} \in SUBSET Complete /\ 0 \in 0..MaxFaults
    BY FeaturesAssumption
  <2>4. QED
    BY <2>1, <2>2, <2>3 DEF Init, Types, Pcs
<1>2. Whole
  <2>1. \A e \in Entries : entry[e] \in {{}, {"install"}, Complete}
    BY <1>1, FeaturesAssumption DEF Init, Types, Complete
  <2>2. QED
    BY <2>1 DEF Init, Whole, HasManifest
<1>3. Turns /\ InMind /\ TakenStays
  BY DEF Init, Turns, InMind, TakenStays, Resolved, Elements, Ended, Inside
<1>4. OnePopulates /\ RemovesBroken
  BY FeaturesAssumption DEF Init, OnePopulates, RemovesBroken, Inside
<1>5. QED
  BY <1>1, <1>2, <1>3, <1>4 DEF FeaturesInv

\* It holds in every reachable state.
LEMMA Inductive == Spec => []FeaturesInv
<1>1. FeaturesInv /\ [Next]_vars => FeaturesInv'
  BY TypeStep, MindStep, LockStep, WholeStep, BrokenStep, TakenStep DEF FeaturesInv
<1>2. QED
  BY <1>1, InitInv, PTL DEF Spec

\* The variables keep their types, a temporary directory lives no longer than
\* populateFeatureCache, and a command resolves what it wants, each once.
THEOREM TypeCorrect == Spec => []TypeOK
<1>1. FeaturesInv => TypeOK
  BY DEF FeaturesInv, Types, TypeOK
<1>2. QED
  BY <1>1, Inductive, PTL

\* populateFeatureCache runs once at a time for a source, and who leaves it,
\* or dies, leaves no lock, for any number of commands and features.
THEOREM OnlyOnePopulates == Spec => []OnePopulates
<1>1. FeaturesInv => OnePopulates
  BY DEF FeaturesInv
<1>2. QED
  BY <1>1, Inductive, PTL

\* What a command has resolved stays in the cache as a whole, whatever the
\* other commands do.
THEOREM ResolvedStays == Spec => []TakenStays
<1>1. FeaturesInv => TakenStays
  BY DEF FeaturesInv
<1>2. QED
  BY <1>1, Inductive, PTL

\* A step of a command is one of FeatureStore, or none.
LEMMA CommandRefines ==
  ASSUME FeaturesInv, NEW p \in Procs, Start(p) \/ Step(p) \/ Kill(p)
  PROVE  [Store!Next]_<<Stored, spoilt, Taken>>
<1> USE DEF FeaturesInv
<1>1. Moves(p) /\ UNCHANGED spoilt
  BY StepMoves
<1>2. CASE UNCHANGED <<entry, list>>
  BY <1>1, <1>2 DEF Stored, Taken
<1>3. CASE /\ pc[p] \in {"rename", "retry"}
           /\ entry' = [entry EXCEPT ![This(p)] = temp[p]]
           /\ UNCHANGED list
  <2>1. This(p) \in Entries /\ temp[p] = Complete
    BY <1>3 DEF InMind, Inside, Whole
  <2>2. Stored' = Stored \cup {This(p)}
    BY <1>3, <2>1 DEF Types, Stored
  <2>3. Taken' = Taken
    BY <1>3 DEF Taken
  <2>4. Store!Store(This(p))
    BY <1>1, <2>2, <2>3 DEF Store!Store
  <2>5. QED
    BY <2>1, <2>4 DEF Store!Next
<1>4. CASE RemoveBroken(p)
  <2>1. This(p) \in Entries /\ (entry[This(p)] # Complete \/ This(p) \in spoilt)
    BY <1>4 DEF RemoveBroken, At, InMind, Inside, RemovesBroken
  <2>2. Stored' = Stored \ {This(p)}
    BY <1>4, <2>1 DEF RemoveBroken, Types, Stored, Complete
  <2>3. Taken' = Taken
    BY <1>4 DEF RemoveBroken, Taken
  <2>4. CASE entry[This(p)] # Complete
    <3>1. Stored' = Stored
      BY <2>2, <2>4 DEF Stored
    <3>2. QED
      BY <1>1, <2>3, <3>1
  <2>5. CASE This(p) \in spoilt
    <3>1. Store!Spoil(This(p))
      BY <1>1, <2>2, <2>3, <2>5 DEF Store!Spoil
    <3>2. QED
      BY <2>1, <3>1 DEF Store!Next
  <2>6. QED
    BY <2>1, <2>4, <2>5
<1>5. CASE Load(p)
  <2>1. Stored' = Stored
    BY <1>5, Loaded DEF Stored
  <2>2. CASE source[p] \in Locals
    <3>1. This(p)[1] \notin Remote
      BY <2>2 DEF This, Remote
    <3>2. ASSUME NEW q \in Procs
          PROVE  {e \in Elements(list'[q]) : e[1] \in Remote}
                   = {e \in Elements(list[q]) : e[1] \in Remote}
      BY <1>5, <3>1, Loaded
    <3>3. Taken' = Taken
      BY <3>2 DEF Taken
    <3>4. QED
      BY <1>1, <2>1, <3>3
  <2>3. CASE source[p] \notin Locals
    <3>1. This(p) \in Entries /\ HasManifest(This(p))
      BY <1>5, <2>3, Loaded
    <3>2. This(p) \in Stored \cup spoilt
      BY <3>1 DEF Whole, Stored
    <3>3. This(p)[1] \in Remote
      BY <3>1 DEF Entries
    <3>4. Taken'[p] = Taken[p] \cup {This(p)}
      BY <1>5, <3>3, Loaded DEF Taken
    <3>5. \A q \in Procs \ {p} : Taken'[q] = Taken[q]
      BY <1>5, Loaded DEF Taken
    <3>6. Taken' = [Taken EXCEPT ![p] = @ \cup {This(p)}]
      BY <3>4, <3>5 DEF Taken
    <3>7. Store!Take(p, This(p))
      BY <1>1, <2>1, <3>2, <3>6 DEF Store!Take
    <3>8. QED
      BY <3>1, <3>7 DEF Store!Next
  <2>4. QED
    BY <2>2, <2>3
<1>6. CASE list' = [list EXCEPT ![p] = << >>] /\ UNCHANGED entry
  <2>1. Stored' = Stored
    BY <1>6 DEF Stored
  <2>2. Taken'[p] = {} /\ \A q \in Procs \ {p} : Taken'[q] = Taken[q]
    BY <1>6 DEF Types, Taken, Elements
  <2>3. Taken' = [Taken EXCEPT ![p] = {}]
    BY <2>2 DEF Taken
  <2>4. Store!Drop(p)
    BY <1>1, <2>1, <2>3 DEF Store!Drop
  <2>5. QED
    BY <2>4 DEF Store!Next
<1>7. QED
  BY <1>1, <1>2, <1>3, <1>4, <1>5, <1>6 DEF Moves

\* The cache of features, with its lock, its temporary directories, the two
\* looks for the manifest and the two attempts to rename, is a FeatureStore:
\* directories appear as a whole and stay, and commands take only those.
THEOREM CacheImplementsStore == Spec => StoreSpec
<1>1. Init => Store!Init
  BY DEF Init, Store!Init, Stored, Taken, Elements
<1>2. FeaturesInv /\ [Next]_vars => [Store!Next]_<<Stored, spoilt, Taken>>
  <2> SUFFICES ASSUME FeaturesInv, [Next]_vars
               PROVE  [Store!Next]_<<Stored, spoilt, Taken>>
    OBVIOUS
  <2>1. ASSUME NEW f \in Entries, Touch(f)
        PROVE  [Store!Next]_<<Stored, spoilt, Taken>>
    <3>1. Stored' \in {Stored, Stored \cup {f}, Stored \ {f}}
      <4>1. \A e \in Entries \ {f} : entry'[e] = entry[e]
        BY <2>1 DEF Touch, FeaturesInv, Types
      <4>2. Stored' \ {f} = Stored \ {f}
        BY <4>1 DEF Stored
      <4>3. QED
        BY <4>2
    <3>2. Taken' = Taken /\ spoilt' = spoilt \cup {f}
      BY <2>1 DEF Touch, local, Taken
    <3>3. Store!Spoil(f)
      BY <3>1, <3>2 DEF Store!Spoil
    <3>4. QED
      BY <3>3 DEF Store!Next
  <2>2. CASE UNCHANGED vars
    BY <2>2 DEF vars, shared, local, Stored, Taken
  <2>3. QED
    BY <2>1, <2>2, CommandRefines DEF Next
<1>3. QED
  BY <1>1, <1>2, Inductive, PTL DEF Spec, StoreSpec, Store!Spec
=============================================================================
