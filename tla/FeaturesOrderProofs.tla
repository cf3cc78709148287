------------------------- MODULE FeaturesOrderProofs -------------------------
(***************************************************************************)
(* Theorems of module Features about the order in which a command installs *)
(* what it has resolved: it is the first of all valid orders, and a cycle  *)
(* is reported only if there is no valid order, for any features and any   *)
(* graph of dependencies.                                                  *)
(***************************************************************************)
EXTENDS FeaturesProofs, FiniteSets, FiniteSetTheorems

-----------------------------------------------------------------------------
(* Sequences without repetition. *)

\* What a sequence that repeats nothing holds is as many things as it is long.
LEMMA CountElements ==
  ASSUME NEW n \in Nat, NEW t, DOMAIN t = 1..n,
         \A i, j \in DOMAIN t : t[i] = t[j] => i = j
  PROVE  IsFiniteSet(Elements(t)) /\ Cardinality(Elements(t)) = n
<1> DEFINE f == [i \in 1..n |-> t[i]]
<1>1. f \in [1..n -> Elements(t)]
  BY DEF Elements
<1>2. f \in Bijection(1..n, Elements(t))
  BY <1>1 DEF Bijection, Injection, IsInjective, Surjection, Elements
<1>3. ExistsBijection(1..n, Elements(t))
  BY <1>2 DEF ExistsBijection
<1>4. IsFiniteSet(1..n)
  BY FS_Interval
<1>5. QED
  BY <1>3, <1>4, FS_Bijection, FS_CountingElements

\* Two different sequences of one length have a first difference.
LEMMA FirstDifference ==
  ASSUME NEW n \in Nat, NEW t, NEW u, DOMAIN t = 1..n, DOMAIN u = 1..n,
         \E i \in 1..n : t[i] # u[i]
  PROVE  \E i \in 1..n : t[i] # u[i] /\ \A j \in 1..i - 1 : t[j] = u[j]
<1> DEFINE D == {i \in 1..n : t[i] # u[i]}
<1>1. D \subseteq Nat /\ D # {}
  OBVIOUS
<1>2. PICK i \in D : \A j \in D : i <= j
  BY <1>1, FirstExists
<1>3. ASSUME NEW j \in 1..i - 1 PROVE t[j] = u[j]
  <2>1. i \in 1..n /\ j \in 1..n /\ ~(i <= j)
    BY <1>2
  <2>2. QED
    BY <1>2, <2>1
<1>4. QED
  BY <1>2, <1>3

\* If something in a sequence is outside a set, something is the first of it.
LEMMA FirstMissing ==
  ASSUME NEW n \in Nat, NEW t, DOMAIN t = 1..n, NEW E, \E i \in 1..n : t[i] \notin E
  PROVE  \E i \in 1..n : t[i] \notin E /\ \A j \in 1..i - 1 : t[j] \in E
<1> DEFINE D == {i \in 1..n : t[i] \notin E}
<1>1. D \subseteq Nat /\ D # {}
  OBVIOUS
<1>2. PICK i \in D : \A j \in D : i <= j
  BY <1>1, FirstExists
<1>3. ASSUME NEW j \in 1..i - 1 PROVE t[j] \in E
  <2>1. i \in 1..n /\ j \in 1..n /\ ~(i <= j)
    BY <1>2
  <2>2. QED
    BY <1>2, <2>1
<1>4. QED
  BY <1>2, <1>3

-----------------------------------------------------------------------------
(* The inductive invariant. *)

\* The features whose turn came before the k-th, and those that were ready then.
Earlier(p, k) == {order[p][i] : i \in 1..k - 1}

ReadyAt(p, k) ==
  {s \in Resolved(p) \ Earlier(p, k) : Before(p, s) \subseteq Earlier(p, k)}

\* Each turn has taken the first of the features that were ready.
FirstReady(p, k) ==
  /\ order[p][k] \in ReadyAt(p, k)
  /\ \A r \in ReadyAt(p, k) : order[p][k] <= r

\* The order is made when everything that is wanted has been resolved, by one
\* such turn after the other until everything has had its turn.
GreedyFor(p) ==
  /\ pc[p] \notin {"order", "done"} => order[p] = << >>
  /\ pc[p] \in {"order", "done"} => Resolved(p) = Wants[p]
  /\ pc[p] = "done" => Len(order[p]) = Len(list[p])
  /\ \A k \in DOMAIN order[p] : FirstReady(p, k)

Greedy == \A p \in Procs : GreedyFor(p)

\* A turn takes the first feature that is ready.
LEMMA ChosenIsFirst ==
  ASSUME NEW p, NEW ready, ready \subseteq Sources, ready # {}
  PROVE  Chosen(p, ready) \in ready /\ \A r \in ready : Chosen(p, ready) <= r
<1>1. \E s \in ready : \A r \in ready : s <= r
  BY FirstExists, FeaturesAssumption
<1>2. QED
  BY <1>1 DEF Chosen

\* What a command does to the order.
OrderMoves(p) ==
  \/ {pc[p], pc'[p]} \cap {"order", "done"} = {} /\ order'[p] = order[p]
  \/ /\ pc[p] = "next" /\ pc'[p] = "order" /\ Resolved(p) = Wants[p]
     /\ order'[p] = order[p] /\ list'[p] = list[p]
  \/ Order(p)
  \/ pc'[p] = "failed" /\ order'[p] = << >>

\* Every step does one of these, and to the order of its own command only.
LEMMA StepOrders ==
  ASSUME Types, NEW p \in Procs, Start(p) \/ Step(p) \/ Kill(p)
  PROVE  /\ OrderMoves(p)
         /\ graph' = graph
         /\ \A q \in Procs \ {p} : order'[q] = order[q]
<1> USE DEF Types, Goto, At, OrderMoves, shared
<1>1. CASE Start(p)
  BY <1>1 DEF Start
<1>2. CASE Pick(p)
  BY <1>2 DEF Pick
<1>3. CASE UseCached(p)
  BY <1>3 DEF UseCached
<1>4. CASE Request(p)
  BY <1>4 DEF Request
<1>5. CASE Look(p)
  BY <1>5 DEF Look
<1>6. CASE Lock(p)
  BY <1>6 DEF Lock
<1>7. CASE Recheck(p)
  BY <1>7 DEF Recheck, Unlock
<1>8. CASE Extract(p)
  BY <1>8 DEF Extract, ExtractFile
<1>9. CASE Rename(p)
  BY <1>9 DEF Rename, Publish, Unlock
<1>10. CASE RemoveBroken(p)
  BY <1>10 DEF RemoveBroken
<1>11. CASE Retry(p)
  BY <1>11 DEF Retry, Publish, Unlock
<1>12. CASE Load(p)
  BY <1>12 DEF Load
<1>13. CASE Order(p)
  BY <1>13 DEF Order
<1>14. CASE Fail(p)
  BY <1>14 DEF Fail, Exit, Unlock
<1>15. CASE Kill(p)
  BY <1>15 DEF Kill, Died, Exit, Unlock
<1>16. QED
  BY <1>1, <1>2, <1>3, <1>4, <1>5, <1>6, <1>7, <1>8, <1>9, <1>10, <1>11, <1>12,
     <1>13, <1>14, <1>15 DEF Step

\* An order that is left alone stays as it is.
LEMMA SameTurns ==
  ASSUME NEW p, order'[p] = order[p], list'[p] = list[p], graph' = graph
  PROVE  /\ Resolved(p)' = Resolved(p) /\ DependenciesConfigured(p)' = DependenciesConfigured(p)
         /\ \A k : FirstReady(p, k) <=> FirstReady(p, k)'
<1>1. Resolved(p)' = Resolved(p)
  BY DEF Resolved
<1>2. \A s : Before(p, s)' = Before(p, s)
  BY <1>1 DEF Before
<1>3. \A k : Earlier(p, k)' = Earlier(p, k)
  BY DEF Earlier
<1>4. \A k : ReadyAt(p, k)' = ReadyAt(p, k)
  BY <1>1, <1>2, <1>3 DEF ReadyAt
<1>5. DependenciesConfigured(p)' = DependenciesConfigured(p)
  BY <1>1 DEF DependenciesConfigured
<1>6. QED
  BY <1>1, <1>4, <1>5 DEF FirstReady

\* A turn of the loop of orderFeatures adds a feature in its turn.
LEMMA TurnStep ==
  ASSUME Types, Greedy, NEW p \in Procs, Order(p)
  PROVE  GreedyFor(p)'
<1>1. /\ pc[p] = "order" /\ list' = list /\ graph' = graph
      /\ Resolved(p) = Wants[p] /\ \A k \in DOMAIN order[p] : FirstReady(p, k)
  BY DEF Order, At, Greedy, GreedyFor
<1>2. Resolved(p)' = Resolved(p)
  BY <1>1 DEF Resolved
<1>3. CASE Ready(p) = {}
  <2>1. order' = order /\ Len(order[p]) = Len(list[p]) /\ pc' = [pc EXCEPT ![p] = "done"]
    BY <1>3 DEF Order, Goto
  <2>2. \A k \in DOMAIN order[p] : FirstReady(p, k)'
    BY <1>1, <2>1, SameTurns
  <2>3. QED
    BY <1>1, <1>2, <2>1, <2>2 DEF GreedyFor, Types
<1>4. CASE Ready(p) # {}
  <2>1. Ready(p) \subseteq Sources
    BY DEF Ready, Resolved, Types
  <2>2. PICK x \in Ready(p) : x = Chosen(p, Ready(p)) /\ \A r \in Ready(p) : x <= r
    BY <1>4, <2>1, ChosenIsFirst
  <2>3. order'[p] = Append(order[p], x) /\ pc' = pc
    BY <1>4, <2>2 DEF Order, Types
  <2>4. PICK n \in Nat : DOMAIN order[p] = 1..n /\ n = Len(order[p])
    BY DEF Types
  <2>5. /\ DOMAIN order'[p] = 1..n + 1
        /\ order'[p][n + 1] = x
        /\ \A i \in 1..n : order'[p][i] = order[p][i]
    BY <2>1, <2>3, <2>4 DEF Types
  <2>6. \A s : Before(p, s)' = Before(p, s)
    BY <1>1, <1>2 DEF Before
  <2>7. ASSUME NEW k \in 1..n PROVE FirstReady(p, k)'
    <3>1. Earlier(p, k)' = Earlier(p, k)
      <4>1. \A i \in 1..k - 1 : i \in 1..n
        BY <2>4
      <4>2. QED
        BY <2>5, <4>1 DEF Earlier
    <3>2. ReadyAt(p, k)' = ReadyAt(p, k)
      BY <1>2, <2>6, <3>1 DEF ReadyAt
    <3>3. order'[p][k] = order[p][k] /\ FirstReady(p, k)
      BY <1>1, <2>4, <2>5
    <3>4. QED
      BY <3>2, <3>3 DEF FirstReady
  <2>8. FirstReady(p, n + 1)'
    <3>1. Earlier(p, n + 1)' = Elements(order[p])
      <4>1. (n + 1) - 1 = n
        BY <2>4
      <4>2. QED
        BY <2>4, <2>5, <4>1 DEF Earlier, Elements
    <3>2. ReadyAt(p, n + 1)' = Ready(p)
      BY <1>2, <2>6, <3>1 DEF ReadyAt, Ready
    <3>3. QED
      BY <2>2, <2>5, <3>2 DEF FirstReady
  <2>9. \A k \in DOMAIN order'[p] : FirstReady(p, k)'
    <3>1. \A k \in 1..n + 1 : k \in 1..n \/ k = n + 1
      BY <2>4
    <3>2. QED
      BY <2>5, <2>7, <2>8, <3>1
  <2>10. QED
    BY <1>1, <1>2, <2>3, <2>9 DEF GreedyFor
<1>5. QED
  BY <1>3, <1>4

\* Every step keeps the order greedy.
LEMMA GreedyStep == Types /\ Greedy /\ [Next]_vars => Greedy'
<1> SUFFICES ASSUME Types, Greedy, [Next]_vars, NEW q \in Procs PROVE GreedyFor(q)'
  BY DEF Greedy
<1>0. GreedyFor(q)
  BY DEF Greedy
<1>1. ASSUME UNCHANGED <<pc[q], order[q], list[q], graph>> PROVE GreedyFor(q)'
  BY <1>0, <1>1, SameTurns DEF GreedyFor
<1>2. ASSUME NEW p \in Procs, Start(p) \/ Step(p) \/ Kill(p) PROVE GreedyFor(q)'
  <2>1. OrderMoves(p) /\ graph' = graph /\ \A r \in Procs \ {p} : order'[r] = order[r]
    BY <1>2, StepOrders
  <2>2. CASE q # p
    BY <1>1, <1>2, <2>1, <2>2, OthersKeep
  <2>3. CASE q = p /\ Order(p)
    BY <2>3, TurnStep
  <2>4. CASE q = p /\ {pc[p], pc'[p]} \cap {"order", "done"} = {} /\ order'[p] = order[p]
    <3>1. pc[p] \notin {"order", "done"} /\ pc'[p] \notin {"order", "done"}
      BY <2>4
    <3>2. order'[p] = << >>
      BY <1>0, <2>4, <3>1 DEF GreedyFor
    <3>3. QED
      BY <2>4, <3>1, <3>2 DEF GreedyFor
  <2>5. CASE q = p /\ pc'[p] = "failed" /\ order'[p] = << >>
    BY <2>5 DEF GreedyFor
  <2>6. CASE /\ q = p /\ pc[p] = "next" /\ pc'[p] = "order" /\ Resolved(p) = Wants[p]
             /\ order'[p] = order[p] /\ list'[p] = list[p]
    <3>1. order'[p] = << >>
      BY <1>0, <2>6 DEF GreedyFor
    <3>2. Resolved(p)' = Wants[p]
      BY <2>6 DEF Resolved
    <3>3. QED
      BY <2>6, <3>1, <3>2 DEF GreedyFor
  <2>7. QED
    BY <2>1, <2>2, <2>3, <2>4, <2>5, <2>6 DEF OrderMoves
<1>3. ASSUME NEW e \in Entries, Touch(e) PROVE GreedyFor(q)'
  BY <1>1, <1>3 DEF Touch, local
<1>4. CASE UNCHANGED vars
  BY <1>1, <1>4 DEF vars, local
<1>5. QED
  BY <1>2, <1>3, <1>4 DEF Next

\* It holds at first and in every reachable state.
LEMMA GreedyAlways == Spec => [](FeaturesInv /\ Greedy)
<1>1. ASSUME Init PROVE Greedy
  <2>1. ASSUME NEW p \in Procs PROVE pc[p] = "start" /\ order[p] = << >>
    BY <1>1 DEF Init
  <2>2. ASSUME NEW p \in Procs PROVE DOMAIN order[p] = {}
    BY <2>1
  <2>3. ASSUME NEW p \in Procs PROVE GreedyFor(p)
    <3>1. pc[p] = "start" /\ order[p] = << >> /\ \A k : k \notin DOMAIN order[p]
      BY <2>1, <2>2
    <3>2. QED
      BY <3>1 DEF GreedyFor
  <2>4. QED
    BY <2>3, Zenon DEF Greedy
<1>2. FeaturesInv /\ Greedy /\ [Next]_vars => Greedy'
  BY GreedyStep DEF FeaturesInv
<1>3. QED
  BY <1>1, <1>2, Inductive, PTL DEF Spec

-----------------------------------------------------------------------------
(* What a greedy order is. *)

\* A command has resolved as many features as its list is long.
LEMMA CountResolved ==
  ASSUME Types, Turns, NEW p \in Procs
  PROVE  /\ Len(list[p]) \in Nat
         /\ IsFiniteSet(Resolved(p)) /\ Cardinality(Resolved(p)) = Len(list[p])
<1> DEFINE n == Len(list[p])
           t == [i \in 1..n |-> list[p][i][1]]
<1>1. n \in Nat /\ DOMAIN list[p] = 1..n
  BY DEF Types
<1> HIDE DEF n
<1>2. DOMAIN t = 1..n /\ \A i, j \in DOMAIN t : t[i] = t[j] => i = j
  BY <1>1 DEF Turns
<1>3. Elements(t) = Resolved(p)
  BY <1>1 DEF Elements, Resolved
<1> HIDE DEF t
<1>4. QED
  BY <1>1, <1>2, <1>3, CountElements DEF n

\* No feature has two turns, and only what is wanted has one.
LEMMA TurnsOnce ==
  ASSUME Types, Greedy, NEW p \in Procs
  PROVE  /\ Len(order[p]) \in Nat /\ DOMAIN order[p] = 1..Len(order[p])
         /\ Elements(order[p]) \subseteq Resolved(p)
         /\ \A i, j \in DOMAIN order[p] : order[p][i] = order[p][j] => i = j
         /\ IsFiniteSet(Elements(order[p]))
         /\ Cardinality(Elements(order[p])) = Len(order[p])
<1>1. Len(order[p]) \in Nat /\ DOMAIN order[p] = 1..Len(order[p])
  BY DEF Types
<1>2. \A k \in DOMAIN order[p] : order[p][k] \in Resolved(p) \ Earlier(p, k)
  BY DEF Greedy, GreedyFor, FirstReady, ReadyAt
<1>3. Elements(order[p]) \subseteq Resolved(p)
  BY <1>2 DEF Elements
<1>4. ASSUME NEW i \in DOMAIN order[p], NEW j \in DOMAIN order[p], i < j
      PROVE  order[p][i] # order[p][j]
  <2>1. i \in 1..j - 1
    BY <1>1, <1>4
  <2>2. QED
    BY <1>2, <2>1 DEF Earlier
<1>5. ASSUME NEW i \in DOMAIN order[p], NEW j \in DOMAIN order[p], order[p][i] = order[p][j]
      PROVE  i = j
  BY <1>1, <1>4, <1>5
<1>6. QED
  BY <1>1, <1>3, <1>5, CountElements

\* In a valid order of what a command has resolved, which is as long as the
\* list, everything is ready when what comes before it has had its turn.
LEMMA ValidShape ==
  ASSUME Types, Turns, NEW p \in Procs, Resolved(p) = Wants[p],
         NEW t \in Valid(Wants[p])
  PROVE  /\ DOMAIN t = 1..Len(list[p]) /\ t \in [1..Len(list[p]) -> Wants[p]]
         /\ Elements(t) = Wants[p]
         /\ \A i, j \in DOMAIN t : t[i] = t[j] => i = j
         /\ \A i \in DOMAIN t : Before(p, t[i]) \subseteq {t[j] : j \in 1..i - 1}
<1>1. PICK q \in Procs : t \in [1..Len(list[q]) -> Wants[p]]
  BY DEF Valid, Perms
<1>2. Elements(t) = Wants[p] /\ \A i, j \in DOMAIN t : t[i] = t[j] => i = j
  BY DEF Valid, Perms
<1>3. Len(list[q]) \in Nat /\ DOMAIN t = 1..Len(list[q])
  BY <1>1, CountResolved
<1>4. Cardinality(Elements(t)) = Len(list[q])
  BY <1>2, <1>3, CountElements
<1>5. Len(list[q]) = Len(list[p])
  BY <1>2, <1>4, CountResolved
<1>6. ASSUME NEW i \in DOMAIN t, NEW s \in Before(p, t[i])
      PROVE  s \in {t[j] : j \in 1..i - 1}
  <2>1. /\ s \in graph.dependsOn[t[i]] \cup graph.installsAfter[t[i]]
        /\ s \in Resolved(p) /\ s # t[i]
    BY DEF Before
  <2>2. PICK j \in DOMAIN t : t[j] = s
    BY <1>2, <2>1 DEF Elements
  <2>3. ~(i < j) /\ i # j
    BY <2>1, <2>2 DEF Valid
  <2>4. j \in 1..i - 1
    BY <1>3, <2>3
  <2>5. QED
    BY <2>2, <2>4
<1>7. QED
  BY <1>1, <1>2, <1>3, <1>5, <1>6

\* An order that is over is a valid order of what is wanted.
LEMMA DoneIsValid ==
  ASSUME Types, Turns, Greedy, NEW p \in Procs, pc[p] = "done"
  PROVE  order[p] \in Valid(Wants[p])
<1> DEFINE t == order[p]
<1>1. Resolved(p) = Wants[p] /\ Len(t) = Len(list[p])
  BY DEF Greedy, GreedyFor
<1>2. /\ Len(t) \in Nat /\ DOMAIN t = 1..Len(t) /\ Elements(t) \subseteq Wants[p]
      /\ \A i, j \in DOMAIN t : t[i] = t[j] => i = j
      /\ Cardinality(Elements(t)) = Len(t)
  BY <1>1, TurnsOnce
<1>3. Elements(t) = Wants[p]
  BY <1>1, <1>2, CountResolved, FS_Subset
<1>4. t \in [1..Len(list[p]) -> Wants[p]]
  <2>1. t \in [1..Len(t) -> Sources]
    BY <1>2 DEF Types
  <2>2. QED
    BY <1>1, <1>2, <2>1 DEF Elements
<1>5. ASSUME NEW i \in DOMAIN t, NEW j \in DOMAIN t, i < j
      PROVE  t[j] \notin graph.dependsOn[t[i]] \cup graph.installsAfter[t[i]]
  <2>1. Before(p, t[i]) \subseteq Earlier(p, i)
    BY DEF Greedy, GreedyFor, FirstReady, ReadyAt
  <2>2. t[j] \notin Earlier(p, i)
    <3>1. \A k \in 1..i - 1 : k \in DOMAIN t /\ k # j
      BY <1>2, <1>5
    <3>2. QED
      BY <1>2, <3>1 DEF Earlier
  <2>3. t[j] \in Resolved(p) /\ t[j] # t[i] /\ ~(Len(list[p]) <= 1)
    <3>1. i # j /\ ~(Len(t) <= 1)
      BY <1>2, <1>5
    <3>2. QED
      BY <1>1, <1>2, <3>1 DEF Elements
  <2>4. QED
    BY <2>1, <2>2, <2>3 DEF Before
<1>6. t \in Perms(Wants[p])
  BY <1>2, <1>3, <1>4 DEF Perms
<1>7. QED
  BY <1>5, <1>6 DEF Valid

\* No valid order comes before it.
LEMMA DoneIsFirst ==
  ASSUME Types, Turns, Greedy, NEW p \in Procs, pc[p] = "done", NEW t \in Valid(Wants[p])
  PROVE  NotAfter(order[p], t)
<1> DEFINE n == Len(list[p])
<1>1. Resolved(p) = Wants[p] /\ Len(order[p]) = n
  BY DEF Greedy, GreedyFor
<1>2. n \in Nat /\ DOMAIN order[p] = 1..n /\ order[p] \in [1..n -> Sources]
  BY <1>1, TurnsOnce DEF Types
<1>3. /\ DOMAIN t = 1..n /\ t \in [1..n -> Wants[p]] /\ Elements(t) = Wants[p]
      /\ \A i, j \in DOMAIN t : t[i] = t[j] => i = j
      /\ \A i \in DOMAIN t : Before(p, t[i]) \subseteq {t[j] : j \in 1..i - 1}
  BY <1>1, ValidShape
<1> HIDE DEF n
<1>4. CASE order[p] = t
  BY <1>4 DEF NotAfter
<1>5. CASE order[p] # t
  <2>1. \E i \in 1..n : order[p][i] # t[i]
    BY <1>2, <1>3, <1>5
  <2>2. PICK i \in 1..n : order[p][i] # t[i] /\ \A j \in 1..i - 1 : order[p][j] = t[j]
    BY <1>2, <1>3, <2>1, FirstDifference
  <2>3. Earlier(p, i) = {t[j] : j \in 1..i - 1}
    BY <2>2 DEF Earlier
  <2>4. t[i] \notin Earlier(p, i)
    <3>1. \A j \in 1..i - 1 : j \in 1..n /\ j # i
      BY <1>2
    <3>2. QED
      BY <1>3, <2>3, <3>1
  <2>5. t[i] \in ReadyAt(p, i)
    BY <1>1, <1>3, <2>3, <2>4 DEF ReadyAt
  <2>6. order[p][i] <= t[i]
    BY <1>2, <2>5 DEF Greedy, GreedyFor, FirstReady
  <2>7. order[p][i] \in Nat /\ t[i] \in Nat
    BY <1>2, <1>3, FeaturesAssumption
  <2>8. order[p][i] < t[i]
    BY <2>2, <2>6, <2>7
  <2>9. QED
    BY <1>2, <2>2, <2>8 DEF NotAfter
<1>6. QED
  BY <1>4, <1>5

-----------------------------------------------------------------------------
(* Theorems. *)

\* The features are installed in the first of all valid orders of what the
\* configuration enables, whatever the order in which the map of the
\* configuration was read and whatever other commands do to the cache.
THEOREM FirstValidOrder == Spec => []InstallOrder
<1>1. FeaturesInv /\ Greedy => InstallOrder
  BY DoneIsValid, DoneIsFirst DEF FeaturesInv, InstallOrder, At
<1>2. QED
  BY <1>1, GreedyAlways, PTL

\* A command that could still find a valid order is never told of a cycle:
\* whatever it has taken so far, some feature is ready until all have had
\* their turn.
THEOREM CycleIsReal == Spec => []CycleOnlyIfThereIsOne
<1>1. ASSUME FeaturesInv, Greedy, NEW p \in Procs, pc[p] = "order",
             DependenciesConfigured(p), NEW t \in Valid(Wants[p])
      PROVE  ~MustFail(p)
  <2>1. Types /\ Turns /\ Resolved(p) = Wants[p]
    BY <1>1 DEF FeaturesInv, Greedy, GreedyFor
  <2> DEFINE n == Len(list[p])
             E == Elements(order[p])
  <2>2. /\ DOMAIN t = 1..n /\ Elements(t) = Wants[p]
        /\ \A i \in DOMAIN t : Before(p, t[i]) \subseteq {t[j] : j \in 1..i - 1}
    BY <2>1, ValidShape
  <2>3. n \in Nat /\ Cardinality(Wants[p]) = n
    BY <2>1, CountResolved
  <2>4. E \subseteq Wants[p] /\ Cardinality(E) = Len(order[p])
    BY <1>1, <2>1, TurnsOnce
  <2>5. SUFFICES ASSUME Ready(p) = {}, Len(order[p]) # n PROVE FALSE
    BY <1>1 DEF MustFail, At
  <2> HIDE DEF n, E
  <2>6. E # Wants[p]
    BY <2>3, <2>4, <2>5 DEF n
  <2>7. \E i \in 1..n : t[i] \notin E
    BY <2>2, <2>4, <2>6 DEF Elements
  <2>8. PICK i \in 1..n : t[i] \notin E /\ \A j \in 1..i - 1 : t[j] \in E
    BY <2>2, <2>3, <2>7, FirstMissing
  <2>9. t[i] \in Wants[p] /\ Before(p, t[i]) \subseteq E
    BY <2>2, <2>8 DEF Elements
  <2>10. t[i] \in Ready(p)
    BY <2>1, <2>8, <2>9 DEF Ready, E
  <2>11. QED
    BY <2>5, <2>10
<1>2. FeaturesInv /\ Greedy => CycleOnlyIfThereIsOne
  BY <1>1 DEF CycleOnlyIfThereIsOne, At
<1>3. QED
  BY <1>2, GreedyAlways, PTL
=============================================================================
