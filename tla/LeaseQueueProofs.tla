-------------------------- MODULE LeaseQueueProofs --------------------------
(* Proofs about LeaseQueue, for any jobs, processes and lease length.      *)
EXTENDS LeaseQueue, FiniteSetTheorems, WellFoundedInduction, TLAPS

Lease == [owner : {OwnerID, NoOwner}, left : 0..LeaseTTL]
Place == [state : State, version : Nat]

(* Every edge of the state machine ends in a state of it.                  *)
LEMMA EdgesEndInside ==
  ASSUME NEW s, NEW to, CanTransition(s, to)
  PROVE  to \in State
  BY DEF CanTransition, State, transitions, orStopped, loadingAfterReview

(* The heartbeat interval fits the lease.                                  *)
LEMMA IntervalFits == interval \in 0..LeaseTTL
<1>1. LeaseTTL \in Nat \ {0}
  BY QueueAssumption
<1>2. LeaseTTL \div 3 \in 0..LeaseTTL
  BY <1>1
<1> QED
  BY <1>1, <1>2 DEF interval

(* A number of ticks left stays within its bound when a tick passes.       *)
LEMMA TicksPass ==
  ASSUME NEW m \in Nat, NEW n \in 0..m
  PROVE  before(n) \in 0..m /\ (before(n) > 0 => n > 0)
  BY DEF before

(* An idle worker is a worker.                                             *)
LEMMA IdleWorker == Idle \in Worker
<1>1. "queued" \in State
  BY DEF State, transitions
<1>2. (CHOOSE j \in Jobs : TRUE) \in Jobs
  BY QueueAssumption
<1> QED
  BY <1>1, <1>2, QueueAssumption DEF Idle, Worker, Pcs

(* The next place in processLeased keeps a worker a worker,                *)
LEMMA WorkerGoes ==
  ASSUME NEW x \in Worker, NEW pc \in Pcs
  PROVE  [x EXCEPT !.pc = pc] \in Worker
  BY DEF Worker

(* so does a heartbeat,                                                    *)
LEMMA WorkerBeats ==
  ASSUME NEW x \in Worker, NEW b \in 0..LeaseTTL
  PROVE  [x EXCEPT !.beat = b] \in Worker
  BY DEF Worker

(* and a process that stalls or wakes.                                     *)
LEMMA WorkerStalls ==
  ASSUME NEW x \in Worker, NEW b \in BOOLEAN
  PROVE  [x EXCEPT !.stalled = b] \in Worker
  BY DEF Worker

(* Rows, leases and workers keep their types; no lease lives longer than   *)
(* its TTL and no heartbeat is further away than that.                     *)
THEOREM TypeCorrect == Spec => []TypeOK
<1>1. Init => TypeOK
  <2> SUFFICES ASSUME Init PROVE TypeOK
    OBVIOUS
  <2>1. row \in [Jobs -> Place]
    BY QueueAssumption DEF Init, Place
  <2>2. lease \in [Jobs -> Lease]
    BY QueueAssumption DEF Init, NoLease, Lease
  <2>3. worker \in [Workers -> Worker]
    BY IdleWorker DEF Init
  <2>4. left \in [Jobs -> 0..MaxWallTime]
    BY QueueAssumption DEF Init
  <2> QED
    BY <2>1, <2>2, <2>3, <2>4 DEF Init, TypeOK, Place, Lease
<1>2. TypeOK /\ [Next]_vars => TypeOK'
  <2> SUFFICES ASSUME TypeOK, [Next]_vars PROVE TypeOK'
    OBVIOUS
  <2> USE DEF TypeOK
  <2>1. LeaseTTL \in Nat \ {0} /\ MaxWallTime \in Nat
    BY QueueAssumption
  <2>2. ASSUME NEW j \in Jobs, NEW to, moveRow(j, to)
        PROVE  row' \in [Jobs -> [state : State, version : Nat]]
    <3>1. to \in State
      BY <2>2, EdgesEndInside DEF moveRow
    <3>2. [state |-> to, version |-> row[j].version + 1] \in [state : State, version : Nat]
      BY <3>1
    <3> QED
      BY <2>2, <3>2 DEF moveRow
  <2>3. ASSUME NEW w \in Workers, NEW pc \in Pcs, goto(w, pc)
        PROVE  worker' \in [Workers -> Worker]
    BY <2>3, WorkerGoes DEF goto
  <2>4. ASSUME NEW w \in Workers
        PROVE  worker[w].job \in Jobs
    BY DEF Worker
  <2>5. {"ended", "cancelled"} \subseteq Pcs
    BY DEF Pcs
  <2>6. CASE \E w \in Workers : Acquire(w)
    <3>1. PICK w \in Workers : Acquire(w)
      BY <2>6
    <3>2. PICK j \in selected :
            /\ lease' = [lease EXCEPT ![j] = [owner |-> OwnerID, left |-> LeaseTTL]]
            /\ holder' = [holder EXCEPT ![j] = w]
            /\ worker' = [worker EXCEPT ![w] =
                 [pc |-> "running", job |-> j, state |-> row[j].state,
                  version |-> row[j].version, late |-> expired(j),
                  beat |-> interval, stalled |-> FALSE]]
      BY <3>1 DEF Acquire
    <3>3. j \in Jobs
      BY DEF selected, candidateJobs, unleased
    <3>4. [owner |-> OwnerID, left |-> LeaseTTL] \in Lease
      BY <2>1, QueueAssumption DEF Lease
    <3>5. expired(j) \in BOOLEAN
      BY DEF expired
    <3>6. [pc |-> "running", job |-> j, state |-> row[j].state,
           version |-> row[j].version, late |-> expired(j),
           beat |-> interval, stalled |-> FALSE] \in Worker
      BY <3>3, <3>5, IntervalFits DEF Worker, Pcs
    <3>7. lease' \in [Jobs -> Lease]
      BY <3>2, <3>4 DEF Lease
    <3>8. worker' \in [Workers -> Worker]
      BY <3>2, <3>6
    <3>9. holder' \in [Jobs -> Workers \union {NoWorker}]
      BY <3>2
    <3> QED
      BY <3>1, <3>7, <3>8, <3>9 DEF Acquire, Lease
  <2>7. CASE \E w \in Workers : Renew(w)
    <3>1. PICK w \in Workers : Renew(w)
      BY <2>7
    <3>2. worker[w].job \in Jobs
      BY <2>4
    <3>3. [lease[worker[w].job] EXCEPT !.left = LeaseTTL]
            \in [owner : {OwnerID, NoOwner}, left : 0..LeaseTTL]
      <4>1. lease[worker[w].job] \in [owner : {OwnerID, NoOwner}, left : 0..LeaseTTL]
        BY <3>2
      <4>2. LeaseTTL \in 0..LeaseTTL
        BY <2>1
      <4> QED
        BY <4>1, <4>2, SMTT(30)
    <3>4. lease' \in [Jobs -> [owner : {OwnerID, NoOwner}, left : 0..LeaseTTL]]
      BY <3>1, <3>2, <3>3 DEF Renew
    <3>5. worker' \in [Workers -> Worker]
      BY <3>1, WorkerBeats, IntervalFits DEF Renew
    <3> QED
      BY <3>1, <3>4, <3>5 DEF Renew
  <2>8. CASE \E w \in Workers : LoseHeartbeat(w)
    BY <2>8, <2>3, <2>5 DEF LoseHeartbeat, heartbeatLost
  <2>9. CASE \E w \in Workers : HeartbeatFails(w)
    BY <2>9, <2>3, <2>5 DEF HeartbeatFails
  <2>10. CASE \E w \in Workers : PhaseEnds(w)
    <3>1. PICK w \in Workers : PhaseEnds(w)
      BY <2>10
    <3>2. row' \in [Jobs -> [state : State, version : Nat]]
      BY <3>1, <2>2, <2>4 DEF PhaseEnds
    <3>3. worker' \in [Workers -> Worker]
      BY <3>1, <2>3, <2>5 DEF PhaseEnds, phaseReturns
    <3> QED
      BY <3>1, <3>2, <3>3 DEF PhaseEnds, phaseReturns
  <2>11. CASE \E w \in Workers : PhaseInterrupted(w)
    <3>1. PICK w \in Workers : PhaseInterrupted(w)
      BY <2>11
    <3>2. row' \in [Jobs -> [state : State, version : Nat]]
      BY <3>1, <2>2, <2>4 DEF PhaseInterrupted
    <3>3. worker' \in [Workers -> Worker]
      BY <3>1, <2>3, <2>5 DEF PhaseInterrupted, phaseReturns
    <3> QED
      BY <3>1, <3>2, <3>3 DEF PhaseInterrupted, phaseReturns
  <2>12. CASE \E w \in Workers : PhaseChangesNothing(w)
    BY <2>12, <2>3, <2>5 DEF PhaseChangesNothing, phaseReturns
  <2>13. CASE \E w \in Workers : Release(w)
    <3>1. PICK w \in Workers : Release(w)
      BY <2>13
    <3>2. NoLease \in [owner : {OwnerID, NoOwner}, left : 0..LeaseTTL]
      BY <2>1 DEF NoLease
    <3>3. lease' \in [Jobs -> [owner : {OwnerID, NoOwner}, left : 0..LeaseTTL]]
      BY <3>1, <3>2 DEF Release
    <3>4. worker' \in [Workers -> Worker]
      BY <3>1, IdleWorker DEF Release
    <3> QED
      BY <3>1, <3>3, <3>4 DEF Release
  <2>14. CASE \E w \in Workers : Crash(w)
    BY <2>14, IdleWorker DEF Crash
  <2>15. CASE \E w \in Workers : Stall(w)
    <3>1. PICK w \in Workers : Stall(w)
      BY <2>15
    <3>2. [worker[w] EXCEPT !.stalled = TRUE] \in Worker
      BY WorkerStalls
    <3>3. worker' \in [Workers -> Worker]
      BY <3>1, <3>2 DEF Stall
    <3> QED
      BY <3>1, <3>3 DEF Stall
  <2>16. CASE \E w \in Workers : Wake(w)
    <3>1. PICK w \in Workers : Wake(w)
      BY <2>16
    <3>2. [worker[w] EXCEPT !.stalled = FALSE] \in Worker
      BY WorkerStalls
    <3>3. worker' \in [Workers -> Worker]
      BY <3>1, <3>2 DEF Wake
    <3> QED
      BY <3>1, <3>3 DEF Wake
  <2>17. CASE Tick
    <3>1. \A j \in Jobs :
            [lease[j] EXCEPT !.left = before(@)]
              \in [owner : {OwnerID, NoOwner}, left : 0..LeaseTTL]
      BY <2>1, TicksPass
    <3>2. \A w \in Workers : [worker[w] EXCEPT !.beat = before(@)] \in Worker
      <4> SUFFICES ASSUME NEW w \in Workers
                   PROVE  [worker[w] EXCEPT !.beat = before(@)] \in Worker
        OBVIOUS
      <4>1. worker[w] \in Worker /\ worker[w].beat \in 0..LeaseTTL
        BY DEF Worker
      <4>2. before(worker[w].beat) \in 0..LeaseTTL
        BY <4>1, <2>1, TicksPass
      <4> QED
        BY <4>1, <4>2, WorkerBeats
    <3> QED
      BY <2>17, <3>1, <3>2 DEF Tick
  <2>18. CASE \E j \in Jobs : DeadlineNears(j)
    <3>1. PICK j \in Jobs : DeadlineNears(j)
      BY <2>18
    <3>2. left[j] - 1 \in 0..MaxWallTime
      BY <3>1, <2>1 DEF DeadlineNears
    <3> QED
      BY <3>1, <3>2 DEF DeadlineNears
  <2>19. CASE \E j \in Jobs : CancelJob(j)
    BY <2>19, <2>2 DEF CancelJob
  <2>20. CASE UNCHANGED vars
    BY <2>20 DEF vars
  <2> QED
    BY <2>6, <2>7, <2>8, <2>9, <2>10, <2>11, <2>12, <2>13, <2>14, <2>15, <2>16,
       <2>17, <2>18, <2>19, <2>20 DEF Next, Work
<1> QED
  BY <1>1, <1>2, PTL DEF Spec

-----------------------------------------------------------------------------

(* No two live leases belong to one project.  The fairness window is asked *)
(* about the leases that are live in the same transaction, and nothing     *)
(* else brings a lease to life: Renew needs it alive.                      *)
THEOREM OneLeasePerProject == Spec => []ProjectsApart
<1>1. Init => ProjectsApart
  BY DEF Init, ProjectsApart, live, NoLease
<1>2. TypeOK /\ TypeOK' /\ ProjectsApart /\ [Next]_vars => ProjectsApart'
  <2> SUFFICES ASSUME TypeOK, ProjectsApart, [Next]_vars PROVE ProjectsApart'
    OBVIOUS
  <2>1. ASSUME \A j \in Jobs : live(j)' => live(j)
        PROVE  ProjectsApart'
    BY <2>1 DEF ProjectsApart
  <2>2. CASE \E w \in Workers : Acquire(w)
    <3>1. PICK w \in Workers : Acquire(w)
      BY <2>2
    <3>2. PICK j \in selected :
            lease' = [lease EXCEPT ![j] = [owner |-> OwnerID, left |-> LeaseTTL]]
      BY <3>1 DEF Acquire
    <3>3. j \in Jobs /\ runnable(j)
      BY DEF selected, candidateJobs, unleased
    <3>4. \A k \in Jobs : live(k) => Project[k] # Project[j]
      <4> SUFFICES ASSUME NEW k \in Jobs, live(k) PROVE Project[k] # Project[j]
        OBVIOUS
      <4>1. item(k) \in active
        BY DEF active
      <4>2. item(k).project = Project[k] /\ item(j).project = Project[j]
        BY DEF item
      <4>3. ~projectBusy(item(j), active)
        BY <3>3 DEF runnable
      <4> QED
        BY <4>1, <4>2, <4>3 DEF projectBusy
    <3>5. \A k \in Jobs : k # j => (live(k)' <=> live(k))
      BY <3>2 DEF live, TypeOK
    <3> QED
      BY <3>3, <3>4, <3>5 DEF ProjectsApart
  <2>3. CASE \E w \in Workers : Renew(w)
    <3>1. PICK w \in Workers : Renew(w)
      BY <2>3
    <3>2. worker[w].job \in Jobs
      BY DEF TypeOK, Worker
    <3>3. \A j \in Jobs : live(j)' => live(j)
      BY <3>1, <3>2 DEF Renew, live, TypeOK
    <3> QED
      BY <2>1, <3>3
  <2>4. CASE \E w \in Workers : Release(w)
    <3>1. \A j \in Jobs : live(j)' => live(j)
      BY <2>4 DEF Release, live, NoLease, TypeOK
    <3> QED
      BY <2>1, <3>1
  <2>5. CASE Tick
    <3>1. \A j \in Jobs : lease'[j].left = before(lease[j].left)
      BY <2>5 DEF Tick, TypeOK
    <3>2. \A j \in Jobs : lease[j].left \in 0..LeaseTTL
      BY DEF TypeOK
    <3>3. \A j \in Jobs : live(j)' => live(j)
      BY <3>1, <3>2, TicksPass, QueueAssumption DEF live
    <3> QED
      BY <2>1, <3>3
  <2>6. CASE UNCHANGED lease
    BY <2>1, <2>6 DEF live
  <2> QED
    BY <2>2, <2>3, <2>4, <2>5, <2>6
    DEF Next, Work, LoseHeartbeat, heartbeatLost, HeartbeatFails, PhaseEnds,
        PhaseInterrupted, PhaseChangesNothing, phaseReturns, Crash, Stall, Wake,
        DeadlineNears, CancelJob, vars
<1> QED
  BY <1>1, <1>2, TypeCorrect, PTL DEF Spec

-----------------------------------------------------------------------------
(* Sums over finite sets *)

(* A set of natural numbers has a least element, for < is well-founded.    *)
LEMMA LeastExists ==
  ASSUME NEW S, S \subseteq Nat, S # {}
  PROVE  \E m \in S : \A k \in S : m <= k
<1>1. IsWellFoundedOn(OpToRel(<, Nat), Nat)
  BY NatLessThanWellFounded
<1>2. PICK m \in S : \A k \in S : ~(<<k, m>> \in OpToRel(<, Nat))
  BY <1>1, WFMin, Zenon
<1>3. ASSUME NEW k \in S
      PROVE  m <= k
  <2>1. ~(<<k, m>> \in OpToRel(<, Nat))
    BY <1>2
  <2>2. k \in Nat /\ m \in Nat
    OBVIOUS
  <2>3. k < m => <<k, m>> \in OpToRel(<, Nat)
    BY <2>2 DEF OpToRel
  <2>4. ~(k < m)
    BY <2>1, <2>3
  <2> QED
    BY <2>2, <2>4
<1> QED
  BY <1>2, <1>3

(* Of some subsets of a finite set there is one that has none of them       *)
(* inside: what holds of a set when it holds of its parts holds of all.     *)
LEMMA InnermostExists ==
  ASSUME NEW S, IsFiniteSet(S), NEW C, C \subseteq SUBSET S, C # {}
  PROVE  \E s \in C : \A t \in SUBSET s : t # s => t \notin C
<1> DEFINE sizes == {Cardinality(s) : s \in C}
<1>1. \A s \in SUBSET S : IsFiniteSet(s) /\ Cardinality(s) \in Nat
  BY FS_Subset, FS_CardinalityType
<1>2. sizes \subseteq Nat /\ sizes # {}
  BY <1>1
<1>3. PICK m \in sizes : \A k \in sizes : m <= k
  BY <1>2, LeastExists
<1>4. PICK s \in C : m = Cardinality(s)
  BY <1>3
<1>5. ASSUME NEW t \in SUBSET s, t # s, t \in C PROVE FALSE
  <2>1. Cardinality(t) <= Cardinality(s) /\ (Cardinality(s) = Cardinality(t) => s = t)
    BY <1>1, FS_Subset
  <2>2. Cardinality(s) <= Cardinality(t)
    BY <1>3, <1>4, <1>5
  <2> QED
    BY <1>1, <1>5, <2>1, <2>2
<1> QED
  BY <1>4, <1>5

(* A sum adds the elements of a finite set one by one, in some order.       *)
next(s) == CHOOSE x \in s : TRUE

Adding(f, g, S) ==
  g = [s \in SUBSET S |-> IF s = {} THEN 0 ELSE f[next(s)] + g[s \ {next(s)}]]

(* The sum of the library is one by this definition.                        *)
LEMMA SumIsChosen ==
  ASSUME NEW f, NEW S
  PROVE  SumFunctionOnSet(f, S) = (CHOOSE g : Adding(f, g, S))[S]
BY DEF SumFunctionOnSet, FoldFunctionOnSet, MapThenFoldSet, Adding, next

(* The element a sum takes next is one of the set.                          *)
LEMMA NextIsOne ==
  ASSUME NEW s, s # {}
  PROVE  next(s) \in s
BY DEF next

(* What a sum over a set is to the sum over the rest of it.                  *)
AddsUp(f, s) ==
  SumFunctionOnSet(f, s) = IF s = {} THEN 0 ELSE f[next(s)] + SumFunctionOnSet(f, s \ {next(s)})

(* There is such a function on every finite set, and only one: a sum is the *)
(* next term plus the sum of the rest.                                      *)
LEMMA SumsAddUp ==
  ASSUME NEW f, NEW S, IsFiniteSet(S)
  PROVE  AddsUp(f, S)
<1> SUFFICES ASSUME ~AddsUp(f, S) PROVE FALSE
  OBVIOUS
<1> DEFINE C == {s \in SUBSET S : ~AddsUp(f, s)}
<1>1. PICK s \in C : \A t \in SUBSET s : t # s => t \notin C
  <2>1. C \subseteq SUBSET S /\ S \in C
    OBVIOUS
  <2> HIDE DEF C
  <2> QED
    BY <2>1, InnermostExists
<1>2. \A t \in SUBSET s : t # s => AddsUp(f, t)
  BY <1>1
<1> DEFINE g == [t \in SUBSET s |-> IF t = {} THEN 0 ELSE f[next(t)] + SumFunctionOnSet(f, t \ {next(t)})]
<1>3. Adding(f, g, s)
  <2>1. ASSUME NEW t \in SUBSET s, t # {}
        PROVE  g[t \ {next(t)}] = SumFunctionOnSet(f, t \ {next(t)})
    <3>1. next(t) \in t
      BY <2>1, NextIsOne
    <3>2. t \ {next(t)} \in SUBSET s /\ t \ {next(t)} # s
      BY <3>1
    <3> QED
      BY <1>2, <3>2 DEF AddsUp
  <2> DEFINE g2 == [t \in SUBSET s |-> IF t = {} THEN 0 ELSE f[next(t)] + g[t \ {next(t)}]]
  <2>2. \A t \in SUBSET s : g[t] = g2[t]
    BY <2>1
  <2>3. g = g2
    BY <2>2
  <2> QED
    BY <2>3 DEF Adding
<1> DEFINE h == CHOOSE h : Adding(f, h, s)
<1>4. Adding(f, h, s)
  <2> HIDE DEF g
  <2> QED
    BY <1>3, Zenon
<1>5. h[s] = g[s]
  <2> HIDE DEF h, g
  <2> SUFFICES ASSUME h[s] # g[s] PROVE FALSE
    OBVIOUS
  <2> DEFINE D == {t \in SUBSET s : h[t] # g[t]}
  <2>1. IsFiniteSet(s)
    BY FS_Subset
  <2>2. PICK t \in D : \A u \in SUBSET t : u # t => u \notin D
    <3>1. D \subseteq SUBSET s /\ s \in D
      OBVIOUS
    <3> HIDE DEF D
    <3> QED
      BY <2>1, <3>1, InnermostExists
  <2>3. t # {} => next(t) \in t /\ h[t \ {next(t)}] = g[t \ {next(t)}]
    BY <2>2, NextIsOne
  <2>4. /\ h[t] = IF t = {} THEN 0 ELSE f[next(t)] + h[t \ {next(t)}]
        /\ g[t] = IF t = {} THEN 0 ELSE f[next(t)] + g[t \ {next(t)}]
    BY <1>3, <1>4 DEF Adding
  <2> QED
    BY <2>3, <2>4
<1>6. SumFunctionOnSet(f, s) = g[s]
  BY <1>5, SumIsChosen
<1> QED
  BY <1>1, <1>6 DEF AddsUp

(* A sum of natural numbers is one.                                         *)
LEMMA SumIsNat ==
  ASSUME NEW f, NEW S, IsFiniteSet(S), \A x \in S : f[x] \in Nat
  PROVE  SumFunctionOnSet(f, S) \in Nat
<1> SUFFICES ASSUME SumFunctionOnSet(f, S) \notin Nat PROVE FALSE
  OBVIOUS
<1> DEFINE C == {s \in SUBSET S : SumFunctionOnSet(f, s) \notin Nat}
<1>1. PICK s \in C : \A t \in SUBSET s : t # s => t \notin C
  <2>1. C \subseteq SUBSET S /\ S \in C
    OBVIOUS
  <2> HIDE DEF C
  <2> QED
    BY <2>1, InnermostExists
<1>2. AddsUp(f, s)
  BY FS_Subset, SumsAddUp
<1>3. s # {} => next(s) \in s /\ s \ {next(s)} \in SUBSET s /\ s \ {next(s)} # s
  BY NextIsOne
<1>4. s # {} => SumFunctionOnSet(f, s \ {next(s)}) \in Nat /\ f[next(s)] \in Nat
  BY <1>1, <1>3
<1> QED
  BY <1>1, <1>2, <1>4 DEF AddsUp

(* Whichever element a sum adds last.                                       *)
LEMMA SumTakesOut ==
  ASSUME NEW f, NEW S, IsFiniteSet(S), \A x \in S : f[x] \in Nat, NEW a \in S
  PROVE  SumFunctionOnSet(f, S) = f[a] + SumFunctionOnSet(f, S \ {a})
<1> DEFINE takesOut(s, x) == SumFunctionOnSet(f, s) = f[x] + SumFunctionOnSet(f, s \ {x})
           C == {s \in SUBSET S : \E x \in s : ~takesOut(s, x)}
<1> SUFFICES ASSUME ~takesOut(S, a) PROVE FALSE
  OBVIOUS
<1>1. PICK s \in C : \A t \in SUBSET s : t # s => t \notin C
  <2>1. C \subseteq SUBSET S /\ S \in C
    OBVIOUS
  <2> HIDE DEF C
  <2> QED
    BY <2>1, InnermostExists
<1>2. PICK x \in s : ~takesOut(s, x)
  BY <1>1
<1> DEFINE y == next(s)
<1>3. y \in s /\ takesOut(s, y)
  <2>1. IsFiniteSet(s) /\ s # {}
    BY <1>2, FS_Subset
  <2> QED
    BY <2>1, NextIsOne, SumsAddUp DEF AddsUp
<1>4. x # y
  BY <1>2, <1>3
<1>5. takesOut(s \ {y}, x) /\ takesOut(s \ {x}, y)
  <2>1. s \ {y} \in SUBSET s /\ s \ {y} # s /\ x \in s \ {y}
    BY <1>3, <1>4
  <2>2. s \ {x} \in SUBSET s /\ s \ {x} # s /\ y \in s \ {x}
    BY <1>3, <1>4
  <2> HIDE DEF y, takesOut
  <2> QED
    BY <1>1, <2>1, <2>2
<1>6. (s \ {y}) \ {x} = (s \ {x}) \ {y}
  OBVIOUS
<1>7. f[x] \in Nat /\ f[y] \in Nat /\ SumFunctionOnSet(f, (s \ {x}) \ {y}) \in Nat
  <2>1. IsFiniteSet((s \ {x}) \ {y}) /\ \A i \in (s \ {x}) \ {y} : f[i] \in Nat
    BY FS_Subset
  <2> QED
    BY <1>3, <2>1, SumIsNat
<1> DEFINE rest == SumFunctionOnSet(f, (s \ {x}) \ {y})
<1>8. /\ SumFunctionOnSet(f, s) = f[y] + SumFunctionOnSet(f, s \ {y})
      /\ SumFunctionOnSet(f, s \ {y}) = f[x] + rest
      /\ SumFunctionOnSet(f, s \ {x}) = f[y] + rest
      /\ SumFunctionOnSet(f, s) # f[x] + SumFunctionOnSet(f, s \ {x})
  BY <1>2, <1>3, <1>5, <1>6, Zenon
<1>9. rest \in Nat
  BY <1>7
<1> HIDE DEF y, rest
<1> QED
  BY <1>7, <1>8, <1>9

(* A sum is at most another one that has a term as large for each of its.   *)
LEMMA SumEmbeds ==
  ASSUME NEW f, NEW S, IsFiniteSet(S), \A x \in S : f[x] \in Nat,
         NEW g, NEW T, IsFiniteSet(T), \A x \in T : g[x] \in Nat,
         NEW h, \A x \in S : h[x] \in T /\ f[x] <= g[h[x]],
         \A x, y \in S : h[x] = h[y] => x = y
  PROVE  SumFunctionOnSet(f, S) <= SumFunctionOnSet(g, T)
<1> DEFINE below(s, t) == (\A x \in s : h[x] \in t) => SumFunctionOnSet(f, s) <= SumFunctionOnSet(g, t)
           C == {s \in SUBSET S : \E t \in SUBSET T : ~below(s, t)}
<1> SUFFICES ASSUME ~below(S, T) PROVE FALSE
  OBVIOUS
<1>1. PICK s \in C : \A r \in SUBSET s : r # s => r \notin C
  <2>1. C \subseteq SUBSET S /\ S \in C
    OBVIOUS
  <2> HIDE DEF C
  <2> QED
    BY <2>1, InnermostExists
<1>2. PICK t \in SUBSET T : ~below(s, t)
  BY <1>1
<1>3. /\ IsFiniteSet(s) /\ \A x \in s : f[x] \in Nat
      /\ IsFiniteSet(t) /\ \A x \in t : g[x] \in Nat
      /\ SumFunctionOnSet(g, t) \in Nat
  <2>1. IsFiniteSet(s) /\ \A x \in s : f[x] \in Nat
    BY FS_Subset
  <2>2. IsFiniteSet(t) /\ \A x \in t : g[x] \in Nat
    BY FS_Subset
  <2> QED
    BY <2>1, <2>2, SumIsNat
<1>4. s # {}
  <2>1. s = {} => SumFunctionOnSet(f, s) = 0
    BY <1>3, SumsAddUp DEF AddsUp
  <2>2. ~(SumFunctionOnSet(f, s) <= SumFunctionOnSet(g, t))
    BY <1>2
  <2> QED
    BY <1>3, <2>1, <2>2
<1>5. PICK a \in s : TRUE
  BY <1>4
<1>6. h[a] \in t
  BY <1>2
<1> DEFINE r == s \ {a}
           u == t \ {h[a]}
<1>7. /\ SumFunctionOnSet(f, s) = f[a] + SumFunctionOnSet(f, r)
      /\ SumFunctionOnSet(g, t) = g[h[a]] + SumFunctionOnSet(g, u)
  BY <1>3, <1>6, SumTakesOut
<1>8. below(r, u) /\ \A x \in r : h[x] \in u
  <2>1. r \in SUBSET s /\ r # s /\ u \in SUBSET T
    OBVIOUS
  <2>2. \A x \in r : h[x] \in u
    BY <1>2
  <2> HIDE DEF r, u, below
  <2> QED
    BY <1>1, <2>1, <2>2
<1>9. SumFunctionOnSet(f, r) \in Nat /\ SumFunctionOnSet(g, u) \in Nat
  <2>1. /\ IsFiniteSet(r) /\ \A x \in r : f[x] \in Nat
        /\ IsFiniteSet(u) /\ \A x \in u : g[x] \in Nat
    BY <1>3, FS_Subset
  <2> HIDE DEF r, u
  <2> QED
    BY <2>1, SumIsNat
<1> HIDE DEF r, u
<1> QED
  BY <1>2, <1>3, <1>6, <1>7, <1>8, <1>9

-----------------------------------------------------------------------------
(* What runs together *)

(* A lease that is not lost before its first heartbeat.                     *)
LeaseOutlivesBeat == LeaseTTL > 1

(* A process that neither stalled nor failed has the lease of its job until  *)
(* it gives it up, beyond its next heartbeat while it runs, and nobody but a *)
(* person who cancels moves its row.                                        *)
onDuty(w) ==
  /\ worker[w].pc # "cancelled" /\ ~worker[w].stalled
  /\ worker[w].pc # "idle" => owns(w) /\ lease[worker[w].job].left > 0
  /\ worker[w].pc = "running" =>
       /\ lease[worker[w].job].left > worker[w].beat
       /\ \/ row[worker[w].job] = [state |-> worker[w].state, version |-> worker[w].version]
          \/ row[worker[w].job].state = "cancelled" /\ row[worker[w].job].version > worker[w].version

(* No job is in the hands of two processes.                                  *)
apart ==
  \A v, w \in Workers :
    worker[v].pc # "idle" /\ worker[w].pc # "idle" /\ worker[v].job = worker[w].job => v = w

Undisturbed == (\A w \in Workers : onDuty(w)) /\ apart

(* What is known of a process: who has a job owns a lease that lives.        *)
LEMMA RunsBeyondBeat ==
  ASSUME TypeOK, Undisturbed, NEW w \in Workers
  PROVE  /\ worker[w] \in Worker /\ worker[w].job \in Jobs /\ worker[w].beat \in Nat
         /\ lease[worker[w].job].left \in Nat
         /\ worker[w].pc \in {"idle", "running", "ended"}
         /\ worker[w].pc # "idle" =>
              lease[worker[w].job].owner = OwnerID /\ lease[worker[w].job].left > 0
<1>1. worker[w] \in Worker
  BY DEF TypeOK
<1>2. worker[w].beat \in 0..LeaseTTL /\ worker[w].job \in Jobs /\ LeaseTTL \in Nat
  BY <1>1, QueueAssumption DEF Worker
<1>3. lease[worker[w].job].left \in Nat
  BY <1>2 DEF TypeOK
<1>4. onDuty(w)
  BY DEF Undisturbed
<1> QED
  BY <1>1, <1>2, <1>3, <1>4 DEF onDuty, owns, Worker, Pcs

(* A process whose job, lease and row stay as they are stays on duty.        *)
LEMMA StaysOnDuty ==
  ASSUME Undisturbed, NEW w \in Workers, worker'[w] = worker[w],
         worker[w].pc # "idle" => /\ lease'[worker[w].job] = lease[worker[w].job]
                                  /\ row'[worker[w].job] = row[worker[w].job]
  PROVE  onDuty(w)'
<1>1. onDuty(w)
  BY DEF Undisturbed
<1> QED
  BY <1>1 DEF onDuty, owns

(* A process that is given a job takes it from nobody who has it,           *)
LEMMA AcquireUndisturbed ==
  ASSUME LeaseOutlivesBeat, TypeOK, Undisturbed, NEW v \in Workers, Acquire(v)
  PROVE  Undisturbed'
<1>1. PICK j \in selected :
        /\ lease' = [lease EXCEPT ![j] = [owner |-> OwnerID, left |-> LeaseTTL]]
        /\ worker' = [worker EXCEPT ![v] =
             [pc |-> "running", job |-> j, state |-> row[j].state,
              version |-> row[j].version, late |-> expired(j),
              beat |-> interval, stalled |-> FALSE]]
        /\ UNCHANGED row
  BY DEF Acquire
<1>2. j \in Jobs /\ ~(lease[j].left > 0) /\ lease[j].left \in Nat
  BY QueueAssumption DEF selected, candidateJobs, unleased, live, TypeOK
<1>3. interval < LeaseTTL /\ LeaseTTL > 0
  BY QueueAssumption DEF interval, LeaseOutlivesBeat
<1>4. row[j] = [state |-> row[j].state, version |-> row[j].version]
  BY <1>2 DEF TypeOK
<1>5. \A w \in Workers : w # v => worker'[w] = worker[w]
  BY <1>1 DEF TypeOK
<1>6. \A w \in Workers : w # v /\ worker[w].pc # "idle" => worker[w].job # j
  BY <1>2, RunsBeyondBeat
<1>7. worker'[v].job = j
  BY <1>1 DEF TypeOK
<1>8. onDuty(v)'
  BY <1>1, <1>2, <1>3, <1>4 DEF TypeOK, owns, onDuty
<1>9. ASSUME NEW w \in Workers, w # v
      PROVE  onDuty(w)'
  <2>1. worker[w].pc # "idle" => lease'[worker[w].job] = lease[worker[w].job]
    BY <1>1, <1>6, <1>9, RunsBeyondBeat DEF TypeOK
  <2> QED
    BY <1>1, <1>5, <1>9, <2>1, StaysOnDuty
<1>10. apart'
  BY <1>5, <1>6, <1>7 DEF apart, Undisturbed
<1> QED
  BY <1>8, <1>9, <1>10 DEF Undisturbed

(* who goes on with the job it has, or without one, is apart from the others, *)
LEMMA StaysApart ==
  ASSUME Undisturbed,
         \A w \in Workers : worker'[w].pc # "idle" =>
           worker[w].pc # "idle" /\ worker'[w].job = worker[w].job
  PROVE  apart'
BY DEF Undisturbed, apart

(* renewals and releases touch no lease but their own, although every process *)
(* passes the check of the owner,                                           *)
LEMMA LeasesUndisturbed ==
  ASSUME LeaseOutlivesBeat, TypeOK, Undisturbed, NEW v \in Workers, Renew(v) \/ Release(v)
  PROVE  Undisturbed'
<1>1. UNCHANGED row /\ interval < LeaseTTL /\ LeaseTTL > 0
  BY QueueAssumption DEF interval, LeaseOutlivesBeat, Renew, Release
<1>2. \/ /\ worker' = [worker EXCEPT ![v].beat = interval] /\ worker[v].pc = "running"
         /\ lease' = [lease EXCEPT ![worker[v].job].left = LeaseTTL]
      \/ /\ worker' = [worker EXCEPT ![v] = Idle] /\ worker[v].pc = "ended"
         /\ lease' = [lease EXCEPT ![worker[v].job] = NoLease] \/ UNCHANGED lease
  BY DEF Renew, Release, awake
<1>3. worker[v] \in Worker /\ worker[v].job \in Jobs /\ onDuty(v) /\ Idle.pc = "idle" /\ ~Idle.stalled
  BY RunsBeyondBeat DEF Idle, Undisturbed
<1>4. /\ \A w \in Workers : w # v => worker'[w] = worker[w]
      /\ worker'[v] = [worker[v] EXCEPT !.beat = interval] \/ worker'[v] = Idle
  BY <1>2 DEF TypeOK
<1>5. onDuty(v)'
  <2>1. CASE worker[v].pc = "running"
    <3>1. worker'[v] = [worker[v] EXCEPT !.beat = interval]
      BY <1>2, <2>1 DEF TypeOK
    <3>2. lease'[worker[v].job] = [lease[worker[v].job] EXCEPT !.left = LeaseTTL]
      BY <1>2, <1>3, <2>1 DEF TypeOK
    <3>3. /\ worker'[v].beat = interval /\ worker'[v].job = worker[v].job /\ worker'[v].pc = "running"
          /\ worker'[v].state = worker[v].state /\ worker'[v].version = worker[v].version
          /\ worker'[v].stalled = worker[v].stalled
      BY <1>3, <2>1, <3>1 DEF Worker
    <3>4. lease'[worker[v].job].left = LeaseTTL /\ lease'[worker[v].job].owner = lease[worker[v].job].owner
      BY <1>3, <3>2 DEF TypeOK
    <3> QED
      BY <1>1, <1>3, <2>1, <3>3, <3>4 DEF onDuty, owns
  <2>2. CASE worker[v].pc # "running"
    <3>1. worker'[v] = Idle
      BY <1>2, <2>2 DEF TypeOK
    <3> QED
      BY <1>3, <3>1 DEF onDuty
  <2> QED
    BY <2>1, <2>2
<1>6. ASSUME NEW w \in Workers, w # v
      PROVE  onDuty(w)'
  <2>1. worker[w].pc # "idle" => worker[w].job # worker[v].job
    BY <1>2, <1>6 DEF Undisturbed, apart
  <2>2. worker[w].pc # "idle" => lease'[worker[w].job] = lease[worker[w].job]
    BY <1>2, <2>1, RunsBeyondBeat DEF TypeOK
  <2> QED
    BY <1>1, <1>4, <1>6, <2>2, StaysOnDuty
<1>7. \A w \in Workers : worker'[w].pc # "idle" =>
        worker[w].pc # "idle" /\ worker'[w].job = worker[w].job
  BY <1>2, <1>3, <1>4 DEF Worker
<1> QED
  BY <1>5, <1>6, <1>7, StaysApart DEF Undisturbed

(* a phase moves the row of its own job only, and ends,                     *)
LEMMA PhaseUndisturbed ==
  ASSUME TypeOK, Undisturbed, NEW v \in Workers,
         PhaseEnds(v) \/ PhaseInterrupted(v) \/ PhaseChangesNothing(v)
  PROVE  Undisturbed'
<1>1. worker[v].pc = "running" /\ worker' = [worker EXCEPT ![v].pc = "ended"] /\ UNCHANGED lease
  BY DEF PhaseEnds, PhaseInterrupted, PhaseChangesNothing, phaseReturns, goto, awake, Undisturbed, onDuty
<1>2. \A j \in Jobs : j # worker[v].job => row'[j] = row[j]
  BY DEF PhaseEnds, PhaseInterrupted, PhaseChangesNothing, moveRow, TypeOK
<1>3. worker[v] \in Worker /\ onDuty(v)
  BY RunsBeyondBeat DEF Undisturbed
<1>4. /\ \A w \in Workers : w # v => worker'[w] = worker[w]
      /\ worker'[v] = [worker[v] EXCEPT !.pc = "ended"]
  BY <1>1 DEF TypeOK
<1>5. worker'[v].pc = "ended" /\ worker'[v].stalled = worker[v].stalled /\ worker'[v].job = worker[v].job
  BY <1>3, <1>4 DEF Worker
<1>6. onDuty(v)'
  BY <1>1, <1>3, <1>5 DEF onDuty, owns
<1>7. ASSUME NEW w \in Workers, w # v
      PROVE  onDuty(w)'
  <2>1. worker[w].pc # "idle" => worker[w].job # worker[v].job
    BY <1>1, <1>7 DEF Undisturbed, apart
  <2>2. worker[w].pc # "idle" => row'[worker[w].job] = row[worker[w].job]
    BY <1>2, <2>1, RunsBeyondBeat
  <2> QED
    BY <1>1, <1>4, <1>7, <2>2, StaysOnDuty
<1>8. \A w \in Workers : worker'[w].pc # "idle" =>
        worker[w].pc # "idle" /\ worker'[w].job = worker[w].job
  BY <1>1, <1>4, <1>5
<1> QED
  BY <1>6, <1>7, <1>8, StaysApart DEF Undisturbed

(* leases outlive heartbeats as time passes,                                *)
LEMMA TimeUndisturbed ==
  ASSUME TypeOK, Undisturbed, Tick
  PROVE  Undisturbed'
<1>1. ASSUME NEW w \in Workers
      PROVE  /\ onDuty(w)'
             /\ worker'[w].pc # "idle" => worker[w].pc # "idle" /\ worker'[w].job = worker[w].job
  <2>1. /\ worker[w] \in Worker /\ worker[w].job \in Jobs /\ worker[w].beat \in Nat
        /\ lease[worker[w].job].left \in Nat /\ worker[w].pc \in {"idle", "running", "ended"}
        /\ onDuty(w)
    BY RunsBeyondBeat DEF Undisturbed
  <2>2. worker'[w] = [worker[w] EXCEPT !.beat = before(@)]
    BY DEF Tick
  <2>3. /\ worker'[w].pc = worker[w].pc /\ worker'[w].stalled = worker[w].stalled
        /\ worker'[w].job = worker[w].job /\ worker'[w].state = worker[w].state
        /\ worker'[w].version = worker[w].version /\ worker'[w].beat = before(worker[w].beat)
    BY <2>1, <2>2 DEF Worker
  <2>4. lease'[worker[w].job] = [lease[worker[w].job] EXCEPT !.left = before(@)] /\ UNCHANGED row
    BY <2>1 DEF Tick
  <2>5. lease'[worker[w].job].left = before(lease[worker[w].job].left)
        /\ lease'[worker[w].job].owner = lease[worker[w].job].owner
    BY <2>1, <2>4 DEF TypeOK
  <2>6. /\ worker[w].pc # "ended"
        /\ worker[w].pc = "running" => worker[w].beat > 0 /\ lease[worker[w].job].left > worker[w].beat
    BY <2>1 DEF Tick, awake, onDuty
  <2>7. worker[w].pc = "running" =>
          /\ before(lease[worker[w].job].left) > before(worker[w].beat)
          /\ before(lease[worker[w].job].left) > 0
    BY <2>1, <2>6 DEF before
  <2> QED
    BY <2>1, <2>3, <2>4, <2>5, <2>6, <2>7 DEF onDuty, owns
<1> QED
  BY <1>1, StaysApart DEF Undisturbed

(* who dies leaves its lease behind,                                        *)
LEMMA CrashUndisturbed ==
  ASSUME TypeOK, Undisturbed, NEW v \in Workers, Crash(v)
  PROVE  Undisturbed'
<1>1. worker' = [worker EXCEPT ![v] = Idle] /\ UNCHANGED <<row, lease>> /\ Idle.pc = "idle" /\ ~Idle.stalled
  BY DEF Crash, Idle
<1>2. (\A w \in Workers : w # v => worker'[w] = worker[w]) /\ worker'[v] = Idle
  BY <1>1 DEF TypeOK
<1>3. \A w \in Workers : onDuty(w)'
  BY <1>1, <1>2, StaysOnDuty DEF onDuty
<1>4. apart'
  BY <1>1, <1>2, StaysApart
<1> QED
  BY <1>3, <1>4 DEF Undisturbed

(* and who cancels leaves a row that no phase moves.                        *)
LEMMA CancelUndisturbed ==
  ASSUME TypeOK, Undisturbed, NEW j \in Jobs, CancelJob(j)
  PROVE  Undisturbed'
<1>1. /\ row[j].state # "cancelled" /\ UNCHANGED <<lease, worker>>
      /\ row' = [row EXCEPT ![j] = [state |-> "cancelled", version |-> @.version + 1]]
  BY DEF CancelJob, moveRow, CanTransition, transitions
<1>2. ASSUME NEW w \in Workers
      PROVE  onDuty(w)'
  <2>1. worker[w].job \in Jobs /\ worker[w].version \in Nat /\ onDuty(w)
    BY RunsBeyondBeat DEF Worker, Undisturbed
  <2>2. CASE worker[w].job = j /\ worker[w].pc = "running"
    <3>1. row[j] = [state |-> worker[w].state, version |-> worker[w].version]
      BY <1>1, <2>1, <2>2 DEF onDuty
    <3>2. row'[j].state = "cancelled" /\ row'[j].version = row[j].version + 1
      BY <1>1 DEF TypeOK
    <3>3. row'[j].version > worker[w].version
      BY <2>1, <3>1, <3>2
    <3> QED
      BY <1>1, <2>1, <2>2, <3>2, <3>3 DEF onDuty, owns
  <2>3. CASE worker[w].job # j \/ worker[w].pc # "running"
    <3>1. worker[w].job # j => row'[worker[w].job] = row[worker[w].job]
      BY <1>1, <2>1 DEF TypeOK
    <3> QED
      BY <1>1, <2>1, <2>3, <3>1 DEF onDuty, owns
  <2> QED
    BY <2>2, <2>3
<1>3. apart'
  BY <1>1, StaysApart
<1> QED
  BY <1>2, <1>3 DEF Undisturbed

(* As long as nobody stalls or fails no heartbeat is lost.                   *)
LEMMA NobodyLapsed ==
  ASSUME LeaseOutlivesBeat, TypeOK, Undisturbed, [Next]_vars, lapses' = 0
  PROVE  /\ Undisturbed'
         /\ \/ \E v \in Workers :
                 \/ Acquire(v) \/ Renew(v) \/ Release(v) \/ Crash(v)
                 \/ PhaseEnds(v) \/ PhaseInterrupted(v) \/ PhaseChangesNothing(v)
            \/ Tick \/ (\E j \in Jobs : DeadlineNears(j) \/ CancelJob(j)) \/ UNCHANGED vars
<1>1. ASSUME NEW v \in Workers
      PROVE  ~LoseHeartbeat(v) /\ ~HeartbeatFails(v) /\ ~Stall(v) /\ ~Wake(v)
  <2>1. ~LoseHeartbeat(v)
    BY RunsBeyondBeat DEF LoseHeartbeat, heartbeatLost, awake, owns, live
  <2>2. ~HeartbeatFails(v) /\ ~Stall(v)
    BY DEF HeartbeatFails, Stall, TypeOK
  <2>3. ~Wake(v)
    BY DEF Wake, Undisturbed, onDuty
  <2> QED
    BY <2>1, <2>2, <2>3
<1>2. \/ \E v \in Workers :
           \/ Acquire(v) \/ Renew(v) \/ Release(v) \/ Crash(v)
           \/ PhaseEnds(v) \/ PhaseInterrupted(v) \/ PhaseChangesNothing(v)
      \/ Tick \/ (\E j \in Jobs : DeadlineNears(j) \/ CancelJob(j)) \/ UNCHANGED vars
  BY <1>1 DEF Next, Work
<1>3. ASSUME NEW v \in Workers,
             \/ Acquire(v) \/ Renew(v) \/ Release(v) \/ Crash(v)
             \/ PhaseEnds(v) \/ PhaseInterrupted(v) \/ PhaseChangesNothing(v)
      PROVE  Undisturbed'
  BY <1>3, AcquireUndisturbed, LeasesUndisturbed, PhaseUndisturbed, CrashUndisturbed
<1>4. CASE (\E j \in Jobs : DeadlineNears(j)) \/ UNCHANGED vars
  BY <1>4 DEF DeadlineNears, vars, Undisturbed, onDuty, apart, owns
<1> QED
  BY <1>2, <1>3, <1>4, TimeUndisturbed, CancelUndisturbed

(* The processes start without jobs.                                        *)
LEMMA InitUndisturbed ==
  ASSUME Init
  PROVE  Undisturbed
BY DEF Init, Undisturbed, onDuty, apart, Idle

(* Lapses are not forgotten.                                                *)
LEMMA LapsesStay ==
  ASSUME TypeOK, [Next]_vars, lapses' = 0
  PROVE  lapses = 0
<1>1. lapses' = lapses \/ lapses' = lapses + 1
  BY DEF Next, Work, Acquire, Renew, LoseHeartbeat, heartbeatLost, HeartbeatFails, PhaseEnds,
     PhaseInterrupted, PhaseChangesNothing, phaseReturns, Release, Crash, Stall, Wake, Tick,
     DeadlineNears, CancelJob, vars
<1> QED
  BY <1>1 DEF TypeOK

(* No job is executed by two processes, although they all write the same      *)
(* owner ID and any of them may die: for any jobs, processes and any lease   *)
(* that outlives a heartbeat, as long as none of them stalls or fails.       *)
THEOREM AloneForAll ==
  ASSUME LeaseOutlivesBeat
  PROVE  Spec => []ExecutesAlone
<1> DEFINE Inv == lapses = 0 => Undisturbed
<1>1. Init => Inv
  BY InitUndisturbed
<1>2. TypeOK /\ Inv /\ [Next]_vars => Inv'
  BY LapsesStay, NobodyLapsed
<1>3. Inv => ExecutesAlone
  BY DEF Undisturbed, apart, ExecutesAlone, executing
<1> QED
  BY <1>1, <1>2, <1>3, TypeCorrect, PTL DEF Spec

-----------------------------------------------------------------------------

(* What a phase needs of the host is a number.                              *)
LEMMA NeedsAreNumbers ==
  ASSUME NEW s
  PROVE  /\ DefaultProfiles[ProfileIDForState(s)].memory \in Nat
         /\ DefaultProfiles[ProfileIDForState(s)].cores \in Nat
BY DEF DefaultProfiles, profile, ProfileIDForState

(* What is executed fits the host.                                           *)
sumsFit ==
  /\ SumFunction([w \in counted |-> need(w).memory]) <= DefaultTopology.memory - DefaultTopology.reserved
  /\ SumFunction([w \in counted |-> need(w).cores]) <= DefaultTopology.cores

(* Finitely many leases live and finitely many processes run: else their      *)
(* needs had no sum.                                                         *)
FitInv == IsFiniteSet({j \in Jobs : live(j)}) /\ IsFiniteSet(counted) /\ sumsFit

(* The sum over the workers is a sum over a set of indices.                 *)
LEMMA SumsAreOver ==
  ASSUME NEW S, NEW f, DOMAIN f = S
  PROVE  SumFunction(f) = SumFunctionOnSet(f, S)
BY DEF SumFunction

(* Fewer of the same workers need less.                                     *)
LEMMA FewerFit ==
  ASSUME IsFiniteSet(counted), sumsFit, counted' \subseteq counted,
         \A w \in counted' : worker'[w].state = worker[w].state
  PROVE  IsFiniteSet(counted') /\ sumsFit'
<1>1. IsFiniteSet(counted')
  BY FS_Subset
<1> DEFINE m == [w \in counted |-> need(w).memory]
           c == [w \in counted |-> need(w).cores]
           m2 == [w \in counted' |-> need(w)'.memory]
           c2 == [w \in counted' |-> need(w)'.cores]
           same == [w \in counted' |-> w]
<1>2. /\ \A w \in counted : m[w] \in Nat /\ c[w] \in Nat
      /\ \A w \in counted' : m2[w] \in Nat /\ c2[w] \in Nat
      /\ \A w \in counted' : m2[w] = m[w] /\ c2[w] = c[w]
  BY NeedsAreNumbers DEF need
<1>3. \A w \in counted' : same[w] = w
  OBVIOUS
<1>4. /\ DOMAIN m = counted /\ DOMAIN c = counted
      /\ DOMAIN m2 = counted' /\ DOMAIN c2 = counted'
  OBVIOUS
<1>5. /\ SumFunction(m) <= DefaultTopology.memory - DefaultTopology.reserved
      /\ SumFunction(c) <= DefaultTopology.cores
  BY DEF sumsFit
<1>6. sumsFit' <=>
        /\ SumFunction(m2) <= DefaultTopology.memory - DefaultTopology.reserved
        /\ SumFunction(c2) <= DefaultTopology.cores
  BY DEF sumsFit, DefaultTopology
<1> HIDE DEF m, c, m2, c2, same
<1>7. /\ SumFunctionOnSet(m2, counted') <= SumFunctionOnSet(m, counted)
      /\ SumFunctionOnSet(c2, counted') <= SumFunctionOnSet(c, counted)
  <2>1. /\ \A w \in counted' : same[w] \in counted /\ m2[w] <= m[same[w]] /\ c2[w] <= c[same[w]]
        /\ \A v, w \in counted' : same[v] = same[w] => v = w
    BY <1>2, <1>3
  <2> QED
    BY <1>1, <1>2, <2>1, SumEmbeds
<1>8. /\ SumFunctionOnSet(m2, counted') \in Nat /\ SumFunctionOnSet(m, counted) \in Nat
      /\ SumFunctionOnSet(c2, counted') \in Nat /\ SumFunctionOnSet(c, counted) \in Nat
  BY <1>1, <1>2, SumIsNat
<1>9. /\ SumFunction(m2) = SumFunctionOnSet(m2, counted') /\ SumFunction(m) = SumFunctionOnSet(m, counted)
      /\ SumFunction(c2) = SumFunctionOnSet(c2, counted') /\ SumFunction(c) = SumFunctionOnSet(c, counted)
  BY <1>4, SumsAreOver
<1> QED
  BY <1>1, <1>5, <1>6, <1>7, <1>8, <1>9 DEF DefaultTopology

(* The items the scheduler counts are as many as the live leases.           *)
LEMMA ActiveIsFinite ==
  ASSUME IsFiniteSet({j \in Jobs : live(j)})
  PROVE  IsFiniteSet(active)
<1> DEFINE L == {j \in Jobs : live(j)}
           f == [j \in L |-> item(j)]
<1>1. active = {f[j] : j \in L}
  BY DEF active
<1>2. f \in Surjection(L, active)
  BY <1>1 DEF Surjection
<1> HIDE DEF f
<1> QED
  BY <1>2, FS_Surjection

(* What runs is accounted for among what is leased.                         *)
LEMMA CountedAreActive ==
  ASSUME TypeOK, Undisturbed
  PROVE  /\ \A w \in counted : /\ item(worker[w].job) \in active
                               /\ DefaultProfiles[item(worker[w].job).profile] = need(w)
         /\ \A v, w \in counted : item(worker[v].job) = item(worker[w].job) => v = w
<1>1. ASSUME NEW w \in counted
      PROVE  /\ w \in Workers /\ worker[w].pc = "running" /\ worker[w].job \in Jobs
             /\ live(worker[w].job) /\ row[worker[w].job].state = worker[w].state
  <2>1. w \in Workers /\ worker[w].pc = "running" /\ row[worker[w].job].state # "cancelled"
    BY DEF counted, executing, Undisturbed, onDuty
  <2>2. \/ row[worker[w].job] = [state |-> worker[w].state, version |-> worker[w].version]
        \/ row[worker[w].job].state = "cancelled"
    BY <2>1 DEF Undisturbed, onDuty
  <2> QED
    BY <2>1, <2>2, RunsBeyondBeat DEF live
<1>2. \A w \in counted : item(worker[w].job) \in active
  BY <1>1 DEF active
<1>3. \A w \in counted : DefaultProfiles[item(worker[w].job).profile] = need(w)
  BY <1>1 DEF item, need
<1>4. ASSUME NEW v \in counted, NEW w \in counted, item(worker[v].job) = item(worker[w].job)
      PROVE  v = w
  <2>1. worker[v].job = worker[w].job
    BY <1>4 DEF item
  <2> QED
    BY <1>1, <2>1 DEF Undisturbed, apart
<1> QED
  BY <1>2, <1>3, <1>4

(* What fits beside all leases fits beside what runs.                       *)
LEMMA AcquireFits ==
  ASSUME TypeOK, Undisturbed, FitInv, NEW v \in Workers, Acquire(v)
  PROVE  FitInv'
<1>1. PICK j \in selected :
        /\ lease' = [lease EXCEPT ![j] = [owner |-> OwnerID, left |-> LeaseTTL]]
        /\ worker' = [worker EXCEPT ![v] =
             [pc |-> "running", job |-> j, state |-> row[j].state,
              version |-> row[j].version, late |-> expired(j),
              beat |-> interval, stalled |-> FALSE]]
        /\ UNCHANGED row
  BY DEF Acquire
<1>2. j \in Jobs /\ row[j].state # "cancelled" /\ fits(item(j), active)
  BY DEF selected, runnable, candidateJobs, unleased, Resumable, Terminal
<1>3. /\ worker'[v].pc = "running" /\ worker'[v].job = j /\ worker'[v].state = row[j].state
      /\ \A w \in Workers \ {v} : worker'[w] = worker[w]
      /\ worker[v].pc = "idle"
  BY <1>1 DEF TypeOK, Acquire, awake
<1>4. counted' = counted \union {v} /\ v \notin counted
  BY <1>1, <1>2, <1>3 DEF counted, executing
<1>5. IsFiniteSet(counted') /\ counted' \ {v} = counted /\ v \in counted'
  BY <1>4, FS_AddElement DEF FitInv
<1>6. IsFiniteSet({k \in Jobs : live(k)}')
  <2>1. {k \in Jobs : live(k)}' \subseteq {k \in Jobs : live(k)} \union {j}
    BY <1>1 DEF live, TypeOK
  <2>2. IsFiniteSet({k \in Jobs : live(k)} \union {j})
    BY FS_AddElement DEF FitInv
  <2> QED
    BY <2>1, <2>2, FS_Subset
<1> DEFINE m2 == [w \in counted' |-> need(w)'.memory]
           c2 == [w \in counted' |-> need(w)'.cores]
           am == [i \in active |-> DefaultProfiles[i.profile].memory]
           ac == [i \in active |-> DefaultProfiles[i.profile].cores]
           h == [w \in counted |-> item(worker[w].job)]
<1>7. \A w \in counted' : m2[w] \in Nat /\ c2[w] \in Nat
  BY NeedsAreNumbers DEF need
<1>8. \A i \in active : am[i] \in Nat /\ ac[i] \in Nat
  BY NeedsAreNumbers DEF active, item
<1>9. \A w \in counted : w \in counted' /\ need(w)' = need(w)
  BY <1>3, <1>4 DEF need, counted
<1>10. /\ \A w \in counted : h[w] \in active /\ m2[w] <= am[h[w]] /\ c2[w] <= ac[h[w]]
       /\ \A x, y \in counted : h[x] = h[y] => x = y
  <2>1. \A w \in counted : h[w] = item(worker[w].job)
    OBVIOUS
  <2>2. \A w \in counted : m2[w] = need(w).memory /\ c2[w] = need(w).cores
    BY <1>9
  <2>3. \A w \in counted : /\ h[w] \in active
                           /\ am[h[w]] = DefaultProfiles[h[w].profile].memory
                           /\ ac[h[w]] = DefaultProfiles[h[w].profile].cores
    BY <2>1, CountedAreActive
  <2>4. \A w \in counted : am[h[w]] = need(w).memory /\ ac[h[w]] = need(w).cores
    <3> HIDE DEF h, am, ac
    <3> QED
      BY <2>1, <2>3, CountedAreActive
  <2>5. \A w \in counted : m2[w] <= am[h[w]] /\ c2[w] <= ac[h[w]]
    <3> HIDE DEF h, am, ac, m2, c2
    <3> QED
      BY <1>7, <1>9, <2>2, <2>4
  <2>6. \A x, y \in counted : h[x] = h[y] => x = y
    <3> HIDE DEF h
    <3> QED
      BY <2>1, CountedAreActive
  <2> QED
    BY <2>3, <2>5, <2>6
<1>11. /\ m2[v] <= DefaultTopology.memory - DefaultTopology.reserved - SumFunction(am)
       /\ c2[v] <= DefaultTopology.cores - SumFunction(ac)
  <2>1. m2[v] = DefaultProfiles[item(j).profile].memory /\ c2[v] = DefaultProfiles[item(j).profile].cores
    BY <1>3, <1>4 DEF need, item
  <2> HIDE DEF m2, c2
  <2> QED
    BY <1>2, <2>1 DEF fits, availableMemory, availableCores, memoryOf, coresOf
<1>12. sumsFit' <=>
         /\ SumFunction(m2) <= DefaultTopology.memory - DefaultTopology.reserved
         /\ SumFunction(c2) <= DefaultTopology.cores
  BY DEF sumsFit, DefaultTopology
<1>13. /\ DOMAIN m2 = counted' /\ DOMAIN c2 = counted'
       /\ DOMAIN am = active /\ DOMAIN ac = active
  OBVIOUS
<1>14. IsFiniteSet(active) /\ IsFiniteSet(counted)
  BY ActiveIsFinite DEF FitInv
<1> HIDE DEF m2, c2, am, ac, h
<1>15. /\ SumFunctionOnSet(m2, counted') = m2[v] + SumFunctionOnSet(m2, counted)
       /\ SumFunctionOnSet(c2, counted') = c2[v] + SumFunctionOnSet(c2, counted)
  BY <1>5, <1>7, SumTakesOut
<1>16. /\ \A w \in counted : m2[w] \in Nat /\ c2[w] \in Nat
       /\ m2[v] \in Nat /\ c2[v] \in Nat
  BY <1>4, <1>7
<1>17. /\ SumFunctionOnSet(m2, counted) <= SumFunctionOnSet(am, active)
       /\ SumFunctionOnSet(c2, counted) <= SumFunctionOnSet(ac, active)
  BY <1>8, <1>10, <1>14, <1>16, SumEmbeds
<1>18. /\ SumFunctionOnSet(m2, counted) \in Nat /\ SumFunctionOnSet(am, active) \in Nat
       /\ SumFunctionOnSet(c2, counted) \in Nat /\ SumFunctionOnSet(ac, active) \in Nat
  BY <1>8, <1>14, <1>16, SumIsNat
<1>19. /\ SumFunction(m2) = SumFunctionOnSet(m2, counted') /\ SumFunction(am) = SumFunctionOnSet(am, active)
       /\ SumFunction(c2) = SumFunctionOnSet(c2, counted') /\ SumFunction(ac) = SumFunctionOnSet(ac, active)
  BY <1>13, SumsAreOver
<1>20. /\ SumFunction(m2) <= DefaultTopology.memory - DefaultTopology.reserved
       /\ SumFunction(c2) <= DefaultTopology.cores
  BY <1>11, <1>15, <1>16, <1>17, <1>18, <1>19 DEF DefaultTopology
<1> QED
  BY <1>5, <1>6, <1>12, <1>20 DEF FitInv

(* Every other step leaves as much running, or less: a phase that moves its *)
(* row ends, so what its new state would need is not counted.               *)
LEMMA OthersFit ==
  ASSUME TypeOK, Undisturbed, Undisturbed', FitInv,
         \/ \E v \in Workers :
              Renew(v) \/ Release(v) \/ Crash(v) \/ PhaseEnds(v) \/ PhaseInterrupted(v) \/ PhaseChangesNothing(v)
         \/ Tick \/ (\E j \in Jobs : DeadlineNears(j) \/ CancelJob(j)) \/ UNCHANGED vars
  PROVE  FitInv'
<1> DEFINE goesOn(w) ==
             /\ worker[w].pc = "running" /\ worker'[w].job = worker[w].job
             /\ worker'[w].state = worker[w].state
             /\ row'[worker[w].job].state # "cancelled" => row[worker[w].job].state # "cancelled"
<1>1. \A w \in Workers : worker[w] \in Worker
  BY RunsBeyondBeat
<1>2. ASSUME NEW v \in Workers, Renew(v) \/ Release(v) \/ Crash(v), NEW w \in Workers, worker'[w].pc = "running"
      PROVE  goesOn(w)
  <2>1. UNCHANGED row /\ (worker' = [worker EXCEPT ![v].beat = interval] \/ worker' = [worker EXCEPT ![v] = Idle])
    BY <1>2 DEF Renew, Release, Crash
  <2>2. CASE w = v
    <3>1. worker'[v] = [worker[v] EXCEPT !.beat = interval] \/ worker'[v] = Idle
      BY <2>1 DEF TypeOK
    <3>2. Idle.pc # "running"
      BY DEF Idle
    <3> QED
      BY <1>1, <1>2, <2>1, <2>2, <3>1, <3>2 DEF Worker
  <2>3. CASE w # v
    BY <1>2, <2>1, <2>3 DEF TypeOK
  <2> QED
    BY <2>2, <2>3
<1>3. ASSUME NEW v \in Workers, PhaseEnds(v) \/ PhaseInterrupted(v) \/ PhaseChangesNothing(v),
             NEW w \in Workers, worker'[w].pc = "running"
      PROVE  goesOn(w)
  <2>1. worker[v].pc = "running" /\ worker' = [worker EXCEPT ![v].pc = "ended"]
    BY <1>3 DEF PhaseEnds, PhaseInterrupted, PhaseChangesNothing, phaseReturns, goto, awake, Undisturbed, onDuty
  <2>2. \A j \in Jobs : j # worker[v].job => row'[j] = row[j]
    BY <1>3 DEF PhaseEnds, PhaseInterrupted, PhaseChangesNothing, moveRow, TypeOK
  <2>3. w # v
    BY <1>1, <1>3, <2>1 DEF TypeOK, Worker
  <2>4. worker'[w] = worker[w]
    BY <2>1, <2>3 DEF TypeOK
  <2>5. row'[worker[w].job] = row[worker[w].job]
    BY <1>3, <2>1, <2>2, <2>3, <2>4, RunsBeyondBeat DEF Undisturbed, apart
  <2> QED
    BY <1>3, <2>4, <2>5
<1>4. ASSUME Tick, NEW w \in Workers, worker'[w].pc = "running"
      PROVE  goesOn(w)
  BY <1>1, <1>4 DEF Tick, Worker
<1>5. ASSUME (\E j \in Jobs : DeadlineNears(j)) \/ UNCHANGED vars, NEW w \in Workers, worker'[w].pc = "running"
      PROVE  goesOn(w)
  BY <1>5 DEF DeadlineNears, vars
<1>6. ASSUME NEW j \in Jobs, CancelJob(j), NEW w \in Workers, worker'[w].pc = "running"
      PROVE  goesOn(w)
  <2>1. UNCHANGED worker /\ row' = [row EXCEPT ![j] = [state |-> "cancelled", version |-> @.version + 1]]
    BY <1>6 DEF CancelJob, moveRow
  <2>2. worker[w].job \in Jobs
    BY RunsBeyondBeat
  <2>3. row'[worker[w].job].state # "cancelled" => row'[worker[w].job] = row[worker[w].job]
    BY <2>1, <2>2 DEF TypeOK
  <2> QED
    BY <1>6, <2>1, <2>3
<1>7. \A w \in Workers : worker'[w].pc = "running" => goesOn(w)
  BY <1>2, <1>3, <1>4, <1>5, <1>6
<1>8. counted' \subseteq counted /\ \A w \in counted' : worker'[w].state = worker[w].state
  <2>1. \A w \in counted' : w \in Workers /\ worker'[w].pc = "running" /\ row'[worker'[w].job].state # "cancelled"
    BY DEF counted, executing, Undisturbed, onDuty
  <2> QED
    BY <1>7, <2>1 DEF counted, executing
<1>9. \A j \in Jobs : live(j)' => live(j)
  <2>1. CASE \E v \in Workers : Renew(v)
    BY <2>1, RunsBeyondBeat DEF Renew, live, TypeOK
  <2>2. CASE \E v \in Workers : Release(v)
    BY <2>2 DEF Release, live, TypeOK, NoLease
  <2>3. CASE Tick
    <3>1. \A j \in Jobs : lease[j].left \in Nat /\ lease'[j].left = before(lease[j].left)
      BY <2>3, QueueAssumption DEF Tick, TypeOK
    <3> QED
      BY <3>1 DEF live, before
  <2>4. CASE UNCHANGED lease
    BY <2>4 DEF live
  <2> QED
    BY <2>1, <2>2, <2>3, <2>4 DEF PhaseEnds, PhaseInterrupted, PhaseChangesNothing, phaseReturns, Crash, DeadlineNears, CancelJob, vars
<1>10. IsFiniteSet({j \in Jobs : live(j)}')
  <2>1. {j \in Jobs : live(j)}' \subseteq {j \in Jobs : live(j)}
    BY <1>9
  <2> QED
    BY <2>1, FS_Subset DEF FitInv
<1> QED
  BY <1>8, <1>10, FewerFit DEF FitInv

(* What the processes execute fits the host: for any jobs and processes and *)
(* any lease that outlives a heartbeat, as long as nobody stalled or failed, *)
(* whoever died and whatever rows move while they are leased.               *)
THEOREM FitsForAll ==
  ASSUME LeaseOutlivesBeat
  PROVE  Spec => []ExecutionFits
<1> DEFINE Inv == lapses = 0 => Undisturbed /\ FitInv
<1>1. Init => Inv
  <2> SUFFICES ASSUME Init PROVE Undisturbed /\ FitInv
    OBVIOUS
  <2>1. Undisturbed
    BY InitUndisturbed
  <2>2. counted = {} /\ {j \in Jobs : live(j)} = {}
    BY DEF Init, counted, executing, live, Idle, NoLease
  <2>3. sumsFit
    <3>1. IsFiniteSet({}) /\ \A f : SumFunctionOnSet(f, {}) = 0
      BY FS_EmptySet, SumsAddUp DEF AddsUp
    <3>2. \A f : DOMAIN f = {} => SumFunction(f) = 0
      BY <3>1, SumsAreOver
    <3>3. /\ SumFunction([w \in counted |-> need(w).memory]) = 0
          /\ SumFunction([w \in counted |-> need(w).cores]) = 0
      BY <2>2, <3>2
    <3> QED
      BY <3>3 DEF sumsFit, DefaultTopology
  <2> QED
    BY <2>1, <2>2, <2>3, FS_EmptySet DEF FitInv
<1>2. TypeOK /\ Inv /\ [Next]_vars => Inv'
  <2> SUFFICES ASSUME TypeOK, Inv, [Next]_vars, lapses' = 0 PROVE Undisturbed' /\ FitInv'
    OBVIOUS
  <2> QED
    BY LapsesStay, NobodyLapsed, AcquireFits, OthersFit
<1>3. Inv => ExecutionFits
  BY DEF FitInv, sumsFit, ExecutionFits
<1> QED
  BY <1>1, <1>2, <1>3, TypeCorrect, PTL DEF Spec

=============================================================================
