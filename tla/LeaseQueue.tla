----------------------------- MODULE LeaseQueue -----------------------------
(***************************************************************************)
(* The durable job queue: workers (internal/queue/worker.go) that lease,   *)
(* process and release one job at a time over the transactions of          *)
(* internal/storage/sqlite (scheduler.go, store.go), which let the         *)
(* scheduler choose the job.                                               *)
(*                                                                         *)
(* Timestamps are kept as the time left until them.  Leases live for       *)
(* seconds and deadlines for hours, so the two clocks run apart: Tick for  *)
(* leases, DeadlineNears for deadlines.  A phase is one step of            *)
(* processing; JobEngine models what happens inside.                       *)
(*                                                                         *)
(* Every controller writes the same owner ID into its leases (main.go), so  *)
(* the checks of the owner in RenewJobLease and ReleaseJobLease tell a row  *)
(* that is there from one that is not, and no process from another.         *)
(***************************************************************************)
EXTENDS SchedulerRules, JobStates

CONSTANTS
  Jobs,           \* numbered in the order of their creation
  Workers,        \* controller processes
  OwnerID,        \* what all of them call themselves: "controller-workflow"
  NoOwner, NoWorker,
  Project,        \* Project[j] is the project of job j
  LeaseTTL,       \* in ticks
  CandidateLimit, \* the LIMIT of schedulerCandidateJobs
  MaxWallTime,    \* a job's time from its creation to its deadline
  Visited,        \* bound: the states jobs are followed through
  MaxCancels,     \* bound: jobs a person cancels
  MaxCrashes,     \* bound: processes that die
  MaxLapses       \* bound: processes that stall, heartbeats that fail

ASSUME QueueAssumption ==
  /\ Jobs \subseteq Nat
  /\ NoOwner # OwnerID /\ NoWorker \notin Workers
  /\ Jobs # {} /\ Visited \subseteq State
  /\ LeaseTTL \in Nat \ {0}
  /\ MaxWallTime \in Nat
  /\ MaxCancels \in Nat
  /\ MaxCrashes \in Nat
  /\ MaxLapses \in Nat

VARIABLES
  row,            \* [state, version] of each job
  left,           \* time to each job's deadline
  lease,          \* [owner, left] of each job; without an owner there is no row
  worker,         \* what each worker does
  holder,         \* the worker that acquired each job last (not stored)
  cancels, crashes, lapses

vars == <<row, left, lease, worker, holder, cancels, crashes, lapses>>

Pcs == {"idle", "running", "cancelled", "ended"}

(* A worker holds the job it was given, the state and version it was in,    *)
(* whether the deadline had passed by then, and the ticks to its heartbeat. *)
Worker ==
  [pc : Pcs, job : Jobs, state : State, version : Nat, late : BOOLEAN,
   beat : 0..LeaseTTL, stalled : BOOLEAN]

TypeOK ==
  /\ row \in [Jobs -> [state : State, version : Nat]]
  /\ left \in [Jobs -> 0..MaxWallTime]
  /\ lease \in [Jobs -> [owner : {OwnerID, NoOwner}, left : 0..LeaseTTL]]
  /\ worker \in [Workers -> Worker]
  /\ holder \in [Jobs -> Workers \union {NoWorker}]
  /\ cancels \in Nat
  /\ crashes \in Nat
  /\ lapses \in Nat

NoLease == [owner |-> NoOwner, left |-> 0]

Idle == [pc |-> "idle", job |-> CHOOSE j \in Jobs : TRUE, state |-> "queued",
         version |-> 0, late |-> FALSE, beat |-> 0, stalled |-> FALSE]

(* The queue starts over a database in which jobs are anywhere.             *)
Init ==
  /\ row \in [Jobs -> [state : Visited, version : {1}]]
  /\ left = [j \in Jobs |-> MaxWallTime]
  /\ lease = [j \in Jobs |-> NoLease]
  /\ worker = [w \in Workers |-> Idle]
  /\ holder = [j \in Jobs |-> NoWorker]
  /\ cancels = 0
  /\ crashes = 0
  /\ lapses = 0

-----------------------------------------------------------------------------
(* The store *)

live(j) == lease[j].left > 0

expired(j) == left[j] = 0

item(j) ==
  [job |-> j, project |-> Project[j], profile |-> ProfileIDForState(row[j].state),
   priority |-> PriorityForDeadline(left[j], MaxWallTime), created |-> j, left |-> left[j]]

active == {item(j) : j \in {k \in Jobs : live(k)}}

unleased == {j \in Jobs : Resumable(row[j].state) /\ ~live(j)}

candidateJobs ==
  {j \in unleased : Cardinality({k \in unleased : k < j}) < CandidateLimit}

(* Mutants of runnable: same-project jobs run side by side; the memory of   *)
(* the host is not looked at.                                               *)
runnableUnfair(j) == fits(item(j), active)
runnableAnywhere(j) == ~projectBusy(item(j), active)

runnable(j) == ~projectBusy(item(j), active) /\ fits(item(j), active)

(* Simulate selects the first job in the order of sortQueue that may run    *)
(* (see Scheduler); creation times are distinct, so there is one.           *)
selected ==
  {j \in candidateJobs :
     /\ ~exhausted(active)
     /\ runnable(j)
     /\ \A k \in candidateJobs : runnable(k) => ~lessUrgency(item(k), item(j))}

-----------------------------------------------------------------------------
(* The worker.  A stalled process does nothing until it wakes up.           *)

awake(w, pc) == worker[w].pc = pc /\ ~worker[w].stalled

goto(w, pc) == worker' = [worker EXCEPT ![w].pc = pc]

(* Mutant of interval: the heartbeat comes once per lease.                   *)
oncePerLease == LeaseTTL

interval == IF LeaseTTL \div 3 < 1 THEN 1 ELSE LeaseTTL \div 3

(* AcquireJobLease: selection and lease commit together.                    *)
Acquire(w) ==
  /\ awake(w, "idle")
  /\ \E j \in selected :
       /\ lease' = [lease EXCEPT ![j] = [owner |-> OwnerID, left |-> LeaseTTL]]
       /\ holder' = [holder EXCEPT ![j] = w]
       /\ worker' = [worker EXCEPT ![w] =
            [pc |-> "running", job |-> j, state |-> row[j].state,
             version |-> row[j].version, late |-> expired(j),
             beat |-> interval, stalled |-> FALSE]]
  /\ UNCHANGED <<row, left, cancels, crashes, lapses>>

owns(w) == lease[worker[w].job].owner = OwnerID

(* RenewJobLease found its row, unexpired.                                  *)
Renew(w) ==
  /\ awake(w, "running")
  /\ worker[w].beat = 0
  /\ owns(w)
  /\ live(worker[w].job)
  /\ lease' = [lease EXCEPT ![worker[w].job].left = LeaseTTL]
  /\ worker' = [worker EXCEPT ![w].beat = interval]
  /\ UNCHANGED <<row, left, holder, cancels, crashes, lapses>>

heartbeatLost(w) ==
  /\ awake(w, "running")
  /\ worker[w].beat = 0
  /\ ~(owns(w) /\ live(worker[w].job))
  /\ UNCHANGED <<row, left, lease, holder, cancels, crashes, lapses>>

LoseHeartbeat(w) == heartbeatLost(w) /\ goto(w, "cancelled")

(* Any other error of the query cancels the processor as well.              *)
HeartbeatFails(w) ==
  /\ awake(w, "running")
  /\ worker[w].beat = 0
  /\ lapses < MaxLapses
  /\ lapses' = lapses + 1
  /\ goto(w, "cancelled")
  /\ UNCHANGED <<row, left, lease, holder, cancels, crashes>>

unmoved(w) == row[worker[w].job].version = worker[w].version

moveRow(j, to) ==
  /\ CanTransition(row[j].state, to)
  /\ to \in Visited \union {"failed", "cancelled"}
  /\ row' = [row EXCEPT ![j] = [state |-> to, version |-> @.version + 1]]

phaseReturns(w) ==
  /\ goto(w, "ended")
  /\ UNCHANGED <<left, lease, holder, cancels, crashes, lapses>>

(* The phase completes, or fails, and the row moves.                        *)
PhaseEnds(w) ==
  /\ awake(w, "running")
  /\ ~expired(worker[w].job)
  /\ unmoved(w)
  /\ \E to \in State \ {"cancelled"} : moveRow(worker[w].job, to)
  /\ phaseReturns(w)

(* A phase whose context ends is recorded as failed.                        *)
PhaseInterrupted(w) ==
  /\ \/ awake(w, "cancelled")
     \/ awake(w, "running") /\ expired(worker[w].job)
  /\ ~worker[w].late
  /\ unmoved(w)
  /\ moveRow(worker[w].job, "failed")
  /\ phaseReturns(w)

(* It returns an error and leaves the row alone when its deadline had       *)
(* passed before it began, when its context ended while it committed, or    *)
(* when somebody moved the row.                                             *)
PhaseChangesNothing(w) ==
  /\ \/ awake(w, "cancelled")
     \/ awake(w, "running") /\ (expired(worker[w].job) \/ ~unmoved(w))
  /\ phaseReturns(w)
  /\ UNCHANGED row

(* ReleaseJobLease deletes the lease of this owner, if there is one.        *)
Release(w) ==
  /\ awake(w, "ended")
  /\ lease' = IF owns(w) THEN [lease EXCEPT ![worker[w].job] = NoLease] ELSE lease
  /\ worker' = [worker EXCEPT ![w] = Idle]
  /\ UNCHANGED <<row, left, holder, cancels, crashes, lapses>>

(* The process dies, and another one starts; or the release failed, and the *)
(* lease is left to expire.                                                 *)
Crash(w) ==
  /\ worker[w].pc # "idle"
  /\ crashes < MaxCrashes
  /\ crashes' = crashes + 1
  /\ worker' = [worker EXCEPT ![w] = Idle]
  /\ UNCHANGED <<row, left, lease, holder, cancels, lapses>>

Stall(w) ==
  /\ worker[w].pc # "idle"
  /\ ~worker[w].stalled
  /\ lapses < MaxLapses
  /\ lapses' = lapses + 1
  /\ worker' = [worker EXCEPT ![w].stalled = TRUE]
  /\ UNCHANGED <<row, left, lease, holder, cancels, crashes>>

Wake(w) ==
  /\ worker[w].stalled
  /\ worker' = [worker EXCEPT ![w].stalled = FALSE]
  /\ UNCHANGED <<row, left, lease, holder, cancels, crashes, lapses>>

-----------------------------------------------------------------------------
(* The world *)

before(n) == IF n = 0 THEN 0 ELSE n - 1

(* Time passes.  A process that is not stalled gets its heartbeat in, and   *)
(* its release follows the end of the phase at once.                        *)
Tick ==
  /\ \A w \in Workers :
       (awake(w, "running") => worker[w].beat > 0) /\ ~awake(w, "ended")
  /\ \/ \E j \in Jobs : live(j)
     \/ \E w \in Workers : worker[w].beat > 0
  /\ lease' = [j \in Jobs |-> [lease[j] EXCEPT !.left = before(@)]]
  /\ worker' = [w \in Workers |-> [worker[w] EXCEPT !.beat = before(@)]]
  /\ UNCHANGED <<row, left, holder, cancels, crashes, lapses>>

DeadlineNears(j) ==
  /\ left[j] > 0
  /\ left' = [left EXCEPT ![j] = @ - 1]
  /\ UNCHANGED <<row, lease, worker, holder, cancels, crashes, lapses>>

(* A person cancels a job; nobody tells the worker that processes it.       *)
CancelJob(j) ==
  /\ cancels < MaxCancels
  /\ cancels' = cancels + 1
  /\ moveRow(j, "cancelled")
  /\ UNCHANGED <<left, lease, worker, holder, crashes, lapses>>

Work(w) ==
  \/ Acquire(w) \/ Renew(w) \/ LoseHeartbeat(w) \/ HeartbeatFails(w)
  \/ PhaseEnds(w) \/ PhaseInterrupted(w) \/ PhaseChangesNothing(w) \/ Release(w)

Next ==
  \/ \E w \in Workers : Work(w) \/ Crash(w) \/ Stall(w) \/ Wake(w)
  \/ Tick
  \/ \E j \in Jobs : DeadlineNears(j) \/ CancelJob(j)

Spec == Init /\ [][Next]_vars

(* A worker polls, its heartbeat is a goroutine of its own, every phase has *)
(* a time limit in the runner or the model client, a stalled process goes   *)
(* on, and time passes.                                                     *)
ServingSpec ==
  /\ Spec
  /\ WF_vars(Tick)
  /\ \A w \in Workers :
       /\ WF_vars(Acquire(w))
       /\ WF_vars(Renew(w) \/ LoseHeartbeat(w))
       /\ WF_vars(PhaseEnds(w) \/ PhaseInterrupted(w) \/ PhaseChangesNothing(w))
       /\ WF_vars(Release(w))
       /\ WF_vars(Wake(w))

-----------------------------------------------------------------------------
(* Properties *)

executing(w) == worker[w].pc \in {"running", "cancelled"}

(* As long as no process stalled past its heartbeat and none failed, no job  *)
(* is executed by two processes, whoever died with it and however late they  *)
(* take it over: the heartbeat renews a lease before it expires.             *)
ExecutesAlone ==
  lapses = 0 =>
    \A v, w \in Workers :
      executing(v) /\ executing(w) /\ worker[v].job = worker[w].job => v = w

(* No two live leases belong to one project, whatever expired, was taken    *)
(* over or moved since they were granted (the fairness window).             *)
ProjectsApart ==
  \A j, k \in Jobs : live(j) /\ live(k) /\ Project[j] = Project[k] => j = k

(* As long as no process stalled or failed, what the workers execute at the *)
(* same time fits the host beside the controller's reservation, although    *)
(* rows move while they are leased and processes die (Simulate over the     *)
(* active leases).  A job cancelled under its worker is left out: the store *)
(* counts it with the profile of its new state.                            *)
counted == {w \in Workers : executing(w) /\ row[worker[w].job].state # "cancelled"}

need(w) == DefaultProfiles[ProfileIDForState(worker[w].state)]

ExecutionFits ==
  lapses = 0 =>
    /\ SumFunction([w \in counted |-> need(w).memory]) <= DefaultTopology.memory - DefaultTopology.reserved
    /\ SumFunction([w \in counted |-> need(w).cores]) <= DefaultTopology.cores

(* No time passes while a process that is awake executes a job another one  *)
(* has taken over: its heartbeat is due by then and cancels the processor   *)
(* (the comment of Worker).  The heartbeat finds the lease of the other one *)
(* under the owner ID they share, renews it, and both go on.                *)
TakeoverEndsExecution ==
  [][Tick => \A w \in Workers :
       awake(w, "running") => holder[worker[w].job] = w]_vars

(* A job whose deadline passes is recorded as failed, and not left to be     *)
(* leased again before all others, the most urgent of which it is: an       *)
(* engine that is given the job later finds its context ended before it has *)
(* read the row (Engine.Step under the context of main.go).                 *)
ExpiredJobsFail ==
  \A j \in Jobs : expired(j) ~> ~Resumable(row[j].state)

=============================================================================
