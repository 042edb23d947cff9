------------------------------ MODULE Scheduler ------------------------------
(***************************************************************************)
(* scheduler.Simulate, internal/scheduler/types.go: one decision over the  *)
(* jobs that run and the jobs that wait.  It is a pure function; the       *)
(* request is drawn from bounded inputs, then decided in one step.         *)
(***************************************************************************)
EXTENDS SchedulerRules, SequencesExt

CONSTANTS
  Projects, Profiles, Priorities, Lefts,    \* what items are drawn from
  MaxQueued,      \* bound: waiting jobs in a request
  MaxActive       \* bound: running jobs in a request

ASSUME SchedulerAssumption ==
  /\ Profiles \subseteq DOMAIN DefaultProfiles
  /\ Priorities \subseteq Nat /\ Lefts \subseteq Int
  /\ MaxQueued \in Nat /\ MaxActive \in Nat

VARIABLES request, decision

schedulerVars == <<request, decision>>

Modes == {"quality_latency", "throughput_batching"}

Items(i) ==
  [job : {i}, project : Projects, profile : Profiles, priority : Priorities,
   created : {i}, left : Lefts]

Queues == UNION {{q \in [1..n -> UNION {Items(i) : i \in 1..n}] :
                    \A i \in 1..n : q[i].job = i} : n \in 0..MaxQueued}

(* Of a running job Simulate reads the project and the profile.             *)
Running == [project : Projects, profile : Profiles]

(* Without the maintenance window Simulate reads nothing of what runs: one  *)
(* case stands for all.                                                    *)
Requests ==
  {r \in [mode : Modes, maintenance : BOOLEAN, fairness : {0, 1},
          active : {a \in SUBSET Running : Cardinality(a) <= MaxActive}, queued : Queues] :
     ~r.maintenance => r.active = {}}

Undecided == [status |-> "none", selected |-> 0, deferred |-> <<>>,
              fairness |-> FALSE, safe |-> TRUE]

SchedulerTypeOK ==
  /\ request \in Requests
  /\ decision \in [status : {"none", "scheduled", "deferred"}, selected : 0..MaxQueued,
                   deferred : Seq(1..MaxQueued), fairness : BOOLEAN, safe : BOOLEAN]

-----------------------------------------------------------------------------

(* Mutant of insert: each item stays where it is put.                        *)
append(sorted, x, mode) == Append(sorted, x)

(* sort.SliceStable sorts up to twenty items by insertion: each moves left  *)
(* as long as it goes before its neighbour.                                 *)
insert(sorted, x, mode) ==
  LET k == Max({0} \union {i \in DOMAIN sorted : ~less(mode, x, sorted[i])})
  IN  SubSeq(sorted, 1, k) \o <<x>> \o SubSeq(sorted, k + 1, Len(sorted))

sortQueue(items, mode) == FoldLeft(LAMBDA s, x : insert(s, x, mode), <<>>, items)

jobsOf(items) == [i \in DOMAIN items |-> items[i].job]

deferAll(items, isSafe) ==
  [status |-> "deferred", selected |-> 0, deferred |-> jobsOf(items),
   fairness |-> FALSE, safe |-> isSafe]

blocked(item, r) == r.fairness > 0 /\ projectBusy(item, r.active)

schedulable(item, r) == ~blocked(item, r) /\ fits(item, r.active)

Simulate(r) ==
  IF ~r.maintenance THEN deferAll(r.queued, TRUE)
  ELSE IF exhausted(r.active) THEN deferAll(r.queued, FALSE)
  ELSE LET candidates == sortQueue(r.queued, r.mode)
           open == {i \in DOMAIN candidates : schedulable(candidates[i], r)}
           stop == IF open = {} THEN Len(candidates) + 1 ELSE Min(open)
           passed == SubSeq(candidates, 1, stop - 1)
       IN  [status   |-> IF open = {} THEN "deferred" ELSE "scheduled",
            selected |-> IF open = {} THEN 0 ELSE candidates[stop].job,
            deferred |-> jobsOf(passed),
            fairness |-> \E i \in DOMAIN passed : blocked(passed[i], r),
            safe     |-> TRUE]

SchedulerInit == request \in Requests /\ decision = Undecided

Decide ==
  /\ decision = Undecided
  /\ decision' = Simulate(request)
  /\ UNCHANGED request

SchedulerNext == Decide

SchedulerSpec == SchedulerInit /\ [][SchedulerNext]_schedulerVars

-----------------------------------------------------------------------------
(* Properties *)

chosen == request.queued[decision.selected]

waiting == {request.queued[i] : i \in DOMAIN request.queued}

(* The sort and the scan agree with the plain definition: in the mode live  *)
(* leases use, the selected job may run and no job that may run goes before *)
(* it, in whatever order the queue was listed (sortQueue, Simulate).        *)
SelectsBest ==
  decision.status = "scheduled" /\ request.mode = "quality_latency"
    => /\ schedulable(chosen, request)
       /\ \A i \in waiting : schedulable(i, request) => ~lessUrgency(i, chosen)

=============================================================================
