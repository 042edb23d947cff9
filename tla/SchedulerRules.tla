--------------------------- MODULE SchedulerRules ---------------------------
(***************************************************************************)
(* The rules of internal/scheduler/types.go: how much of the host a phase  *)
(* needs, how urgent a job is and which of two jobs goes first.            *)
(*                                                                         *)
(* Memory is counted in GiB.  Deadlines are kept as the time left; the     *)
(* unit is a constant of the caller, with the code's thresholds in it.     *)
(***************************************************************************)
EXTENDS Integers, FiniteSets, FiniteSetsExt, Functions

CONSTANTS
  QuarterHour,    \* deadlineScore's first threshold, in the caller's unit
  Hour            \* and its second

ASSUME ThresholdAssumption ==
  QuarterHour \in Nat /\ Hour \in Nat /\ QuarterHour <= Hour

(* A job submitted without a deadline: DeadlineAt.IsZero().                 *)
NoDeadline == -1

profile(cores, memory, model) == [cores |-> cores, memory |-> memory, model |-> model]

DefaultProfiles ==
  [ controller_reserved      |-> profile(2, 4, ""),
    controller_workflow      |-> profile(2, 2, ""),
    dependency_preparation   |-> profile(4, 8, ""),
    verification_offline     |-> profile(8, 16, ""),
    implementation_inference |-> profile(16, 48, "implementation"),
    qc_inference             |-> profile(16, 48, "qc"),
    documentation_inference  |-> profile(12, 32, "documentation"),
    test_designer_inference  |-> profile(12, 32, "test_designer") ]

DefaultTopology == [cores |-> 88, memory |-> 128, reserved |-> 16]

ProfileIDForState(state) ==
  CASE state = "preparing_dependencies" -> "dependency_preparation"
    [] state \in {"reproducing", "verifying_targeted", "verifying_full",
                  "final_verification", "golden_rehearsal_review"}
         -> "verification_offline"
    [] state \in {"loading_implementation_model", "implementing", "repairing"}
         -> "implementation_inference"
    [] state \in {"loading_test_designer_model", "test_design_review"}
         -> "test_designer_inference"
    [] state \in {"loading_documentation_model", "documentation_review"}
         -> "documentation_inference"
    [] state \in {"loading_qc_model", "qc_review"} -> "qc_inference"
    [] OTHER -> "controller_workflow"

ModelOf(item) == DefaultProfiles[item.profile].model

(* left: time to the deadline; total: from the job's creation to it.        *)
PriorityForDeadline(left, total) ==
  IF left = NoDeadline THEN 100
  ELSE IF total <= 0 \/ left <= 0 THEN 1000
  ELSE IF left <= total \div 10 THEN 800
  ELSE IF left <= total \div 4 THEN 500
  ELSE 100

deadlineScore(left) ==
  IF left = NoDeadline THEN 0
  ELSE IF left <= 0 THEN 4
  ELSE IF left <= QuarterHour THEN 3
  ELSE IF left <= Hour THEN 2
  ELSE 1

-----------------------------------------------------------------------------
(* Items are records [job, project, profile, priority, created, left].      *)

lessUrgency(a, b) ==
  LET ua == deadlineScore(a.left)
      ub == deadlineScore(b.left)
  IN  \/ ua > ub
      \/ ua = ub /\ a.priority > b.priority
      \/ ua = ub /\ a.priority = b.priority /\ a.created < b.created

(* The comparator of sortQueue: a goes before b.                            *)
less(mode, a, b) ==
  IF mode = "throughput_batching" /\ ModelOf(a) # "" /\ ModelOf(a) = ModelOf(b)
    THEN a.priority > b.priority
    ELSE lessUrgency(a, b)

memoryOf(items) == SumFunction([i \in items |-> DefaultProfiles[i.profile].memory])
coresOf(items) == SumFunction([i \in items |-> DefaultProfiles[i.profile].cores])

(* What the host has left beside the controller and the active items.       *)
availableMemory(active) ==
  DefaultTopology.memory - DefaultTopology.reserved - memoryOf(active)
availableCores(active) == DefaultTopology.cores - coresOf(active)

exhausted(active) == availableMemory(active) <= 0 \/ availableCores(active) <= 0

(* Fairness: one active job per project.                                    *)
projectBusy(item, active) == \E a \in active : a.project = item.project

fits(item, active) ==
  /\ DefaultProfiles[item.profile].memory <= availableMemory(active)
  /\ DefaultProfiles[item.profile].cores <= availableCores(active)

=============================================================================
