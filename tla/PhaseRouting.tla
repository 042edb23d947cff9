---------------------------- MODULE PhaseRouting ----------------------------
(***************************************************************************)
(* What a phase may answer and where the engine sends the job then: the    *)
(* outcomes of internal/workflow/coordinator.go (Coordinator.Execute and   *)
(* the phases it calls) and the routing of internal/workflow/engine.go     *)
(* (nextState).  An outcome that names no state takes the default route.   *)
(***************************************************************************)
EXTENDS JobStates, Naturals

CONSTANTS
  MaxReviewCycles,    \* the coordinator's maxReviewCycles
  RemoteModels        \* some call is routed to a remote model that needs approval

ASSUME RoutingAssumption == MaxReviewCycles \in 1..10 /\ RemoteModels \in BOOLEAN

(* Phases that call a model, and so reserve tokens before they run. *)
TokenPhases == {"implementing", "test_design_review", "documentation_review",
                "policy_review", "qc_review", "repairing"}

defaultNext ==
  [ queued                       |-> "syncing",
    syncing                      |-> "creating_worktree",
    creating_worktree            |-> "preparing_dependencies",
    preparing_dependencies       |-> "locking_acceptance_criteria",
    locking_acceptance_criteria  |-> "awaiting_task_approval",
    loading_implementation_model |-> "reproducing",
    reproducing                  |-> "implementing",
    implementing                 |-> "verifying_targeted",
    verifying_targeted           |-> "verifying_full",
    verifying_full               |-> "loading_qc_model",
    loading_test_designer_model  |-> "test_design_review",
    test_design_review           |-> "golden_rehearsal_review",
    golden_rehearsal_review      |-> "loading_documentation_model",
    awaiting_golden_approval     |-> "loading_documentation_model",
    loading_documentation_model  |-> "documentation_review",
    documentation_review         |-> "policy_review",
    policy_review                |-> "loading_qc_model",
    loading_qc_model             |-> "qc_review",
    qc_review                    |-> "awaiting_operator",
    awaiting_repair              |-> "repairing",
    repairing                    |-> "final_verification",
    final_verification           |-> "loading_documentation_model",
    publishing_branch            |-> "draft_pr_created",
    draft_pr_created             |-> "completed" ]

NoRoute == "none"              \* the empty NextState, and nextState's error

Outcome == [needsRepair : BOOLEAN, nextState : State \union {NoRoute}]

Default == [needsRepair |-> FALSE, nextState |-> NoRoute]
Repair  == [needsRepair |-> TRUE,  nextState |-> NoRoute]
To(s)   == [needsRepair |-> FALSE, nextState |-> s]

(* remoteEgressApprovalOutcome: a remote model call that needs approval. *)
egressOutcomes ==
  IF RemoteModels THEN {To("awaiting_remote_egress_approval")} ELSE {}

(* requiredVerification: only the full and the final suites name a route. *)
fullRoutes == {To("loading_test_designer_model"), To("golden_rehearsal_review"),
               To("loading_documentation_model")}

(* review: blocking findings ask for a repair until the cycles are used up. *)
qcOutcomes(cycle) ==
  {Default} \union egressOutcomes
    \union (IF cycle + 1 < MaxReviewCycles THEN {Repair} ELSE {})

(* What Execute may return for a job in state s; {} is "no implementation". *)
Outcomes(s, cycle) ==
  CASE s = "implementing"            -> {Default} \union egressOutcomes
    [] s = "verifying_full"          -> fullRoutes
    [] s = "test_design_review"      ->
         {Default, To("awaiting_test_design_disposition"),
          To("golden_rehearsal_review")} \union egressOutcomes
    [] s = "golden_rehearsal_review" ->
         {To("awaiting_golden_approval"), To("loading_documentation_model")}
    [] s = "documentation_review"    -> {Default} \union egressOutcomes
    [] s = "policy_review"           -> {To("loading_qc_model")}
    [] s = "qc_review"               -> qcOutcomes(cycle)
    [] s = "repairing"               -> {Default} \union egressOutcomes
    [] s = "final_verification"      -> {To("loading_documentation_model")}
    [] s \in {"queued", "syncing", "creating_worktree", "preparing_dependencies",
              "locking_acceptance_criteria", "loading_implementation_model",
              "reproducing", "verifying_targeted", "loading_test_designer_model",
              "loading_documentation_model", "loading_qc_model", "awaiting_repair",
              "publishing_branch", "draft_pr_created"} -> {Default}
    [] OTHER -> {}

(* The review_cycle a completed phase writes: a finished repair adds one. *)
CycleAfter(s, o, cycle) ==
  IF s = "repairing" /\ o = Default THEN cycle + 1 ELSE cycle

legalOrNone(s, to) == IF CanTransition(s, to) THEN to ELSE NoRoute

nextState(s, o) ==
  IF o.needsRepair THEN legalOrNone(s, "awaiting_repair")
  ELSE IF o.nextState # NoRoute THEN legalOrNone(s, o.nextState)
  ELSE IF s \in DOMAIN defaultNext THEN defaultNext[s]
  ELSE NoRoute

=============================================================================
