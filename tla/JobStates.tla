------------------------------ MODULE JobStates ------------------------------
(***************************************************************************)
(* The durable job state machine of internal/jobs/state.go: the states a   *)
(* job row can hold, the table of edges between them, and the predicates   *)
(* the controller derives from the two.  State names are those stored in   *)
(* the jobs table.                                                         *)
(***************************************************************************)

(* Every state but the last ones of the table may also be cancelled or fail. *)
orStopped(S) == S \union {"cancelled", "failed"}

loadingAfterReview == {"loading_documentation_model", "loading_qc_model"}

transitions ==
  [ queued                      |-> orStopped({"syncing"}),
    syncing                     |-> orStopped({"creating_worktree"}),
    creating_worktree           |-> orStopped({"preparing_dependencies"}),
    preparing_dependencies      |-> orStopped({"locking_acceptance_criteria"}),
    locking_acceptance_criteria |-> orStopped({"awaiting_task_approval"}),
    awaiting_task_approval      |-> orStopped({"loading_implementation_model"}),
    loading_implementation_model |-> orStopped({"reproducing"}),
    reproducing                 |-> orStopped({"implementing"}),
    implementing                |->
      orStopped({"verifying_targeted", "awaiting_remote_egress_approval"}),
    verifying_targeted          |-> orStopped({"verifying_full", "awaiting_repair"}),
    verifying_full              |->
      orStopped(loadingAfterReview \union
        {"loading_test_designer_model", "golden_rehearsal_review", "awaiting_repair"}),
    loading_test_designer_model |-> orStopped({"test_design_review"}),
    test_design_review          |->
      orStopped(loadingAfterReview \union
        {"awaiting_test_design_disposition", "golden_rehearsal_review",
         "awaiting_remote_egress_approval"}),
    awaiting_test_design_disposition |->
      orStopped(loadingAfterReview \union {"golden_rehearsal_review"}),
    golden_rehearsal_review     |->
      orStopped(loadingAfterReview \union {"awaiting_golden_approval"}),
    awaiting_golden_approval    |-> orStopped(loadingAfterReview),
    awaiting_remote_egress_approval |->
      orStopped(loadingAfterReview \union
        {"implementing", "test_design_review", "documentation_review",
         "qc_review", "repairing"}),
    loading_documentation_model |-> orStopped({"documentation_review"}),
    documentation_review        |->
      orStopped({"policy_review", "loading_qc_model", "awaiting_remote_egress_approval"}),
    policy_review               |-> orStopped({"loading_qc_model"}),
    loading_qc_model            |-> orStopped({"qc_review"}),
    qc_review                   |->
      orStopped({"awaiting_repair", "awaiting_operator", "awaiting_remote_egress_approval"}),
    awaiting_repair             |-> orStopped({"repairing", "awaiting_operator"}),
    repairing                   |->
      orStopped({"final_verification", "awaiting_remote_egress_approval"}),
    final_verification          |->
      orStopped(loadingAfterReview \union {"policy_review", "awaiting_repair"}),
    awaiting_operator           |-> orStopped({"publishing_branch", "completed"}),
    publishing_branch           |-> {"draft_pr_created", "awaiting_operator", "failed"},
    draft_pr_created            |-> {"completed", "failed"},
    failed                      |-> {"queued"},
    cancelled                   |-> {"queued"},
    completed                   |-> {} ]

State == DOMAIN transitions

(* States in which only a person moves the job on. *)
Gates == {"awaiting_task_approval", "awaiting_test_design_disposition",
          "awaiting_golden_approval", "awaiting_remote_egress_approval",
          "awaiting_operator"}

Terminal(s) == s \in {"completed", "failed", "cancelled"}

(* Mutant of Resumable: one gate is forgotten.                              *)
ResumableAtGoldens(s) ==
  s \in State /\ ~Terminal(s) /\ s \notin Gates \ {"awaiting_golden_approval"}

Resumable(s) == s \in State /\ ~Terminal(s) /\ s \notin Gates

(* CanTransition is also ValidateTransition: the store refuses what the      *)
(* table does not hold, and the table holds only known states.              *)
CanTransition(from, to) == from \in State /\ to \in transitions[from]

=============================================================================
