---------------------------- MODULE FindingRules ----------------------------
(***************************************************************************)
(* The lifecycle of a finding: internal/findings/types.go, and what one    *)
(* report does to the findings of a job (ObserveFindings of                *)
(* internal/storage/sqlite/findings.go).                                   *)
(***************************************************************************)
EXTENDS Naturals

CONSTANTS
  Findings,       \* finding IDs, numbers in the order the store lists them
  Blocking,       \* those of severity blocker or must_fix
  Late            \* those of a category that is allowed after a repair

Status == {"open", "fixed", "verified", "closed", "disputed", "accepted", "rejected",
           "human_waived"}

Unseen == [status |-> "none", version |-> 0, seen |-> 0]

(* A row of qc_findings: seen is last_seen_cycle. *)
Finding == [status : Status \union {"none"}, version : Nat, seen : Nat]

findingEdges ==
  {<<"open", "fixed">>, <<"open", "disputed">>, <<"open", "human_waived">>,
   <<"fixed", "verified">>, <<"fixed", "open">>,
   <<"verified", "closed">>, <<"verified", "open">>,
   <<"disputed", "accepted">>, <<"disputed", "rejected">>,
   <<"accepted", "closed">>, <<"rejected", "open">>, <<"human_waived", "closed">>}

(* Mutant of CanTransitionFinding: what is closed can be disputed.          *)
CanReopenFinding(from, to) == <<from, to>> \in findingEdges \union {<<"closed", "disputed">>}

CanTransitionFinding(from, to) == <<from, to>> \in findingEdges

(* A report is refused as a whole when it brings a new blocking finding     *)
(* after a repair that is neither a regression, nor new evidence, nor about *)
(* the documentation, or when the review cycle went backwards.              *)
reportAccepted(findings, report, cycle) ==
  \A f \in report :
    IF findings[f] = Unseen
    THEN cycle > 0 /\ f \in Blocking => f \in Late
    ELSE cycle >= findings[f].seen

(* A new finding is open; one already known keeps its status.               *)
observed(findings, report, cycle) ==
  [f \in Findings |->
    IF f \notin report THEN findings[f]
    ELSE [status  |-> IF findings[f] = Unseen THEN "open" ELSE findings[f].status,
          version |-> findings[f].version + 1,
          seen    |-> cycle]]

transitioned(findings, f, to) ==
  [findings EXCEPT ![f] = [status |-> to, version |-> @.version + 1, seen |-> @.seen]]

(* ApprovePublication counts these.                                         *)
unresolved(findings, f) ==
  f \in Blocking /\ findings[f].status \notin {"none", "closed", "human_waived", "accepted"}

=============================================================================
