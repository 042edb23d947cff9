----------------------------- MODULE QualityGates -----------------------------
(***************************************************************************)
(* The gates between the verification of a candidate and QC: the test      *)
(* designer, golden rehearsals, documentation and policy                   *)
(* (internal/workflow/coordinator.go, internal/testdesigner,               *)
(* internal/golden, their tables and handlers), for one job.  Reports,     *)
(* dispositions and approvals are append-only; a phase stores its report   *)
(* before it completes, and a person's decision is stored before the       *)
(* handler counts what is open and moves the job.                          *)
(***************************************************************************)
EXTENDS PolicyBundles, PhaseRouting, SequencesExt

CONSTANTS Proposals,      \* proposals of a report that wait for a disposition
          Rehearsals,     \* rehearsals of the capability packs
          UpdateRequests, \* those among them that ask for a changed golden
          People,         \* requests being served
          MaxReports,     \* bound: reports of each kind
          MaxFaults       \* bound: crashes and cancellations

ASSUME GatesAssumption ==
  /\ UpdateRequests \subseteq Rehearsals
  /\ MaxReports \in Nat /\ MaxFaults \in Nat

VARIABLES job,        \* state, version, result_sha, review_cycle of the row
          code,       \* history: the result of the last implementation or repair
          level,      \* the level of the newest risk assessment
          engine,     \* the phase being run: its row, whether it answered, where to
          tests,      \* test_designer_reports: result and pending proposals
          disposed,   \* test_designer_dispositions: <<report, proposal>>
          goldens,    \* golden_rehearsal_reports: result, changed, status
          approved,   \* <<report, comparison>> whose newest approval approves
          manifest,   \* status of the newest documentation manifest
          decision,   \* the newest policy decision
          request,    \* per person: the decision stored and how far the handler is
          faults

gateVars == <<job, code, level, engine, tests, disposed, goldens, approved,
              manifest, decision, request, faults>>
gatesVars == <<policyVars, gateVars>>

Idle == [at |-> "idle"]
Phase == {"verifying_full", "loading_test_designer_model", "test_design_review",
          "golden_rehearsal_review", "loading_documentation_model",
          "documentation_review", "policy_review", "loading_qc_model", "qc_review",
          "awaiting_repair", "repairing", "final_verification"}
BeyondPolicy == {"loading_qc_model", "qc_review", "awaiting_repair", "awaiting_operator"}
Fails == "failed"

(* What Report.Validate lets into test_designer_reports for a job of this    *)
(* level: only low risk is skipped, without proposals.  Proposals that are   *)
(* not pending need nobody and are left out.                                 *)
TestReports(risk) ==
  [result : Nat, pending : SUBSET (IF risk = "low" THEN {} ELSE Proposals)]

(* Golden reports as validated: a changed comparison asks for an approval.  *)
GoldenReports ==
  [result : Nat, changed : {{}}, status : {"passed", "no_rehearsals"}] \union
  [result : Nat, changed : (SUBSET UpdateRequests) \ {{}}, status : {"approval_required"}]

(* Reports are inserted and never updated; lists show the newest first.     *)
SaveTestDesignerReport(report) == tests' = Append(tests, report)
SaveGoldenReport(report) == goldens' = Append(goldens, report)

(* latestGoldenStatus: of the newest report; approvals do not change it.    *)
latestGolden == IF goldens = <<>> THEN "not_required" ELSE Last(goldens).status

GatesTypeOK ==
  /\ job \in [state : State, version : Nat, result : Nat, cycle : 0..(MaxReviewCycles - 1)]
  /\ code \in 0..job.result /\ level \in {"low", "medium", "high"}
  /\ engine = Idle \/
       (engine.at \in {"begun", "answered"} /\ engine.row.version <= job.version)
  /\ tests \in Seq(TestReports(level)) /\ Len(tests) <= MaxReports
  /\ disposed \subseteq (DOMAIN tests) \X Proposals
  /\ goldens \in Seq(GoldenReports) /\ Len(goldens) <= MaxReports
  /\ approved \subseteq (DOMAIN goldens) \X UpdateRequests
  /\ manifest \in {"missing", "passed", "changes_applied", "blocked"}
  /\ decision \in [result : Nat, allowed : BOOLEAN, bundle : Bundle \union {NoBundle}]
  /\ DOMAIN request = People /\ faults \in 0..MaxFaults
  /\ PolicyTypeOK

GatesInit ==
  /\ job = [state |-> "verifying_full", version |-> 1, result |-> 1, cycle |-> 0]
  /\ code = 1 /\ level \in {"low", "medium"}
  /\ engine = Idle /\ faults = 0
  /\ tests = <<>> /\ disposed = {} /\ goldens = <<>> /\ approved = {}
  /\ manifest = "missing"
  /\ decision = [result |-> 0, allowed |-> FALSE, bundle |-> NoBundle]
  /\ request = [h \in People |-> Idle]
  /\ PolicyInit

-----------------------------------------------------------------------------
(* The engine.                                                              *)

Begin ==
  /\ engine = Idle /\ job.state \in Phase
  /\ engine' = [at |-> "begun", row |-> job]
  /\ UNCHANGED <<policyVars, job, code, level, tests, disposed, goldens, approved,
                 manifest, decision, request, faults>>

in(state) == engine.at = "begun" /\ engine.row.state = state

answer(to, result) ==
  engine' = [at |-> "answered", row |-> engine.row, to |-> to, result |-> result]

(* Mutant of finalRoute: the other edge the table of states has.            *)
finalRouteToQC == "loading_qc_model"

(* A verified repair goes through documentation and policy again, but not   *)
(* through the test designer and the goldens.                               *)
finalRoute == "loading_documentation_model"

(* requiredVerification: where a verified candidate goes.  Packs may be     *)
(* assigned and released at any time, so whether rehearsals are registered  *)
(* is open.                                                                 *)
RouteVerified ==
  /\ \/ /\ in("verifying_full")
        /\ IF level = "low"
             THEN \E to \in {"golden_rehearsal_review", "loading_documentation_model"} :
                    answer(to, engine.row.result)
             ELSE answer("loading_test_designer_model", engine.row.result)
     \/ in("final_verification") /\ answer(finalRoute, engine.row.result)
  /\ UNCHANGED <<policyVars, job, code, level, tests, disposed, goldens, approved,
                 manifest, decision, request, faults>>

RunPlain ==
  /\ \E s \in {"loading_test_designer_model", "loading_documentation_model",
               "loading_qc_model", "awaiting_repair"} :
       in(s) /\ answer(defaultNext[s], engine.row.result)
  /\ UNCHANGED <<policyVars, job, code, level, tests, disposed, goldens, approved,
                 manifest, decision, request, faults>>

(* designTests: the report is stored, then the phase answers by what this   *)
(* report leaves pending.  Only low risk is skipped.                        *)
DesignTests ==
  /\ in("test_design_review") /\ Len(tests) < MaxReports
  /\ \E pending \in SUBSET (IF level = "low" THEN {} ELSE Proposals) :
       /\ SaveTestDesignerReport([result |-> engine.row.result, pending |-> pending])
       /\ answer(IF pending = {} THEN "golden_rehearsal_review"
                                 ELSE "awaiting_test_design_disposition", engine.row.result)
  /\ UNCHANGED <<policyVars, job, code, level, disposed, goldens, approved, manifest,
                 decision, request, faults>>

(* reviewGoldens and NewReport: a selected rehearsal matches unless it asks *)
(* for an update.                                                           *)
reportStatus(selected) ==
  CASE selected = {}                       -> "no_rehearsals"
    [] selected \cap UpdateRequests # {}   -> "approval_required"
    [] OTHER                               -> "passed"

ReviewGoldens ==
  /\ in("golden_rehearsal_review") /\ Len(goldens) < MaxReports
  /\ \E selected \in SUBSET Rehearsals :
       /\ SaveGoldenReport([result  |-> engine.row.result,
                            changed |-> selected \cap UpdateRequests,
                            status  |-> reportStatus(selected)])
       /\ answer(IF reportStatus(selected) = "approval_required"
                   THEN "awaiting_golden_approval" ELSE "loading_documentation_model",
                 engine.row.result)
  /\ UNCHANGED <<policyVars, job, code, level, tests, disposed, approved, manifest,
                 decision, request, faults>>

(* reviewDocumentation: the manifest is stored; blocked fails the phase,    *)
(* and so do declared changes of which there is no commit.  A commit,       *)
(* verified again, is the new result.                                       *)
ReviewDocumentation ==
  /\ in("documentation_review")
  /\ \E status \in {"passed", "changes_applied", "blocked"}, commits \in BOOLEAN :
       /\ manifest' = status
       /\ IF status = "blocked" \/ (~commits /\ status = "changes_applied")
          THEN answer(Fails, engine.row.result)
          ELSE answer("policy_review", engine.row.result + IF commits THEN 1 ELSE 0)
  /\ UNCHANGED <<policyVars, job, code, level, tests, disposed, goldens, approved,
                 decision, request, faults>>

(* EvaluateAndRecord: the active bundle decides, and the decision is        *)
(* recorded whatever it is.                                                 *)
EvaluateAndRecord(allowed) ==
  /\ allowed \in decisions(active, manifest, latestGolden)
  /\ decision' = [result |-> engine.row.result, allowed |-> allowed, bundle |-> active]

(* reviewPolicy: a denial is an error of the phase.                         *)
ReviewPolicy ==
  /\ in("policy_review")
  /\ \E allowed \in BOOLEAN :
       /\ EvaluateAndRecord(allowed)
       /\ answer(IF allowed THEN "loading_qc_model" ELSE Fails, engine.row.result)
  /\ UNCHANGED <<policyVars, job, code, level, tests, disposed, goldens, approved,
                 manifest, request, faults>>

repairsLeft(cycle) == cycle + 1 < MaxReviewCycles

(* review: QC passes the candidate on, or asks for a repair while there are *)
(* cycles left.                                                             *)
ReviewCandidate ==
  /\ in("qc_review")
  /\ \E to \in {"awaiting_operator"} \union
                 (IF repairsLeft(engine.row.cycle) THEN {"awaiting_repair"} ELSE {}) :
       answer(to, engine.row.result)
  /\ UNCHANGED <<policyVars, job, code, level, tests, disposed, goldens, approved,
                 manifest, decision, request, faults>>

RepairCandidate ==
  /\ in("repairing")
  /\ answer("final_verification", engine.row.result + 1)
  /\ UNCHANGED <<policyVars, job, code, level, tests, disposed, goldens, approved,
                 manifest, decision, request, faults>>

(* CompletePhase, or fail: both only over the row the phase began with.     *)
Complete ==
  /\ engine.at = "answered"
  /\ engine' = Idle
  /\ IF job = engine.row
       THEN /\ job' = [state   |-> engine.to, version |-> job.version + 1,
                       result  |-> engine.result,
                       cycle   |-> IF job.state = "repairing" THEN job.cycle + 1 ELSE job.cycle]
            /\ code' = IF job.state = "repairing" THEN engine.result ELSE code
       ELSE UNCHANGED <<job, code>>
  /\ UNCHANGED <<policyVars, level, tests, disposed, goldens, approved, manifest,
                 decision, request, faults>>

Crash ==
  /\ engine # Idle /\ faults < MaxFaults
  /\ engine' = Idle /\ faults' = faults + 1
  /\ UNCHANGED <<policyVars, job, code, level, tests, disposed, goldens, approved,
                 manifest, decision, request>>

-----------------------------------------------------------------------------
(* People.  A handler stores the decision, then counts, then moves the job. *)

(* SaveTestDesignerDisposition: any proposal of any report of the job.      *)
Dispose(h) ==
  /\ request[h] = Idle
  /\ \E i \in DOMAIN tests : \E p \in tests[i].pending :
       /\ disposed' = disposed \union {<<i, p>>}
       /\ request' = [request EXCEPT ![h] = [at |-> "stored", gate |-> "tests", report |-> i]]
  /\ UNCHANGED <<policyVars, job, code, level, engine, tests, goldens, approved,
                 manifest, decision, faults>>

(* ApproveGoldenUpdate: an approval or a rejection of a changed comparison; *)
(* the newest one of a comparison is in force.                              *)
ApproveGoldenUpdate(h) ==
  /\ request[h] = Idle
  /\ \E i \in DOMAIN goldens : \E c \in goldens[i].changed, accepts \in BOOLEAN :
       /\ goldens[i].status = "approval_required"
       /\ approved' = IF accepts THEN approved \union {<<i, c>>} ELSE approved \ {<<i, c>>}
       /\ request' = [request EXCEPT ![h] = [at |-> "stored", gate |-> "goldens", report |-> i]]
  /\ UNCHANGED <<policyVars, job, code, level, engine, tests, disposed, goldens,
                 manifest, decision, faults>>

(* Mutant of nothingPending: only the report of this disposition is counted. *)
nothingPendingHere(r) ==
  \A i \in DOMAIN tests : i = r.report => \A p \in tests[i].pending : <<i, p>> \in disposed

(* PendingDispositionCount over all reports of the job.                     *)
nothingPending(r) ==
  \A i \in DOMAIN tests : \A p \in tests[i].pending : <<i, p>> \in disposed

(* ResolveApprovals, of the report that was decided on.                     *)
nothingUnapproved(r) == \A c \in goldens[r.report].changed : <<r.report, c>> \in approved

Count(h) ==
  LET r == request[h] IN
  /\ r.at = "stored"
  /\ request' = [request EXCEPT ![h] =
       IF IF r.gate = "tests" THEN nothingPending(r) ELSE nothingUnapproved(r)
         THEN [at |-> "counted", gate |-> r.gate, seen |-> Len(tests)] ELSE Idle]
  /\ UNCHANGED <<policyVars, job, code, level, engine, tests, disposed, goldens, approved,
                 manifest, decision, faults>>

(* TransitionJob, if the job waits at that gate.                            *)
advances(gate, from, to) ==
  \/ gate = "tests" /\ from = "awaiting_test_design_disposition"
                    /\ to = "golden_rehearsal_review"
  \/ gate = "goldens" /\ from = "awaiting_golden_approval"
                      /\ to = "loading_documentation_model"

Advance(h) ==
  /\ request[h].at = "counted"
  /\ request' = [request EXCEPT ![h] = Idle]
  /\ IF \E to \in State : advances(request[h].gate, job.state, to)
       THEN \E to \in State : /\ advances(request[h].gate, job.state, to)
                              /\ job' = [job EXCEPT !.state = to, !.version = @ + 1]
       ELSE UNCHANGED job
  /\ UNCHANGED <<policyVars, code, level, engine, tests, disposed, goldens, approved,
                 manifest, decision, faults>>

CancelJob ==
  /\ faults < MaxFaults /\ CanTransition(job.state, "cancelled")
  /\ job' = [job EXCEPT !.state = "cancelled", !.version = @ + 1]
  /\ faults' = faults + 1
  /\ UNCHANGED <<policyVars, code, level, engine, tests, disposed, goldens, approved,
                 manifest, decision, request>>

EngineNext == Begin \/ RouteVerified \/ RunPlain \/ DesignTests \/ ReviewGoldens
                \/ ReviewDocumentation \/ ReviewPolicy \/ ReviewCandidate \/ RepairCandidate
                \/ Complete \/ Crash
PeopleNext == CancelJob \/ \E h \in People :
                Dispose(h) \/ ApproveGoldenUpdate(h) \/ Count(h) \/ Advance(h)

GatesNext ==
  \/ EngineNext \/ PeopleNext
  \/ PolicyNext /\ UNCHANGED gateVars

GatesSpec == GatesInit /\ [][GatesNext]_gatesVars

-----------------------------------------------------------------------------
(* QC sees a candidate only after a policy decision that allowed exactly    *)
(* this result: documentation commits and repairs make a new result, and    *)
(* no route leads around policy_review (coordinator.go, reviewPolicy).      *)
QCWasAllowed ==
  job.state \in BeyondPolicy => decision.allowed /\ decision.result = job.result

(* A person moves the job past the test designer only when every proposal   *)
(* of every report there was when the handler counted has a disposition     *)
(* (disposeTestDesignerProposal), those of earlier runs of the phase too.   *)
ProposalsDisposed ==
  [][\A h \in People :
       Advance(h) /\ job.state = "awaiting_test_design_disposition" =>
         \A i \in 1..request[h].seen : \A p \in tests[i].pending : <<i, p>> \in disposed]_gatesVars

=============================================================================
