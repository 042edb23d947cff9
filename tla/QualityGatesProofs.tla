-------------------------- MODULE QualityGatesProofs --------------------------
(***************************************************************************)
(* Proofs about PolicyBundles and QualityGates: the bundles in force passed *)
(* their tests, QC sees only what a decision allowed, and a disposition    *)
(* that moves the job leaves no proposal open, for any number of people,   *)
(* administrators, bundles, proposals and reports.                         *)
(***************************************************************************)
EXTENDS QualityGates, TLAPS

-----------------------------------------------------------------------------
(* Policy bundles *)

(* A bundle whose newest run passed has passed, and so has one that is in   *)
(* force or being activated, whatever its newer runs say.                   *)
PolicyInv ==
  /\ PolicyTypeOK
  /\ \A b \in Advanced : lastRun[b] = "passed" => b \in everPassed
  /\ BundlesTested

(* Every step about policies keeps that.                                   *)
LEMMA PolicyStep ==
  ASSUME PolicyInv, PolicyNext
  PROVE  PolicyInv'
<1> USE DEF PolicyInv, PolicyTypeOK, BundlesTested
<1>1. ASSUME NEW b \in Advanced, CreateBundle(b)
      PROVE  PolicyInv'
  BY <1>1 DEF CreateBundle
<1>2. ASSUME NEW b \in Advanced, TestBundle(b)
      PROVE  PolicyInv'
  <2>1. PICK status \in {"passed", "failed"} :
          /\ lastRun' = [lastRun EXCEPT ![b] = status]
          /\ everPassed' = everPassed \union (IF status = "passed" THEN {b} ELSE {})
    BY <1>2 DEF TestBundle
  <2> QED
    BY <1>2, <2>1 DEF TestBundle
<1>3. ASSUME NEW a \in Administrators, NEW b \in Bundle, CheckActivation(a, b)
      PROVE  PolicyInv'
  <2>1. b \in Advanced => b \in everPassed
    BY <1>3, BundleAssumption DEF CheckActivation, activatable
  <2>2. activating' = [activating EXCEPT ![a] = b]
          /\ UNCHANGED <<created, lastRun, everPassed, active>>
    BY <1>3 DEF CheckActivation
  <2> QED
    BY <2>1, <2>2
<1>4. ASSUME NEW a \in Administrators, ActivatePolicyBundle(a)
      PROVE  PolicyInv'
  <2>1. /\ activating' = [activating EXCEPT ![a] = NoBundle]
        /\ active' \in {active, activating[a]} /\ activating[a] # NoBundle
        /\ UNCHANGED <<created, lastRun, everPassed>>
    BY <1>4 DEF ActivatePolicyBundle
  <2>2. activating[a] \in everPassed \union {BuiltIn}
    BY <2>1 DEF Bundle
  <2> QED
    BY <2>1, <2>2, BundleAssumption
<1> QED
  BY <1>1, <1>2, <1>3, <1>4 DEF PolicyNext

(* No gate touches a bundle.                                               *)
LEMMA GatesLeavePolicies ==
  ASSUME [GatesNext]_gatesVars
  PROVE  PolicyNext \/ UNCHANGED policyVars
  BY DEF GatesNext, EngineNext, PeopleNext, gatesVars, Begin, RouteVerified, RunPlain,
     DesignTests, ReviewGoldens, ReviewDocumentation, ReviewPolicy, ReviewCandidate,
     RepairCandidate, Complete, Crash, CancelJob, Dispose, ApproveGoldenUpdate, Count, Advance

(* PolicyInv is an invariant.                                              *)
LEMMA PolicyInvariant == GatesSpec => []PolicyInv
<1>1. GatesInit => PolicyInv
  BY BundleAssumption
     DEF GatesInit, PolicyInit, PolicyInv, PolicyTypeOK, BundlesTested, Bundle
<1>2. PolicyInv /\ [GatesNext]_gatesVars => PolicyInv'
  <2> SUFFICES ASSUME PolicyInv, [GatesNext]_gatesVars PROVE PolicyInv'
    OBVIOUS
  <2>1. CASE UNCHANGED policyVars
    BY <2>1 DEF policyVars, PolicyInv, PolicyTypeOK, BundlesTested
  <2> QED
    BY <2>1, PolicyStep, GatesLeavePolicies
<1> QED
  BY <1>1, <1>2, PTL DEF GatesSpec

(* A bundle that decides, or is about to, has passed its tests, although   *)
(* its tests may be run again, and fail, between the check and the         *)
(* activation.                                                             *)
THEOREM BundlesForAll == GatesSpec => []BundlesTested
<1>1. PolicyInv => BundlesTested
  BY DEF PolicyInv
<1> QED
  BY <1>1, PolicyInvariant, PTL

-----------------------------------------------------------------------------
(* The kinds of steps *)

Jobs == [state : State, version : Nat, result : Nat, cycle : 0..(MaxReviewCycles - 1)]

(* The phase being run, with the row it began with.                        *)
EngineRecord ==
  {Idle} \union [at : {"begun"}, row : Jobs]
    \union [at : {"answered"}, row : Jobs, to : State, result : Nat]

(* A request, with the report it decided on or the reports it counted.     *)
RequestRecord ==
  {Idle} \union [at : {"stored"}, gate : {"tests", "goldens"}, report : Nat]
    \union [at : {"counted"}, gate : {"tests", "goldens"}, seen : Nat]

(* States before there is a golden report.                                 *)
BeforeGoldens ==
  {"verifying_full", "loading_test_designer_model", "test_design_review",
   "awaiting_test_design_disposition"}

(* What a phase that began with row r may answer.                          *)
routed(r, to, result) ==
  /\ to \in State /\ result \in Nat /\ result >= r.result
  /\ to = "repairing" => r.state = "awaiting_repair"
  /\ to = "awaiting_repair" => r.state = "qc_review" /\ repairsLeft(r.cycle)
  /\ to \in BeforeGoldens => r.state \in BeforeGoldens

(* The answer about QC comes from policy_review, with a decision that       *)
(* allows, or from a phase after it, for the candidate it began with.       *)
allowedOn(r, to, result) ==
  to \in BeyondPolicy =>
    \/ r.state = "policy_review" /\ decision'.allowed /\ decision'.result = result
    \/ r.state \in BeyondPolicy /\ result = r.result /\ UNCHANGED decision

phaseAnswers ==
  /\ engine.at = "begun"
  /\ \E to, result :
       /\ answer(to, result)
       /\ routed(engine.row, to, result)
       /\ allowedOn(engine.row, to, result)
  /\ UNCHANGED <<policyVars, job, code, level, disposed, approved, request, faults>>
  /\ \/ tests' = tests
     \/ Len(tests) < MaxReports /\ \E t \in TestReports(level) : SaveTestDesignerReport(t)
  /\ \/ goldens' = goldens
     \/ /\ engine.row.state = "golden_rehearsal_review" /\ Len(goldens) < MaxReports
        /\ \E g \in GoldenReports : SaveGoldenReport(g)
  /\ manifest' \in {manifest, "passed", "changes_applied", "blocked"}
  /\ \/ decision' = decision
     \/ /\ engine.row.state = "policy_review"
        /\ decision' \in [result : Nat, allowed : BOOLEAN, bundle : {active}]

(* What a report of a phase says of its candidate.                         *)
LEMMA ReportsValid ==
  ASSUME NEW r \in Nat
  PROVE  /\ \A pending \in SUBSET (IF level = "low" THEN {} ELSE Proposals) :
              [result |-> r, pending |-> pending] \in TestReports(level)
         /\ \A selected \in SUBSET Rehearsals :
              [result |-> r, changed |-> selected \cap UpdateRequests,
               status |-> reportStatus(selected)] \in GoldenReports
<1>1. ASSUME NEW selected \in SUBSET Rehearsals
      PROVE  [result |-> r, changed |-> selected \cap UpdateRequests,
              status |-> reportStatus(selected)] \in GoldenReports
  <2>1. CASE selected \cap UpdateRequests = {}
    <3>1. reportStatus(selected) \in {"passed", "no_rehearsals"}
      BY <2>1 DEF reportStatus
    <3> QED
      BY <2>1, <3>1 DEF GoldenReports
  <2>2. CASE selected \cap UpdateRequests # {}
    <3>1. reportStatus(selected) = "approval_required"
      BY <2>2 DEF reportStatus
    <3> QED
      BY <2>2, <3>1 DEF GoldenReports
  <2> QED
    BY <2>1, <2>2
<1> QED
  BY <1>1 DEF TestReports

(* Every phase stores no more than its report, and answers with a state    *)
(* that follows it.                                                        *)
LEMMA PhasesAnswer ==
  ASSUME engine \in EngineRecord,
         \/ RouteVerified \/ RunPlain \/ DesignTests \/ ReviewGoldens \/ ReviewDocumentation
         \/ ReviewPolicy \/ ReviewCandidate \/ RepairCandidate
  PROVE  phaseAnswers
<1>1. ASSUME engine.at = "begun"
      PROVE  engine.row \in Jobs /\ engine.row.result \in Nat /\ engine.row.result + 1 \in Nat
               /\ engine.row.result >= engine.row.result
  BY <1>1 DEF EngineRecord, Idle, Jobs
<1> USE DEF in, routed, allowedOn, BeforeGoldens, BeyondPolicy
<1>2. /\ {"golden_rehearsal_review", "loading_documentation_model",
          "loading_test_designer_model", "test_design_review", "documentation_review",
          "policy_review", "loading_qc_model", "qc_review", "awaiting_repair", "repairing",
          "awaiting_test_design_disposition", "awaiting_golden_approval", Fails,
          "awaiting_operator", "final_verification"} \subseteq State
  BY DEF State, transitions, Fails
<1>3. CASE RouteVerified
  BY <1>1, <1>2, <1>3 DEF RouteVerified, finalRoute, phaseAnswers
<1>4. CASE RunPlain
  <2>1. PICK s \in {"loading_test_designer_model", "loading_documentation_model",
                    "loading_qc_model", "awaiting_repair"} :
          in(s) /\ answer(defaultNext[s], engine.row.result)
    BY <1>4 DEF RunPlain
  <2>2. /\ s = "loading_test_designer_model" => defaultNext[s] = "test_design_review"
        /\ s = "loading_documentation_model" => defaultNext[s] = "documentation_review"
        /\ s = "loading_qc_model" => defaultNext[s] = "qc_review"
        /\ s = "awaiting_repair" => defaultNext[s] = "repairing"
    BY DEF defaultNext
  <2>3. routed(engine.row, defaultNext[s], engine.row.result)
    BY <1>1, <1>2, <2>1, <2>2
  <2>4. allowedOn(engine.row, defaultNext[s], engine.row.result)
    BY <1>4, <2>1, <2>2 DEF RunPlain
  <2> QED
    BY <1>4, <2>1, <2>3, <2>4 DEF RunPlain, phaseAnswers
<1>5. CASE DesignTests
  <2>1. PICK pending \in SUBSET (IF level = "low" THEN {} ELSE Proposals) :
          /\ SaveTestDesignerReport([result |-> engine.row.result, pending |-> pending])
          /\ answer(IF pending = {} THEN "golden_rehearsal_review"
                                    ELSE "awaiting_test_design_disposition", engine.row.result)
    BY <1>5 DEF DesignTests
  <2>2. engine.at = "begun" /\ engine.row.state = "test_design_review"
    BY <1>5 DEF DesignTests
  <2>3. [result |-> engine.row.result, pending |-> pending] \in TestReports(level)
    BY <1>1, <2>2, ReportsValid
  <2> QED
    BY <1>1, <1>2, <1>5, <2>1, <2>2, <2>3 DEF DesignTests, phaseAnswers
<1>6. CASE ReviewGoldens
  <2>1. PICK selected \in SUBSET Rehearsals :
          /\ SaveGoldenReport([result  |-> engine.row.result,
                               changed |-> selected \cap UpdateRequests,
                               status  |-> reportStatus(selected)])
          /\ answer(IF reportStatus(selected) = "approval_required"
                      THEN "awaiting_golden_approval" ELSE "loading_documentation_model",
                    engine.row.result)
    BY <1>6 DEF ReviewGoldens
  <2>2. engine.at = "begun" /\ engine.row.state = "golden_rehearsal_review"
    BY <1>6 DEF ReviewGoldens
  <2>3. [result |-> engine.row.result, changed |-> selected \cap UpdateRequests,
         status |-> reportStatus(selected)] \in GoldenReports
    BY <1>1, <2>2, ReportsValid
  <2> QED
    BY <1>1, <1>2, <1>6, <2>1, <2>2, <2>3 DEF ReviewGoldens, phaseAnswers
<1>7. CASE ReviewDocumentation
  <2>1. engine.at = "begun"
    BY <1>7 DEF ReviewDocumentation
  <2>2. PICK to \in {Fails, "policy_review"},
             result \in {engine.row.result, engine.row.result + 1} : answer(to, result)
    <3>1. engine.row.result + 0 = engine.row.result
      BY <1>1, <2>1
    <3> QED
      BY <1>7, <3>1 DEF ReviewDocumentation
  <2>3. result >= engine.row.result
    BY <1>1, <2>1, <2>2
  <2> QED
    BY <1>1, <1>2, <1>7, <2>1, <2>2, <2>3 DEF ReviewDocumentation, phaseAnswers, Fails
<1>8. CASE ReviewPolicy
  <2>1. PICK allowed \in BOOLEAN :
          /\ EvaluateAndRecord(allowed)
          /\ answer(IF allowed THEN "loading_qc_model" ELSE Fails, engine.row.result)
    BY <1>8 DEF ReviewPolicy
  <2>2. decision' = [result |-> engine.row.result, allowed |-> allowed, bundle |-> active]
    BY <2>1 DEF EvaluateAndRecord
  <2>3. CASE allowed
    BY <1>1, <1>2, <1>8, <2>1, <2>2, <2>3 DEF ReviewPolicy, phaseAnswers
  <2>4. CASE ~allowed
    BY <1>1, <1>2, <1>8, <2>1, <2>2, <2>4 DEF ReviewPolicy, phaseAnswers, Fails
  <2> QED
    BY <2>3, <2>4
<1>9. CASE ReviewCandidate
  <2>1. PICK to \in {"awaiting_operator"} \union
                      (IF repairsLeft(engine.row.cycle) THEN {"awaiting_repair"} ELSE {}) :
          answer(to, engine.row.result)
    BY <1>9 DEF ReviewCandidate
  <2> QED
    BY <1>1, <1>2, <1>9, <2>1 DEF ReviewCandidate, phaseAnswers
<1>10. CASE RepairCandidate
  <2>1. engine.at = "begun" /\ answer("final_verification", engine.row.result + 1)
    BY <1>10 DEF RepairCandidate
  <2>2. engine.row.result + 1 >= engine.row.result
    BY <1>1, <2>1
  <2> QED
    BY <1>1, <1>2, <1>10, <2>1, <2>2 DEF RepairCandidate, phaseAnswers
<1> QED
  BY <1>3, <1>4, <1>5, <1>6, <1>7, <1>8, <1>9, <1>10

-----------------------------------------------------------------------------
(* Types, and the row a phase works on *)

GatesTyped ==
  /\ GatesTypeOK
  /\ engine \in EngineRecord
  /\ request \in [People -> RequestRecord]

(* A phase works on the present row, unless the job was cancelled; and what *)
(* it may answer to that row follows it.                                   *)
RowInv ==
  engine.at # "idle" =>
    /\ engine.row.state \in Phase
    /\ engine.row = job \/ job.state = "cancelled"
    /\ engine.at = "answered" => routed(engine.row, engine.to, engine.result)

(* A repair is asked for while there are cycles left.                      *)
CycleInv == job.state \in {"awaiting_repair", "repairing"} => repairsLeft(job.cycle)

GatesInv == GatesTyped /\ RowInv /\ CycleInv

(* What the steps of the engine do to its record.                          *)
LEMMA AnswerMakes ==
  ASSUME engine \in EngineRecord, engine.at = "begun", NEW to, NEW result,
         answer(to, result), to \in State, result \in Nat
  PROVE  /\ engine' \in EngineRecord
         /\ engine'.at = "answered" /\ engine'.row = engine.row
         /\ engine'.to = to /\ engine'.result = result
<1>1. engine.row \in Jobs
  BY DEF EngineRecord, Idle
<1>2. engine' = [at |-> "answered", row |-> engine.row, to |-> to, result |-> result]
  BY DEF answer
<1> QED
  BY <1>1, <1>2 DEF EngineRecord

(* The kinds of steps: the engine's, people's, and those about policies.   *)
engineAlone ==
  UNCHANGED <<policyVars, level, tests, disposed, goldens, approved, manifest, decision, request>>

LEMMA GateKinds ==
  ASSUME engine \in EngineRecord, [GatesNext]_gatesVars
  PROVE  \/ Begin \/ phaseAnswers \/ Complete \/ Crash \/ CancelJob
         \/ \E h \in People : Dispose(h) \/ ApproveGoldenUpdate(h) \/ Count(h) \/ Advance(h)
         \/ PolicyNext /\ UNCHANGED gateVars
         \/ UNCHANGED gatesVars
  BY PhasesAnswer DEF GatesNext, EngineNext, PeopleNext

(* Complete moves the row it began with, or finds that it has moved.       *)
LEMMA CompleteEffect ==
  ASSUME GatesInv, Complete
  PROVE  /\ engine.at = "answered" /\ engine' = Idle /\ engine'.at = "idle"
         /\ engineAlone /\ faults' = faults
         /\ \/ /\ job = engine.row
               /\ routed(job, engine.to, engine.result)
               /\ job' = [state |-> engine.to, version |-> job.version + 1,
                          result |-> engine.result,
                          cycle |-> IF job.state = "repairing" THEN job.cycle + 1 ELSE job.cycle]
               /\ code' = IF job.state = "repairing" THEN engine.result ELSE code
            \/ job.state = "cancelled" /\ UNCHANGED <<job, code>>
  BY DEF Complete, GatesInv, RowInv, Idle, engineAlone

(* A phase begins with the row as it is.                                   *)
LEMMA BeginEffect ==
  ASSUME job \in Jobs, Begin
  PROVE  /\ engine' \in EngineRecord /\ engine.at = "idle"
         /\ engine'.at = "begun" /\ engine'.row = job /\ job.state \in Phase
         /\ UNCHANGED job /\ engineAlone /\ UNCHANGED <<code, faults>>
<1>1. engine' = [at |-> "begun", row |-> job] /\ engine = Idle
  BY DEF Begin
<1> QED
  BY <1>1 DEF Begin, EngineRecord, Idle, engineAlone

(* People move the job from its gates only, and no phase runs there.       *)
LEMMA AdvanceEffect ==
  ASSUME NEW h \in People, Advance(h)
  PROVE  \/ UNCHANGED job
         \/ /\ job.state \in {"awaiting_test_design_disposition", "awaiting_golden_approval"}
            /\ job.state = "awaiting_test_design_disposition" => request[h].gate = "tests"
            /\ \E to \in {"golden_rehearsal_review", "loading_documentation_model"} :
                 job' = [job EXCEPT !.state = to, !.version = @ + 1]
  BY DEF Advance, advances

(* A transition writes the state and the version of the row.               *)
LEMMA TransitionEffect ==
  ASSUME job \in Jobs, NEW to \in State, job' = [job EXCEPT !.state = to, !.version = @ + 1]
  PROVE  /\ job' \in Jobs /\ job'.state = to /\ job'.result = job.result
         /\ job'.cycle = job.cycle /\ job'.version = job.version + 1
         /\ job.version \in Nat
<1>1. /\ job.version \in Nat /\ job.result \in Nat
      /\ job.cycle \in 0..(MaxReviewCycles - 1)
  BY DEF Jobs
<1>2. job' = [state |-> to, version |-> job.version + 1, result |-> job.result,
              cycle |-> job.cycle]
  BY DEF Jobs
<1>3. job' \in Jobs
  <2> DEFINE Cycles == 0..(MaxReviewCycles - 1)
  <2>1. job.cycle \in Cycles /\ job.version + 1 \in Nat
    BY <1>1
  <2>2. Jobs = [state : State, version : Nat, result : Nat, cycle : Cycles]
    BY DEF Jobs
  <2> HIDE DEF Cycles
  <2> QED
    BY <1>1, <1>2, <2>1, <2>2
<1> QED
  BY <1>1, <1>2, <1>3

(* A phase keeps to its row, and people leave the row to it.               *)
LEMMA RowStep ==
  ASSUME GatesInv, [GatesNext]_gatesVars
  PROVE  RowInv' /\ CycleInv'
<1>1. engine \in EngineRecord /\ job \in Jobs /\ request \in [People -> RequestRecord]
  BY DEF GatesInv, GatesTyped, GatesTypeOK, Jobs
<1>2. ASSUME UNCHANGED <<engine, job>>
      PROVE  RowInv' /\ CycleInv'
  BY <1>2 DEF GatesInv, RowInv, CycleInv
<1>3. CASE Begin
  BY <1>1, <1>3, BeginEffect DEF GatesInv, RowInv, CycleInv
<1>4. CASE phaseAnswers
  <2>1. PICK to, result : answer(to, result) /\ routed(engine.row, to, result)
    BY <1>4 DEF phaseAnswers
  <2>2. /\ engine'.at = "answered" /\ engine'.row = engine.row
        /\ engine'.to = to /\ engine'.result = result
    BY <1>1, <1>4, <2>1, AnswerMakes DEF phaseAnswers, routed
  <2> QED
    BY <1>4, <2>1, <2>2 DEF phaseAnswers, GatesInv, RowInv, CycleInv
<1>5. CASE Complete
  <2>1. engine'.at = "idle"
    BY <1>5, CompleteEffect
  <2>2. CASE /\ job = engine.row
             /\ routed(job, engine.to, engine.result)
             /\ job' = [state |-> engine.to, version |-> job.version + 1,
                        result |-> engine.result,
                        cycle |-> IF job.state = "repairing" THEN job.cycle + 1 ELSE job.cycle]
    <3>1. CASE job.state = "repairing"
      BY <2>1, <2>2, <3>1 DEF RowInv, CycleInv, routed
    <3>2. CASE job.state # "repairing"
      <4>1. job'.state = engine.to /\ job'.cycle = job.cycle
        BY <2>2, <3>2
      <4> QED
        BY <2>1, <2>2, <4>1 DEF GatesInv, RowInv, CycleInv, routed
    <3> QED
      BY <3>1, <3>2
  <2>3. CASE job.state = "cancelled" /\ UNCHANGED job
    BY <2>1, <2>3 DEF RowInv, CycleInv
  <2> QED
    BY <1>5, <2>2, <2>3, CompleteEffect
<1>6. CASE Crash
  BY <1>6 DEF Crash, Idle, GatesInv, RowInv, CycleInv
<1>7. CASE CancelJob
  <2>1. job'.state = "cancelled" /\ engine' = engine
    BY <1>1, <1>7 DEF CancelJob, Jobs
  <2> QED
    BY <2>1 DEF GatesInv, RowInv, CycleInv, routed
<1>8. ASSUME NEW h \in People, Advance(h)
      PROVE  RowInv' /\ CycleInv'
  <2>1. engine' = engine
    BY <1>8 DEF Advance
  <2>2. CASE job.state \in {"awaiting_test_design_disposition", "awaiting_golden_approval"}
    <3>1. engine.at = "idle"
      BY <2>2 DEF GatesInv, RowInv, Phase
    <3>2. job'.state \in {job.state, "golden_rehearsal_review", "loading_documentation_model"}
      BY <1>1, <1>8, AdvanceEffect DEF Jobs
    <3> QED
      BY <2>1, <2>2, <3>1, <3>2 DEF RowInv, CycleInv
  <2> QED
    BY <1>2, <1>8, <2>1, <2>2, AdvanceEffect
<1>9. CASE (\E h \in People : Dispose(h) \/ ApproveGoldenUpdate(h) \/ Count(h))
             \/ UNCHANGED gateVars
  BY <1>2, <1>9 DEF Dispose, ApproveGoldenUpdate, Count, gateVars
<1> QED
  BY <1>1, <1>3, <1>4, <1>5, <1>6, <1>7, <1>8, <1>9, GateKinds DEF gatesVars

(* Reports are added at the end.                                           *)
LEMMA ReportAdded ==
  ASSUME NEW S, NEW s \in Seq(S), NEW x \in S, NEW n \in Nat, Len(s) < n
  PROVE  /\ Append(s, x) \in Seq(S) /\ Len(Append(s, x)) <= n
         /\ DOMAIN s \subseteq DOMAIN Append(s, x)
         /\ Append(s, x) # <<>>
         /\ Len(s) <= Len(Append(s, x))
         /\ \A i \in DOMAIN s : Append(s, x)[i] = s[i]
<1>1. Len(Append(s, x)) = Len(s) + 1 /\ Len(s) \in Nat
  OBVIOUS
<1> QED
  BY <1>1

(* Everything keeps its type and its bound, the review cycles among them.  *)
LEMMA TypeStep ==
  ASSUME GatesInv, PolicyTypeOK', [GatesNext]_gatesVars
  PROVE  GatesTyped'
<1>1. /\ engine \in EngineRecord /\ job \in Jobs /\ request \in [People -> RequestRecord]
      /\ code \in 0..job.result /\ level \in {"low", "medium", "high"}
      /\ job.version \in Nat /\ job.result \in Nat
      /\ engine.at # "idle" => engine.at \in {"begun", "answered"}
                                 /\ engine.row.version <= job.version
  BY DEF GatesInv, GatesTyped, GatesTypeOK, Jobs, EngineRecord, Idle
<1>2. /\ tests \in Seq(TestReports(level)) /\ Len(tests) <= MaxReports
      /\ disposed \subseteq (DOMAIN tests) \X Proposals
      /\ goldens \in Seq(GoldenReports) /\ Len(goldens) <= MaxReports
      /\ approved \subseteq (DOMAIN goldens) \X UpdateRequests
      /\ manifest \in {"missing", "passed", "changes_applied", "blocked"}
      /\ decision \in [result : Nat, allowed : BOOLEAN, bundle : Bundle \union {NoBundle}]
      /\ faults \in 0..MaxFaults /\ MaxReports \in Nat /\ MaxFaults \in Nat
  BY GatesAssumption DEF GatesInv, GatesTyped, GatesTypeOK
<1>3. active \in Bundle /\ active' \in Bundle
  BY DEF GatesInv, GatesTyped, GatesTypeOK, PolicyTypeOK, Bundle
<1>4. ASSUME job' \in Jobs, code' \in 0..job'.result, engine' \in EngineRecord,
             engine'.at # "idle" => engine'.row.version <= job'.version,
             faults' \in 0..MaxFaults, request' \in [People -> RequestRecord],
             level' = level,
             tests' \in Seq(TestReports(level)) /\ Len(tests') <= MaxReports,
             disposed' \subseteq (DOMAIN tests') \X Proposals,
             goldens' \in Seq(GoldenReports) /\ Len(goldens') <= MaxReports,
             approved' \subseteq (DOMAIN goldens') \X UpdateRequests,
             manifest' \in {"missing", "passed", "changes_applied", "blocked"},
             decision' \in [result : Nat, allowed : BOOLEAN, bundle : Bundle \union {NoBundle}]
      PROVE  GatesTyped'
  <2>1. engine' = Idle \/ (engine'.at \in {"begun", "answered"}
                             /\ engine'.row.version <= job'.version)
    BY <1>4 DEF EngineRecord, Idle
  <2>2. DOMAIN request' = People
    BY <1>4
  <2>3. job' \in [state : State, version : Nat, result : Nat, cycle : 0..(MaxReviewCycles - 1)]
    BY <1>4 DEF Jobs
  <2> QED
    BY <1>1, <1>4, <2>1, <2>2, <2>3 DEF GatesTyped, GatesTypeOK, TestReports
<1>5. ASSUME UNCHANGED <<level, tests, disposed, goldens, approved, manifest, decision, request>>,
             job' \in Jobs, code' \in 0..job'.result, engine' \in EngineRecord,
             engine'.at # "idle" => engine'.row.version <= job'.version,
             faults' \in 0..MaxFaults
      PROVE  GatesTyped'
  BY <1>1, <1>2, <1>4, <1>5
<1>6. CASE Begin
  <2>1. /\ engine' \in EngineRecord /\ engine'.row = job /\ UNCHANGED <<job, code, faults>>
        /\ engineAlone
    BY <1>1, <1>6, BeginEffect
  <2> QED
    BY <1>1, <1>2, <1>5, <2>1 DEF engineAlone
<1>7. CASE phaseAnswers
  <2>1. PICK to, result : answer(to, result) /\ routed(engine.row, to, result)
    BY <1>7 DEF phaseAnswers
  <2>2. engine' \in EngineRecord /\ engine'.row = engine.row
    BY <1>1, <1>7, <2>1, AnswerMakes DEF phaseAnswers, routed
  <2>3. /\ tests' \in Seq(TestReports(level)) /\ Len(tests') <= MaxReports
        /\ DOMAIN tests \subseteq DOMAIN tests'
    <3>1. CASE tests' = tests
      BY <1>2, <3>1
    <3>2. ASSUME NEW t \in TestReports(level), tests' = Append(tests, t), Len(tests) < MaxReports
          PROVE  /\ tests' \in Seq(TestReports(level)) /\ Len(tests') <= MaxReports
                 /\ DOMAIN tests \subseteq DOMAIN tests'
      BY <1>2, <3>2, ReportAdded
    <3> QED
      BY <1>7, <3>1, <3>2 DEF phaseAnswers, SaveTestDesignerReport
  <2>4. /\ goldens' \in Seq(GoldenReports) /\ Len(goldens') <= MaxReports
        /\ DOMAIN goldens \subseteq DOMAIN goldens'
    <3>1. CASE goldens' = goldens
      BY <1>2, <3>1
    <3>2. ASSUME NEW g \in GoldenReports, goldens' = Append(goldens, g), Len(goldens) < MaxReports
          PROVE  /\ goldens' \in Seq(GoldenReports) /\ Len(goldens') <= MaxReports
                 /\ DOMAIN goldens \subseteq DOMAIN goldens'
      BY <1>2, <3>2, ReportAdded
    <3> QED
      BY <1>7, <3>1, <3>2 DEF phaseAnswers, SaveGoldenReport
  <2>5. decision' \in [result : Nat, allowed : BOOLEAN, bundle : Bundle \union {NoBundle}]
    BY <1>2, <1>3, <1>7 DEF phaseAnswers
  <2>6. /\ UNCHANGED <<job, code, level, disposed, approved, request, faults>>
        /\ manifest' \in {"missing", "passed", "changes_applied", "blocked"}
    BY <1>2, <1>7 DEF phaseAnswers
  <2>7. engine'.at # "idle" => engine'.row.version <= job'.version
    BY <1>1, <1>7, <2>2, <2>6 DEF phaseAnswers
  <2>8. /\ disposed' \subseteq (DOMAIN tests') \X Proposals
        /\ approved' \subseteq (DOMAIN goldens') \X UpdateRequests
    BY <1>2, <2>3, <2>4, <2>6
  <2> QED
    BY <1>1, <1>2, <1>4, <2>2, <2>3, <2>4, <2>5, <2>6, <2>7, <2>8
<1>8. CASE Complete
  <2>1. /\ engine' \in EngineRecord /\ engine'.at = "idle" /\ engineAlone /\ faults' = faults
    BY <1>8, CompleteEffect DEF EngineRecord
  <2>2. CASE /\ routed(job, engine.to, engine.result)
             /\ job' = [state |-> engine.to, version |-> job.version + 1,
                        result |-> engine.result,
                        cycle |-> IF job.state = "repairing" THEN job.cycle + 1 ELSE job.cycle]
             /\ code' = IF job.state = "repairing" THEN engine.result ELSE code
    <3>1. job.cycle \in 0..(MaxReviewCycles - 1) /\ MaxReviewCycles \in 1..10
      BY <1>1, RoutingAssumption DEF Jobs
    <3>2. job.state = "repairing" => job.cycle + 1 \in 0..(MaxReviewCycles - 1)
      BY <3>1 DEF GatesInv, CycleInv, repairsLeft
    <3>3. job' \in Jobs
      BY <1>1, <2>2, <3>1, <3>2 DEF Jobs, routed
    <3>4. job'.result = engine.result /\ engine.result \in Nat /\ engine.result >= job.result
      BY <2>2 DEF routed
    <3>5. code' \in 0..job'.result
      BY <1>1, <2>2, <3>4
    <3> QED
      BY <1>2, <1>5, <2>1, <3>3, <3>5 DEF engineAlone
  <2>3. CASE UNCHANGED <<job, code>>
    BY <1>1, <1>2, <1>5, <2>1, <2>3 DEF engineAlone
  <2> QED
    BY <1>8, <2>2, <2>3, CompleteEffect
<1>9. CASE Crash
  <2>1. engine' \in EngineRecord /\ engine'.at = "idle" /\ faults' \in 0..MaxFaults
    BY <1>2, <1>9 DEF Crash, EngineRecord, Idle
  <2> QED
    BY <1>1, <1>5, <1>9, <2>1 DEF Crash
<1>10. CASE CancelJob
  <2>1. "cancelled" \in State
    BY DEF State, transitions
  <2>2. faults' \in 0..MaxFaults
    BY <1>2, <1>10 DEF CancelJob
  <2>3. /\ job' \in Jobs /\ job'.result = job.result /\ job'.version = job.version + 1
    BY <1>1, <1>10, <2>1, TransitionEffect DEF CancelJob
  <2>4. engine' = engine /\ (engine'.at # "idle" => engine'.row.version <= job'.version)
    <3>1. engine.at # "idle" => engine.row.version \in Nat
      BY <1>1 DEF EngineRecord, Jobs, Idle
    <3> QED
      BY <1>1, <1>10, <2>3, <3>1 DEF CancelJob
  <2> QED
    BY <1>1, <1>5, <1>10, <2>2, <2>3, <2>4 DEF CancelJob
<1>11. ASSUME NEW h \in People, Advance(h)
       PROVE  GatesTyped'
  <2>1. {"golden_rehearsal_review", "loading_documentation_model"} \subseteq State
    BY DEF State, transitions
  <2>2. /\ job' \in Jobs /\ job'.result = job.result
        /\ job'.version \in {job.version, job.version + 1}
    BY <1>1, <1>11, <2>1, AdvanceEffect, TransitionEffect
  <2>3. engine' = engine /\ (engine'.at # "idle" => engine'.row.version <= job'.version)
    <3>1. engine.at # "idle" => engine.row.version \in Nat
      BY <1>1 DEF EngineRecord, Jobs, Idle
    <3>2. job.version <= job'.version
      BY <1>1, <2>2
    <3>3. job.version \in Nat /\ job'.version \in Nat
      BY <1>1, <2>2
    <3>4. engine' = engine
      BY <1>11 DEF Advance
    <3>5. engine.at # "idle" => engine.row.version <= job'.version
      BY <1>1, <3>1, <3>2, <3>3
    <3> QED
      BY <3>4, <3>5
  <2>4. request' \in [People -> RequestRecord]
    BY <1>1, <1>11 DEF Advance, RequestRecord
  <2> QED
    BY <1>1, <1>2, <1>4, <1>11, <2>2, <2>3, <2>4 DEF Advance
<1>12. ASSUME NEW h \in People, Dispose(h)
       PROVE  GatesTyped'
  <2>1. PICK i \in DOMAIN tests : \E p \in tests[i].pending :
          /\ disposed' = disposed \union {<<i, p>>}
          /\ request' = [request EXCEPT ![h] = [at |-> "stored", gate |-> "tests", report |-> i]]
    BY <1>12 DEF Dispose
  <2>2. i \in Nat /\ tests[i] \in TestReports(level)
    BY <1>2
  <2>3. tests[i].pending \subseteq Proposals
    BY <2>2 DEF TestReports
  <2>4. request' \in [People -> RequestRecord]
    BY <1>1, <2>1, <2>2 DEF RequestRecord
  <2>5. disposed' \subseteq (DOMAIN tests) \X Proposals
    BY <1>2, <2>1, <2>3
  <2> QED
    BY <1>1, <1>2, <1>4, <1>12, <2>4, <2>5 DEF Dispose
<1>13. ASSUME NEW h \in People, ApproveGoldenUpdate(h)
       PROVE  GatesTyped'
  <2>1. PICK i \in DOMAIN goldens : \E c \in goldens[i].changed, accepts \in BOOLEAN :
          /\ approved' = IF accepts THEN approved \union {<<i, c>>} ELSE approved \ {<<i, c>>}
          /\ request' = [request EXCEPT ![h] = [at |-> "stored", gate |-> "goldens", report |-> i]]
    BY <1>13 DEF ApproveGoldenUpdate
  <2>2. i \in Nat /\ goldens[i].changed \subseteq UpdateRequests
    BY <1>2 DEF GoldenReports
  <2>3. request' \in [People -> RequestRecord]
    BY <1>1, <2>1, <2>2 DEF RequestRecord
  <2>4. approved' \subseteq (DOMAIN goldens) \X UpdateRequests
    BY <1>2, <2>1, <2>2
  <2> QED
    BY <1>1, <1>2, <1>4, <1>13, <2>3, <2>4 DEF ApproveGoldenUpdate
<1>14. ASSUME NEW h \in People, Count(h)
       PROVE  GatesTyped'
  <2>1. request[h].gate \in {"tests", "goldens"} /\ Len(tests) \in Nat
    BY <1>1, <1>2, <1>14 DEF Count, RequestRecord, Idle
  <2>2. request' \in [People -> RequestRecord]
    BY <1>1, <1>14, <2>1 DEF Count, RequestRecord
  <2> QED
    BY <1>1, <1>2, <1>4, <1>14, <2>2 DEF Count
<1>15. CASE UNCHANGED gateVars
  BY <1>1, <1>2, <1>5, <1>15 DEF gateVars
<1> QED
  BY <1>1, <1>6, <1>7, <1>8, <1>9, <1>10, <1>11, <1>12, <1>13, <1>14, <1>15, GateKinds
     DEF gatesVars

(* The types, the row of the phase and the cycles together are inductive.  *)
LEMMA GatesInvariant == GatesSpec => []GatesInv
<1>1. GatesInit => GatesInv
  <2> SUFFICES ASSUME GatesInit PROVE GatesInv
    OBVIOUS
  <2>1. "verifying_full" \in State /\ MaxReviewCycles \in 1..10
    BY RoutingAssumption DEF State, transitions
  <2>2. PolicyTypeOK
    BY BundleAssumption DEF GatesInit, PolicyInit, PolicyTypeOK, Bundle
  <2>3. /\ job \in [state : State, version : Nat, result : Nat, cycle : 0..(MaxReviewCycles - 1)]
        /\ job.result = 1 /\ job.state = "verifying_full"
    BY <2>1 DEF GatesInit
  <2>4. engine.at = "idle" /\ engine \in EngineRecord /\ request \in [People -> RequestRecord]
    BY DEF GatesInit, Idle, EngineRecord, RequestRecord
  <2>5. GatesTypeOK
    BY <2>2, <2>3, GatesAssumption DEF GatesInit, GatesTypeOK
  <2> QED
    BY <2>3, <2>4, <2>5 DEF GatesInv, GatesTyped, RowInv, CycleInv
<1>2. GatesInv /\ PolicyTypeOK' /\ [GatesNext]_gatesVars => GatesInv'
  BY RowStep, TypeStep DEF GatesInv
<1>3. PolicyInv => PolicyTypeOK
  BY DEF PolicyInv
<1> QED
  BY <1>1, <1>2, <1>3, PolicyInvariant, PTL DEF GatesSpec

(* The rows, reports, approvals and requests have their types, the repairs  *)
(* stay below the limit and no phase holds a row newer than the job's.     *)
THEOREM GatesTypesForAll == GatesSpec => []GatesTypeOK
<1>1. GatesInv => GatesTypeOK
  BY DEF GatesInv, GatesTyped
<1> QED
  BY <1>1, GatesInvariant, PTL


-----------------------------------------------------------------------------
(* What QC sees *)

(* Beyond policy there is a decision that allowed this result, and a phase  *)
(* that is about to move its job there has one.                            *)
QCInv ==
  /\ QCWasAllowed
  /\ engine.at = "answered" /\ engine.to \in BeyondPolicy /\ engine.row = job =>
       decision.allowed /\ decision.result = engine.result

LEMMA QCStep ==
  ASSUME GatesInv, QCInv, [GatesNext]_gatesVars
  PROVE  QCInv'
<1>1. engine \in EngineRecord /\ job \in Jobs
  BY DEF GatesInv, GatesTyped, GatesTypeOK, Jobs
<1>2. ASSUME UNCHANGED <<engine, job, decision>>
      PROVE  QCInv'
  BY <1>2 DEF QCInv, QCWasAllowed
<1>3. CASE Begin
  BY <1>1, <1>3, BeginEffect DEF QCInv, QCWasAllowed, engineAlone
<1>4. CASE phaseAnswers
  <2>1. PICK to, result : /\ answer(to, result)
                          /\ routed(engine.row, to, result)
                          /\ allowedOn(engine.row, to, result)
    BY <1>4 DEF phaseAnswers
  <2>2. /\ engine'.row = engine.row /\ engine'.to = to /\ engine'.result = result
        /\ job' = job
    BY <1>1, <1>4, <2>1, AnswerMakes DEF phaseAnswers, routed
  <2>3. engine.row = job \/ job.state = "cancelled"
    BY <1>4 DEF phaseAnswers, GatesInv, RowInv
  <2>4. QCWasAllowed'
    <3>1. decision' = decision \/ engine.row.state = "policy_review"
      BY <1>4 DEF phaseAnswers
    <3> QED
      BY <2>2, <2>3, <3>1 DEF QCInv, QCWasAllowed, BeyondPolicy
  <2>5. to \in BeyondPolicy /\ engine.row = job =>
          decision'.allowed /\ decision'.result = result
    BY <2>1 DEF allowedOn, QCInv, QCWasAllowed
  <2> QED
    BY <2>2, <2>4, <2>5 DEF QCInv
<1>5. CASE Complete
  <2>1. engine'.at = "idle" /\ decision' = decision
    BY <1>5, CompleteEffect DEF engineAlone
  <2>2. \/ job' = job
        \/ /\ engine.at = "answered" /\ engine.row = job
           /\ job'.state = engine.to /\ job'.result = engine.result
    BY <1>5, CompleteEffect
  <2> QED
    BY <2>1, <2>2 DEF QCInv, QCWasAllowed, BeyondPolicy
<1>6. CASE Crash
  BY <1>6 DEF Crash, Idle, QCInv, QCWasAllowed
<1>7. CASE CancelJob
  <2>1. job'.state = "cancelled" /\ UNCHANGED <<engine, decision>>
    BY <1>1, <1>7 DEF CancelJob, Jobs
  <2>2. engine.at # "idle" => engine.row # job'
    BY <2>1 DEF GatesInv, RowInv, Phase
  <2> QED
    BY <2>1, <2>2 DEF QCInv, QCWasAllowed, BeyondPolicy
<1>8. ASSUME NEW h \in People, Advance(h)
      PROVE  QCInv'
  <2>1. UNCHANGED <<engine, decision>>
    BY <1>8 DEF Advance
  <2>2. CASE job.state \in {"awaiting_test_design_disposition", "awaiting_golden_approval"}
    <3>1. engine.at = "idle"
      BY <2>2 DEF GatesInv, RowInv, Phase
    <3>2. job'.state \in {job.state, "golden_rehearsal_review", "loading_documentation_model"}
      BY <1>1, <1>8, AdvanceEffect DEF Jobs
    <3> QED
      BY <2>1, <2>2, <3>1, <3>2 DEF QCInv, QCWasAllowed, BeyondPolicy
  <2> QED
    BY <1>2, <1>8, <2>1, <2>2, AdvanceEffect
<1>9. CASE (\E h \in People : Dispose(h) \/ ApproveGoldenUpdate(h) \/ Count(h))
             \/ UNCHANGED gateVars
  BY <1>2, <1>9 DEF Dispose, ApproveGoldenUpdate, Count, gateVars
<1> QED
  BY <1>1, <1>3, <1>4, <1>5, <1>6, <1>7, <1>8, <1>9, GateKinds DEF gatesVars

(* Whatever documentation commits, repairs, denials, cancellations and      *)
(* crashes there are, QC and the operator see a candidate only after a     *)
(* decision that allowed exactly its result.                               *)
THEOREM QCForAll == GatesSpec => []QCWasAllowed
<1>1. GatesInit => QCInv
  BY DEF GatesInit, QCInv, QCWasAllowed, BeyondPolicy, Idle
<1>2. GatesInv /\ QCInv /\ [GatesNext]_gatesVars => QCInv'
  BY QCStep
<1>3. QCInv => QCWasAllowed
  BY DEF QCInv
<1> QED
  BY <1>1, <1>2, <1>3, GatesInvariant, PTL DEF GatesSpec


-----------------------------------------------------------------------------
(* What a disposition leaves behind *)

(* Goldens are rehearsed after the test designer, so a job that still waits *)
(* for dispositions has no golden report.                                  *)
GoldenInv ==
  /\ job.state \in BeforeGoldens => goldens = <<>>
  /\ engine.at # "idle" /\ engine.row.state \in BeforeGoldens => goldens = <<>>

(* What a handler counted as disposed stays disposed, and a handler about   *)
(* goldens has a golden report.                                            *)
countedAll(r) ==
  /\ r.at = "counted" /\ r.gate = "tests" =>
       /\ r.seen <= Len(tests)
       /\ \A i \in 1..r.seen : \A p \in tests[i].pending : <<i, p>> \in disposed
  /\ r.at # "idle" /\ r.gate = "goldens" => goldens # <<>>

CountInv == \A h \in People : countedAll(request[h])

LEMMA GoldenStep ==
  ASSUME GatesInv, GoldenInv, [GatesNext]_gatesVars
  PROVE  GoldenInv'
<1>1. engine \in EngineRecord /\ job \in Jobs
  BY DEF GatesInv, GatesTyped, GatesTypeOK, Jobs
<1>2. ASSUME UNCHANGED <<engine, job, goldens>>
      PROVE  GoldenInv'
  BY <1>2 DEF GoldenInv
<1>3. CASE Begin
  BY <1>1, <1>3, BeginEffect DEF GoldenInv, engineAlone
<1>4. CASE phaseAnswers
  <2>1. PICK to, result : answer(to, result) /\ routed(engine.row, to, result)
    BY <1>4 DEF phaseAnswers
  <2>2. engine'.row = engine.row /\ job' = job
    BY <1>1, <1>4, <2>1, AnswerMakes DEF phaseAnswers, routed
  <2>3. engine.at # "idle" /\ (engine.row = job \/ job.state = "cancelled")
    BY <1>4 DEF phaseAnswers, GatesInv, RowInv
  <2>4. goldens' = goldens \/ engine.row.state = "golden_rehearsal_review"
    BY <1>4 DEF phaseAnswers
  <2> QED
    BY <2>2, <2>3, <2>4 DEF GoldenInv, BeforeGoldens
<1>5. CASE Complete
  <2>1. engine'.at = "idle" /\ goldens' = goldens
    BY <1>5, CompleteEffect DEF engineAlone
  <2>2. \/ job' = job
        \/ /\ job = engine.row /\ engine.at # "idle" /\ job'.state = engine.to
           /\ routed(job, engine.to, engine.result)
    BY <1>5, CompleteEffect
  <2> QED
    BY <2>1, <2>2 DEF GoldenInv, routed
<1>6. CASE Crash
  BY <1>6 DEF Crash, Idle, GoldenInv
<1>7. CASE CancelJob
  <2>1. job'.state = "cancelled" /\ UNCHANGED <<engine, goldens>>
    BY <1>1, <1>7 DEF CancelJob, Jobs
  <2> QED
    BY <2>1 DEF GoldenInv, BeforeGoldens
<1>8. ASSUME NEW h \in People, Advance(h)
      PROVE  GoldenInv'
  <2>1. UNCHANGED <<engine, goldens>>
    BY <1>8 DEF Advance
  <2>2. job' = job \/ job'.state \in {"golden_rehearsal_review", "loading_documentation_model"}
    BY <1>1, <1>8, AdvanceEffect DEF Jobs
  <2> QED
    BY <2>1, <2>2 DEF GoldenInv, BeforeGoldens
<1>9. CASE (\E h \in People : Dispose(h) \/ ApproveGoldenUpdate(h) \/ Count(h))
             \/ UNCHANGED gateVars
  BY <1>2, <1>9 DEF Dispose, ApproveGoldenUpdate, Count, gateVars
<1> QED
  BY <1>1, <1>3, <1>4, <1>5, <1>6, <1>7, <1>8, <1>9, GateKinds DEF gatesVars

LEMMA CountStep ==
  ASSUME GatesInv, CountInv, [GatesNext]_gatesVars
  PROVE  CountInv'
<1>1. /\ engine \in EngineRecord /\ request \in [People -> RequestRecord]
      /\ tests \in Seq(TestReports(level)) /\ goldens \in Seq(GoldenReports)
      /\ MaxReports \in Nat
  BY GatesAssumption DEF GatesInv, GatesTyped, GatesTypeOK
<1>2. \A h \in People : request[h].at = "counted" => request[h].seen \in Nat
  BY <1>1 DEF RequestRecord, Idle
<1>3. ASSUME UNCHANGED <<request, tests, disposed, goldens>>
      PROVE  CountInv'
  BY <1>3 DEF CountInv, countedAll
<1>4. CASE phaseAnswers
  <2>1. UNCHANGED <<request, disposed>>
    BY <1>4 DEF phaseAnswers
  <2>2. Len(tests) <= Len(tests') /\ \A i \in DOMAIN tests : tests'[i] = tests[i]
    <3>1. CASE tests' = tests
      BY <1>1, <3>1
    <3>2. ASSUME NEW t \in TestReports(level), tests' = Append(tests, t), Len(tests) < MaxReports
          PROVE  Len(tests) <= Len(tests') /\ \A i \in DOMAIN tests : tests'[i] = tests[i]
      BY <1>1, <3>2, ReportAdded
    <3> QED
      BY <1>4, <3>1, <3>2 DEF phaseAnswers, SaveTestDesignerReport
  <2>3. goldens # <<>> => goldens' # <<>>
    <3>1. ASSUME NEW g \in GoldenReports, goldens' = Append(goldens, g), Len(goldens) < MaxReports
          PROVE  goldens' # <<>>
      BY <1>1, <3>1, ReportAdded
    <3> QED
      BY <1>4, <3>1 DEF phaseAnswers, SaveGoldenReport
  <2>4. ASSUME NEW h \in People
        PROVE  countedAll(request[h])'
    <3>1. request'[h] = request[h] /\ countedAll(request[h])
      BY <2>1 DEF CountInv
    <3>2. ASSUME request[h].at = "counted", request[h].gate = "tests"
          PROVE  /\ request[h].seen <= Len(tests')
                 /\ \A i \in 1..request[h].seen :
                      \A p \in tests'[i].pending : <<i, p>> \in disposed
      <4>1. request[h].seen \in Nat /\ Len(tests) \in Nat /\ request[h].seen <= Len(tests)
        BY <1>1, <1>2, <3>1, <3>2 DEF countedAll
      <4>2. \A i \in 1..request[h].seen : i \in DOMAIN tests
        BY <1>1, <4>1
      <4>3. tests' \in Seq(TestReports(level)) => Len(tests') \in Nat
        OBVIOUS
      <4>4. request[h].seen <= Len(tests')
        <5>1. Len(tests') \in Nat
          BY <1>1, <1>4, <4>3, ReportAdded DEF phaseAnswers, SaveTestDesignerReport
        <5> QED
          BY <2>2, <4>1, <5>1
      <4> QED
        BY <2>2, <3>1, <3>2, <4>2, <4>4 DEF countedAll
    <3> QED
      BY <2>1, <2>3, <3>1, <3>2 DEF countedAll
  <2> QED
    BY <2>4 DEF CountInv
<1>5. ASSUME NEW h \in People, Dispose(h)
      PROVE  CountInv'
  <2>1. /\ disposed \subseteq disposed' /\ UNCHANGED <<tests, goldens>>
        /\ \E i : request' = [request EXCEPT ![h] = [at |-> "stored", gate |-> "tests", report |-> i]]
    BY <1>5 DEF Dispose
  <2>2. \A g \in People :
          \/ request'[g] = request[g]
          \/ request'[g].at = "stored" /\ request'[g].gate = "tests"
    BY <1>1, <2>1
  <2> QED
    BY <2>1, <2>2 DEF CountInv, countedAll
<1>6. ASSUME NEW h \in People, ApproveGoldenUpdate(h)
      PROVE  CountInv'
  <2>1. /\ UNCHANGED <<tests, disposed, goldens>> /\ DOMAIN goldens # {}
        /\ \E i : request' = [request EXCEPT ![h] = [at |-> "stored", gate |-> "goldens", report |-> i]]
    BY <1>6 DEF ApproveGoldenUpdate
  <2>2. goldens # <<>>
    BY <1>1, <2>1
  <2>3. \A g \in People : request'[g] = request[g] \/ request'[g].at = "stored"
    BY <1>1, <2>1
  <2> QED
    BY <2>1, <2>2, <2>3 DEF CountInv, countedAll
<1>7. ASSUME NEW h \in People, Count(h)
      PROVE  CountInv'
  <2> DEFINE r == request[h]
             complete == IF r.gate = "tests" THEN nothingPending(r) ELSE nothingUnapproved(r)
  <2>1. /\ r.at = "stored" /\ UNCHANGED <<tests, disposed, goldens>>
        /\ request' = [request EXCEPT ![h] =
             IF complete THEN [at |-> "counted", gate |-> r.gate, seen |-> Len(tests)] ELSE Idle]
    BY <1>7 DEF Count
  <2>2. \A g \in People : g # h => request'[g] = request[g]
    BY <1>1, <2>1
  <2>3. \/ request'[h].at = "idle"
        \/ /\ request'[h].at = "counted" /\ request'[h].gate = r.gate
           /\ request'[h].seen = Len(tests)
           /\ r.gate = "tests" => nothingPending(r)
    BY <1>1, <2>1 DEF Idle
  <2>4. Len(tests) \in Nat /\ 1..Len(tests) = DOMAIN tests
    BY <1>1
  <2>5. r.gate = "goldens" => goldens # <<>>
    BY <2>1 DEF CountInv, countedAll
  <2>6. countedAll(request[h])'
    BY <2>1, <2>3, <2>4, <2>5 DEF countedAll, nothingPending
  <2>7. ASSUME NEW g \in People, g # h
        PROVE  countedAll(request[g])'
    BY <2>1, <2>2, <2>7 DEF CountInv, countedAll
  <2> QED
    BY <2>6, <2>7 DEF CountInv
<1>8. ASSUME NEW h \in People, Advance(h)
      PROVE  CountInv'
  <2>1. UNCHANGED <<tests, disposed, goldens>> /\ request' = [request EXCEPT ![h] = Idle]
    BY <1>8 DEF Advance
  <2>2. \A g \in People : request'[g] = request[g] \/ request'[g].at = "idle"
    BY <1>1, <2>1 DEF Idle
  <2> QED
    BY <2>1, <2>2 DEF CountInv, countedAll
<1>9. CASE Begin \/ Complete \/ Crash \/ CancelJob \/ UNCHANGED gateVars
  BY <1>3, <1>9 DEF Begin, Complete, Crash, CancelJob, gateVars
<1> QED
  BY <1>1, <1>4, <1>5, <1>6, <1>7, <1>8, <1>9, GateKinds DEF gatesVars

(* Between the count and the transition others may dispose of proposals,    *)
(* and the job may run on and come back; a person still moves it only when *)
(* every proposal of every report that was counted has its disposition.    *)
THEOREM ProposalsForAll == GatesSpec => ProposalsDisposed
<1> DEFINE disposedOf(h) ==
             \A i \in 1..request[h].seen : \A p \in tests[i].pending : <<i, p>> \in disposed
           passes(h) == Advance(h) /\ job.state = "awaiting_test_design_disposition"
<1>1. GatesInit => GoldenInv /\ CountInv
  BY DEF GatesInit, GoldenInv, CountInv, countedAll, Idle, BeforeGoldens
<1>2. GatesInv /\ GoldenInv /\ CountInv /\ [GatesNext]_gatesVars => GoldenInv' /\ CountInv'
  BY GoldenStep, CountStep
<1>3. GatesInv /\ GoldenInv /\ CountInv => \A h \in People : passes(h) => disposedOf(h)
  <2> SUFFICES ASSUME GatesInv, GoldenInv, CountInv, NEW h \in People, passes(h)
               PROVE  disposedOf(h)
    OBVIOUS
  <2>1. request[h].at = "counted"
    BY DEF Advance
  <2>2. request[h].gate \in {"tests", "goldens"}
    BY <2>1 DEF GatesInv, GatesTyped, RequestRecord, Idle
  <2>3. goldens = <<>>
    BY DEF GoldenInv, BeforeGoldens
  <2>4. request[h].gate = "tests"
    BY <2>1, <2>2, <2>3 DEF CountInv, countedAll
  <2> QED
    BY <2>1, <2>4 DEF CountInv, countedAll
<1>4. GatesInv /\ GoldenInv /\ CountInv /\ [GatesNext]_gatesVars
        => [\A h \in People : passes(h) => disposedOf(h)]_gatesVars
  BY <1>3
<1> QED
  BY <1>1, <1>2, <1>4, GatesInvariant, PTL DEF GatesSpec, ProposalsDisposed

=============================================================================
