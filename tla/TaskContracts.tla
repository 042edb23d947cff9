---------------------------- MODULE TaskContracts ----------------------------
(***************************************************************************)
(* The contract of a job and its risk (internal/taskcontract, internal/risk, *)
(* internal/storage/sqlite/task_contracts.go, internal/api/task_contracts.go *)
(* and the phase locking_acceptance_criteria of the coordinator).          *)
(*                                                                         *)
(* The phase drafts the contract from the task, people edit the draft, one  *)
(* of them approves it, and its criteria become the job's.  Each of these   *)
(* is a transaction; the assessment of the risk is another one after it, so *)
(* that several people and the phase come in between.  A waiver reads the   *)
(* latest assessment before its transaction begins.                        *)
(*                                                                         *)
(* A contract says which criteria hold and which signals of risk its words  *)
(* match; the rest of its text decides nothing.                            *)
(***************************************************************************)
EXTENDS Naturals, Sequences, FiniteSetsExt

CONSTANTS
  TaskJobs,      \* jobs
  Contributors,        \* those who may edit and approve a contract
  Reviewers,     \* those of them who may also lower a risk
  Criteria,      \* acceptance criteria, as a whole, that a contract can state
  TaskSignals,   \* TaskSignals[j]: the signals the words of the task match
  Wordings,      \* the sets of signals that the words of an edit can match
  MaxEdits,      \* bound on the edits of all contracts
  MaxWaivers,    \* bound on waivers
  MaxFailures    \* bound on the failures of jobs

(* The signals that words can match; the others look at changed paths, and  *)
(* no caller passes any.                                                   *)
Weight == [ auth_secrets_crypto_network   |-> 55,
            installer_service_hardware    |-> 50,
            numerical_statistical         |-> 30,
            weak_or_missing_tests         |-> 25,
            generated_or_binary_artifacts |-> 30,
            ambiguity                     |-> 35 ]

Signals == DOMAIN Weight
Levels == {"low", "medium", "high"}
Drafted == "drafted"             \* the criteria every draft of a task states

ASSUME TaskContractsAssumption ==
  /\ Reviewers \subseteq Contributors
  /\ TaskSignals \in [TaskJobs -> SUBSET Signals]
  /\ Wordings \subseteq SUBSET Signals
  /\ {MaxEdits, MaxWaivers, MaxFailures} \subseteq Nat

VARIABLES
  contracts,     \* contracts[j]: the row of task_contracts, or NoContract
  assessed,      \* assessed[j]: the rows of risk_assessments, oldest first
  waivers,       \* the rows of risk_waivers
  taskState,     \* taskState[j]: the job's state, those after approval as one
  criteria,      \* criteria[j]: the job's acceptance_criteria
  phase,         \* phase[j]: where the locking phase is
  desk,          \* desk[p]: the request of p that is being handled
  tally          \* edits, waivers and failures so far

contractsVars ==
  <<contracts, assessed, waivers, taskState, criteria, phase, desk, tally>>

NoContract == [version |-> 0]
Clerk == "clarifier"
Free == [step |-> "free"]

Text == [criteria : Criteria \union {Drafted}, signals : SUBSET Signals]

Contract == {NoContract} \union
  [version : 1 .. MaxEdits + MaxFailures + 1, approved : BOOLEAN,
   author : Contributors \union {Clerk}, text : Text]

(* Everything is what the tables can hold.                                 *)
ContractsTypeOK ==
  /\ contracts \in [TaskJobs -> Contract]
  /\ \A j \in TaskJobs : \A n \in 1 .. Len(assessed[j]) :
       assessed[j][n].level \in Levels /\ assessed[j][n].version >= 1
  /\ \A w \in waivers : w.by \in Reviewers /\ w.job \in TaskJobs
  /\ taskState \in [TaskJobs -> {"waiting", "locking_acceptance_criteria",
       "awaiting_task_approval", "loading_implementation_model", "failed"}]
  /\ criteria \in [TaskJobs -> Criteria \union {Drafted, "none"}]
  /\ \A p \in Contributors : desk[p].step \in {"free", "edited", "approved", "lowering"}

ContractsInit ==
  /\ contracts = [j \in TaskJobs |-> NoContract]
  /\ assessed = [j \in TaskJobs |-> <<>>] /\ waivers = {}
  /\ taskState = [j \in TaskJobs |-> "waiting"]
  /\ criteria = [j \in TaskJobs |-> "none"]
  /\ phase = [j \in TaskJobs |-> Free] /\ desk = [p \in Contributors |-> Free]
  /\ tally = [edits |-> 0, waivers |-> 0, failures |-> 0]

-----------------------------------------------------------------------------
(* Risk *)

score(text) == MapThenSumSet(LAMBDA s : Weight[s], text.signals)

levelOf(text) == IF score(text) >= 90 THEN "high"
                 ELSE IF score(text) >= 35 THEN "medium" ELSE "low"

rank(level) == CASE level = "high" -> 3 [] level = "medium" -> 2 [] OTHER -> 1

Assess(contract) == [version |-> contract.version, level |-> levelOf(contract.text)]

latest(j) == assessed[j][Len(assessed[j])]

SaveRiskAssessment(j, contract) ==
  assessed' = [assessed EXCEPT ![j] = Append(@, Assess(contract))]

-----------------------------------------------------------------------------
(* The contract *)

(* The words of the task, and what every draft adds: an open question, and  *)
(* required evidence that names no test.                                   *)
DraftFromTask(j) ==
  [criteria |-> Drafted,
   signals |-> TaskSignals[j] \union {"weak_or_missing_tests", "ambiguity"}]

Normalize(j, text, author) ==
  [version |-> contracts[j].version + 1, approved |-> FALSE,
   author |-> author, text |-> text]

exists(j) == contracts[j] # NoContract

(* Mutant of closed: an approved contract can still be edited.              *)
closedNever(j) == FALSE

closed(j) == exists(j) /\ contracts[j].approved

(* An approved contract is answered unchanged; an expected version of 0     *)
(* expects nothing.                                                        *)
admissible(j, expected) ==
  exists(j) /\ expected > 0 => contracts[j].version = expected

EnsureTaskContract(j, text, author) ==
  contracts' = IF closed(j) THEN contracts
               ELSE [contracts EXCEPT ![j] = Normalize(j, text, author)]

-----------------------------------------------------------------------------
(* The job: the phase drafts, assesses and completes; a crash in between    *)
(* starts the phase over, a failure can be retried from the queue.         *)

Reach(j) ==
  /\ taskState[j] = "waiting"
  /\ taskState' = [taskState EXCEPT ![j] = "locking_acceptance_criteria"]
  /\ UNCHANGED <<contracts, assessed, waivers, criteria, phase, desk, tally>>

Lock(j) ==
  /\ taskState[j] = "locking_acceptance_criteria" /\ phase[j] = Free
  /\ EnsureTaskContract(j, DraftFromTask(j), Clerk)
  /\ phase' = [phase EXCEPT ![j] = [step |-> "drafted", contract |-> contracts'[j]]]
  /\ UNCHANGED <<assessed, waivers, taskState, criteria, desk, tally>>

AssessDraft(j) ==
  /\ phase[j].step = "drafted"
  /\ SaveRiskAssessment(j, phase[j].contract)
  /\ phase' = [phase EXCEPT ![j] = [step |-> "assessed"]]
  /\ UNCHANGED <<contracts, waivers, taskState, criteria, desk, tally>>

CompleteLocking(j) ==
  /\ phase[j].step = "assessed"
  /\ phase' = [phase EXCEPT ![j] = Free]
  /\ taskState' = [taskState EXCEPT ![j] = "awaiting_task_approval"]
  /\ UNCHANGED <<contracts, assessed, waivers, criteria, desk, tally>>

failing == tally.failures < MaxFailures /\ tally' = [tally EXCEPT !.failures = @ + 1]

Recover(j) ==
  /\ phase[j] # Free /\ failing
  /\ phase' = [phase EXCEPT ![j] = Free]
  /\ UNCHANGED <<contracts, assessed, waivers, taskState, criteria, desk>>

FailTask(j) ==
  /\ taskState[j] \in {"waiting", "locking_acceptance_criteria",
                       "loading_implementation_model"} /\ failing
  /\ taskState' = [taskState EXCEPT ![j] = "failed"]
  /\ phase' = [phase EXCEPT ![j] = Free]
  /\ UNCHANGED <<contracts, assessed, waivers, criteria, desk>>

RetryTask(j) ==
  /\ taskState[j] = "failed"
  /\ taskState' = [taskState EXCEPT ![j] = "waiting"]
  /\ UNCHANGED <<contracts, assessed, waivers, criteria, phase, desk, tally>>

-----------------------------------------------------------------------------
(* Contributors *)

(* updateTaskContract: whatever the state of the job.                       *)
Edit(p, j) ==
  /\ desk[p] = Free /\ tally.edits < MaxEdits
  /\ \E text \in [criteria : Criteria, signals : Wordings],
       expected \in {0, contracts[j].version} :
       /\ admissible(j, expected)
       /\ EnsureTaskContract(j, text, p)
  /\ desk' = [desk EXCEPT ![p] = [step |-> "edited", job |-> j, contract |-> contracts'[j]]]
  /\ tally' = [tally EXCEPT !.edits = @ + 1]
  /\ UNCHANGED <<assessed, waivers, taskState, criteria, phase>>

AssessEdit(p) ==
  /\ desk[p].step = "edited"
  /\ SaveRiskAssessment(desk[p].job, desk[p].contract)
  /\ desk' = [desk EXCEPT ![p] = Free]
  /\ UNCHANGED <<contracts, waivers, taskState, criteria, phase, tally>>

(* ApproveTaskContract: of the version the person has read.                 *)
Approve(p, j) ==
  /\ desk[p] = Free /\ exists(j) /\ ~closed(j)
  /\ taskState[j] = "awaiting_task_approval"
  /\ contracts' = [contracts EXCEPT ![j].approved = TRUE]
  /\ criteria' = [criteria EXCEPT ![j] = contracts[j].text.criteria]
  /\ taskState' = [taskState EXCEPT ![j] = "loading_implementation_model"]
  /\ desk' = [desk EXCEPT ![p] = [step |-> "approved", job |-> j, contract |-> contracts'[j]]]
  /\ UNCHANGED <<assessed, waivers, phase, tally>>

(* approveTaskContract: the risk is assessed only when it never was.        *)
AssessApproved(p) ==
  /\ desk[p].step = "approved"
  /\ IF assessed[desk[p].job] = <<>>
     THEN SaveRiskAssessment(desk[p].job, desk[p].contract)
     ELSE UNCHANGED assessed
  /\ desk' = [desk EXCEPT ![p] = Free]
  /\ UNCHANGED <<contracts, waivers, taskState, criteria, phase, tally>>

(* CreateRiskWaiver reads the latest assessment, which must be the one the  *)
(* reviewer names and be above the level asked for.                        *)
ReadForWaiver(p, j) ==
  /\ p \in Reviewers /\ desk[p] = Free /\ assessed[j] # <<>>
  /\ tally.waivers < MaxWaivers
  /\ \E level \in Levels :
       /\ rank(level) < rank(latest(j).level)
       /\ desk' = [desk EXCEPT ![p] =
            [step |-> "lowering", job |-> j, of |-> latest(j), level |-> level]]
  /\ tally' = [tally EXCEPT !.waivers = @ + 1]
  /\ UNCHANGED <<contracts, assessed, waivers, taskState, criteria, phase>>

CreateRiskWaiver(p) ==
  LET request == desk[p] IN
  /\ request.step = "lowering"
  /\ waivers' = waivers \union {[job |-> request.job, by |-> p,
                                 from |-> request.of, to |-> request.level]}
  /\ assessed' = [assessed EXCEPT ![request.job] =
       Append(@, [request.of EXCEPT !.level = request.level])]
  /\ desk' = [desk EXCEPT ![p] = Free]
  /\ UNCHANGED <<contracts, taskState, criteria, phase, tally>>

ContractsNext ==
  \/ \E j \in TaskJobs :
       \/ Reach(j) \/ Lock(j) \/ AssessDraft(j) \/ CompleteLocking(j)
       \/ Recover(j) \/ FailTask(j) \/ RetryTask(j)
       \/ \E p \in Contributors : Edit(p, j) \/ Approve(p, j) \/ ReadForWaiver(p, j)
  \/ \E p \in Contributors : AssessEdit(p) \/ AssessApproved(p) \/ CreateRiskWaiver(p)

ContractsSpec == ContractsInit /\ [][ContractsNext]_contractsVars

-----------------------------------------------------------------------------
(* Properties *)

(* What is implemented is what a person approved: from the approval on, the *)
(* contract of the job is approved and the job's criteria are those it      *)
(* states, whatever edits, retries of the phase and second approvals come.  *)
ApprovedIsImplemented ==
  \A j \in TaskJobs : taskState[j] = "loading_implementation_model" =>
    closed(j) /\ criteria[j] = contracts[j].text.criteria

(* "Human edits must be attributed and preserved"                           *)
(* (LOCAL_CODE_MAINTAINER_INCREMENT_2_GOAL.md:441): no step replaces the    *)
(* contract a person wrote by the words of the clarifier.                   *)
HumanEditsPreserved ==
  [][\A j \in TaskJobs :
       exists(j) /\ contracts[j].author \in Contributors
         => contracts'[j].author \in Contributors]_contractsVars
=============================================================================
