----------------------------- MODULE Candidate -----------------------------
(***************************************************************************)
(* The candidate commit of one job, from the worktree to the remote        *)
(* branch: what the phases of internal/workflow/coordinator.go do outside  *)
(* the database (internal/gitbridge/manager.go,                            *)
(* internal/repositories/worktree.go) and to the findings of the job       *)
(* (internal/storage/sqlite/findings.go), and the approval of its          *)
(* publication (internal/storage/sqlite/approvals.go).                     *)
(*                                                                         *)
(* A phase has several effects and is committed last, by CompletePhase; a  *)
(* crash or an interruption between any two of them repeats the phase or   *)
(* fails the job.  Budgets, deadlines and contexts are JobEngine's.        *)
(***************************************************************************)
EXTENDS PhaseRouting, FindingRules, Sequences, FiniteSets

CONSTANTS
  Engines,        \* controllers that may be running a step of this job
  MaxTroubles,    \* bound: crashes, interruptions, cancellations, retries,
                  \* approvals of remote calls and moves of the default branch
  MaxUpstream     \* bound: commits of the default branch

ASSUME CandidateAssumption ==
  Findings \subseteq Nat /\ MaxTroubles \in Nat /\ MaxUpstream \in Nat \ {0}

VARIABLES
  job,            \* the row: state, version, base_sha, result_sha, review cycle
  contract,       \* the task contract is approved
  commits,        \* commits[c] is the version of the phase that made c; the first ones,
                  \* with 0, are those that the default branch has or will have
  upstream,       \* the head of the default branch
  claim,          \* the base in the job's claim file
  tree,           \* the worktree: its HEAD, and whether it has other changes
  branch,         \* the remote branch maintainer/<job>
  findings,
  verified,       \* commits that passed the full suite (kept as differentials)
  reviewed,       \* commits that were checked out when QC read the worktree
  approvals,      \* subjects of draft publication approvals
  repairs,        \* review cycles an implementation agent repaired (not stored)
  fix,            \* the commit at which a finding was marked fixed (not stored)
  troubles,       \* how many of them there were
  engine          \* the step each engine is in

vars == <<job, contract, commits, upstream, claim, tree, branch, findings, verified,
          reviewed, approvals, repairs, fix, troubles, engine>>

NoCommit == 0

Commits == 1..Len(commits)

Pcs == {"idle", "begun", "working", "edited", "verifying", "listing", "marking",
        "pushing", "answered", "erring"}

Row == [state : State, version : Nat, base : Nat, result : Nat, cycle : Nat]

(* An engine in Execute: its copy of the row, the commit and the cycle it   *)
(* will report, the versions of the findings it is marking, the answer.     *)
EngineState ==
  [pc : Pcs, row : Row, commit : Nat, cycle : Nat,
   listed : [Findings -> Nat], outcome : Outcome]

noneListed == [f \in Findings |-> 0]

NoRow == [state |-> "queued", version |-> 0, base |-> NoCommit, result |-> NoCommit,
          cycle |-> 0]

Idle == [pc |-> "idle", row |-> NoRow, commit |-> NoCommit, cycle |-> 0,
         listed |-> noneListed, outcome |-> Default]

TypeOK ==
  /\ job \in Row
  /\ {job.base, job.result} \subseteq Commits \union {NoCommit}
  /\ contract \in BOOLEAN
  /\ commits \in Seq(Nat)
  /\ upstream \in Commits
  /\ claim \in Commits \union {NoCommit}
  /\ tree \in [head : Commits \union {NoCommit}, dirty : BOOLEAN]
  /\ branch \in Commits \union {NoCommit}
  /\ findings \in [Findings -> Finding]
  /\ verified \subseteq Commits
  /\ reviewed \subseteq Commits
  /\ approvals \subseteq Commits
  /\ repairs \subseteq Nat
  /\ fix \in [Findings -> Commits \union {NoCommit}]
  /\ troubles \in Nat
  /\ engine \in [Engines -> EngineState]

Init ==
  /\ job = [state |-> "queued", version |-> 1, base |-> NoCommit, result |-> NoCommit,
            cycle |-> 0]
  /\ contract = FALSE
  /\ commits = [c \in 1..MaxUpstream |-> 0]
  /\ upstream = 1
  /\ claim = NoCommit
  /\ tree = [head |-> NoCommit, dirty |-> FALSE]
  /\ branch = NoCommit
  /\ findings = [f \in Findings |-> Unseen]
  /\ verified = {}
  /\ reviewed = {}
  /\ approvals = {}
  /\ repairs = {}
  /\ fix = [f \in Findings |-> NoCommit]
  /\ troubles = 0
  /\ engine = [e \in Engines |-> Idle]

-----------------------------------------------------------------------------
(* Building blocks *)

rowUnchanged == UNCHANGED <<job, contract, approvals>>
gitUnchanged == UNCHANGED <<commits, claim, tree, branch>>
findingsUnchanged == UNCHANGED <<findings, fix>>
historyUnchanged == UNCHANGED <<verified, reviewed, repairs>>
worldUnchanged == UNCHANGED <<upstream, troubles>>

at(e, pc, states) == engine[e].pc = pc /\ engine[e].row.state \in states

copy(e) == engine[e].row

goto(e, pc) == engine' = [engine EXCEPT ![e].pc = pc]

gotoWith(e, pc, commit, cycle) ==
  engine' = [engine EXCEPT ![e] = [@ EXCEPT !.pc = pc, !.commit = commit, !.cycle = cycle]]

(* The phase returns outcome o and, in its metadata, a commit and a cycle.  *)
answer(e, o, commit, cycle) ==
  engine' = [engine EXCEPT ![e] =
    [pc |-> "answered", row |-> @.row, commit |-> commit, cycle |-> cycle,
     listed |-> noneListed, outcome |-> o]]

answerDefault(e) == answer(e, Default, copy(e).result, copy(e).cycle)

(* Commit: with HEAD where it is expected the changes are committed, if     *)
(* there are any; a HEAD that an earlier run of the same phase made is      *)
(* taken as the answer; any other HEAD is a conflict.                       *)
headExpected(expected) == tree.head = expected

headRecovered(e, expected) ==
  tree.head # expected /\ tree.head # NoCommit /\ commits[tree.head] = copy(e).version

commitRefused(e, expected) ==
  expected = NoCommit \/ (~headExpected(expected) /\ ~headRecovered(e, expected))

commitMakes(e, expected) == headExpected(expected) /\ tree.dirty

committed(e, expected) ==
  IF commitMakes(e, expected) THEN Len(commits) + 1 ELSE tree.head

(* The commit names the phase and its version (Maintainer-Operation).       *)
commitEffect(e, expected) ==
  IF commitMakes(e, expected)
  THEN /\ commits' = Append(commits, copy(e).version)
       /\ tree' = [head |-> Len(commits) + 1, dirty |-> FALSE]
       /\ UNCHANGED <<claim, branch>>
  ELSE gitUnchanged

(* The phases whose workers mount the worktree writable (all but QC, see    *)
(* runnerd), and those of them that do nothing else to the candidate.       *)
WritingPhases == {"preparing_dependencies", "reproducing", "test_design_review"}

WorkerPhases ==
  WritingPhases \union
    {"implementing", "verifying_targeted", "verifying_full", "documentation_review",
     "repairing", "final_verification"}

ModelPhases == {"implementing", "documentation_review", "repairing"}

workerRuns(e) ==
  \/ at(e, "begun", WorkerPhases \ ModelPhases)
  \/ at(e, "working", ModelPhases)
  \/ engine[e].pc = "verifying"

(* Such a worker leaves what its commands left.                             *)
workerLeaves(e) ==
  /\ tree' \in {tree} \union (IF workerRuns(e) THEN {[tree EXCEPT !.dirty = TRUE]} ELSE {})
  /\ UNCHANGED <<commits, claim, branch>>

PlainPhases ==
  WritingPhases \union
    {"queued", "locking_acceptance_criteria", "loading_implementation_model",
     "loading_test_designer_model", "golden_rehearsal_review",
     "loading_documentation_model", "policy_review", "loading_qc_model",
     "awaiting_repair", "draft_pr_created"}

-----------------------------------------------------------------------------
(* Coordinator.Execute *)

Begin(e) ==
  /\ engine[e].pc = "idle"
  /\ Resumable(job.state)
  /\ engine' = [engine EXCEPT ![e] = [Idle EXCEPT !.pc = "begun", !.row = job]]
  /\ rowUnchanged /\ gitUnchanged /\ findingsUnchanged /\ historyUnchanged /\ worldUnchanged

RunPlain(e) ==
  /\ at(e, "begun", PlainPhases)
  /\ \E o \in Outcomes(copy(e).state, copy(e).cycle) :
       answer(e, o, copy(e).result, copy(e).cycle)
  /\ workerLeaves(e)
  /\ rowUnchanged /\ findingsUnchanged /\ historyUnchanged /\ worldUnchanged

(* A worker, a model or a policy refuses; a suite does not pass.            *)
PhaseFails(e) ==
  /\ engine[e].pc \in {"begun", "working", "edited", "verifying"}
  /\ goto(e, "erring")
  /\ workerLeaves(e)
  /\ rowUnchanged /\ findingsUnchanged /\ historyUnchanged /\ worldUnchanged

(* A call to a remote model needs an approval before the agent runs.        *)
AskEgress(e) ==
  /\ \/ at(e, "working", {"implementing", "repairing"}) /\ ~tree.dirty
     \/ at(e, "begun", {"documentation_review", "qc_review"}) /\ copy(e).result # NoCommit
  /\ \E o \in egressOutcomes : answer(e, o, copy(e).result, copy(e).cycle)
  /\ rowUnchanged /\ gitUnchanged /\ findingsUnchanged /\ historyUnchanged /\ worldUnchanged

(* Sync fetches the mirror and reads the head of the default branch.        *)
Synchronize(e) ==
  /\ at(e, "begun", {"syncing"})
  /\ answer(e, Default, upstream, copy(e).cycle)
  /\ rowUnchanged /\ gitUnchanged /\ findingsUnchanged /\ historyUnchanged /\ worldUnchanged

(* Create writes the claim file first; another base is a different request. *)
ClaimWorktree(e) ==
  /\ at(e, "begun", {"creating_worktree"})
  /\ claim \in {NoCommit, copy(e).base}
  /\ claim' = copy(e).base
  /\ goto(e, "working")
  /\ UNCHANGED <<commits, tree, branch>>
  /\ rowUnchanged /\ findingsUnchanged /\ historyUnchanged /\ worldUnchanged

(* An existing worktree is accepted with its changes, if HEAD is the base.  *)
CheckOut(e) ==
  /\ at(e, "working", {"creating_worktree"})
  /\ tree.head \in {NoCommit, copy(e).base}
  /\ tree' = [tree EXCEPT !.head = copy(e).base]
  /\ answerDefault(e)
  /\ UNCHANGED <<commits, claim, branch>>
  /\ rowUnchanged /\ findingsUnchanged /\ historyUnchanged /\ worldUnchanged

(* A model phase first commits what is there: the work of an earlier run    *)
(* of the phase, it is thought.                                             *)
RecoverImplementation(e) ==
  LET commit == committed(e, copy(e).base) IN
  /\ at(e, "begun", {"implementing"})
  /\ ~commitRefused(e, copy(e).base)
  /\ commitEffect(e, copy(e).base)
  /\ IF commit # copy(e).base
     THEN answer(e, Default, commit, copy(e).cycle)
     ELSE goto(e, "working")
  /\ rowUnchanged /\ findingsUnchanged /\ historyUnchanged /\ worldUnchanged

RecoverRepair(e) ==
  LET commit == committed(e, copy(e).result) IN
  /\ at(e, "begun", {"repairing"})
  /\ ~commitRefused(e, copy(e).result)
  /\ commitEffect(e, copy(e).result)
  /\ IF commit # copy(e).result
     THEN gotoWith(e, "listing", commit, copy(e).cycle + 1)
     ELSE goto(e, IF \E f \in Blocking : findings[f].status = "open"
                  THEN "working" ELSE "erring")
  /\ rowUnchanged /\ findingsUnchanged /\ historyUnchanged /\ worldUnchanged

StartDocumentation(e) ==
  /\ at(e, "begun", {"documentation_review"})
  /\ copy(e).result # NoCommit
  /\ goto(e, "working")
  /\ rowUnchanged /\ gitUnchanged /\ findingsUnchanged /\ historyUnchanged /\ worldUnchanged

agentRuns(e) == at(e, "working", ModelPhases)

(* The agent edits file by file; it may die, or be cut off, half way.       *)
AgentWrites(e) ==
  /\ agentRuns(e)
  /\ ~tree.dirty
  /\ tree' = [tree EXCEPT !.dirty = TRUE]
  /\ UNCHANGED <<commits, claim, branch, engine>>
  /\ rowUnchanged /\ findingsUnchanged /\ historyUnchanged /\ worldUnchanged

AgentReturns(e) ==
  /\ agentRuns(e)
  /\ goto(e, "edited")
  /\ repairs' = IF copy(e).state = "repairing" THEN repairs \union {copy(e).cycle} ELSE repairs
  /\ UNCHANGED <<verified, reviewed>>
  /\ rowUnchanged /\ gitUnchanged /\ findingsUnchanged /\ worldUnchanged

CommitImplementation(e) ==
  /\ at(e, "edited", {"implementing"})
  /\ ~commitRefused(e, copy(e).base)
  /\ commitEffect(e, copy(e).base)
  /\ answer(e, Default, committed(e, copy(e).base), copy(e).cycle)
  /\ rowUnchanged /\ findingsUnchanged /\ historyUnchanged /\ worldUnchanged

repairCommitted(e) ==
  /\ at(e, "edited", {"repairing"})
  /\ ~commitRefused(e, copy(e).result)
  /\ commitEffect(e, copy(e).result)
  /\ rowUnchanged /\ findingsUnchanged /\ historyUnchanged /\ worldUnchanged

(* Mutant of CommitRepair: a repair that changed nothing is one as well.    *)
CommitRepairAnyway(e) ==
  LET commit == committed(e, copy(e).result) IN
  repairCommitted(e) /\ gotoWith(e, "listing", commit, copy(e).cycle + 1)

(* A repair that changed nothing is an error.                               *)
CommitRepair(e) ==
  LET commit == committed(e, copy(e).result) IN
  /\ repairCommitted(e)
  /\ IF commit # copy(e).result
     THEN gotoWith(e, "listing", commit, copy(e).cycle + 1)
     ELSE goto(e, "erring")

(* Blocking documentation evidence becomes findings and fails the phase.    *)
DocumentationBlocked(e) ==
  /\ at(e, "edited", {"documentation_review"})
  /\ \E report \in (SUBSET Late) \ {{}} :
       /\ reportAccepted(findings, report, copy(e).cycle)
       /\ findings' = observed(findings, report, copy(e).cycle)
  /\ goto(e, "erring")
  /\ UNCHANGED fix
  /\ rowUnchanged /\ gitUnchanged /\ historyUnchanged /\ worldUnchanged

documentationCommitted(e) ==
  /\ at(e, "edited", {"documentation_review"})
  /\ ~commitRefused(e, copy(e).result)
  /\ commitEffect(e, copy(e).result)
  /\ rowUnchanged /\ findingsUnchanged /\ historyUnchanged /\ worldUnchanged

(* Mutant of CommitDocumentation: documentation is not verified again.      *)
CommitDocumentationAnyway(e) ==
  documentationCommitted(e)
    /\ answer(e, Default, committed(e, copy(e).result), copy(e).cycle)

(* A documentation commit is verified before it becomes the result.         *)
CommitDocumentation(e) ==
  LET commit == committed(e, copy(e).result) IN
  /\ documentationCommitted(e)
  /\ IF commit # copy(e).result
     THEN gotoWith(e, "verifying", commit, copy(e).cycle)
     ELSE answerDefault(e)

(* requiredVerification accepts a report about the very commit only.        *)
scanned(commit) == commit # NoCommit /\ tree.head = commit

VerifyTargeted(e) ==
  /\ at(e, "begun", {"verifying_targeted"})
  /\ scanned(copy(e).result)
  /\ workerLeaves(e)
  /\ answerDefault(e)
  /\ rowUnchanged /\ findingsUnchanged /\ historyUnchanged /\ worldUnchanged

passesFull(e, commit) ==
  /\ scanned(commit)
  /\ workerLeaves(e)
  /\ verified' = verified \union {tree.head}
  /\ UNCHANGED <<reviewed, repairs>>
  /\ rowUnchanged /\ findingsUnchanged /\ worldUnchanged

VerifyFull(e) ==
  /\ at(e, "begun", {"verifying_full"})
  /\ passesFull(e, copy(e).result)
  /\ \E o \in fullRoutes : answer(e, o, copy(e).result, copy(e).cycle)

VerifyDocumentation(e) ==
  /\ engine[e].pc = "verifying"
  /\ passesFull(e, engine[e].commit)
  /\ answer(e, Default, engine[e].commit, copy(e).cycle)

(* Mutant of VerifyFinal: what failed is marked like what passed.           *)
VerifyFinalAnyway(e) ==
  /\ at(e, "begun", {"final_verification"})
  /\ gotoWith(e, "listing", copy(e).result, copy(e).cycle)
  /\ rowUnchanged /\ gitUnchanged /\ findingsUnchanged /\ historyUnchanged /\ worldUnchanged

VerifyFinal(e) ==
  /\ at(e, "begun", {"final_verification"})
  /\ passesFull(e, copy(e).result)
  /\ gotoWith(e, "listing", copy(e).result, copy(e).cycle)

blocked(report) == report \cap Blocking # {}

(* QC reads the worktree and reports findings of the present candidate.     *)
Review(e) ==
  /\ at(e, "begun", {"qc_review"})
  /\ copy(e).result # NoCommit
  /\ \E report \in SUBSET Findings :
       /\ reportAccepted(findings, report, copy(e).cycle)
       /\ findings' = observed(findings, report, copy(e).cycle)
       /\ \/ /\ blocked(report)
             /\ answer(e, IF copy(e).cycle + 1 < MaxReviewCycles THEN Repair ELSE Default,
                       copy(e).result, copy(e).cycle)
          \/ /\ ~blocked(report)
             /\ gotoWith(e, "listing", copy(e).result, copy(e).cycle)
  /\ reviewed' = reviewed \union {tree.head}
  /\ UNCHANGED <<fix, verified, repairs>>
  /\ rowUnchanged /\ gitUnchanged /\ worldUnchanged

(* transitionFindings lists the findings that stand at one status ...       *)
markedFrom ==
  [repairing |-> "open", final_verification |-> "fixed", qc_review |-> "verified"]

markedTo ==
  [repairing |-> "fixed", final_verification |-> "verified", qc_review |-> "closed"]

List(e) ==
  /\ engine[e].pc = "listing"
  /\ engine' = [engine EXCEPT ![e] = [@ EXCEPT !.pc = "marking",
       !.listed = [f \in Findings |->
          IF findings[f].status = markedFrom[copy(e).state] THEN findings[f].version ELSE 0]]]
  /\ rowUnchanged /\ gitUnchanged /\ findingsUnchanged /\ historyUnchanged /\ worldUnchanged

listed(e) == {f \in Findings : engine[e].listed[f] # 0}

next(e, f) == engine[e].pc = "marking" /\ f \in listed(e) /\ \A g \in listed(e) : f <= g

markable(e, f) ==
  /\ findings[f].version = engine[e].listed[f]
  /\ CanTransitionFinding(findings[f].status, markedTo[copy(e).state])

(* ... and moves them one by one, each in a transaction of its own.         *)
Mark(e) ==
  /\ \E f \in Findings :
       /\ next(e, f)
       /\ markable(e, f)
       /\ findings' = transitioned(findings, f, markedTo[copy(e).state])
       /\ fix' = IF copy(e).state = "repairing" THEN [fix EXCEPT ![f] = engine[e].commit] ELSE fix
       /\ engine' = [engine EXCEPT ![e].listed[f] = 0]
  /\ rowUnchanged /\ gitUnchanged /\ historyUnchanged /\ worldUnchanged

(* Somebody moved the finding since it was listed.                          *)
MarkConflict(e) ==
  /\ \E f \in Findings : next(e, f) /\ ~markable(e, f)
  /\ goto(e, "erring")
  /\ rowUnchanged /\ gitUnchanged /\ findingsUnchanged /\ historyUnchanged /\ worldUnchanged

Marked(e) ==
  /\ engine[e].pc = "marking"
  /\ listed(e) = {}
  /\ answer(e, IF copy(e).state = "final_verification"
               THEN To("loading_documentation_model") ELSE Default,
            engine[e].commit, engine[e].cycle)
  /\ rowUnchanged /\ gitUnchanged /\ findingsUnchanged /\ historyUnchanged /\ worldUnchanged

(* Publish looks at the default branch, at HEAD and at the remote branch.   *)
publishable(e) == upstream = copy(e).base /\ tree.head = copy(e).result

CheckRemote(e) ==
  /\ at(e, "begun", {"publishing_branch"})
  /\ publishable(e)
  /\ \/ branch = NoCommit /\ goto(e, "pushing")
     \/ branch = copy(e).result /\ answerDefault(e)
  /\ rowUnchanged /\ gitUnchanged /\ findingsUnchanged /\ historyUnchanged /\ worldUnchanged

Push(e) ==
  /\ engine[e].pc = "pushing"
  /\ branch' = tree.head
  /\ answerDefault(e)
  /\ UNCHANGED <<commits, claim, tree>>
  /\ rowUnchanged /\ findingsUnchanged /\ historyUnchanged /\ worldUnchanged

-----------------------------------------------------------------------------
(* How a step ends *)

moveTo(to, base, result, cycle) ==
  /\ CanTransition(job.state, to)
  /\ job' = [state |-> to, version |-> job.version + 1, base |-> base, result |-> result,
             cycle |-> cycle]

stepEnds(e) == engine' = [engine EXCEPT ![e] = Idle]

unchangedSince(e) == job.version = copy(e).version

route(e) == nextState(copy(e).state, engine[e].outcome)

(* A recorded base is never replaced.                                       *)
baseAccepted(e) == copy(e).state = "syncing" => job.base \in {NoCommit, engine[e].commit}

canComplete(e) == route(e) # NoRoute /\ unchangedSince(e) /\ baseAccepted(e)

CompletePhase(e) ==
  LET syncing == copy(e).state = "syncing" IN
  /\ engine[e].pc = "answered"
  /\ canComplete(e)
  /\ moveTo(route(e),
            IF syncing THEN engine[e].commit ELSE job.base,
            IF syncing THEN job.result ELSE engine[e].commit,
            engine[e].cycle)
  /\ stepEnds(e)
  /\ UNCHANGED <<contract, approvals>>
  /\ gitUnchanged /\ findingsUnchanged /\ historyUnchanged /\ worldUnchanged

CompleteRefused(e) ==
  /\ engine[e].pc = "answered"
  /\ ~canComplete(e)
  /\ stepEnds(e)
  /\ rowUnchanged /\ gitUnchanged /\ findingsUnchanged /\ historyUnchanged /\ worldUnchanged

rowMoves ==
  /\ UNCHANGED <<contract, approvals>>
  /\ gitUnchanged /\ findingsUnchanged /\ historyUnchanged

RecordFailure(e) ==
  /\ engine[e].pc = "erring"
  /\ unchangedSince(e)
  /\ moveTo("failed", job.base, job.result, job.cycle)
  /\ stepEnds(e)
  /\ rowMoves /\ worldUnchanged

FailureNotRecorded(e) ==
  /\ engine[e].pc = "erring"
  /\ ~unchangedSince(e)
  /\ stepEnds(e)
  /\ rowUnchanged /\ gitUnchanged /\ findingsUnchanged /\ historyUnchanged /\ worldUnchanged

trouble == troubles < MaxTroubles /\ troubles' = troubles + 1

strikes(e) ==
  /\ trouble
  /\ rowUnchanged /\ gitUnchanged /\ findingsUnchanged /\ historyUnchanged
  /\ UNCHANGED upstream

(* The database, the claim, the worktree and the remote survive.            *)
Crash(e) == engine[e].pc # "idle" /\ stepEnds(e) /\ strikes(e)

(* The context ends, or a record or an artifact cannot be written.          *)
Interrupt(e) == engine[e].pc \notin {"idle", "erring"} /\ goto(e, "erring") /\ strikes(e)

-----------------------------------------------------------------------------
(* People, and the default branch *)

personMoves(from, to) ==
  /\ job.state \in from
  /\ moveTo(to, job.base, job.result, job.cycle)
  /\ gitUnchanged /\ findingsUnchanged /\ historyUnchanged
  /\ UNCHANGED <<upstream, engine>>

(* Nobody tells the engine that processes the job.                          *)
CancelJob ==
  /\ trouble
  /\ personMoves(State, "cancelled")
  /\ UNCHANGED <<contract, approvals>>

RetryJob ==
  /\ trouble
  /\ personMoves({"failed", "cancelled"}, "queued")
  /\ UNCHANGED <<contract, approvals>>

ApproveTaskContract ==
  /\ ~contract
  /\ contract' = TRUE
  /\ personMoves({"awaiting_task_approval"}, "loading_implementation_model")
  /\ UNCHANGED <<approvals, troubles>>

DisposeTestProposals ==
  /\ personMoves({"awaiting_test_design_disposition"}, "golden_rehearsal_review")
  /\ UNCHANGED <<contract, approvals, troubles>>

ApproveGoldens ==
  /\ personMoves({"awaiting_golden_approval"}, "loading_documentation_model")
  /\ UNCHANGED <<contract, approvals, troubles>>

(* The state to resume in is an argument of the request.                    *)
ApproveRemoteEgress ==
  /\ trouble
  /\ \E to \in State \ {"failed", "cancelled"} :
       personMoves({"awaiting_remote_egress_approval"}, to)
  /\ UNCHANGED <<contract, approvals>>

publicationApproved ==
  /\ job.result # NoCommit
  /\ job.result \notin approvals
  /\ approvals' = approvals \union {job.result}
  /\ personMoves({"awaiting_operator"}, "publishing_branch")
  /\ UNCHANGED <<contract, troubles>>

(* Mutant of ApprovePublication: the findings are not counted.              *)
ApprovePublicationAnyway == publicationApproved

ApprovePublication ==
  ~(\E f \in Findings : unresolved(findings, f)) /\ publicationApproved

(* Dispute, accept or waive, in whatever state the job is.                  *)
ActOnFinding(f) ==
  /\ \E to \in {"disputed", "accepted", "human_waived"} :
       /\ CanTransitionFinding(findings[f].status, to)
       /\ findings' = transitioned(findings, f, to)
  /\ UNCHANGED <<fix, engine>>
  /\ rowUnchanged /\ gitUnchanged /\ historyUnchanged /\ worldUnchanged

UpstreamMoves ==
  /\ upstream < MaxUpstream
  /\ trouble
  /\ upstream' = upstream + 1
  /\ UNCHANGED engine
  /\ rowUnchanged /\ gitUnchanged /\ findingsUnchanged /\ historyUnchanged

Agent(e) ==
  \/ RecoverImplementation(e) \/ RecoverRepair(e) \/ StartDocumentation(e)
  \/ AskEgress(e) \/ AgentWrites(e) \/ AgentReturns(e)
  \/ CommitImplementation(e) \/ CommitRepair(e)
  \/ DocumentationBlocked(e) \/ CommitDocumentation(e)

Judge(e) ==
  \/ VerifyTargeted(e) \/ VerifyFull(e) \/ VerifyDocumentation(e) \/ VerifyFinal(e)
  \/ Review(e) \/ List(e) \/ Mark(e) \/ MarkConflict(e) \/ Marked(e)

Step(e) ==
  \/ Begin(e) \/ RunPlain(e) \/ PhaseFails(e) \/ Agent(e) \/ Judge(e)
  \/ Synchronize(e) \/ ClaimWorktree(e) \/ CheckOut(e) \/ CheckRemote(e) \/ Push(e)
  \/ CompletePhase(e) \/ CompleteRefused(e) \/ RecordFailure(e) \/ FailureNotRecorded(e)

People ==
  \/ CancelJob \/ RetryJob \/ ApproveTaskContract \/ DisposeTestProposals
  \/ ApproveGoldens \/ ApproveRemoteEgress \/ ApprovePublication
  \/ \E f \in Findings : ActOnFinding(f)

Next ==
  \/ \E e \in Engines : Step(e) \/ Crash(e) \/ Interrupt(e)
  \/ People
  \/ UpstreamMoves

Spec == Init /\ [][Next]_vars

-----------------------------------------------------------------------------
(* Properties *)

(* A person is never asked to approve a candidate whose full suite did not  *)
(* pass, and every phase that publishes has such a candidate, whatever was  *)
(* retried, interrupted or resumed in another phase (requiredVerification,  *)
(* WorktreeManager.Create).                                                 *)
CandidateWasVerified ==
  job.state \in {"awaiting_operator", "publishing_branch", "draft_pr_created"}
    => job.result \in verified

(* What is on the remote branch is a commit that passed the full suite, was *)
(* checked out when QC read the worktree, and was approved by a person, and *)
(* nothing that blocks it is unresolved (Publish pushes HEAD by name).      *)
PublishedWasApproved ==
  branch # NoCommit =>
    /\ branch \in verified \intersect reviewed \intersect approvals
    /\ ~\E f \in Findings : unresolved(findings, f)

(* The candidate goes through a publication as Publication promises it:     *)
(* evidence first, then one decision with which it is frozen, then one push *)
(* (ApprovePublication, Publish).                                           *)
Published == INSTANCE Publication WITH
  Blocker <- Findings, Nothing <- NoCommit, made <- Commits,
  open <- {f \in Findings : unresolved(findings, f)},
  approved <- approvals, published <- branch

PublicationPromise == Published!PublicationSpec

(* A finding counts as verified, or closed after that, only if the full     *)
(* suite passed for the very commit at which it was marked as fixed         *)
(* (Coordinator.Execute, final verification).                               *)
FixesVerified ==
  \A f \in Findings :
    findings[f].status \in {"verified", "closed"} => fix[f] \in verified

(* A repair cycle is counted for a new candidate only, so the cycles that   *)
(* bound the loop are not used up by phases that are repeated (repair).     *)
CyclesHaveCandidates ==
  [][job'.cycle # job.cycle => job'.cycle = job.cycle + 1 /\ job'.result # job.result]_vars

(* A finding is marked fixed only in a cycle in which an implementation     *)
(* agent worked on the repair.  The recovery branch of repair takes any     *)
(* change it finds in the worktree for such work.                           *)
FixedMeansRepaired ==
  [][\A f \in Findings :
       findings[f].status = "open" /\ findings'[f].status = "fixed" => job.cycle \in repairs]_vars

=============================================================================
