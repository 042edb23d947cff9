------------------------------ MODULE JobEngine ------------------------------
(***************************************************************************)
(* One job row, the workflow engines that advance it and the people who    *)
(* act on it: internal/workflow/engine.go (Step, fail) over the            *)
(* transactions of internal/storage/sqlite (workflow.go, budgets.go,       *)
(* store.go, approvals.go, task_contracts.go) and the handlers of          *)
(* internal/api that move a job.                                           *)
(*                                                                         *)
(* Rows of different jobs share nothing here, so one row is modelled.      *)
(* Every SQLite transaction is one step (Open allows a single connection); *)
(* what the engine does between two transactions is not, and anything may  *)
(* happen there.  With one engine the lease is exclusive; with two, an     *)
(* expired lease has been taken over while its old holder still runs.      *)
(***************************************************************************)
EXTENDS PhaseRouting, FiniteSets

CONSTANTS
  Engines,        \* controllers that may be running a step of this job
  MaxTokens,      \* the job's budget, in reservations of 16384 tokens
  MaxAttempts,    \* bound: times a person retries the job
  MaxFaults,      \* bound: crashes and cancelled contexts
  MaxUpstream     \* bound: commits of the project's default branch

ASSUME EngineAssumption ==
  /\ MaxTokens \in Nat
  /\ MaxAttempts \in Nat
  /\ MaxFaults \in Nat
  /\ MaxUpstream \in Nat

VARIABLES
  job,            \* the row: state, version, reserved tokens, review cycle
  reservations,   \* phase versions in job_token_reservations
  ledger,         \* the last job_transitions row: who moved the job, error
  contract,       \* the task contract: "none", "draft" or "approved"
  base,           \* the row's base_sha: a commit of the default branch, 0 when empty
  attempt,        \* how often the job was retried (not stored)
  expired,        \* the wall clock has reached deadline_at
  faults,         \* crashes and cancellations so far
  upstream,       \* the latest commit of the default branch
  engine          \* the step each engine is in

vars == <<job, reservations, ledger, contract, base, attempt, expired, faults,
          upstream, engine>>

Actors == {"submitter", "engine", "person"}
Errors == {"none", "deadline", "budget", "phase", "interrupted"}

Pcs == {"idle", "loaded", "charged", "executing", "returned", "failing", "failingFresh"}

(* An engine in Step: where it is, its copy of the row, the attempt that    *)
(* copy belongs to, whether its context was cancelled, the phase's answer,  *)
(* the commit it synchronized to and the error it is about to record.       *)
EngineState ==
  [pc : Pcs, state : State, version : Nat, cycle : Nat, attempt : Nat,
   cancelled : BOOLEAN, outcome : Outcome, synced : Nat, error : Errors]

Idle == [pc |-> "idle", state |-> "queued", version |-> 0, cycle |-> 0, attempt |-> 0,
         cancelled |-> FALSE, outcome |-> Default, synced |-> 0, error |-> "none"]

Row == [state : State, version : Nat, reserved : Nat, cycle : Nat]

TypeOK ==
  /\ job \in Row
  /\ reservations \in SUBSET Nat
  /\ ledger \in [actor : Actors, error : Errors]
  /\ contract \in {"none", "draft", "approved"}
  /\ base \in Nat
  /\ attempt \in Nat
  /\ expired \in BOOLEAN
  /\ faults \in Nat
  /\ upstream \in Nat
  /\ engine \in [Engines -> EngineState]

Init ==
  /\ job = [state |-> "queued", version |-> 1, reserved |-> 0, cycle |-> 0]
  /\ reservations = {}
  /\ ledger = [actor |-> "submitter", error |-> "none"]
  /\ contract = "none"
  /\ base = 0
  /\ attempt = 0
  /\ expired = FALSE
  /\ faults = 0
  /\ upstream = 1
  /\ engine = [e \in Engines |-> Idle]

-----------------------------------------------------------------------------
(* The row *)

(* TransitionJob and the UPDATE of every approval: one edge, one version.   *)
moveTo(to, cycle, actor, error) ==
  /\ CanTransition(job.state, to)
  /\ job' = [state |-> to, version |-> job.version + 1,
             reserved |-> job.reserved, cycle |-> cycle]
  /\ ledger' = [actor |-> actor, error |-> error]

(* Mutant of unchangedSince: no ExpectedVersion is sent.                    *)
unconditional(e) == TRUE

(* The compare-and-set of an engine's write against its copy of the row.    *)
unchangedSince(e) == job.version = engine[e].version

sameRow(e) == unchangedSince(e) /\ job.state = engine[e].state

(* The controller gives every step a context that ends at the deadline.     *)
contextDone(e) == engine[e].cancelled \/ expired

contextError(e) == IF engine[e].cancelled THEN "interrupted" ELSE "deadline"

copyRow(e, pc) ==
  engine' = [engine EXCEPT ![e] =
    [@ EXCEPT !.pc = pc, !.state = job.state, !.version = job.version,
              !.cycle = job.cycle, !.attempt = attempt]]

goto(e, pc) == engine' = [engine EXCEPT ![e].pc = pc]

giveUp(e, error) ==
  engine' = [engine EXCEPT ![e] = [@ EXCEPT !.pc = "failing", !.error = error]]

stepEnds(e) == engine' = [engine EXCEPT ![e] = Idle]

rowUnchanged == UNCHANGED <<job, reservations, ledger, contract, base>>
worldUnchanged == UNCHANGED <<attempt, expired, faults, upstream>>

-----------------------------------------------------------------------------
(* Engine.Step *)

(* GetJob.  With a finished context the query fails and Step returns; a     *)
(* state that is not resumable ends the step as well.                       *)
Load(e) ==
  /\ engine[e].pc = "idle"
  /\ ~contextDone(e)
  /\ Resumable(job.state)
  /\ copyRow(e, "loaded")
  /\ rowUnchanged /\ worldUnchanged

(* The deadline passed after the row was read.                              *)
RefuseExpired(e) ==
  /\ engine[e].pc = "loaded"
  /\ expired
  /\ giveUp(e, "deadline")
  /\ rowUnchanged /\ worldUnchanged

SkipReservation(e) ==
  /\ engine[e].pc = "loaded"
  /\ ~expired
  /\ engine[e].state \notin TokenPhases
  /\ goto(e, "executing")
  /\ rowUnchanged /\ worldUnchanged

(* ReserveJobTokens is asked for; what follows are its transaction's ends.  *)
reserving(e) ==
  /\ engine[e].pc = "loaded"
  /\ ~expired
  /\ engine[e].state \in TokenPhases

(* Mutant of alreadyReserved: a repeated phase is charged again.            *)
neverReserved(e) == FALSE

alreadyReserved(e) == engine[e].version \in reservations

(* Mutant of overBudget: off by one.                                        *)
overBudgetByOne == job.reserved > MaxTokens

overBudget == job.reserved + 1 > MaxTokens

ReserveInterrupted(e) ==
  /\ reserving(e)
  /\ contextDone(e)
  /\ giveUp(e, contextError(e))
  /\ rowUnchanged /\ worldUnchanged

ReserveConflict(e) ==
  /\ reserving(e)
  /\ ~contextDone(e)
  /\ ~sameRow(e)
  /\ giveUp(e, "phase")
  /\ rowUnchanged /\ worldUnchanged

(* A repeated phase finds its reservation and gets the row just read.       *)
ReserveAgain(e) ==
  /\ reserving(e)
  /\ ~contextDone(e)
  /\ sameRow(e)
  /\ alreadyReserved(e)
  /\ goto(e, "executing")
  /\ rowUnchanged /\ worldUnchanged

budgetRefused(e) ==
  /\ reserving(e)
  /\ ~contextDone(e)
  /\ sameRow(e)
  /\ ~alreadyReserved(e)
  /\ overBudget
  /\ rowUnchanged /\ worldUnchanged

(* Mutants of ReserveRefused: the phase runs all the same; Step returns     *)
(* the error without failing the job.                                       *)
ReserveIgnored(e) == budgetRefused(e) /\ goto(e, "executing")
ReserveReturned(e) == budgetRefused(e) /\ stepEnds(e)

ReserveRefused(e) == budgetRefused(e) /\ giveUp(e, "budget")

Reserve(e) ==
  /\ reserving(e)
  /\ ~contextDone(e)
  /\ sameRow(e)
  /\ ~alreadyReserved(e)
  /\ ~overBudget
  /\ reservations' = reservations \union {job.version}
  /\ job' = [job EXCEPT !.reserved = @ + 1]
  /\ goto(e, "charged")
  /\ UNCHANGED <<ledger, contract, base>> /\ worldUnchanged

(* ReserveJobTokens reads the row back after its commit, outside the        *)
(* transaction, and Step goes on with whatever row that is.                 *)
ReadBack(e) ==
  /\ engine[e].pc = "charged"
  /\ ~contextDone(e)
  /\ copyRow(e, "executing")
  /\ rowUnchanged /\ worldUnchanged

ReadBackInterrupted(e) ==
  /\ engine[e].pc = "charged"
  /\ contextDone(e)
  /\ giveUp(e, contextError(e))
  /\ rowUnchanged /\ worldUnchanged

(* Executor.Execute answers.  Drafting the task contract and looking up the *)
(* default branch are the only effects of a phase that this module keeps.   *)
Execute(e) ==
  /\ engine[e].pc = "executing"
  /\ \E o \in Outcomes(engine[e].state, engine[e].cycle) :
       engine' = [engine EXCEPT ![e] =
         [@ EXCEPT !.pc = "returned", !.outcome = o, !.synced = upstream]]
  /\ contract' = IF engine[e].state = "locking_acceptance_criteria" /\ contract = "none"
                   THEN "draft" ELSE contract
  /\ UNCHANGED <<job, reservations, ledger, base>> /\ worldUnchanged

(* A phase may fail at any time, and does when its context ends; a state    *)
(* without an implementation always fails.                                  *)
ExecuteFails(e) ==
  /\ engine[e].pc = "executing"
  /\ giveUp(e, IF contextDone(e) THEN contextError(e) ELSE "phase")
  /\ rowUnchanged /\ worldUnchanged

(* applyMetadata: a base_sha that was recorded is never replaced.           *)
baseAccepted(e) == engine[e].state = "syncing" => base \in {0, engine[e].synced}

(* CompletePhase: the outcome and the new state commit together.            *)
CompletePhase(e) ==
  LET to == nextState(engine[e].state, engine[e].outcome)
  IN  /\ engine[e].pc = "returned"
      /\ to # NoRoute
      /\ ~contextDone(e)
      /\ sameRow(e)
      /\ baseAccepted(e)
      /\ base' = IF engine[e].state = "syncing" THEN engine[e].synced ELSE base
      /\ moveTo(to, CycleAfter(engine[e].state, engine[e].outcome, job.cycle),
                "engine", "none")
      /\ stepEnds(e)
      /\ UNCHANGED <<reservations, contract>> /\ worldUnchanged

(* No route, a finished context, a conflict or another base: Step returns   *)
(* the error and leaves the row as it is.                                   *)
CompleteRefused(e) ==
  /\ engine[e].pc = "returned"
  /\ \/ nextState(engine[e].state, engine[e].outcome) = NoRoute
     \/ contextDone(e)
     \/ ~sameRow(e)
     \/ ~baseAccepted(e)
  /\ stepEnds(e)
  /\ rowUnchanged /\ worldUnchanged

(* Engine.fail: a context that has ended is replaced by a fresh one.        *)
ChooseFailContext(e) ==
  /\ engine[e].pc = "failing"
  /\ CanTransition(engine[e].state, "failed")
  /\ contextDone(e)
  /\ goto(e, "failingFresh")
  /\ rowUnchanged /\ worldUnchanged

canRecordFailure(e) ==
  /\ CanTransition(engine[e].state, "failed")
  /\ \/ engine[e].pc = "failingFresh"
     \/ engine[e].pc = "failing" /\ ~contextDone(e)

RecordFailure(e) ==
  /\ canRecordFailure(e)
  /\ unchangedSince(e)
  /\ moveTo("failed", job.cycle, "engine", engine[e].error)
  /\ stepEnds(e)
  /\ UNCHANGED <<reservations, contract, base>> /\ worldUnchanged

(* A state that cannot fail, a conflict, or a context that ended after      *)
(* fail looked at it: the error is lost and the row keeps its state.        *)
FailureNotRecorded(e) ==
  /\ \/ engine[e].pc = "failing" /\ ~CanTransition(engine[e].state, "failed")
     \/ engine[e].pc = "failing" /\ contextDone(e)
     \/ canRecordFailure(e) /\ ~unchangedSince(e)
  /\ stepEnds(e)
  /\ rowUnchanged /\ worldUnchanged

-----------------------------------------------------------------------------
(* What happens to an engine *)

(* The process dies; only the database survives.                            *)
Crash(e) ==
  /\ engine[e].pc # "idle"
  /\ faults < MaxFaults
  /\ faults' = faults + 1
  /\ stepEnds(e)
  /\ rowUnchanged /\ UNCHANGED <<attempt, expired, upstream>>

(* Shutdown of the controller or a heartbeat that lost the lease.           *)
CancelContext(e) ==
  /\ engine[e].pc # "idle"
  /\ ~engine[e].cancelled
  /\ faults < MaxFaults
  /\ faults' = faults + 1
  /\ engine' = [engine EXCEPT ![e].cancelled = TRUE]
  /\ rowUnchanged /\ UNCHANGED <<attempt, expired, upstream>>

DeadlinePasses ==
  /\ ~expired
  /\ expired' = TRUE
  /\ rowUnchanged /\ UNCHANGED <<attempt, faults, upstream, engine>>

(* Somebody pushes to the project's default branch.                         *)
UpstreamMoves ==
  /\ upstream < MaxUpstream
  /\ upstream' = upstream + 1
  /\ rowUnchanged /\ UNCHANGED <<attempt, expired, faults, engine>>

-----------------------------------------------------------------------------
(* People.  Each handler reads the row and writes it under its version, so  *)
(* it is one step or none.                                                  *)

personMoves(to) == moveTo(to, job.cycle, "person", "none")

CancelJob ==
  /\ personMoves("cancelled")
  /\ UNCHANGED <<reservations, contract, base, engine>> /\ worldUnchanged

RetryJob ==
  /\ attempt < MaxAttempts
  /\ personMoves("queued")
  /\ attempt' = attempt + 1
  /\ UNCHANGED <<reservations, contract, base, expired, faults, upstream, engine>>

ApproveTaskContract ==
  /\ job.state = "awaiting_task_approval"
  /\ contract = "draft"
  /\ contract' = "approved"
  /\ personMoves("loading_implementation_model")
  /\ UNCHANGED <<reservations, base, engine>> /\ worldUnchanged

DisposeTestProposals ==
  /\ job.state = "awaiting_test_design_disposition"
  /\ personMoves("golden_rehearsal_review")
  /\ UNCHANGED <<reservations, contract, base, engine>> /\ worldUnchanged

ApproveGoldens ==
  /\ job.state = "awaiting_golden_approval"
  /\ personMoves("loading_documentation_model")
  /\ UNCHANGED <<reservations, contract, base, engine>> /\ worldUnchanged

(* The approver names the state to resume in; any edge is accepted.         *)
ApproveRemoteEgress ==
  /\ job.state = "awaiting_remote_egress_approval"
  /\ \E resume \in State : personMoves(resume)
  /\ UNCHANGED <<reservations, contract, base, engine>> /\ worldUnchanged

ApprovePublication ==
  /\ job.state = "awaiting_operator"
  /\ personMoves("publishing_branch")
  /\ UNCHANGED <<reservations, contract, base, engine>> /\ worldUnchanged

-----------------------------------------------------------------------------

Step(e) ==
  \/ Load(e) \/ RefuseExpired(e) \/ SkipReservation(e)
  \/ ReserveInterrupted(e) \/ ReserveConflict(e) \/ ReserveAgain(e)
  \/ ReserveRefused(e) \/ Reserve(e) \/ ReadBack(e) \/ ReadBackInterrupted(e)
  \/ Execute(e) \/ ExecuteFails(e)
  \/ CompletePhase(e) \/ CompleteRefused(e)
  \/ ChooseFailContext(e) \/ RecordFailure(e) \/ FailureNotRecorded(e)

Person ==
  \/ CancelJob \/ RetryJob \/ ApproveTaskContract \/ DisposeTestProposals
  \/ ApproveGoldens \/ ApproveRemoteEgress \/ ApprovePublication

Next ==
  \/ \E e \in Engines : Step(e) \/ Crash(e) \/ CancelContext(e)
  \/ Person
  \/ DeadlinePasses
  \/ UpstreamMoves

Spec == Init /\ [][Next]_vars

(* The worker polls every 250 ms, so a step that can be taken is taken.     *)
FairSpec == Spec /\ \A e \in Engines : WF_vars(Step(e))

-----------------------------------------------------------------------------
(* Properties *)

rowMoves == job'.version # job.version
engineMoves == rowMoves /\ ledger'.actor = "engine"

(* The budget is exact: the row's counter is the number of reservations,    *)
(* whatever was repeated after a crash, and never more than max_tokens      *)
(* (ReserveJobTokens, its lookup of an existing reservation).               *)
BudgetExact ==
  /\ job.reserved = Cardinality(reservations)
  /\ job.reserved <= MaxTokens

(* Every phase that calls a model was charged before its outcome is         *)
(* committed (Step reserves, then executes; CompletePhase).                 *)
ModelPhasesCharged ==
  [][engineMoves /\ job.state \in TokenPhases /\ job'.state # "failed"
       => job.version \in reservations]_vars

(* Only a person moves a job that waits for one: no engine, however stale   *)
(* its copy of the row, advances or fails it (Resumable, Step, fail).       *)
GatesNeedPerson ==
  [][rowMoves /\ job.state \in Gates => ledger'.actor = "person"]_vars

(* An engine that slept through a cancel and a retry commits nothing of the *)
(* old attempt into the new one (ExpectedVersion in CompletePhase and fail).*)
CommitsOwnAttempt ==
  [][\A e \in Engines :
       rowMoves /\ engine[e].pc # "idle" /\ engine'[e].pc = "idle"
         => engine[e].attempt = attempt]_vars

(* The row is a ledger as JobLedger promises it.                            *)
Ledger == INSTANCE JobLedger WITH
  state <- job.state, version <- job.version, charged <- reservations,
  reserved <- job.reserved, cycle <- job.cycle, ModelPhases <- TokenPhases

LedgerPromise == Ledger!LedgerSpec

(* A job an engine can move reaches a person, an end or its deadline: no    *)
(* sequence of failures, repairs and crashes keeps it going round (Step).   *)
(* Only a retry after the default branch moved does: the row refuses the     *)
(* new base on every synchronization.                                       *)
JobsSettle ==
  Resumable(job.state)
    ~> (~Resumable(job.state) \/ expired \/ base \notin {0, upstream})

(* A job that waits for its contract has one a person can approve           *)
(* (EnsureTaskContract and ApproveTaskContract after a retry).              *)
TaskApprovalPossible == job.state = "awaiting_task_approval" => contract = "draft"

=============================================================================
