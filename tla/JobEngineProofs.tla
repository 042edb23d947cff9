--------------------------- MODULE JobEngineProofs ---------------------------
(* Proofs about JobEngine, for any engines, budget and review limit.       *)
EXTENDS JobEngine, FiniteSetTheorems, TLAPS

(* Every edge of the state machine ends in a state of it.                  *)
LEMMA EdgesStayInside ==
  ASSUME NEW s, NEW to, CanTransition(s, to)
  PROVE  s \in State /\ to \in State
  BY DEF CanTransition, State, transitions, orStopped, loadingAfterReview

(* What the coordinator answers is an outcome the engine understands.      *)
LEMMA OutcomesTyped ==
  ASSUME NEW s, NEW c, NEW o \in Outcomes(s, c)
  PROVE  o \in Outcome
<1>1. Default \in Outcome /\ Repair \in Outcome
  BY DEF Outcome, Default, Repair
<1>2. \A x \in State : To(x) \in Outcome
  BY DEF Outcome, To
<1>3. {"loading_test_designer_model", "golden_rehearsal_review",
       "loading_documentation_model", "awaiting_test_design_disposition",
       "awaiting_golden_approval", "loading_qc_model",
       "awaiting_remote_egress_approval"} \subseteq State
  BY DEF State, transitions
<1>4. egressOutcomes \subseteq Outcome /\ fullRoutes \subseteq Outcome
  BY <1>2, <1>3 DEF egressOutcomes, fullRoutes
<1>5. qcOutcomes(c) \subseteq Outcome
  BY <1>1, <1>4 DEF qcOutcomes
<1>6. Outcomes(s, c) \subseteq Outcome
  BY <1>1, <1>2, <1>3, <1>4, <1>5 DEF Outcomes
<1> QED
  BY <1>6

(* Updates that keep a row a row and an engine an engine.                  *)
LEMMA RowMoves ==
  ASSUME NEW r \in Row, NEW s \in State, NEW c \in Nat
  PROVE  [state |-> s, version |-> r.version + 1, reserved |-> r.reserved, cycle |-> c]
           \in Row
  BY DEF Row

(* A charge keeps a row a row.                                             *)
LEMMA RowCharged ==
  ASSUME NEW r \in Row
  PROVE  [r EXCEPT !.reserved = @ + 1] \in Row
  BY DEF Row

(* The next place in Step keeps an engine an engine.                       *)
LEMMA EngineGoes ==
  ASSUME NEW x \in EngineState, NEW pc \in Pcs
  PROVE  [x EXCEPT !.pc = pc] \in EngineState
  BY DEF EngineState

(* So does an error to record,                                             *)
LEMMA EngineFails ==
  ASSUME NEW x \in EngineState, NEW pc \in Pcs, NEW error \in Errors
  PROVE  [x EXCEPT !.pc = pc, !.error = error] \in EngineState
  BY DEF EngineState

(* the answer of a phase,                                                  *)
LEMMA EngineAnswers ==
  ASSUME NEW x \in EngineState, NEW pc \in Pcs, NEW o \in Outcome, NEW n \in Nat
  PROVE  [x EXCEPT !.pc = pc, !.outcome = o, !.synced = n] \in EngineState
  BY DEF EngineState

(* and a copy of the row.                                                  *)
LEMMA EngineCopies ==
  ASSUME NEW x \in EngineState, NEW pc \in Pcs, NEW r \in Row, NEW a \in Nat
  PROVE  [x EXCEPT !.pc = pc, !.state = r.state, !.version = r.version,
                   !.cycle = r.cycle, !.attempt = a] \in EngineState
  BY DEF EngineState, Row

(* The version, the cycle and the counters stay numbers; the row and the   *)
(* engines' copies of it hold states of the machine.                       *)
THEOREM TypeCorrect == Spec => []TypeOK
<1>1. Init => TypeOK
  <2> SUFFICES ASSUME Init PROVE TypeOK
    OBVIOUS
  <2>1. "queued" \in State
    BY DEF State, transitions
  <2>2. Idle \in EngineState
    BY <2>1 DEF Idle, EngineState, Pcs, Errors, Outcome, Default
  <2>3. job \in Row
    BY <2>1 DEF Init, Row
  <2>4. engine \in [Engines -> EngineState]
    BY <2>2 DEF Init
  <2> QED
    BY <2>3, <2>4 DEF Init, TypeOK, Actors, Errors
<1>2. TypeOK /\ [Next]_vars => TypeOK'
  <2> SUFFICES ASSUME TypeOK, [Next]_vars PROVE TypeOK'
    OBVIOUS
  <2> USE DEF TypeOK
  <2>1. Idle \in EngineState
    <3>1. "queued" \in State
      BY DEF State, transitions
    <3> QED
      BY <3>1 DEF Idle, EngineState, Pcs, Errors, Outcome, Default
  <2>2. ASSUME NEW e \in Engines, stepEnds(e)
        PROVE  engine' \in [Engines -> EngineState]
    BY <2>1, <2>2 DEF stepEnds
  <2>3. ASSUME NEW e \in Engines, NEW pc \in Pcs, goto(e, pc)
        PROVE  engine' \in [Engines -> EngineState]
    BY <2>3, EngineGoes DEF goto
  <2>4. ASSUME NEW e \in Engines, NEW pc \in Pcs, copyRow(e, pc)
        PROVE  engine' \in [Engines -> EngineState]
    BY <2>4, EngineCopies DEF copyRow
  <2>5. ASSUME NEW e \in Engines, NEW error \in Errors, giveUp(e, error)
        PROVE  engine' \in [Engines -> EngineState]
    BY <2>5, EngineFails DEF giveUp, Pcs
  <2>6. ASSUME NEW e \in Engines
        PROVE  contextError(e) \in Errors
    BY DEF contextError, Errors
  <2>7. ASSUME NEW to, NEW c \in Nat, NEW actor \in Actors, NEW error \in Errors,
               moveTo(to, c, actor, error)
        PROVE  /\ job' \in Row
               /\ ledger' \in [actor : Actors, error : Errors]
    <3>1. to \in State
      BY <2>7, EdgesStayInside DEF moveTo
    <3> QED
      BY <2>7, <3>1, RowMoves DEF moveTo
  <2>8. ASSUME NEW to, personMoves(to)
        PROVE  /\ job' \in Row
               /\ ledger' \in [actor : Actors, error : Errors]
    BY <2>7, <2>8 DEF personMoves, Actors, Errors, Row
  <2>9. ASSUME NEW e \in Engines, Step(e)
        PROVE  TypeOK'
    <3> USE DEF rowUnchanged, worldUnchanged
    <3>1. CASE Load(e)
      BY <3>1, <2>4 DEF Load, Pcs
    <3>2. CASE RefuseExpired(e)
      BY <3>2, <2>5 DEF RefuseExpired, Errors
    <3>3. CASE SkipReservation(e)
      BY <3>3, <2>3 DEF SkipReservation, Pcs
    <3>4. CASE ReserveInterrupted(e)
      BY <3>4, <2>5, <2>6 DEF ReserveInterrupted
    <3>5. CASE ReserveConflict(e)
      BY <3>5, <2>5 DEF ReserveConflict, Errors
    <3>6. CASE ReserveAgain(e)
      BY <3>6, <2>3 DEF ReserveAgain, Pcs
    <3>7. CASE ReserveRefused(e)
      BY <3>7, <2>5 DEF ReserveRefused, budgetRefused, Errors
    <3>8. CASE Reserve(e)
      <4>1. engine' \in [Engines -> EngineState]
        BY <3>8, <2>3 DEF Reserve, Pcs
      <4> QED
        BY <3>8, <4>1, RowCharged DEF Reserve, Row
    <3>9. CASE ReadBack(e)
      BY <3>9, <2>4 DEF ReadBack, Pcs
    <3>10. CASE ReadBackInterrupted(e)
      BY <3>10, <2>5, <2>6 DEF ReadBackInterrupted
    <3>11. CASE Execute(e)
      <4>1. PICK o \in Outcomes(engine[e].state, engine[e].cycle) :
              engine' = [engine EXCEPT ![e] =
                [@ EXCEPT !.pc = "returned", !.outcome = o, !.synced = upstream]]
        BY <3>11 DEF Execute
      <4>2. o \in Outcome
        BY OutcomesTyped
      <4>3. engine' \in [Engines -> EngineState]
        BY <4>1, <4>2, EngineAnswers DEF Pcs
      <4> QED
        BY <3>11, <4>3 DEF Execute
    <3>12. CASE ExecuteFails(e)
      BY <3>12, <2>5, <2>6 DEF ExecuteFails, Errors
    <3>13. CASE CompletePhase(e)
      <4> DEFINE s == engine[e].state
                 o == engine[e].outcome
      <4>1. CycleAfter(s, o, job.cycle) \in Nat
        BY DEF CycleAfter, Row
      <4>2. moveTo(nextState(s, o), CycleAfter(s, o, job.cycle), "engine", "none")
        BY <3>13 DEF CompletePhase
      <4>4. base' \in Nat
        BY <3>13 DEF CompletePhase, EngineState
      <4> HIDE DEF s, o
      <4>3. /\ job' \in Row
            /\ ledger' \in [actor : Actors, error : Errors]
        BY <4>1, <4>2, <2>7 DEF Actors, Errors
      <4> QED
        BY <3>13, <4>3, <4>4, <2>2 DEF CompletePhase
    <3>14. CASE CompleteRefused(e)
      BY <3>14, <2>2 DEF CompleteRefused
    <3>15. CASE ChooseFailContext(e)
      BY <3>15, <2>3 DEF ChooseFailContext, Pcs
    <3>16. CASE RecordFailure(e)
      <4>1. engine[e].error \in Errors
        BY DEF EngineState
      <4>2. moveTo("failed", job.cycle, "engine", engine[e].error)
        BY <3>16 DEF RecordFailure
      <4>3. /\ job' \in Row
            /\ ledger' \in [actor : Actors, error : Errors]
        BY <4>1, <4>2, <2>7 DEF Actors, Row
      <4> QED
        BY <3>16, <4>3, <2>2 DEF RecordFailure
    <3>17. CASE FailureNotRecorded(e)
      BY <3>17, <2>2 DEF FailureNotRecorded
    <3> QED
      BY <2>9, <3>1, <3>2, <3>3, <3>4, <3>5, <3>6, <3>7, <3>8, <3>9, <3>10, <3>11,
         <3>12, <3>13, <3>14, <3>15, <3>16, <3>17 DEF Step
  <2>10. ASSUME NEW e \in Engines, Crash(e)
         PROVE  TypeOK'
    BY <2>10, <2>2 DEF Crash, rowUnchanged
  <2>11. ASSUME NEW e \in Engines, CancelContext(e)
         PROVE  TypeOK'
    <3>1. engine' \in [Engines -> EngineState]
      BY <2>11 DEF CancelContext, EngineState
    <3> QED
      BY <2>11, <3>1 DEF CancelContext, rowUnchanged
  <2>12. CASE Person
    <3> USE DEF worldUnchanged
    <3>1. CASE CancelJob
      BY <3>1, <2>8 DEF CancelJob
    <3>2. CASE RetryJob
      BY <3>2, <2>8 DEF RetryJob
    <3>3. CASE ApproveTaskContract
      BY <3>3, <2>8 DEF ApproveTaskContract
    <3>4. CASE DisposeTestProposals
      BY <3>4, <2>8 DEF DisposeTestProposals
    <3>5. CASE ApproveGoldens
      BY <3>5, <2>8 DEF ApproveGoldens
    <3>6. CASE ApproveRemoteEgress
      BY <3>6, <2>8 DEF ApproveRemoteEgress
    <3>7. CASE ApprovePublication
      BY <3>7, <2>8 DEF ApprovePublication
    <3> QED
      BY <2>12, <3>1, <3>2, <3>3, <3>4, <3>5, <3>6, <3>7 DEF Person
  <2>13. CASE DeadlinePasses
    BY <2>13 DEF DeadlinePasses, rowUnchanged
  <2>14. CASE UpstreamMoves
    BY <2>14 DEF UpstreamMoves, rowUnchanged
  <2>15. CASE UNCHANGED vars
    BY <2>15 DEF vars
  <2> QED
    BY <2>9, <2>10, <2>11, <2>12, <2>13, <2>14, <2>15 DEF Next
<1> QED
  BY <1>1, <1>2, PTL DEF Spec

-----------------------------------------------------------------------------
(* How a step may touch the row: not at all, by a reservation, by an       *)
(* engine's commit, or by a person.                                        *)

rowKept == UNCHANGED <<job, reservations>>

engineCommits(e) == CompletePhase(e) \/ RecordFailure(e)

personActs(to) ==
  /\ personMoves(to)
  /\ UNCHANGED <<reservations, engine>>
  /\ attempt' # attempt => to = "queued"
  /\ job.state \in Gates \/ to \in {"cancelled", "queued"}

(* Every handler moves the row by one edge and leaves engines alone.       *)
LEMMA PersonActs ==
  ASSUME Person
  PROVE  \E to : personActs(to)
<1> USE DEF personActs, worldUnchanged
<1>1. CASE CancelJob
  BY <1>1 DEF CancelJob
<1>2. CASE RetryJob
  BY <1>2 DEF RetryJob
<1>3. CASE ApproveTaskContract
  BY <1>3 DEF ApproveTaskContract, Gates
<1>4. CASE DisposeTestProposals
  BY <1>4 DEF DisposeTestProposals, Gates
<1>5. CASE ApproveGoldens
  BY <1>5 DEF ApproveGoldens, Gates
<1>6. CASE ApproveRemoteEgress
  BY <1>6 DEF ApproveRemoteEgress, Gates
<1>7. CASE ApprovePublication
  BY <1>7 DEF ApprovePublication, Gates
<1> QED
  BY <1>1, <1>2, <1>3, <1>4, <1>5, <1>6, <1>7 DEF Person

(* Every step is of one of these four kinds.                               *)
LEMMA StepKinds ==
  ASSUME [Next]_vars
  PROVE  \/ rowKept
         \/ \E e \in Engines : Reserve(e)
         \/ \E e \in Engines : engineCommits(e)
         \/ \E to : personActs(to)
<1> USE DEF rowKept
<1>1. ASSUME NEW e \in Engines, Step(e)
      PROVE  rowKept \/ Reserve(e) \/ engineCommits(e)
  BY <1>1 DEF Step, engineCommits, rowUnchanged, Load, RefuseExpired, SkipReservation,
     ReserveInterrupted, ReserveConflict, ReserveAgain, ReserveRefused, budgetRefused,
     ReadBack, ReadBackInterrupted, Execute, ExecuteFails, CompleteRefused,
     ChooseFailContext, FailureNotRecorded
<1>2. ASSUME NEW e \in Engines, Crash(e) \/ CancelContext(e)
      PROVE  rowKept
  BY <1>2 DEF Crash, CancelContext, rowUnchanged
<1>3. ASSUME Person
      PROVE  \E to : personActs(to)
  BY <1>3, PersonActs
<1>4. CASE DeadlinePasses \/ UpstreamMoves
  BY <1>4 DEF DeadlinePasses, UpstreamMoves, rowUnchanged
<1>5. CASE UNCHANGED vars
  BY <1>5 DEF vars
<1> QED
  BY <1>1, <1>2, <1>3, <1>4, <1>5 DEF Next

(* A commit and an act of a person move the row by one edge and one version. *)
LEMMA CommitMoves ==
  ASSUME TypeOK, NEW e \in Engines, engineCommits(e)
  PROVE  /\ CanTransition(job.state, job'.state)
         /\ job'.version = job.version + 1
         /\ job'.reserved = job.reserved
         /\ reservations' = reservations
         /\ attempt' = attempt
         /\ engine[e].version = job.version
         /\ job'.cycle \in {job.cycle, job.cycle + 1}
         /\ job'.cycle # job.cycle => job.state = "repairing"
         /\ engine' = [engine EXCEPT ![e] = Idle]
         /\ engine[e].pc \in {"returned", "failing", "failingFresh"}
         /\ CompletePhase(e) \/ job'.state = "failed"
  BY DEF engineCommits, CompletePhase, RecordFailure, moveTo, CycleAfter, unchangedSince,
     sameRow, stepEnds, worldUnchanged, canRecordFailure

(* What a person changes of the row.                                       *)
LEMMA PersonMoves ==
  ASSUME NEW to, personActs(to)
  PROVE  /\ CanTransition(job.state, job'.state)
         /\ job'.state = to
         /\ job'.version = job.version + 1
         /\ job'.reserved = job.reserved
         /\ job'.cycle = job.cycle
         /\ reservations' = reservations
         /\ ledger'.actor = "person"
  BY DEF personActs, personMoves, moveTo

-----------------------------------------------------------------------------
(* The budget *)

BudgetInv == BudgetExact /\ IsFiniteSet(reservations)

(* BudgetInv holds: only a new version is charged, and only within budget. *)
LEMMA BudgetInvariant == Spec => []BudgetInv
<1>1. Init => BudgetInv
  BY FS_EmptySet, EngineAssumption DEF Init, BudgetInv, BudgetExact
<1>2. TypeOK /\ BudgetInv /\ [Next]_vars => BudgetInv'
  <2> SUFFICES ASSUME TypeOK, BudgetInv, [Next]_vars PROVE BudgetInv'
    OBVIOUS
  <2> USE DEF BudgetInv, BudgetExact
  <2>1. CASE rowKept
    BY <2>1 DEF rowKept
  <2>2. ASSUME NEW e \in Engines, Reserve(e)
        PROVE  BudgetInv'
    <3>1. job.version \notin reservations
      BY <2>2 DEF Reserve, alreadyReserved, sameRow, unchangedSince
    <3>2. /\ IsFiniteSet(reservations')
          /\ Cardinality(reservations') = Cardinality(reservations) + 1
      BY <2>2, <3>1, FS_AddElement DEF Reserve
    <3>3. job'.reserved = job.reserved + 1
      BY <2>2 DEF Reserve, TypeOK, Row
    <3>4. job.reserved + 1 <= MaxTokens
      BY <2>2, EngineAssumption DEF Reserve, overBudget, TypeOK, Row
    <3> QED
      BY <3>2, <3>3, <3>4
  <2>3. ASSUME NEW e \in Engines, engineCommits(e)
        PROVE  BudgetInv'
    BY <2>3, CommitMoves
  <2>4. ASSUME NEW to, personActs(to)
        PROVE  BudgetInv'
    BY <2>4, PersonMoves
  <2> QED
    BY <2>1, <2>2, <2>3, <2>4, StepKinds
<1> QED
  BY <1>1, <1>2, TypeCorrect, PTL DEF Spec

(* The counter of a row is the number of its reservations and stays within *)
(* the budget, for every interleaving of engines, crashes and people.      *)
THEOREM BudgetCorrect == Spec => []BudgetExact
  BY BudgetInvariant, PTL DEF BudgetInv

-----------------------------------------------------------------------------
(* Attempts *)

(* What an engine holds is the current row or an older one, and the current *)
(* row belongs to the current attempt.                                     *)
CopiesInv ==
  \A e \in Engines :
    engine[e].pc # "idle" =>
      /\ engine[e].version <= job.version
      /\ engine[e].version = job.version =>
           engine[e].state = job.state /\ engine[e].attempt = attempt

(* How a step changes an engine's copy: not at all, by taking the current   *)
(* row, or by dropping it.                                                 *)
keepsCopy(f) ==
  /\ engine'[f].state = engine[f].state
  /\ engine'[f].version = engine[f].version
  /\ engine'[f].attempt = engine[f].attempt
  /\ engine'[f].pc # "idle" => engine[f].pc # "idle"

takesCopy(f) ==
  /\ engine'[f].state = job.state
  /\ engine'[f].version = job.version
  /\ engine'[f].attempt = attempt
  /\ UNCHANGED <<job, attempt>>

(* Every step does one of the three to the copy of every engine.           *)
LEMMA CopySteps ==
  ASSUME TypeOK, [Next]_vars, NEW f \in Engines
  PROVE  keepsCopy(f) \/ takesCopy(f) \/ engine'[f] = Idle
<1> USE DEF TypeOK, EngineState
<1>1. CASE engine' = engine
  BY <1>1 DEF keepsCopy
<1>2. ASSUME NEW e \in Engines, stepEnds(e)
      PROVE  keepsCopy(f) \/ engine'[f] = Idle
  BY <1>2 DEF stepEnds, keepsCopy
<1>3. ASSUME NEW e \in Engines, NEW pc, goto(e, pc), engine[e].pc # "idle"
      PROVE  keepsCopy(f)
  BY <1>3 DEF goto, keepsCopy
<1>4. ASSUME NEW e \in Engines, NEW error, giveUp(e, error), engine[e].pc # "idle"
      PROVE  keepsCopy(f)
  BY <1>4 DEF giveUp, keepsCopy
<1>5. ASSUME NEW e \in Engines, NEW pc, copyRow(e, pc), UNCHANGED <<job, attempt>>
      PROVE  keepsCopy(f) \/ takesCopy(f)
  BY <1>5 DEF copyRow, keepsCopy, takesCopy
<1>6. ASSUME NEW e \in Engines, Execute(e)
      PROVE  keepsCopy(f)
  BY <1>6 DEF Execute, keepsCopy
<1>7. ASSUME NEW e \in Engines, CancelContext(e)
      PROVE  keepsCopy(f)
  BY <1>7 DEF CancelContext, keepsCopy
<1>8. ASSUME NEW e \in Engines, Load(e) \/ ReadBack(e)
      PROVE  keepsCopy(f) \/ takesCopy(f)
  BY <1>8, <1>5 DEF Load, ReadBack, rowUnchanged, worldUnchanged
<1>9. ASSUME NEW e \in Engines,
             SkipReservation(e) \/ ReserveAgain(e) \/ Reserve(e) \/ ChooseFailContext(e)
      PROVE  keepsCopy(f)
  BY <1>9, <1>3 DEF SkipReservation, ReserveAgain, Reserve, reserving, ChooseFailContext
<1>10. ASSUME NEW e \in Engines,
              \/ RefuseExpired(e) \/ ReserveInterrupted(e) \/ ReserveConflict(e)
              \/ ReserveRefused(e) \/ ReadBackInterrupted(e) \/ ExecuteFails(e)
       PROVE  keepsCopy(f)
  BY <1>10, <1>4 DEF RefuseExpired, ReserveInterrupted, ReserveConflict, ReserveRefused,
     budgetRefused, reserving, ReadBackInterrupted, ExecuteFails
<1>11. ASSUME NEW e \in Engines,
              \/ CompletePhase(e) \/ CompleteRefused(e) \/ RecordFailure(e)
              \/ FailureNotRecorded(e) \/ Crash(e)
       PROVE  keepsCopy(f) \/ engine'[f] = Idle
  BY <1>11, <1>2 DEF CompletePhase, CompleteRefused, RecordFailure, FailureNotRecorded, Crash
<1>12. ASSUME NEW e \in Engines, Step(e)
       PROVE  keepsCopy(f) \/ takesCopy(f) \/ engine'[f] = Idle
  BY <1>12, <1>6, <1>8, <1>9, <1>10, <1>11 DEF Step
<1>13. CASE Person
  BY <1>13, <1>1 DEF Person, CancelJob, RetryJob, ApproveTaskContract,
     DisposeTestProposals, ApproveGoldens, ApproveRemoteEgress, ApprovePublication
<1>14. CASE DeadlinePasses \/ UpstreamMoves
  BY <1>14, <1>1 DEF DeadlinePasses, UpstreamMoves
<1>15. CASE UNCHANGED vars
  BY <1>15, <1>1 DEF vars
<1> QED
  BY <1>7, <1>11, <1>12, <1>13, <1>14, <1>15 DEF Next

(* Only a move of the row starts a new attempt or changes its state.       *)
LEMMA RowSteps ==
  ASSUME TypeOK, [Next]_vars
  PROVE  \/ /\ job'.version = job.version /\ job'.state = job.state
            /\ attempt' = attempt
         \/ job'.version = job.version + 1
<1>1. ASSUME NEW to, personActs(to)
      PROVE  job'.version = job.version + 1
  BY <1>1, PersonMoves
<1>2. ASSUME NEW e \in Engines, engineCommits(e)
      PROVE  job'.version = job.version + 1
  BY <1>2, CommitMoves
<1>3. ASSUME NEW e \in Engines, Reserve(e)
      PROVE  /\ job'.version = job.version /\ job'.state = job.state
             /\ attempt' = attempt
  BY <1>3 DEF Reserve, TypeOK, Row, worldUnchanged
<1>4. CASE rowKept
  <2>1. attempt' = attempt \/ RetryJob
    BY <1>4 DEF Next, Step, Person, Load, RefuseExpired, SkipReservation,
       ReserveInterrupted, ReserveConflict, ReserveAgain, ReserveRefused, budgetRefused,
       Reserve, ReadBack, ReadBackInterrupted, Execute, ExecuteFails, CompletePhase,
       CompleteRefused, ChooseFailContext, RecordFailure, FailureNotRecorded, Crash,
       CancelContext, DeadlinePasses, UpstreamMoves, CancelJob, ApproveTaskContract,
       DisposeTestProposals, ApproveGoldens, ApproveRemoteEgress, ApprovePublication,
       worldUnchanged, vars
  <2>2. RetryJob => job'.version = job.version + 1
    BY DEF RetryJob, personMoves, moveTo
  <2> QED
    BY <1>4, <2>1, <2>2 DEF rowKept
<1> QED
  BY <1>1, <1>2, <1>3, <1>4, StepKinds

(* CopiesInv holds: a copy that is current belongs to this attempt.        *)
LEMMA CopiesInvariant == Spec => []CopiesInv
<1>1. Init => CopiesInv
  BY DEF Init, CopiesInv, Idle
<1>2. TypeOK /\ CopiesInv /\ [Next]_vars => CopiesInv'
  <2> SUFFICES ASSUME TypeOK, CopiesInv, [Next]_vars, NEW f \in Engines,
                      engine'[f].pc # "idle"
               PROVE  /\ engine'[f].version <= job'.version
                      /\ engine'[f].version = job'.version =>
                           engine'[f].state = job'.state /\ engine'[f].attempt = attempt'
    BY DEF CopiesInv
  <2>1. engine[f].version \in Nat /\ job.version \in Nat
    BY DEF TypeOK, Row, EngineState
  <2>2. keepsCopy(f) \/ takesCopy(f)
    BY CopySteps DEF Idle
  <2>3. CASE takesCopy(f)
    BY <2>1, <2>3 DEF takesCopy
  <2>4. CASE keepsCopy(f)
    BY <2>1, <2>4, RowSteps DEF keepsCopy, CopiesInv
  <2> QED
    BY <2>2, <2>3, <2>4
<1> QED
  BY <1>1, <1>2, TypeCorrect, PTL DEF Spec

(* Nothing an engine read in one attempt is written into another.          *)
THEOREM AttemptsKeptApart == Spec => CommitsOwnAttempt
<1>1. TypeOK /\ CopiesInv /\ [Next]_vars =>
        [\A e \in Engines :
           rowMoves /\ engine[e].pc # "idle" /\ engine'[e].pc = "idle"
             => engine[e].attempt = attempt]_vars
  <2> SUFFICES ASSUME TypeOK, CopiesInv, [Next]_vars, NEW e \in Engines,
                      rowMoves, engine[e].pc # "idle", engine'[e].pc = "idle"
               PROVE  engine[e].attempt = attempt
    OBVIOUS
  <2>1. ASSUME NEW to, personActs(to)
        PROVE  FALSE
    BY <2>1 DEF personActs
  <2>2. ASSUME NEW f \in Engines, Reserve(f)
        PROVE  FALSE
    BY <2>2 DEF Reserve, rowMoves, TypeOK, Row
  <2>3. CASE rowKept
    BY <2>3 DEF rowKept, rowMoves
  <2>4. ASSUME NEW f \in Engines, engineCommits(f)
        PROVE  engine[e].attempt = attempt
    <3>1. e = f
      BY <2>4, CommitMoves DEF TypeOK
    <3>2. engine[e].version = job.version
      BY <2>4, <3>1, CommitMoves
    <3> QED
      BY <3>2 DEF CopiesInv
  <2> QED
    BY <2>1, <2>2, <2>3, <2>4, StepKinds
<1> QED
  BY <1>1, TypeCorrect, CopiesInvariant, PTL DEF Spec, CommitsOwnAttempt

-----------------------------------------------------------------------------
(* The row keeps what JobLedger promises *)

LEMMA SameEdges ==
  ASSUME NEW s, NEW to, CanTransition(s, to)
  PROVE  Ledger!CanTransition(s, to) /\ to \in Ledger!State
  BY DEF CanTransition, State, transitions, orStopped, loadingAfterReview,
     Ledger!CanTransition, Ledger!State, Ledger!transitions, Ledger!orStopped,
     Ledger!loadingAfterReview

(* Whoever writes it, the row moves by legal edges, one version at a time, *)
(* is charged once per version and never beyond its budget.                *)
THEOREM RowIsALedger == Spec => LedgerPromise
<1>1. Init => Ledger!LedgerInit
  BY DEF Init, Ledger!LedgerInit
<1>2. TypeOK /\ [Next]_vars => [Ledger!LedgerNext]_(Ledger!ledgerVars)
  <2> SUFFICES ASSUME TypeOK, [Next]_vars
               PROVE  Ledger!LedgerNext \/ UNCHANGED Ledger!ledgerVars
    OBVIOUS
  <2>1. CASE rowKept
    BY <2>1 DEF rowKept, Ledger!ledgerVars
  <2>2. ASSUME NEW e \in Engines, Reserve(e)
        PROVE  Ledger!Charge
    <3>1. job.state \in TokenPhases /\ job.version \notin reservations
      BY <2>2 DEF Reserve, reserving, alreadyReserved, sameRow, unchangedSince
    <3>2. job.reserved < MaxTokens
      BY <2>2, EngineAssumption DEF Reserve, overBudget, TypeOK, Row
    <3>3. /\ reservations' = reservations \union {job.version}
          /\ job'.state = job.state /\ job'.version = job.version
          /\ job'.cycle = job.cycle /\ job'.reserved = job.reserved + 1
      BY <2>2 DEF Reserve, TypeOK, Row
    <3> QED
      BY <3>1, <3>2, <3>3 DEF Ledger!Charge
  <2>3. ASSUME NEW e \in Engines, engineCommits(e)
        PROVE  Ledger!Move
    BY <2>3, CommitMoves, SameEdges DEF Ledger!Move
  <2>4. ASSUME NEW to, personActs(to)
        PROVE  Ledger!Move
    BY <2>4, PersonMoves, SameEdges DEF Ledger!Move
  <2> QED
    BY <2>1, <2>2, <2>3, <2>4, StepKinds DEF Ledger!LedgerNext
<1> QED
  BY <1>1, <1>2, TypeCorrect, PTL DEF Spec, LedgerPromise, Ledger!LedgerSpec

-----------------------------------------------------------------------------
(* One engine, as LeaseQueue has it (ExecutesAlone) as long as no process   *)
(* stalls past its lease.  Between a reservation and its read-back only     *)
(* people can move the row, and from a phase that calls a model they can    *)
(* only cancel it, then retry it.                                          *)

ExclusiveLease == \A e, f \in Engines : e = f

chargedRow ==
  \/ job.state \in TokenPhases /\ job.version \in reservations
  \/ job.state \in {"cancelled", "queued"}

ExclusiveInv ==
  \A e \in Engines :
    /\ engine[e].pc # "idle" => engine[e].state \notin Gates
    /\ engine[e].pc = "charged" => chargedRow
    /\ engine[e].pc \in {"executing", "returned"} /\ engine[e].state \in TokenPhases
         => engine[e].version \in reservations

(* No model phase is a gate, and none is a place a person can send it to.  *)
LEMMA StateNames ==
  /\ TokenPhases \cap (Gates \union {"cancelled", "queued"}) = {}
  /\ {"cancelled", "queued"} \cap Gates = {}
  BY DEF TokenPhases, Gates

(* ExclusiveInv holds as long as there is one engine.                      *)
LEMMA ExclusiveInvariant ==
  ASSUME ExclusiveLease
  PROVE  Spec => []ExclusiveInv
<1>1. Init => ExclusiveInv
  BY DEF Init, ExclusiveInv, Idle
<1>2. TypeOK /\ CopiesInv /\ ExclusiveInv /\ [Next]_vars => ExclusiveInv'
  <2> SUFFICES ASSUME TypeOK, CopiesInv, ExclusiveInv, [Next]_vars PROVE ExclusiveInv'
    OBVIOUS
  <2>1. ASSUME NEW e \in Engines, engine'[e].pc = "idle"
        PROVE  ExclusiveInv'
    BY <2>1, ExclusiveLease DEF ExclusiveInv, ExclusiveLease
  <2>2. ASSUME NEW e \in Engines, Step(e), ~engineCommits(e)
        PROVE  ExclusiveInv'
    <3> SUFFICES
          /\ engine'[e].pc # "idle" => engine'[e].state \notin Gates
          /\ engine'[e].pc = "charged" => chargedRow'
          /\ engine'[e].pc \in {"executing", "returned"} /\ engine'[e].state \in TokenPhases
               => engine'[e].version \in reservations'
      BY ExclusiveLease DEF ExclusiveInv, ExclusiveLease
    <3> USE DEF TypeOK, EngineState, ExclusiveInv
    <3>1. CASE Load(e)
      BY <3>1 DEF Load, copyRow, Resumable
    <3>2. CASE ReadBack(e)
      BY <3>2, StateNames DEF ReadBack, copyRow, chargedRow, rowUnchanged
    <3>3. CASE SkipReservation(e)
      BY <3>3 DEF SkipReservation, goto
    <3>4. CASE ReserveAgain(e)
      BY <3>4 DEF ReserveAgain, reserving, alreadyReserved, goto, rowUnchanged
    <3>5. CASE Reserve(e)
      BY <3>5 DEF Reserve, reserving, sameRow, goto, chargedRow, Row
    <3>6. CASE Execute(e)
      BY <3>6 DEF Execute
    <3>7. CASE ChooseFailContext(e)
      BY <3>7 DEF ChooseFailContext, goto
    <3>8. ASSUME NEW error, giveUp(e, error), engine[e].pc # "idle"
          PROVE  /\ engine'[e].pc = "failing"
                 /\ engine'[e].state \notin Gates
      BY <3>8 DEF giveUp
    <3>9. CASE \/ RefuseExpired(e) \/ ReserveInterrupted(e) \/ ReserveConflict(e)
               \/ ReserveRefused(e) \/ ReadBackInterrupted(e) \/ ExecuteFails(e)
      BY <3>9, <3>8 DEF RefuseExpired, ReserveInterrupted, ReserveConflict, ReserveRefused,
         budgetRefused, reserving, ReadBackInterrupted, ExecuteFails
    <3>10. CASE CompleteRefused(e) \/ FailureNotRecorded(e)
      BY <3>10 DEF CompleteRefused, FailureNotRecorded, stepEnds, Idle
    <3> QED
      BY <2>2, <3>1, <3>2, <3>3, <3>4, <3>5, <3>6, <3>7, <3>9, <3>10
         DEF Step, engineCommits
  <2>3. ASSUME NEW e \in Engines, engineCommits(e)
        PROVE  ExclusiveInv'
    BY <2>3, <2>1, CommitMoves DEF TypeOK, Idle
  <2>4. ASSUME NEW e \in Engines, Crash(e)
        PROVE  ExclusiveInv'
    BY <2>4, <2>1 DEF Crash, stepEnds, Idle, TypeOK
  <2>5. ASSUME NEW e \in Engines, CancelContext(e)
        PROVE  ExclusiveInv'
    BY <2>5 DEF CancelContext, rowUnchanged, ExclusiveInv, chargedRow, TypeOK, EngineState
  <2>6. ASSUME NEW to, personActs(to)
        PROVE  ExclusiveInv'
    <3>1. chargedRow => job'.state \in {"cancelled", "queued"}
      BY <2>6, PersonMoves, StateNames DEF chargedRow, personActs
    <3>2. engine' = engine /\ reservations' = reservations
      BY <2>6 DEF personActs
    <3> QED
      BY <3>1, <3>2 DEF ExclusiveInv, chargedRow
  <2>7. CASE Person
    BY <2>7, <2>6, PersonActs
  <2>8. CASE DeadlinePasses \/ UpstreamMoves
    BY <2>8 DEF DeadlinePasses, UpstreamMoves, rowUnchanged, ExclusiveInv, chargedRow
  <2>9. CASE UNCHANGED vars
    BY <2>9 DEF vars, ExclusiveInv, chargedRow
  <2> QED
    BY <2>2, <2>3, <2>4, <2>5, <2>7, <2>8, <2>9 DEF Next
<1> QED
  BY <1>1, <1>2, TypeCorrect, CopiesInvariant, PTL DEF Spec

(* With an exclusive lease no engine moves a job that waits for a person.  *)
THEOREM GatesAreKept ==
  ASSUME ExclusiveLease
  PROVE  Spec => GatesNeedPerson
<1>1. TypeOK /\ CopiesInv /\ ExclusiveInv /\ [Next]_vars =>
        [rowMoves /\ job.state \in Gates => ledger'.actor = "person"]_vars
  <2> SUFFICES ASSUME TypeOK, CopiesInv, ExclusiveInv, [Next]_vars,
                      rowMoves, job.state \in Gates
               PROVE  ledger'.actor = "person"
    OBVIOUS
  <2>1. CASE rowKept
    BY <2>1 DEF rowKept, rowMoves
  <2>2. ASSUME NEW e \in Engines, Reserve(e)
        PROVE  FALSE
    BY <2>2 DEF Reserve, rowMoves, TypeOK, Row
  <2>3. ASSUME NEW e \in Engines, engineCommits(e)
        PROVE  FALSE
    BY <2>3, CommitMoves DEF CopiesInv, ExclusiveInv
  <2> QED
    BY <2>1, <2>2, <2>3, StepKinds, PersonMoves
<1> QED
  BY <1>1, TypeCorrect, CopiesInvariant, ExclusiveInvariant, PTL DEF Spec, GatesNeedPerson

(* With an exclusive lease no model phase completes without its charge.    *)
THEOREM ChargedBeforeCompletion ==
  ASSUME ExclusiveLease
  PROVE  Spec => ModelPhasesCharged
<1>1. TypeOK /\ CopiesInv /\ ExclusiveInv /\ [Next]_vars =>
        [engineMoves /\ job.state \in TokenPhases /\ job'.state # "failed"
           => job.version \in reservations]_vars
  <2> SUFFICES ASSUME TypeOK, CopiesInv, ExclusiveInv, [Next]_vars,
                      engineMoves, job.state \in TokenPhases, job'.state # "failed"
               PROVE  job.version \in reservations
    OBVIOUS
  <2>1. CASE rowKept
    BY <2>1 DEF rowKept, engineMoves, rowMoves
  <2>2. ASSUME NEW e \in Engines, Reserve(e)
        PROVE  FALSE
    BY <2>2 DEF Reserve, engineMoves, rowMoves, TypeOK, Row
  <2>3. ASSUME NEW e \in Engines, engineCommits(e)
        PROVE  job.version \in reservations
    <3>1. CompletePhase(e) /\ engine[e].version = job.version
      BY <2>3, CommitMoves
    <3>2. engine[e].pc = "returned" /\ engine[e].state = job.state
      BY <3>1 DEF CompletePhase, sameRow
    <3> QED
      BY <3>1, <3>2 DEF ExclusiveInv
  <2>4. ASSUME NEW to, personActs(to)
        PROVE  FALSE
    BY <2>4, PersonMoves DEF engineMoves
  <2> QED
    BY <2>1, <2>2, <2>3, <2>4, StepKinds
<1> QED
  BY <1>1, TypeCorrect, CopiesInvariant, ExclusiveInvariant, PTL DEF Spec, ModelPhasesCharged
=============================================================================
