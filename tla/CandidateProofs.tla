--------------------------- MODULE CandidateProofs ---------------------------
(***************************************************************************)
(* Proofs about Candidate.  Types, what is verified and what a cycle costs *)
(* are proved for any number of engines; what is published and what counts *)
(* as fixed for one engine at a time, as the lease of LeaseQueue has it.   *)
(***************************************************************************)
EXTENDS Candidate, TLAPS

-----------------------------------------------------------------------------
(* The table of states and routes *)

(* Every edge of the state machine ends in a state of it.                  *)
LEMMA EdgesStayInside ==
  ASSUME NEW s, NEW to, CanTransition(s, to)
  PROVE  s \in State /\ to \in State
  BY DEF CanTransition, State, transitions, orStopped, loadingAfterReview

(* What a phase answers is an outcome the engine understands.              *)
LEMMA OutcomesTyped ==
  ASSUME NEW s, NEW c, NEW o \in Outcomes(s, c)
  PROVE  o \in Outcome
<1>1. Default \in Outcome /\ Repair \in Outcome
  BY DEF Outcome, Default, Repair
<1>2. \A x \in State : To(x) \in Outcome
  BY DEF Outcome, To
<1>3. {"loading_test_designer_model", "golden_rehearsal_review",
       "loading_documentation_model", "awaiting_test_design_disposition",
       "awaiting_golden_approval", "loading_qc_model",
       "awaiting_remote_egress_approval"} \subseteq State
  BY DEF State, transitions
<1>4. egressOutcomes \subseteq Outcome /\ fullRoutes \subseteq Outcome
  BY <1>2, <1>3 DEF egressOutcomes, fullRoutes
<1>5. qcOutcomes(c) \subseteq Outcome
  BY <1>1, <1>4 DEF qcOutcomes
<1>6. Outcomes(s, c) \subseteq Outcome
  BY <1>1, <1>2, <1>3, <1>4, <1>5 DEF Outcomes
<1> QED
  BY <1>6

-----------------------------------------------------------------------------
(* What the building blocks do to the engines *)

(* The other engines are where they were.                                  *)
others(e) == \A f \in Engines : f # e => engine'[f] = engine[f]

(* The engine goes on with its phase: same copy of the row, still busy.    *)
sameRow(e) == engine'[e].row = engine[e].row

(* goto changes the place and nothing else.                                *)
LEMMA GotoEffect ==
  ASSUME engine \in [Engines -> EngineState],
         NEW e \in Engines, NEW pc \in Pcs, goto(e, pc)
  PROVE  /\ engine' \in [Engines -> EngineState]
         /\ others(e) /\ sameRow(e)
         /\ engine'[e].pc = pc
         /\ engine'[e].commit = engine[e].commit
         /\ engine'[e].cycle = engine[e].cycle
         /\ engine'[e].listed = engine[e].listed
         /\ engine'[e].outcome = engine[e].outcome
<1>1. engine'[e] = [engine[e] EXCEPT !.pc = pc] /\ others(e) /\ DOMAIN engine' = Engines
  BY DEF goto, others
<1>2. engine[e] \in EngineState
  OBVIOUS
<1>3. engine'[e] \in EngineState
  BY <1>1, <1>2 DEF EngineState
<1>4. engine' \in [Engines -> EngineState]
  BY <1>3 DEF goto
<1> QED
  BY <1>1, <1>2, <1>4 DEF EngineState, sameRow

(* gotoWith also sets the commit and the cycle to report.                  *)
LEMMA GotoWithEffect ==
  ASSUME engine \in [Engines -> EngineState], NEW e \in Engines, NEW pc \in Pcs,
         NEW c \in Nat, NEW n \in Nat, gotoWith(e, pc, c, n)
  PROVE  /\ engine' \in [Engines -> EngineState]
         /\ others(e) /\ sameRow(e)
         /\ engine'[e].pc = pc
         /\ engine'[e].commit = c
         /\ engine'[e].cycle = n
         /\ engine'[e].listed = engine[e].listed
         /\ engine'[e].outcome = engine[e].outcome
<1>1. /\ engine'[e] = [engine[e] EXCEPT !.pc = pc, !.commit = c, !.cycle = n]
      /\ others(e)
  BY DEF gotoWith, others
<1>2. engine[e] \in EngineState
  OBVIOUS
<1>3. engine'[e] \in EngineState
  BY <1>1, <1>2 DEF EngineState
<1>4. engine' \in [Engines -> EngineState]
  BY <1>3 DEF gotoWith
<1> QED
  BY <1>1, <1>2, <1>4 DEF EngineState, sameRow

(* An answer keeps the copy of the row.                                    *)
LEMMA AnswerEffect ==
  ASSUME engine \in [Engines -> EngineState], NEW e \in Engines,
         NEW o \in Outcome, NEW c \in Nat, NEW n \in Nat, answer(e, o, c, n)
  PROVE  /\ engine' \in [Engines -> EngineState]
         /\ others(e) /\ sameRow(e)
         /\ engine'[e].pc = "answered"
         /\ engine'[e].commit = c
         /\ engine'[e].cycle = n
         /\ engine'[e].outcome = o
<1>1. /\ engine'[e] = [pc |-> "answered", row |-> engine[e].row, commit |-> c,
                       cycle |-> n, listed |-> noneListed, outcome |-> o]
      /\ others(e)
  BY DEF answer, others
<1>2. engine[e].row \in Row /\ noneListed \in [Findings -> Nat] /\ "answered" \in Pcs
  BY DEF EngineState, noneListed, Pcs
<1>3. engine'[e] \in EngineState
  BY <1>1, <1>2 DEF EngineState
<1>4. engine' \in [Engines -> EngineState]
  BY <1>3 DEF answer
<1> QED
  BY <1>1, <1>4 DEF sameRow

(* An engine that does nothing is typed,                                   *)
LEMMA IdleTyped == Idle \in EngineState
<1>1. "queued" \in State /\ Default \in Outcome
  BY DEF State, transitions, Default, Outcome
<1> QED
  BY <1>1 DEF Idle, NoRow, noneListed, EngineState, Row, Pcs, NoCommit

(* and a step that ends leaves such an engine.                             *)
LEMMA EndsEffect ==
  ASSUME engine \in [Engines -> EngineState], NEW e \in Engines, stepEnds(e)
  PROVE  /\ engine' \in [Engines -> EngineState]
         /\ others(e)
         /\ engine'[e] = Idle
  BY IdleTyped DEF stepEnds, others

(* A step begins with a copy of the row.                                   *)
LEMMA BeginEffect ==
  ASSUME engine \in [Engines -> EngineState], job \in Row, NEW e \in Engines, Begin(e)
  PROVE  /\ engine' \in [Engines -> EngineState]
         /\ others(e)
         /\ engine'[e].pc = "begun"
         /\ engine'[e].row = job
         /\ engine'[e].commit = NoCommit
<1>1. engine'[e] = [Idle EXCEPT !.pc = "begun", !.row = job] /\ others(e)
  BY DEF Begin, others
<1>2. engine'[e] \in EngineState
  BY <1>1, IdleTyped DEF EngineState, Pcs
<1>3. engine' \in [Engines -> EngineState]
  BY <1>2 DEF Begin
<1> QED
  BY <1>1, <1>3 DEF Idle

-----------------------------------------------------------------------------
(* What a step does to the repository *)

Known == Commits \union {NoCommit}

(* Commits are added at the end, by the version of the phase that makes     *)
(* them.                                                                    *)
grown ==
  /\ commits' \in Seq(Nat)
  /\ Len(commits) <= Len(commits')
  /\ \A c \in Commits : commits'[c] = commits[c]

(* What the repository loses in no step.                                    *)
gitGrows ==
  /\ grown
  /\ tree' \in [head : Known', dirty : BOOLEAN]
  /\ tree.head # NoCommit => tree'.head # NoCommit

gitTyped == commits \in Seq(Nat) /\ tree \in [head : Known, dirty : BOOLEAN]

(* Commit answers with HEAD, which is the expected commit or one that       *)
(* carries the version of this phase.                                       *)
LEMMA CommitEffect ==
  ASSUME gitTyped, NEW e \in Engines, copy(e).version \in Nat,
         NEW x, ~commitRefused(e, x), commitEffect(e, x)
  PROVE  /\ gitGrows
         /\ committed(e, x) = tree'.head
         /\ tree'.head \in Commits'
         /\ tree'.head # x => commits'[tree'.head] = copy(e).version
         /\ tree.head # x => UNCHANGED <<tree, commits>>
         /\ UNCHANGED <<claim, branch>>
<1> USE DEF gitTyped, Known, Commits, NoCommit
<1>1. CASE commitMakes(e, x)
  <2>1. /\ commits' = Append(commits, copy(e).version)
        /\ tree' = [head |-> Len(commits) + 1, dirty |-> FALSE]
        /\ committed(e, x) = Len(commits) + 1
        /\ tree.head = x
        /\ UNCHANGED <<claim, branch>>
    BY <1>1 DEF commitEffect, committed, commitMakes, headExpected
  <2>2. /\ commits' \in Seq(Nat)
        /\ Len(commits') = Len(commits) + 1
        /\ \A c \in Commits : commits'[c] = commits[c]
        /\ commits'[Len(commits) + 1] = copy(e).version
    BY <2>1
  <2> QED
    BY <2>1, <2>2 DEF gitGrows, grown
<1>2. CASE ~commitMakes(e, x)
  <2>1. UNCHANGED <<commits, claim, tree, branch>> /\ committed(e, x) = tree.head
    BY <1>2 DEF commitEffect, committed, gitUnchanged
  <2>2. x # NoCommit /\ (tree.head = x \/ headRecovered(e, x))
    BY DEF commitRefused, headExpected
  <2> QED
    BY <2>1, <2>2 DEF gitGrows, grown, headRecovered
<1> QED
  BY <1>1, <1>2

(* The steps that may commit.                                              *)
commitsHere(e) ==
  \/ RecoverImplementation(e) \/ RecoverRepair(e) \/ CommitImplementation(e)
  \/ CommitRepair(e) \/ CommitDocumentation(e)

(* A worker may leave files, but does not commit.                          *)
LEMMA WorkerLeaves ==
  ASSUME gitTyped, NEW e \in Engines, workerLeaves(e)
  PROVE  /\ tree' \in [head : Known, dirty : BOOLEAN]
         /\ tree'.head = tree.head
         /\ UNCHANGED <<commits, claim, branch>>
<1>1. tree' = tree \/ tree' = [tree EXCEPT !.dirty = TRUE]
  BY DEF workerLeaves
<1> QED
  BY <1>1 DEF workerLeaves, gitTyped

(* HEAD is moved by the steps that commit and by CheckOut, by no other.    *)
LEMMA HeadMoves ==
  ASSUME gitTyped, [Next]_vars
  PROVE  \/ UNCHANGED <<commits, tree>>
         \/ /\ UNCHANGED commits
            /\ tree' \in [head : Known, dirty : BOOLEAN]
            /\ tree'.head = tree.head
         \/ \E e \in Engines : CheckOut(e) \/ commitsHere(e)
<1> USE DEF gitUnchanged
<1>1. ASSUME NEW e \in Engines, Agent(e)
      PROVE  \/ UNCHANGED <<commits, tree>>
             \/ /\ UNCHANGED commits
                /\ tree' \in [head : Known, dirty : BOOLEAN]
                /\ tree'.head = tree.head
             \/ commitsHere(e)
  <2>1. CASE commitsHere(e)
    BY <2>1
  <2>2. CASE StartDocumentation(e) \/ AskEgress(e) \/ AgentReturns(e) \/ DocumentationBlocked(e)
    BY <2>2 DEF StartDocumentation, AskEgress, AgentReturns, DocumentationBlocked
  <2>3. CASE AgentWrites(e)
    BY <2>3 DEF AgentWrites, gitTyped
  <2> QED
    BY <1>1, <2>1, <2>2, <2>3 DEF Agent, commitsHere
<1>2. ASSUME NEW e \in Engines, Judge(e)
      PROVE  \/ UNCHANGED <<commits, tree>>
             \/ /\ UNCHANGED commits
                /\ tree' \in [head : Known, dirty : BOOLEAN]
                /\ tree'.head = tree.head
  <2>1. CASE VerifyTargeted(e) \/ VerifyFull(e) \/ VerifyDocumentation(e) \/ VerifyFinal(e)
    BY <2>1, WorkerLeaves
       DEF VerifyTargeted, VerifyFull, VerifyDocumentation, VerifyFinal, passesFull
  <2>2. CASE Review(e) \/ List(e) \/ Mark(e) \/ MarkConflict(e) \/ Marked(e)
    BY <2>2 DEF Review, List, Mark, MarkConflict, Marked
  <2> QED
    BY <1>2, <2>1, <2>2 DEF Judge
<1>3. ASSUME NEW e \in Engines, Step(e) \/ Crash(e) \/ Interrupt(e)
      PROVE  \/ UNCHANGED <<commits, tree>>
             \/ /\ UNCHANGED commits
                /\ tree' \in [head : Known, dirty : BOOLEAN]
                /\ tree'.head = tree.head
             \/ CheckOut(e) \/ commitsHere(e)
  <2>1. CASE RunPlain(e) \/ PhaseFails(e)
    BY <2>1, WorkerLeaves DEF RunPlain, PhaseFails
  <2>2. CASE Begin(e) \/ Synchronize(e) \/ ClaimWorktree(e) \/ CheckRemote(e) \/ Push(e)
    BY <2>2 DEF Begin, Synchronize, ClaimWorktree, CheckRemote, Push
  <2>3. CASE CompletePhase(e) \/ CompleteRefused(e) \/ RecordFailure(e) \/ FailureNotRecorded(e)
    BY <2>3 DEF CompletePhase, CompleteRefused, RecordFailure, FailureNotRecorded, rowMoves
  <2>4. CASE Crash(e) \/ Interrupt(e)
    BY <2>4 DEF Crash, Interrupt, strikes
  <2> QED
    BY <1>1, <1>2, <1>3, <2>1, <2>2, <2>3, <2>4 DEF Step
<1>4. CASE People \/ UpstreamMoves
  BY <1>4 DEF People, CancelJob, RetryJob, ApproveTaskContract, DisposeTestProposals,
     ApproveGoldens, ApproveRemoteEgress, ApprovePublication, publicationApproved,
     personMoves, ActOnFinding, UpstreamMoves
<1>5. CASE UNCHANGED vars
  BY <1>5 DEF vars
<1> QED
  BY <1>3, <1>4, <1>5 DEF Next

(* What a step copied, and will report, is in the repository, and a step   *)
(* with a candidate has a worktree.                                        *)
refsFit(e) ==
  /\ {engine[e].commit, copy(e).base, copy(e).result} \subseteq Known
  /\ tree.head = NoCommit =>
       /\ copy(e).result = NoCommit
       /\ copy(e).state # "syncing" => engine[e].commit = NoCommit

TypeInv ==
  /\ TypeOK
  /\ MaxUpstream <= Len(commits)
  /\ tree.head = NoCommit => job.result = NoCommit
  /\ \A e \in Engines : refsFit(e)

(* CheckOut leaves a worktree that has a HEAD where it was.                *)
LEMMA CheckOutEffect ==
  ASSUME TypeInv, NEW e \in Engines, CheckOut(e)
  PROVE  gitGrows /\ UNCHANGED commits
<1>1. /\ UNCHANGED commits
      /\ tree' = [tree EXCEPT !.head = copy(e).base]
      /\ tree.head \in {NoCommit, copy(e).base}
  BY DEF CheckOut
<1>2. copy(e).base \in Known
  BY DEF TypeInv, refsFit
<1>3. commits \in Seq(Nat) /\ tree \in [head : Known, dirty : BOOLEAN]
  BY DEF TypeInv, TypeOK, Known
<1>4. tree' \in [head : Known, dirty : BOOLEAN] /\ tree'.head = copy(e).base
  BY <1>1, <1>2, <1>3
<1>5. Known' = Known /\ grown
  BY <1>1, <1>3 DEF Known, Commits, grown
<1> QED
  BY <1>1, <1>4, <1>5 DEF gitGrows

(* The phase may commit only onto a commit, and then has a copy of one.    *)
LEMMA CommitsHereEffect ==
  ASSUME TypeInv, NEW e \in Engines, commitsHere(e)
  PROVE  gitGrows
<1>1. gitTyped /\ copy(e).version \in Nat
  BY DEF TypeInv, TypeOK, gitTyped, Known, EngineState, Row, copy
<1>2. \E x : ~commitRefused(e, x) /\ commitEffect(e, x)
  BY DEF commitsHere, RecoverImplementation, RecoverRepair, CommitImplementation,
     CommitRepair, repairCommitted, CommitDocumentation, documentationCommitted
<1> QED
  BY <1>1, <1>2, CommitEffect

(* The repository only grows.                                              *)
LEMMA GitGrows ==
  ASSUME TypeInv, [Next]_vars
  PROVE  gitGrows /\ Known \subseteq Known'
<1>1. gitTyped
  BY DEF TypeInv, TypeOK, gitTyped, Known
<1>2. gitGrows
  <2>1. CASE UNCHANGED <<commits, tree>>
    BY <1>1, <2>1 DEF gitGrows, grown, gitTyped, Known, Commits
  <2>2. CASE /\ UNCHANGED commits
             /\ tree' \in [head : Known, dirty : BOOLEAN]
             /\ tree'.head = tree.head
    BY <1>1, <2>2 DEF gitGrows, grown, gitTyped, Known, Commits
  <2>3. CASE \E e \in Engines : CheckOut(e) \/ commitsHere(e)
    BY <2>3, CheckOutEffect, CommitsHereEffect
  <2> QED
    BY <1>1, <2>1, <2>2, <2>3, HeadMoves
<1>3. Known \subseteq Known'
  BY <1>1, <1>2 DEF gitTyped, gitGrows, grown, Known, Commits
<1> QED
  BY <1>2, <1>3

-----------------------------------------------------------------------------
(* The kinds of steps *)

(* The steps between the beginning and the end of a phase.                 *)
phaseStep(e) ==
  \/ RunPlain(e) \/ PhaseFails(e) \/ Agent(e) \/ Judge(e) \/ Synchronize(e)
  \/ ClaimWorktree(e) \/ CheckOut(e) \/ CheckRemote(e) \/ Push(e) \/ Interrupt(e)

(* They leave the row alone, keep the engine's copy of it, and put HEAD,   *)
(* the copied result or, in syncing, the default branch in the answer.     *)
busy(e) ==
  /\ engine' \in [Engines -> EngineState]
  /\ others(e) /\ sameRow(e) /\ rowUnchanged
  /\ engine[e].pc # "idle" /\ engine'[e].pc # "idle"
  /\ \/ engine'[e].commit \in {engine[e].commit, copy(e).result, tree'.head}
     \/ copy(e).state = "syncing" /\ engine'[e].commit = upstream

(* Outcomes a phase answers with.                                          *)
LEMMA AnswersTyped ==
  /\ Default \in Outcome /\ Repair \in Outcome
  /\ To("loading_documentation_model") \in Outcome
  /\ \A o \in egressOutcomes \union fullRoutes : o \in Outcome
<1>1. Default \in Outcome /\ Repair \in Outcome
  BY DEF Outcome, Default, Repair
<1>2. \A x \in State : To(x) \in Outcome
  BY DEF Outcome, To
<1>3. {"loading_test_designer_model", "golden_rehearsal_review",
       "loading_documentation_model", "awaiting_remote_egress_approval"} \subseteq State
  BY DEF State, transitions
<1> QED
  BY <1>1, <1>2, <1>3 DEF egressOutcomes, fullRoutes

(* The building blocks, as kinds of busy steps.                            *)
LEMMA GotoBusy ==
  ASSUME engine \in [Engines -> EngineState], NEW e \in Engines,
         NEW pc \in Pcs \ {"idle"}, goto(e, pc), engine[e].pc # "idle", rowUnchanged
  PROVE  busy(e)
  BY GotoEffect DEF busy

LEMMA AnswerBusy ==
  ASSUME engine \in [Engines -> EngineState], NEW e \in Engines,
         NEW o \in Outcome, NEW c \in Nat, NEW n \in Nat, answer(e, o, c, n),
         engine[e].pc # "idle", rowUnchanged,
         \/ c \in {engine[e].commit, copy(e).result, tree'.head}
         \/ copy(e).state = "syncing" /\ c = upstream
  PROVE  busy(e)
  BY AnswerEffect DEF busy

LEMMA GotoWithBusy ==
  ASSUME engine \in [Engines -> EngineState], NEW e \in Engines,
         NEW pc \in Pcs \ {"idle"}, NEW c \in Nat, NEW n \in Nat, gotoWith(e, pc, c, n),
         engine[e].pc # "idle", rowUnchanged,
         c \in {engine[e].commit, copy(e).result, tree'.head}
  PROVE  busy(e)
  BY GotoWithEffect DEF busy

(* The row an engine copied is a row, and what it carries are numbers.     *)
LEMMA CopyTyped ==
  ASSUME engine \in [Engines -> EngineState], NEW e \in Engines
  PROVE  /\ copy(e) \in Row /\ copy(e).result \in Nat /\ copy(e).cycle \in Nat
         /\ copy(e).version \in Nat /\ copy(e).state \in State
         /\ engine[e].commit \in Nat /\ engine[e].cycle \in Nat
         /\ engine[e].pc \in Pcs /\ engine[e].outcome \in Outcome
         /\ engine[e].listed \in [Findings -> Nat]
  BY DEF EngineState, Row, copy

(* The types of what a step reads.                                         *)
LEMMA TypesGiven ==
  ASSUME TypeInv, NEW e \in Engines
  PROVE  /\ engine \in [Engines -> EngineState] /\ gitTyped /\ refsFit(e)
         /\ findings \in [Findings -> Finding] /\ upstream \in Nat /\ troubles \in Nat
         /\ copy(e).version \in Nat /\ copy(e).result \in Nat
         /\ copy(e).cycle \in Nat /\ copy(e).cycle + 1 \in Nat
         /\ engine[e].commit \in Nat /\ engine[e].cycle \in Nat
<1>1. /\ engine \in [Engines -> EngineState] /\ findings \in [Findings -> Finding]
      /\ troubles \in Nat /\ refsFit(e)
  BY DEF TypeInv, TypeOK
<1>2. gitTyped
  BY DEF TypeInv, TypeOK, gitTyped, Known
<1>3. upstream \in Nat
  BY DEF TypeInv, TypeOK, Commits
<1>4. /\ copy(e).version \in Nat /\ copy(e).result \in Nat /\ copy(e).cycle \in Nat
      /\ engine[e].commit \in Nat /\ engine[e].cycle \in Nat
  BY <1>1, CopyTyped
<1> QED
  BY <1>1, <1>2, <1>3, <1>4

(* List keeps the copy and the commit, and holds the versions it read.     *)
listing(e) ==
  [f \in Findings |->
     IF findings[f].status = markedFrom[copy(e).state] THEN findings[f].version ELSE 0]

LEMMA ListEffect ==
  ASSUME engine \in [Engines -> EngineState], findings \in [Findings -> Finding],
         NEW e \in Engines, List(e)
  PROVE  /\ engine' \in [Engines -> EngineState]
         /\ others(e) /\ sameRow(e)
         /\ engine'[e].pc = "marking"
         /\ engine'[e].commit = engine[e].commit
         /\ engine'[e].cycle = engine[e].cycle
         /\ engine'[e].listed = listing(e)
<1>1. listing(e) \in [Findings -> Nat]
  BY DEF Finding, listing
<1>2. /\ engine'[e] = [engine[e] EXCEPT !.pc = "marking", !.listed = listing(e)]
      /\ others(e)
      /\ DOMAIN engine' = Engines
      /\ \A f \in Engines \ {e} : engine'[f] = engine[f]
  BY DEF List, listing, others
<1>3. engine[e] \in EngineState /\ "marking" \in Pcs
  BY DEF Pcs
<1>4. engine'[e] \in EngineState
  BY <1>1, <1>2, <1>3 DEF EngineState
<1>5. engine' = [f \in Engines |-> engine'[f]]
  BY DEF List
<1>6. engine' \in [Engines -> EngineState]
  BY <1>2, <1>4, <1>5
<1> QED
  BY <1>1, <1>2, <1>3, <1>6 DEF EngineState, sameRow

(* Mark strikes one finding from the list.                                 *)
LEMMA MarkEffect ==
  ASSUME engine \in [Engines -> EngineState], NEW e \in Engines, NEW f \in Findings,
         engine' = [engine EXCEPT ![e].listed[f] = 0]
  PROVE  /\ engine' \in [Engines -> EngineState]
         /\ others(e) /\ sameRow(e)
         /\ engine'[e].pc = engine[e].pc
         /\ engine'[e].commit = engine[e].commit
         /\ engine'[e].cycle = engine[e].cycle
         /\ engine'[e].listed = [engine[e].listed EXCEPT ![f] = 0]
<1>1. engine'[e] = [engine[e] EXCEPT !.listed[f] = 0] /\ others(e)
  BY DEF others
<1>2. engine[e] \in EngineState
  OBVIOUS
<1>3. engine'[e] \in EngineState
  BY <1>1, <1>2 DEF EngineState
<1>4. engine' \in [Engines -> EngineState]
  BY <1>3
<1> QED
  BY <1>1, <1>2, <1>4 DEF EngineState, sameRow

(* A phase step is one of these.                                           *)
LEMMA AgentBusy ==
  ASSUME TypeInv, NEW e \in Engines, Agent(e)
  PROVE  busy(e)
<1>1. engine \in [Engines -> EngineState] /\ gitTyped
  BY DEF TypeInv, TypeOK, gitTyped, Known
<1>2. /\ copy(e).result \in Nat /\ copy(e).cycle \in Nat /\ copy(e).cycle + 1 \in Nat
      /\ copy(e).version \in Nat /\ engine[e].commit \in Nat /\ engine[e] \in EngineState
  BY <1>1, CopyTyped
<1>3. ASSUME NEW x, ~commitRefused(e, x), commitEffect(e, x)
      PROVE  committed(e, x) = tree'.head /\ tree'.head \in Nat
  BY <1>1, <1>2, <1>3, CommitEffect DEF gitTyped, gitGrows, grown, Commits
<1> USE AnswersTyped DEF at, Pcs
<1>4. CASE RecoverImplementation(e)
  <2>1. CASE committed(e, copy(e).base) # copy(e).base
    BY <1>1, <1>2, <1>3, <1>4, <2>1, AnswerBusy DEF RecoverImplementation
  <2>2. CASE committed(e, copy(e).base) = copy(e).base
    BY <1>1, <1>4, <2>2, GotoBusy DEF RecoverImplementation
  <2> QED
    BY <2>1, <2>2
<1>5. CASE RecoverRepair(e)
  <2>1. CASE committed(e, copy(e).result) # copy(e).result
    BY <1>1, <1>2, <1>3, <1>5, <2>1, GotoWithBusy DEF RecoverRepair
  <2>2. CASE committed(e, copy(e).result) = copy(e).result
    BY <1>1, <1>5, <2>2, GotoBusy DEF RecoverRepair
  <2> QED
    BY <2>1, <2>2
<1>6. CASE StartDocumentation(e)
  BY <1>1, <1>6, GotoBusy DEF StartDocumentation
<1>7. CASE AskEgress(e)
  <2>1. PICK o \in egressOutcomes : answer(e, o, copy(e).result, copy(e).cycle)
    BY <1>7 DEF AskEgress
  <2>2. engine[e].pc # "idle" /\ rowUnchanged
    BY <1>7 DEF AskEgress
  <2> QED
    BY <1>1, <1>2, <2>1, <2>2, AnswerBusy
<1>8. CASE AgentWrites(e)
  <2>1. engine' = engine /\ rowUnchanged /\ engine[e].pc # "idle"
    BY <1>8 DEF AgentWrites, agentRuns
  <2> QED
    BY <1>1, <2>1 DEF busy, others, sameRow
<1>9. CASE AgentReturns(e)
  BY <1>1, <1>9, GotoBusy DEF AgentReturns, agentRuns
<1>10. CASE CommitImplementation(e)
  BY <1>1, <1>2, <1>3, <1>10, AnswerBusy DEF CommitImplementation
<1>11. CASE CommitRepair(e)
  <2>1. CASE committed(e, copy(e).result) # copy(e).result
    BY <1>1, <1>2, <1>3, <1>11, <2>1, GotoWithBusy DEF CommitRepair, repairCommitted
  <2>2. CASE committed(e, copy(e).result) = copy(e).result
    BY <1>1, <1>11, <2>2, GotoBusy DEF CommitRepair, repairCommitted
  <2> QED
    BY <2>1, <2>2
<1>12. CASE DocumentationBlocked(e)
  BY <1>1, <1>12, GotoBusy DEF DocumentationBlocked
<1>13. CASE CommitDocumentation(e)
  <2>1. CASE committed(e, copy(e).result) # copy(e).result
    BY <1>1, <1>2, <1>3, <1>13, <2>1, GotoWithBusy
       DEF CommitDocumentation, documentationCommitted
  <2>2. CASE committed(e, copy(e).result) = copy(e).result
    BY <1>1, <1>2, <1>13, <2>2, AnswerBusy
       DEF CommitDocumentation, documentationCommitted, answerDefault
  <2> QED
    BY <2>1, <2>2
<1> QED
  BY <1>4, <1>5, <1>6, <1>7, <1>8, <1>9, <1>10, <1>11, <1>12, <1>13 DEF Agent

(* So is one of those that judge the candidate,                            *)
LEMMA JudgeBusy ==
  ASSUME TypeInv, NEW e \in Engines, Judge(e)
  PROVE  busy(e)
<1>1. engine \in [Engines -> EngineState]
  BY DEF TypeInv, TypeOK
<1>2. /\ copy(e).result \in Nat /\ copy(e).cycle \in Nat
      /\ engine[e].commit \in Nat /\ engine[e].cycle \in Nat /\ engine[e] \in EngineState
      /\ findings \in [Findings -> Finding]
  BY <1>1, CopyTyped DEF TypeInv, TypeOK
<1> USE AnswersTyped DEF at, Pcs
<1>3. CASE VerifyTargeted(e)
  BY <1>1, <1>2, <1>3, AnswerBusy DEF VerifyTargeted, answerDefault
<1>4. CASE VerifyFull(e)
  BY <1>1, <1>2, <1>4, AnswerBusy DEF VerifyFull, passesFull
<1>5. CASE VerifyDocumentation(e)
  BY <1>1, <1>2, <1>5, AnswerBusy DEF VerifyDocumentation, passesFull
<1>6. CASE VerifyFinal(e)
  BY <1>1, <1>2, <1>6, GotoWithBusy DEF VerifyFinal, passesFull
<1>7. CASE Review(e)
  <2>1. \/ \E o \in {Repair, Default} : answer(e, o, copy(e).result, copy(e).cycle)
        \/ gotoWith(e, "listing", copy(e).result, copy(e).cycle)
    BY <1>7 DEF Review
  <2>2. engine[e].pc # "idle" /\ rowUnchanged
    BY <1>7 DEF Review
  <2> QED
    BY <1>1, <1>2, <2>1, <2>2, AnswerBusy, GotoWithBusy
<1>8. CASE List(e)
  BY <1>1, <1>2, <1>8, ListEffect DEF List, busy
<1>9. CASE Mark(e)
  BY <1>1, <1>9, MarkEffect DEF Mark, next, busy
<1>10. CASE MarkConflict(e)
  BY <1>1, <1>10, GotoBusy DEF MarkConflict, next
<1>11. CASE Marked(e)
  <2>1. PICK o \in {To("loading_documentation_model"), Default} :
          answer(e, o, engine[e].commit, engine[e].cycle)
    BY <1>11 DEF Marked
  <2>2. engine[e].pc # "idle" /\ rowUnchanged
    BY <1>11 DEF Marked
  <2> QED
    BY <1>1, <1>2, <2>1, <2>2, AnswerBusy
<1> QED
  BY <1>3, <1>4, <1>5, <1>6, <1>7, <1>8, <1>9, <1>10, <1>11 DEF Judge

(* and every other one.                                                    *)
LEMMA PhaseBusy ==
  ASSUME TypeInv, NEW e \in Engines, phaseStep(e)
  PROVE  busy(e)
<1>1. engine \in [Engines -> EngineState]
  BY DEF TypeInv, TypeOK
<1>2. /\ copy(e).result \in Nat /\ copy(e).cycle \in Nat
      /\ upstream \in Nat /\ engine[e] \in EngineState
  BY <1>1, CopyTyped DEF TypeInv, TypeOK, Commits
<1> USE AnswersTyped DEF at, Pcs
<1>3. CASE RunPlain(e)
  <2>1. PICK o \in Outcomes(copy(e).state, copy(e).cycle) :
          answer(e, o, copy(e).result, copy(e).cycle)
    BY <1>3 DEF RunPlain
  <2>2. o \in Outcome
    BY OutcomesTyped
  <2>3. engine[e].pc # "idle" /\ rowUnchanged
    BY <1>3 DEF RunPlain
  <2> QED
    BY <1>1, <1>2, <2>1, <2>2, <2>3, AnswerBusy
<1>4. CASE PhaseFails(e)
  BY <1>1, <1>4, GotoBusy DEF PhaseFails
<1>5. CASE Synchronize(e)
  BY <1>1, <1>2, <1>5, AnswerBusy DEF Synchronize, copy
<1>6. CASE ClaimWorktree(e)
  BY <1>1, <1>6, GotoBusy DEF ClaimWorktree
<1>7. CASE CheckOut(e)
  BY <1>1, <1>2, <1>7, AnswerBusy DEF CheckOut, answerDefault
<1>8. CASE CheckRemote(e)
  BY <1>1, <1>2, <1>8, AnswerBusy, GotoBusy DEF CheckRemote, answerDefault
<1>9. CASE Push(e)
  BY <1>1, <1>2, <1>9, AnswerBusy DEF Push, answerDefault
<1>10. CASE Interrupt(e)
  BY <1>1, <1>10, GotoBusy DEF Interrupt, strikes
<1> QED
  BY <1>3, <1>4, <1>5, <1>6, <1>7, <1>8, <1>9, <1>10, AgentBusy, JudgeBusy DEF phaseStep

(* A step that ends without a word, because of a conflict or a crash.      *)
dropped(e) == CompleteRefused(e) \/ FailureNotRecorded(e) \/ Crash(e)

(* A person moves the row and nothing else but a decision.                 *)
personStep ==
  \/ CancelJob \/ RetryJob \/ ApproveTaskContract \/ DisposeTestProposals
  \/ ApproveGoldens \/ ApproveRemoteEgress \/ ApprovePublication

(* The steps of the specification, by kind.                                *)
LEMMA Kinds ==
  ASSUME [Next]_vars
  PROVE  \/ \E e \in Engines : \/ Begin(e) \/ phaseStep(e) \/ CompletePhase(e)
                               \/ RecordFailure(e) \/ dropped(e)
         \/ personStep
         \/ \E f \in Findings : ActOnFinding(f)
         \/ UpstreamMoves
         \/ UNCHANGED vars
  BY DEF Next, Step, People, phaseStep, dropped, personStep

(* moveTo gives the row its next version.                                  *)
LEMMA MoveEffect ==
  ASSUME job \in Row, NEW to, NEW base \in Nat, NEW result \in Nat, NEW cycle \in Nat,
         moveTo(to, base, result, cycle)
  PROVE  /\ job' \in Row /\ job'.version = job.version + 1 /\ job'.version > job.version
         /\ job.version \in Nat
         /\ job'.state = to /\ job'.base = base /\ job'.result = result
         /\ job'.cycle = cycle
         /\ CanTransition(job.state, to) /\ to \in State
  BY EdgesStayInside DEF moveTo, Row

(* A person's step moves the row along an edge and keeps its candidate.    *)
LEMMA PersonEffect ==
  ASSUME TypeInv, personStep
  PROVE  /\ UNCHANGED engine /\ gitUnchanged /\ findingsUnchanged /\ historyUnchanged
         /\ UNCHANGED upstream
         /\ job' \in Row /\ job'.version = job.version + 1 /\ job'.version > job.version
         /\ job.version \in Nat
         /\ job'.base = job.base /\ job'.result = job.result /\ job'.cycle = job.cycle
         /\ CanTransition(job.state, job'.state)
         /\ contract' \in BOOLEAN
         /\ approvals' \in {approvals, approvals \union {job.result}}
         /\ job.result = NoCommit => approvals' = approvals
         /\ troubles' \in Nat
<1>1. /\ job \in Row /\ job.base \in Nat /\ job.result \in Nat /\ job.cycle \in Nat
      /\ troubles \in Nat /\ contract \in BOOLEAN
  BY DEF TypeInv, TypeOK, Row
<1>2. ASSUME NEW from, NEW to, personMoves(from, to)
      PROVE  /\ UNCHANGED engine /\ gitUnchanged /\ findingsUnchanged /\ historyUnchanged
             /\ UNCHANGED upstream
             /\ job' \in Row /\ job'.version = job.version + 1 /\ job'.version > job.version
             /\ job.version \in Nat
             /\ job'.base = job.base /\ job'.result = job.result /\ job'.cycle = job.cycle
             /\ CanTransition(job.state, job'.state)
  BY <1>1, <1>2, MoveEffect, ZenonT(60) DEF personMoves
<1>3. CASE CancelJob \/ RetryJob \/ ApproveRemoteEgress
  <2>1. trouble /\ UNCHANGED <<contract, approvals>> /\ \E from, to : personMoves(from, to)
    BY <1>3 DEF CancelJob, RetryJob, ApproveRemoteEgress
  <2> QED
    BY <1>1, <1>2, <2>1 DEF trouble
<1>4. CASE ApproveTaskContract \/ DisposeTestProposals \/ ApproveGoldens
  <2>1. /\ contract' \in BOOLEAN /\ UNCHANGED <<approvals, troubles>>
        /\ \E from, to : personMoves(from, to)
    BY <1>1, <1>4 DEF ApproveTaskContract, DisposeTestProposals, ApproveGoldens
  <2> QED
    BY <1>1, <1>2, <2>1
<1>5. CASE ApprovePublication
  <2>1. /\ UNCHANGED <<contract, troubles>>
        /\ approvals' = approvals \union {job.result} /\ job.result # NoCommit
        /\ \E from, to : personMoves(from, to)
    BY <1>5 DEF ApprovePublication, publicationApproved
  <2> QED
    BY <1>1, <1>2, <2>1
<1> QED
  BY <1>3, <1>4, <1>5 DEF personStep

(* A phase that is completed moves the row it copied to the routed state,  *)
(* with the commit and the cycle it reports.                               *)
LEMMA CompleteEffect ==
  ASSUME TypeInv, NEW e \in Engines, CompletePhase(e)
  PROVE  /\ engine' \in [Engines -> EngineState] /\ others(e) /\ engine'[e] = Idle
         /\ engine[e].pc = "answered" /\ copy(e).version = job.version
         /\ UNCHANGED <<contract, approvals>> /\ gitUnchanged /\ findingsUnchanged
         /\ historyUnchanged /\ worldUnchanged
         /\ job' \in Row /\ job'.version = job.version + 1 /\ job'.version > job.version
         /\ job.version \in Nat
         /\ job'.state = route(e) /\ job'.cycle = engine[e].cycle
         /\ CanTransition(job.state, route(e))
         /\ copy(e).state = "syncing" =>
              job'.base = engine[e].commit /\ job'.result = job.result
         /\ copy(e).state # "syncing" =>
              job'.base = job.base /\ job'.result = engine[e].commit
<1>1. /\ engine \in [Engines -> EngineState] /\ engine[e] \in EngineState
      /\ job \in Row /\ job.base \in Nat /\ job.result \in Nat
      /\ engine[e].commit \in Nat /\ engine[e].cycle \in Nat
  BY CopyTyped DEF TypeInv, TypeOK, Row
<1>2. /\ stepEnds(e) /\ engine[e].pc = "answered" /\ copy(e).version = job.version
      /\ UNCHANGED <<contract, approvals>> /\ gitUnchanged /\ findingsUnchanged
      /\ historyUnchanged /\ worldUnchanged
  BY DEF CompletePhase, canComplete, unchangedSince
<1>3. PICK b \in Nat, r \in Nat :
        /\ moveTo(route(e), b, r, engine[e].cycle)
        /\ copy(e).state = "syncing" => b = engine[e].commit /\ r = job.result
        /\ copy(e).state # "syncing" => b = job.base /\ r = engine[e].commit
  BY <1>1 DEF CompletePhase
<1> QED
  BY <1>1, <1>2, <1>3, MoveEffect, EndsEffect, ZenonT(60)

(* A failure that is recorded moves the row to failed.                     *)
LEMMA FailureEffect ==
  ASSUME TypeInv, NEW e \in Engines, RecordFailure(e)
  PROVE  /\ engine' \in [Engines -> EngineState] /\ others(e) /\ engine'[e] = Idle
         /\ engine[e].pc = "erring" /\ copy(e).version = job.version
         /\ rowMoves /\ worldUnchanged
         /\ job' \in Row /\ job'.version = job.version + 1 /\ job'.version > job.version
         /\ job.version \in Nat
         /\ job'.state = "failed" /\ job'.cycle = job.cycle
         /\ job'.base = job.base /\ job'.result = job.result
         /\ CanTransition(job.state, "failed")
<1>1. /\ engine \in [Engines -> EngineState]
      /\ job \in Row /\ job.base \in Nat /\ job.result \in Nat /\ job.cycle \in Nat
  BY DEF TypeInv, TypeOK, Row
<1> QED
  BY <1>1, MoveEffect, EndsEffect, ZenonT(60) DEF RecordFailure, unchangedSince

(* A step that is dropped changes nothing but the engine.                  *)
LEMMA DroppedEffect ==
  ASSUME TypeInv, NEW e \in Engines, dropped(e)
  PROVE  /\ engine' \in [Engines -> EngineState] /\ others(e) /\ engine'[e] = Idle
         /\ engine[e].pc # "idle"
         /\ rowUnchanged /\ gitUnchanged /\ findingsUnchanged /\ historyUnchanged
         /\ UNCHANGED upstream /\ troubles' \in Nat
<1>1. engine \in [Engines -> EngineState] /\ troubles \in Nat
  BY DEF TypeInv, TypeOK
<1>2. CASE CompleteRefused(e) \/ FailureNotRecorded(e)
  BY <1>1, <1>2, EndsEffect DEF CompleteRefused, FailureNotRecorded, worldUnchanged
<1>3. CASE Crash(e)
  BY <1>1, <1>3, EndsEffect DEF Crash, strikes, trouble
<1> QED
  BY <1>2, <1>3 DEF dropped

-----------------------------------------------------------------------------
(* Types *)

(* Reports and transitions keep findings findings.                         *)
LEMMA FindingsTyped ==
  ASSUME findings \in [Findings -> Finding]
  PROVE  /\ \A report : \A n \in Nat : observed(findings, report, n) \in [Findings -> Finding]
         /\ \A f \in Findings : \A to : CanTransitionFinding(findings[f].status, to)
              => transitioned(findings, f, to) \in [Findings -> Finding]
<1>1. ASSUME NEW report, NEW n \in Nat
      PROVE  observed(findings, report, n) \in [Findings -> Finding]
  BY DEF observed, Finding, Status
<1>2. ASSUME NEW f \in Findings, NEW to, CanTransitionFinding(findings[f].status, to)
      PROVE  transitioned(findings, f, to) \in [Findings -> Finding]
  <2>1. to \in Status
    BY <1>2 DEF CanTransitionFinding, findingEdges, Status
  <2>2. findings[f].version + 1 \in Nat /\ findings[f].seen \in Nat
    BY DEF Finding
  <2> QED
    BY <2>1, <2>2 DEF transitioned, Finding
<1> QED
  BY <1>1, <1>2

(* What a phase adds: findings of a report or a mark, the commit that      *)
(* passed or was reviewed, the branch that was pushed.                     *)
phaseRecords(e) ==
  /\ claim' \in {claim, copy(e).base}
  /\ branch' \in {branch, tree.head}
  /\ findings' \in [Findings -> Finding]
  /\ \/ verified' = verified
     \/ verified' = verified \union {tree.head} /\ tree.head # NoCommit
  /\ \/ reviewed' = reviewed
     \/ reviewed' = reviewed \union {tree.head} /\ tree.head # NoCommit
  /\ repairs' \in {repairs, repairs \union {copy(e).cycle}}
  /\ \/ fix' = fix
     \/ \E f \in Findings : fix' = [fix EXCEPT ![f] = engine[e].commit]
  /\ upstream' = upstream /\ troubles' \in Nat

(* Every phase step adds no more than that.                                *)
LEMMA PhaseRecords ==
  ASSUME TypeInv, NEW e \in Engines, phaseStep(e)
  PROVE  phaseRecords(e)
<1>1. /\ gitTyped /\ findings \in [Findings -> Finding] /\ copy(e).cycle \in Nat
      /\ copy(e).version \in Nat /\ troubles \in Nat /\ refsFit(e)
  BY TypesGiven
<1>2. ASSUME NEW x, ~commitRefused(e, x), commitEffect(e, x)
      PROVE  UNCHANGED <<claim, branch>>
  BY <1>1, <1>2, CommitEffect DEF commitEffect, gitUnchanged
<1> USE DEF findingsUnchanged, historyUnchanged, worldUnchanged, gitUnchanged
<1>3. CASE Agent(e)
  <2>1. CASE RecoverImplementation(e) \/ RecoverRepair(e) \/ CommitImplementation(e)
    BY <1>1, <1>2, <2>1 DEF RecoverImplementation, RecoverRepair, CommitImplementation,
       phaseRecords
  <2>2. CASE CommitRepair(e) \/ CommitDocumentation(e)
    BY <1>1, <1>2, <2>2 DEF CommitRepair, repairCommitted, CommitDocumentation,
       documentationCommitted, phaseRecords
  <2>3. CASE StartDocumentation(e) \/ AskEgress(e) \/ AgentWrites(e) \/ AgentReturns(e)
    BY <1>1, <2>3 DEF StartDocumentation, AskEgress, AgentWrites, AgentReturns, phaseRecords
  <2>4. CASE DocumentationBlocked(e)
    BY <1>1, <2>4, FindingsTyped DEF DocumentationBlocked, phaseRecords
  <2> QED
    BY <1>3, <2>1, <2>2, <2>3, <2>4 DEF Agent
<1>4. CASE Judge(e)
  <2>1. CASE VerifyTargeted(e) \/ VerifyFull(e) \/ VerifyDocumentation(e) \/ VerifyFinal(e)
    BY <1>1, <2>1, WorkerLeaves DEF VerifyTargeted, VerifyFull, VerifyDocumentation,
       VerifyFinal, passesFull, scanned, phaseRecords
  <2>2. CASE Review(e)
    <3>1. tree.head # NoCommit
      BY <1>1, <2>2 DEF Review, refsFit
    <3>2. /\ reviewed' = reviewed \union {tree.head}
          /\ UNCHANGED <<claim, branch, verified, repairs, fix, upstream, troubles>>
      BY <2>2 DEF Review
    <3>3. findings' \in [Findings -> Finding]
      BY <1>1, <2>2, FindingsTyped DEF Review
    <3> QED
      BY <1>1, <3>1, <3>2, <3>3 DEF phaseRecords
  <2>3. CASE List(e) \/ MarkConflict(e) \/ Marked(e)
    BY <1>1, <2>3 DEF List, MarkConflict, Marked, phaseRecords
  <2>4. CASE Mark(e)
    BY <1>1, <2>4, FindingsTyped DEF Mark, markable, phaseRecords
  <2> QED
    BY <1>4, <2>1, <2>2, <2>3, <2>4 DEF Judge
<1>5. CASE RunPlain(e) \/ PhaseFails(e)
  BY <1>1, <1>5, WorkerLeaves DEF RunPlain, PhaseFails, phaseRecords
<1>6. CASE Synchronize(e) \/ ClaimWorktree(e) \/ CheckOut(e) \/ CheckRemote(e)
  BY <1>1, <1>6 DEF Synchronize, ClaimWorktree, CheckOut, CheckRemote, phaseRecords
<1>7. CASE Push(e) \/ Interrupt(e)
  BY <1>1, <1>7 DEF Push, Interrupt, strikes, trouble, phaseRecords
<1> QED
  BY <1>3, <1>4, <1>5, <1>6, <1>7 DEF phaseStep

(* No step leaves the types.                                               *)
LEMMA TypeStep ==
  ASSUME TypeInv, [Next]_vars
  PROVE  TypeInv'
<1>1. /\ commits' \in Seq(Nat) /\ MaxUpstream <= Len(commits')
      /\ Commits \subseteq Commits' /\ Known \subseteq Known'
      /\ tree' \in [head : Known', dirty : BOOLEAN]
      /\ tree'.head = NoCommit => tree.head = NoCommit
  <2>1. gitGrows /\ Known \subseteq Known'
    BY GitGrows
  <2>2. Len(commits) <= Len(commits') /\ commits' \in Seq(Nat)
    BY <2>1 DEF gitGrows, grown
  <2>3. commits \in Seq(Nat) /\ MaxUpstream <= Len(commits) /\ MaxUpstream \in Nat
    BY CandidateAssumption DEF TypeInv, TypeOK
  <2>4. MaxUpstream <= Len(commits') /\ Commits \subseteq Commits'
    BY <2>2, <2>3 DEF Commits
  <2> QED
    BY <2>1, <2>2, <2>4 DEF gitGrows
<1>2. /\ job \in Row /\ {job.base, job.result} \subseteq Known /\ contract \in BOOLEAN
      /\ upstream \in Commits /\ claim \in Known /\ branch \in Known
      /\ tree.head \in Known /\ (tree.head # NoCommit => tree.head \in Commits)
      /\ findings \in [Findings -> Finding] /\ verified \subseteq Commits
      /\ reviewed \subseteq Commits /\ approvals \subseteq Commits /\ repairs \subseteq Nat
      /\ fix \in [Findings -> Known] /\ troubles \in Nat
      /\ engine \in [Engines -> EngineState] /\ \A f \in Engines : refsFit(f)
      /\ tree.head = NoCommit => job.result = NoCommit
  BY DEF TypeInv, TypeOK, Known
<1>3. ASSUME NEW e \in Engines, others(e),
             {engine'[e].commit, engine'[e].row.base, engine'[e].row.result} \subseteq Known',
             tree'.head = NoCommit =>
               /\ engine'[e].row.result = NoCommit
               /\ engine'[e].row.state # "syncing" => engine'[e].commit = NoCommit
      PROVE  \A f \in Engines : refsFit(f)'
  BY <1>1, <1>2, <1>3 DEF others, refsFit, copy
<1>4. Idle.commit = NoCommit /\ Idle.row.base = NoCommit /\ Idle.row.result = NoCommit
  BY DEF Idle, NoRow
<1>5. ASSUME NEW e \in Engines, others(e), engine'[e] = Idle
      PROVE  \A f \in Engines : refsFit(f)'
  BY <1>3, <1>4, <1>5 DEF Known
<1>6. ASSUME engine' = engine
      PROVE  \A f \in Engines : refsFit(f)'
  BY <1>1, <1>2, <1>6 DEF refsFit, copy
<1>7. ASSUME /\ job' \in Row /\ {job'.base, job'.result} \subseteq Known'
             /\ contract' \in BOOLEAN /\ approvals' \subseteq Commits'
             /\ upstream' \in Commits' /\ claim' \in Known' /\ branch' \in Known'
             /\ findings' \in [Findings -> Finding] /\ verified' \subseteq Commits'
             /\ reviewed' \subseteq Commits' /\ repairs' \subseteq Nat
             /\ fix' \in [Findings -> Known'] /\ troubles' \in Nat
             /\ engine' \in [Engines -> EngineState] /\ \A f \in Engines : refsFit(f)'
             /\ tree'.head = NoCommit => job'.result = NoCommit
      PROVE  TypeInv'
  BY <1>1, <1>7 DEF TypeInv, TypeOK, Known
<1>8. ASSUME UNCHANGED <<approvals, findings, fix, verified, reviewed, repairs, upstream>>,
             claim' = claim, branch' = branch, contract' \in BOOLEAN, troubles' \in Nat,
             job' \in Row, {job'.base, job'.result} \subseteq Known',
             tree'.head = NoCommit => job'.result = NoCommit,
             engine' \in [Engines -> EngineState], \A f \in Engines : refsFit(f)'
      PROVE  TypeInv'
  BY <1>1, <1>2, <1>7, <1>8
<1> USE DEF gitUnchanged, findingsUnchanged, historyUnchanged, worldUnchanged, rowUnchanged
<1>9. ASSUME NEW e \in Engines, Begin(e)
      PROVE  TypeInv'
  <2>1. \A f \in Engines : refsFit(f)'
    BY <1>1, <1>2, <1>3, <1>9, BeginEffect, SMTT(30) DEF Known
  <2> QED
    BY <1>1, <1>2, <1>8, <1>9, <2>1, BeginEffect DEF Begin
<1>10. ASSUME NEW e \in Engines, phaseStep(e)
       PROVE  TypeInv'
  <2>1. busy(e) /\ phaseRecords(e) /\ refsFit(e)
    BY <1>2, <1>10, PhaseBusy, PhaseRecords
  <2>2. tree'.head \in Known' /\ upstream \in Known'
    BY <1>1, <1>2 DEF Known
  <2>3. \A f \in Engines : refsFit(f)'
    BY <1>1, <1>3, <2>1, <2>2 DEF busy, sameRow, refsFit, copy
  <2>4. /\ claim' \in Known' /\ branch' \in Known' /\ upstream' \in Commits'
        /\ verified' \subseteq Commits' /\ reviewed' \subseteq Commits'
    BY <1>1, <1>2, <2>1 DEF phaseRecords, refsFit
  <2>5. repairs' \subseteq Nat /\ fix' \in [Findings -> Known']
    BY <1>1, <1>2, <2>1, CopyTyped DEF phaseRecords, refsFit
  <2> QED
    BY <1>1, <1>2, <1>7, <2>1, <2>3, <2>4, <2>5 DEF busy, phaseRecords
<1>11. ASSUME NEW e \in Engines, CompletePhase(e)
       PROVE  TypeInv'
  <2>1. refsFit(e) /\ copy(e) = engine[e].row
    BY <1>2 DEF copy
  <2>2. /\ {job'.base, job'.result} \subseteq Known'
        /\ tree'.head = NoCommit => job'.result = NoCommit
    BY <1>1, <1>2, <1>11, <2>1, CompleteEffect DEF refsFit
  <2> QED
    BY <1>2, <1>5, <1>8, <1>11, <2>2, CompleteEffect
<1>12. ASSUME NEW e \in Engines, RecordFailure(e)
       PROVE  TypeInv'
  BY <1>1, <1>2, <1>5, <1>8, <1>12, FailureEffect DEF rowMoves
<1>13. ASSUME NEW e \in Engines, dropped(e)
       PROVE  TypeInv'
  BY <1>1, <1>2, <1>5, <1>8, <1>13, DroppedEffect
<1>14. CASE personStep
  <2>1. approvals' \subseteq Commits'
    BY <1>1, <1>2, <1>14, PersonEffect DEF Known
  <2> QED
    BY <1>1, <1>2, <1>6, <1>7, <1>14, <2>1, PersonEffect
<1>15. CASE \E f \in Findings : ActOnFinding(f)
  BY <1>1, <1>2, <1>6, <1>7, <1>15, FindingsTyped DEF ActOnFinding
<1>16. CASE UpstreamMoves
  <2>1. upstream' \in Commits' /\ troubles' \in Nat
    BY <1>1, <1>2, <1>16, CandidateAssumption DEF UpstreamMoves, trouble, Commits
  <2> QED
    BY <1>1, <1>2, <1>6, <1>7, <1>16, <2>1 DEF UpstreamMoves
<1>17. CASE UNCHANGED vars
  BY <1>1, <1>2, <1>6, <1>8, <1>17 DEF vars
<1> QED
  BY <1>9, <1>10, <1>11, <1>12, <1>13, <1>14, <1>15, <1>16, <1>17, Kinds

(* The types, with the repository behind every commit that is named.       *)
LEMMA TypeInvariant == Spec => []TypeInv
<1>1. Init => TypeInv
  <2> SUFFICES ASSUME Init PROVE TypeInv
    OBVIOUS
  <2>1. "queued" \in State
    BY DEF State, transitions
  <2>2. job \in Row /\ job.base = NoCommit /\ job.result = NoCommit
    BY <2>1 DEF Init, Row, NoCommit
  <2>3. commits \in Seq(Nat) /\ Len(commits) = MaxUpstream /\ MaxUpstream \in Nat \ {0}
    BY CandidateAssumption DEF Init
  <2>4. findings \in [Findings -> Finding] /\ fix \in [Findings -> Known]
    BY DEF Init, Finding, Unseen, Known
  <2>5. engine \in [Engines -> EngineState] /\ \A e \in Engines : engine[e] = Idle
    BY IdleTyped DEF Init
  <2>6. /\ Idle.commit = NoCommit /\ Idle.row.base = NoCommit
        /\ Idle.row.result = NoCommit
    BY DEF Idle, NoRow
  <2>7. \A e \in Engines : refsFit(e)
    BY <2>5, <2>6 DEF refsFit, copy, Known
  <2>8. /\ tree \in [head : Known, dirty : BOOLEAN] /\ upstream \in Commits
        /\ {job.base, job.result, claim, branch} \subseteq Known
    BY <2>2, <2>3 DEF Init, Known, Commits
  <2>9. /\ contract \in BOOLEAN /\ troubles \in Nat
        /\ verified = {} /\ reviewed = {} /\ approvals = {} /\ repairs = {}
    BY DEF Init
  <2>10. TypeOK
    BY <2>2, <2>3, <2>4, <2>5, <2>8, <2>9 DEF TypeOK, Known
  <2> QED
    BY <2>2, <2>3, <2>7, <2>10 DEF TypeInv
<1>2. TypeInv /\ [Next]_vars => TypeInv'
  BY TypeStep
<1> QED
  BY <1>1, <1>2, PTL DEF Spec

(* Every variable keeps its type, and every commit that is named exists.   *)
THEOREM TypeCorrect == Spec => []TypeOK
<1>1. TypeInv => TypeOK
  BY DEF TypeInv
<1> QED
  BY <1>1, TypeInvariant, PTL

-----------------------------------------------------------------------------
(* Where a step is, and what it may answer *)

(* A place in Execute belongs to certain phases.  What a step will report  *)
(* is the candidate it copied, or a commit of its own: of an               *)
(* implementation, of a repair, with which a cycle is counted, or of       *)
(* documentation that was verified.                                        *)
marks(e) ==
  LET r == copy(e)  c == engine[e].commit  n == engine[e].cycle IN
  \/ r.state = "repairing" /\ c # r.result /\ n = r.cycle + 1
  \/ r.state = "final_verification" /\ c = r.result /\ c \in verified /\ n = r.cycle
  \/ r.state = "qc_review" /\ c = r.result /\ c # NoCommit /\ n = r.cycle

answers(e) ==
  LET r == copy(e)  c == engine[e].commit  n == engine[e].cycle  o == engine[e].outcome IN
  /\ o \in Outcomes(r.state, r.cycle)
  /\ \/ n = r.cycle
     \/ r.state = "repairing" /\ o = Default /\ n = r.cycle + 1 /\ c # r.result
  /\ \/ c = r.result
     \/ r.state = "syncing"
     \/ r.state = "documentation_review" /\ c \in verified
     \/ r.state \in {"implementing", "repairing"} /\ o = Default
  /\ r.state \in {"verifying_full", "final_verification"} => c = r.result /\ c \in verified
  /\ r.state = "qc_review" /\ o = Default => c # NoCommit

stepFits(e) ==
  LET s == copy(e).state  pc == engine[e].pc IN
  /\ pc = "working" => s \in ModelPhases \union {"creating_worktree"}
  /\ pc = "edited" => s \in ModelPhases
  /\ pc = "verifying" => s = "documentation_review"
  /\ pc = "pushing" => s = "publishing_branch"
  /\ pc \in {"listing", "marking"} => marks(e)
  /\ pc = "answered" => answers(e)

(* The answers that the phases give are among their outcomes.              *)
LEMMA AnswersAllowed ==
  ASSUME NEW n
  PROVE  /\ \A s \in {"syncing", "creating_worktree", "implementing", "verifying_targeted",
                      "documentation_review", "qc_review", "repairing",
                      "publishing_branch"} : Default \in Outcomes(s, n)
         /\ \A o \in fullRoutes : o \in Outcomes("verifying_full", n)
         /\ n + 1 < MaxReviewCycles => Repair \in Outcomes("qc_review", n)
         /\ To("loading_documentation_model") \in Outcomes("final_verification", n)
         /\ \A s \in {"implementing", "repairing", "documentation_review", "qc_review"} :
              \A o \in egressOutcomes : o \in Outcomes(s, n)
  BY DEF Outcomes, qcOutcomes

(* Asking for a remote call is not the default answer.                     *)
LEMMA EgressIsNotDefault ==
  /\ \A o \in egressOutcomes : o # Default
  /\ Repair # Default
  /\ To("loading_documentation_model") # Default
<1>1. /\ To("awaiting_remote_egress_approval").nextState # Default.nextState
      /\ To("loading_documentation_model").nextState # Default.nextState
      /\ Repair.needsRepair # Default.needsRepair
  BY DEF To, Default, Repair, NoRoute
<1> QED
  BY <1>1 DEF egressOutcomes

(* What passed stays so.                                                   *)
LEMMA VerifiedGrows ==
  ASSUME TypeInv, [Next]_vars
  PROVE  verified \subseteq verified' /\ reviewed \subseteq reviewed'
<1> USE DEF historyUnchanged
<1>1. ASSUME NEW e \in Engines, phaseStep(e)
      PROVE  verified \subseteq verified' /\ reviewed \subseteq reviewed'
  BY <1>1, PhaseRecords DEF phaseRecords
<1>2. ASSUME NEW e \in Engines, Begin(e) \/ CompletePhase(e) \/ RecordFailure(e) \/ dropped(e)
      PROVE  verified \subseteq verified' /\ reviewed \subseteq reviewed'
  BY <1>2, DroppedEffect DEF Begin, CompletePhase, RecordFailure, rowMoves
<1>3. CASE personStep
  BY <1>3, PersonEffect
<1>4. CASE (\E f \in Findings : ActOnFinding(f)) \/ UpstreamMoves \/ UNCHANGED vars
  BY <1>4 DEF ActOnFinding, UpstreamMoves, vars
<1> QED
  BY <1>1, <1>2, <1>3, <1>4, Kinds

(* An answer with the copied candidate fits, unless the phase verifies it  *)
(* or asks for its publication.                                            *)
LEMMA AnswerFits ==
  ASSUME TypeInv, NEW e \in Engines, NEW o \in Outcomes(copy(e).state, copy(e).cycle),
         answer(e, o, copy(e).result, copy(e).cycle),
         copy(e).state \in {"verifying_full", "final_verification"}
           => copy(e).result \in verified',
         copy(e).state = "qc_review" /\ o = Default => copy(e).result # NoCommit
  PROVE  stepFits(e)'
<1>1. /\ engine \in [Engines -> EngineState] /\ o \in Outcome
      /\ copy(e).result \in Nat /\ copy(e).cycle \in Nat
  BY CopyTyped, OutcomesTyped DEF TypeInv, TypeOK
<1>2. /\ sameRow(e) /\ engine'[e].pc = "answered" /\ engine'[e].outcome = o
      /\ engine'[e].commit = copy(e).result /\ engine'[e].cycle = copy(e).cycle
  BY <1>1, AnswerEffect
<1>3. engine'[e].row = copy(e)
  BY <1>2 DEF sameRow, copy
<1> QED
  BY <1>2, <1>3 DEF stepFits, answers, copy

(* To go on to a place that belongs to the phase fits.                     *)
LEMMA GotoFits ==
  ASSUME TypeInv, NEW e \in Engines, NEW pc \in Pcs, goto(e, pc),
         \/ pc = "erring"
         \/ pc = "working" /\ copy(e).state \in ModelPhases \union {"creating_worktree"}
         \/ pc = "edited" /\ copy(e).state \in ModelPhases
         \/ pc = "pushing" /\ copy(e).state = "publishing_branch"
  PROVE  stepFits(e)'
<1>1. engine \in [Engines -> EngineState]
  BY DEF TypeInv, TypeOK
<1>2. sameRow(e) /\ engine'[e].pc = pc
  BY <1>1, GotoEffect
<1> QED
  BY <1>2 DEF stepFits, sameRow, copy

(* The agent's steps keep what a step may report,                          *)
LEMMA AgentFits ==
  ASSUME TypeInv, NEW e \in Engines, Agent(e), stepFits(e), verified \subseteq verified'
  PROVE  stepFits(e)'
<1>1. engine \in [Engines -> EngineState] /\ gitTyped
  BY DEF TypeInv, TypeOK, gitTyped, Known
<1>2. /\ copy(e).result \in Nat /\ copy(e).cycle \in Nat /\ copy(e).cycle + 1 \in Nat
      /\ copy(e).version \in Nat /\ engine[e].commit \in Nat /\ engine[e] \in EngineState
  BY <1>1, CopyTyped
<1>3. ASSUME NEW x, ~commitRefused(e, x), commitEffect(e, x)
      PROVE  committed(e, x) \in Nat
  BY <1>1, <1>2, <1>3, CommitEffect DEF gitTyped, gitGrows, grown, Commits
<1>4. ASSUME NEW c \in Nat, NEW pc \in {"listing", "verifying"},
             gotoWith(e, pc, c, copy(e).cycle + 1) \/ gotoWith(e, pc, c, copy(e).cycle)
      PROVE  /\ sameRow(e) /\ engine'[e].pc = pc /\ engine'[e].commit = c
             /\ gotoWith(e, pc, c, copy(e).cycle + 1) => engine'[e].cycle = copy(e).cycle + 1
             /\ gotoWith(e, pc, c, copy(e).cycle) => engine'[e].cycle = copy(e).cycle
  BY <1>1, <1>2, <1>4, GotoWithEffect DEF Pcs
<1>5. ASSUME NEW c \in Nat, answer(e, Default, c, copy(e).cycle),
             copy(e).state = "implementing"
      PROVE  stepFits(e)'
  <2>1. /\ sameRow(e) /\ engine'[e].pc = "answered" /\ engine'[e].outcome = Default
        /\ engine'[e].commit = c /\ engine'[e].cycle = copy(e).cycle
    BY <1>1, <1>2, <1>5, AnswerEffect, AnswersTyped
  <2> QED
    BY <1>5, <2>1, AnswersAllowed DEF stepFits, answers, sameRow, copy
<1>6. ASSUME NEW c \in Nat, gotoWith(e, "listing", c, copy(e).cycle + 1),
             copy(e).state = "repairing", c # copy(e).result
      PROVE  stepFits(e)'
  BY <1>4, <1>6 DEF stepFits, marks, sameRow, copy
<1> USE DEF at, Pcs, ModelPhases
<1>7. CASE RecoverImplementation(e)
  <2>1. copy(e).state = "implementing"
    BY <1>7 DEF RecoverImplementation, copy
  <2>2. CASE committed(e, copy(e).base) # copy(e).base
    BY <1>3, <1>5, <1>7, <2>1, <2>2 DEF RecoverImplementation
  <2>3. CASE committed(e, copy(e).base) = copy(e).base
    BY <1>7, <2>1, <2>3, GotoFits DEF RecoverImplementation
  <2> QED
    BY <2>2, <2>3
<1>8. CASE RecoverRepair(e)
  <2>1. copy(e).state = "repairing"
    BY <1>8 DEF RecoverRepair, copy
  <2>2. CASE committed(e, copy(e).result) # copy(e).result
    BY <1>3, <1>6, <1>8, <2>1, <2>2 DEF RecoverRepair
  <2>3. CASE committed(e, copy(e).result) = copy(e).result
    BY <1>8, <2>1, <2>3, GotoFits DEF RecoverRepair
  <2> QED
    BY <2>2, <2>3
<1>9. CASE StartDocumentation(e)
  BY <1>9, GotoFits DEF StartDocumentation, copy
<1>10. CASE AskEgress(e)
  <2>1. PICK o \in egressOutcomes : answer(e, o, copy(e).result, copy(e).cycle)
    BY <1>10 DEF AskEgress
  <2>2. copy(e).state \in {"implementing", "repairing", "documentation_review", "qc_review"}
    BY <1>10 DEF AskEgress, copy
  <2>3. o \in Outcomes(copy(e).state, copy(e).cycle) /\ o # Default
    BY <2>2, AnswersAllowed, EgressIsNotDefault
  <2> QED
    BY <2>1, <2>2, <2>3, AnswerFits
<1>11. CASE AgentWrites(e)
  BY <1>11 DEF AgentWrites, agentRuns, stepFits, copy
<1>12. CASE AgentReturns(e)
  BY <1>12, GotoFits DEF AgentReturns, agentRuns, copy
<1>13. CASE CommitImplementation(e)
  BY <1>3, <1>5, <1>13 DEF CommitImplementation, copy
<1>14. CASE CommitRepair(e)
  <2>1. copy(e).state = "repairing"
    BY <1>14 DEF CommitRepair, repairCommitted, copy
  <2>2. CASE committed(e, copy(e).result) # copy(e).result
    BY <1>3, <1>6, <1>14, <2>1, <2>2 DEF CommitRepair, repairCommitted
  <2>3. CASE committed(e, copy(e).result) = copy(e).result
    BY <1>14, <2>3, GotoFits DEF CommitRepair
  <2> QED
    BY <2>2, <2>3
<1>15. CASE DocumentationBlocked(e)
  BY <1>15, GotoFits DEF DocumentationBlocked
<1>16. CASE CommitDocumentation(e)
  <2>1. copy(e).state = "documentation_review"
    BY <1>16 DEF CommitDocumentation, documentationCommitted, copy
  <2>2. CASE committed(e, copy(e).result) # copy(e).result
    <3>1. sameRow(e) /\ engine'[e].pc = "verifying"
      BY <1>3, <1>4, <1>16, <2>2 DEF CommitDocumentation, documentationCommitted
    <3> QED
      BY <2>1, <3>1 DEF stepFits, sameRow, copy
  <2>3. CASE committed(e, copy(e).result) = copy(e).result
    BY <1>16, <2>1, <2>3, AnswersAllowed, AnswerFits DEF CommitDocumentation, answerDefault
  <2> QED
    BY <2>2, <2>3
<1> QED
  BY <1>7, <1>8, <1>9, <1>10, <1>11, <1>12, <1>13, <1>14, <1>15, <1>16 DEF Agent

(* those that judge the candidate do,                                      *)
LEMMA JudgeFits ==
  ASSUME TypeInv, NEW e \in Engines, Judge(e), stepFits(e), verified \subseteq verified'
  PROVE  stepFits(e)'
<1>1. engine \in [Engines -> EngineState]
  BY DEF TypeInv, TypeOK
<1>2. /\ copy(e).result \in Nat /\ copy(e).cycle \in Nat
      /\ engine[e].commit \in Nat /\ engine[e].cycle \in Nat /\ engine[e] \in EngineState
      /\ findings \in [Findings -> Finding]
  BY <1>1, CopyTyped DEF TypeInv, TypeOK
<1> USE DEF at, Pcs
<1>3. CASE VerifyTargeted(e)
  BY <1>3, AnswersAllowed, AnswerFits DEF VerifyTargeted, answerDefault, copy
<1>4. CASE VerifyFull(e)
  <2>1. PICK o \in fullRoutes : answer(e, o, copy(e).result, copy(e).cycle)
    BY <1>4 DEF VerifyFull
  <2>2. copy(e).state = "verifying_full" /\ copy(e).result \in verified'
    BY <1>4 DEF VerifyFull, passesFull, scanned, copy
  <2>3. o \in Outcomes(copy(e).state, copy(e).cycle)
    BY <2>2, AnswersAllowed
  <2> QED
    BY <2>1, <2>2, <2>3, AnswerFits
<1>5. CASE VerifyDocumentation(e)
  <2>1. /\ copy(e).state = "documentation_review" /\ engine[e].commit \in verified'
        /\ answer(e, Default, engine[e].commit, copy(e).cycle)
    BY <1>5 DEF VerifyDocumentation, passesFull, scanned, stepFits
  <2>2. /\ sameRow(e) /\ engine'[e].pc = "answered" /\ engine'[e].outcome = Default
        /\ engine'[e].commit = engine[e].commit /\ engine'[e].cycle = copy(e).cycle
    BY <1>1, <1>2, <2>1, AnswerEffect, AnswersTyped
  <2> QED
    BY <2>1, <2>2, AnswersAllowed DEF stepFits, answers, sameRow, copy
<1>6. CASE VerifyFinal(e)
  <2>1. /\ copy(e).state = "final_verification" /\ copy(e).result \in verified'
        /\ gotoWith(e, "listing", copy(e).result, copy(e).cycle)
    BY <1>6 DEF VerifyFinal, passesFull, scanned, copy
  <2>2. /\ sameRow(e) /\ engine'[e].pc = "listing"
        /\ engine'[e].commit = copy(e).result /\ engine'[e].cycle = copy(e).cycle
    BY <1>1, <1>2, <2>1, GotoWithEffect
  <2> QED
    BY <2>1, <2>2 DEF stepFits, marks, sameRow, copy
<1>7. CASE Review(e)
  <2>1. copy(e).state = "qc_review" /\ copy(e).result # NoCommit
    BY <1>7 DEF Review, copy
  <2>2. CASE gotoWith(e, "listing", copy(e).result, copy(e).cycle)
    <3>1. /\ sameRow(e) /\ engine'[e].pc = "listing"
          /\ engine'[e].commit = copy(e).result /\ engine'[e].cycle = copy(e).cycle
      BY <1>1, <1>2, <2>2, GotoWithEffect
    <3> QED
      BY <2>1, <3>1 DEF stepFits, marks, sameRow, copy
  <2>3. CASE answer(e, IF copy(e).cycle + 1 < MaxReviewCycles THEN Repair ELSE Default,
                    copy(e).result, copy(e).cycle)
    <3> DEFINE o == IF copy(e).cycle + 1 < MaxReviewCycles THEN Repair ELSE Default
    <3>1. o \in Outcomes(copy(e).state, copy(e).cycle)
      BY <2>1, AnswersAllowed
    <3>2. answer(e, o, copy(e).result, copy(e).cycle)
      BY <2>3
    <3> HIDE DEF o
    <3> QED
      BY <2>1, <3>1, <3>2, AnswerFits
  <2> QED
    BY <1>7, <2>2, <2>3 DEF Review
<1>8. CASE List(e)
  <2>1. /\ sameRow(e) /\ engine'[e].pc = "marking" /\ engine[e].pc = "listing"
        /\ engine'[e].commit = engine[e].commit /\ engine'[e].cycle = engine[e].cycle
    BY <1>1, <1>2, <1>8, ListEffect DEF List
  <2> QED
    BY <2>1 DEF stepFits, marks, sameRow, copy
<1>9. CASE Mark(e)
  <2>1. /\ sameRow(e) /\ engine'[e].pc = "marking" /\ engine[e].pc = "marking"
        /\ engine'[e].commit = engine[e].commit /\ engine'[e].cycle = engine[e].cycle
    BY <1>1, <1>9, MarkEffect DEF Mark, next
  <2> QED
    BY <2>1 DEF stepFits, marks, sameRow, copy
<1>10. CASE MarkConflict(e)
  BY <1>10, GotoFits DEF MarkConflict
<1>11. CASE Marked(e)
  <2>1. PICK o \in Outcome :
          /\ answer(e, o, engine[e].commit, engine[e].cycle)
          /\ o = IF copy(e).state = "final_verification"
                 THEN To("loading_documentation_model") ELSE Default
    BY <1>11, AnswersTyped DEF Marked
  <2>2. /\ sameRow(e) /\ engine'[e].pc = "answered" /\ engine'[e].outcome = o
        /\ engine'[e].commit = engine[e].commit /\ engine'[e].cycle = engine[e].cycle
    BY <1>1, <1>2, <2>1, AnswerEffect
  <2>3. marks(e)
    BY <1>11 DEF Marked, stepFits
  <2>4. o \in Outcomes(copy(e).state, copy(e).cycle)
    BY <2>1, <2>3, AnswersAllowed DEF marks
  <2>5. answers(e)'
    BY <2>1, <2>2, <2>3, <2>4 DEF marks, answers, sameRow, copy
  <2> QED
    BY <2>2, <2>5 DEF stepFits
<1> QED
  BY <1>3, <1>4, <1>5, <1>6, <1>7, <1>8, <1>9, <1>10, <1>11 DEF Judge

(* and every other phase step does.                                        *)
LEMMA PhaseFits ==
  ASSUME TypeInv, NEW e \in Engines, phaseStep(e), stepFits(e), verified \subseteq verified'
  PROVE  stepFits(e)'
<1> USE DEF at, Pcs
<1>1. CASE RunPlain(e)
  <2>1. PICK o \in Outcomes(copy(e).state, copy(e).cycle) :
          answer(e, o, copy(e).result, copy(e).cycle)
    BY <1>1 DEF RunPlain
  <2>2. copy(e).state \notin {"verifying_full", "final_verification", "qc_review"}
    BY <1>1 DEF RunPlain, PlainPhases, WritingPhases, copy
  <2> QED
    BY <2>1, <2>2, AnswerFits
<1>2. CASE PhaseFails(e)
  BY <1>2, GotoFits DEF PhaseFails
<1>3. CASE Synchronize(e)
  <2>1. /\ engine \in [Engines -> EngineState] /\ upstream \in Nat /\ copy(e).cycle \in Nat
        /\ copy(e).state = "syncing" /\ answer(e, Default, upstream, copy(e).cycle)
    BY <1>3, CopyTyped DEF Synchronize, TypeInv, TypeOK, Commits, copy
  <2>2. /\ sameRow(e) /\ engine'[e].pc = "answered" /\ engine'[e].outcome = Default
        /\ engine'[e].cycle = copy(e).cycle
    BY <2>1, AnswersTyped, AnswerEffect
  <2> QED
    BY <2>1, <2>2, AnswersAllowed DEF stepFits, answers, sameRow, copy
<1>4. CASE ClaimWorktree(e)
  BY <1>4, GotoFits DEF ClaimWorktree, copy
<1>5. CASE CheckOut(e)
  BY <1>5, AnswersAllowed, AnswerFits DEF CheckOut, answerDefault, copy
<1>6. CASE CheckRemote(e)
  <2>1. copy(e).state = "publishing_branch"
    BY <1>6 DEF CheckRemote, copy
  <2> QED
    BY <1>6, <2>1, AnswersAllowed, AnswerFits, GotoFits DEF CheckRemote, answerDefault
<1>7. CASE Push(e)
  <2>1. copy(e).state = "publishing_branch"
    BY <1>7 DEF Push, stepFits
  <2> QED
    BY <1>7, <2>1, AnswersAllowed, AnswerFits DEF Push, answerDefault
<1>8. CASE Interrupt(e)
  BY <1>8, GotoFits DEF Interrupt
<1> QED
  BY <1>1, <1>2, <1>3, <1>4, <1>5, <1>6, <1>7, <1>8, AgentFits, JudgeFits DEF phaseStep

(* A step works on a state that is no gate and not terminal, and on the    *)
(* present row or an earlier one.                                          *)
copyFits(e) ==
  engine[e].pc # "idle" =>
    /\ Resumable(copy(e).state)
    /\ copy(e).version <= job.version
    /\ copy(e).version = job.version => copy(e) = job

StepInv == \A e \in Engines : stepFits(e) /\ copyFits(e)

(* The row an engine works on is the present one as long as its version is.*)
LEMMA StepInvariant == Spec => []StepInv
<1>1. Init => StepInv
  <2>1. Idle.pc = "idle"
    BY DEF Idle
  <2> QED
    BY <2>1 DEF Init, StepInv, stepFits, copyFits
<1>2. TypeInv /\ StepInv /\ [Next]_vars => StepInv'
  <2> SUFFICES ASSUME TypeInv, StepInv, [Next]_vars PROVE StepInv'
    OBVIOUS
  <2>1. /\ verified \subseteq verified'
        /\ job \in Row /\ job.version \in Nat /\ engine \in [Engines -> EngineState]
        /\ \A e \in Engines : copy(e) \in Row /\ copy(e).version \in Nat
    BY VerifiedGrows, CopyTyped DEF TypeInv, TypeOK, Row
  <2>2. ASSUME NEW e \in Engines, engine'[e] = engine[e], job' = job \/ job'.version > job.version,
               job'.version \in Nat
        PROVE  stepFits(e)' /\ copyFits(e)'
    BY <2>1, <2>2 DEF StepInv, stepFits, marks, answers, copyFits, copy
  <2>3. ASSUME NEW e \in Engines, engine'[e] = Idle
        PROVE  stepFits(e)' /\ copyFits(e)'
    <3>1. engine'[e].pc = "idle"
      BY <2>3 DEF Idle
    <3> QED
      BY <3>1 DEF stepFits, copyFits
  <2>4. ASSUME NEW e \in Engines, others(e), job' = job \/ job'.version > job.version,
               job'.version \in Nat, stepFits(e)' /\ copyFits(e)'
        PROVE  StepInv'
    BY <2>2, <2>4 DEF others, StepInv
  <2>5. ASSUME NEW e \in Engines, Begin(e)
        PROVE  StepInv'
    <3>1. /\ others(e) /\ engine'[e].pc = "begun" /\ engine'[e].row = job
          /\ job' = job /\ Resumable(job.state)
      BY <2>1, <2>5, BeginEffect DEF Begin, rowUnchanged
    <3>2. stepFits(e)' /\ copyFits(e)'
      BY <2>1, <3>1 DEF stepFits, copyFits, copy
    <3> QED
      BY <2>1, <2>4, <3>1, <3>2
  <2>6. ASSUME NEW e \in Engines, phaseStep(e)
        PROVE  StepInv'
    <3>1. stepFits(e)'
      BY <2>1, <2>6, PhaseFits DEF StepInv
    <3>2. busy(e)
      BY <2>6, PhaseBusy
    <3>3. copyFits(e)'
      BY <3>2 DEF StepInv, copyFits, busy, sameRow, rowUnchanged, copy
    <3> QED
      BY <2>1, <2>4, <3>1, <3>2, <3>3 DEF busy, rowUnchanged
  <2>7. ASSUME NEW e \in Engines, CompletePhase(e)
        PROVE  StepInv'
    BY <2>1, <2>3, <2>4, <2>7, CompleteEffect
  <2>8. ASSUME NEW e \in Engines, RecordFailure(e)
        PROVE  StepInv'
    BY <2>1, <2>3, <2>4, <2>8, FailureEffect
  <2>9. ASSUME NEW e \in Engines, dropped(e)
        PROVE  StepInv'
    BY <2>1, <2>3, <2>4, <2>9, DroppedEffect DEF rowUnchanged
  <2>10. CASE personStep
    <3>1. engine' = engine /\ job'.version > job.version /\ job'.version \in Nat
      BY <2>1, <2>10, PersonEffect
    <3> QED
      BY <2>2, <3>1 DEF StepInv
  <2>11. CASE (\E f \in Findings : ActOnFinding(f)) \/ UpstreamMoves \/ UNCHANGED vars
    <3>1. engine' = engine /\ job' = job
      BY <2>11 DEF ActOnFinding, UpstreamMoves, vars, rowUnchanged
    <3> QED
      BY <2>1, <2>2, <3>1 DEF StepInv
  <2> QED
    BY <2>5, <2>6, <2>7, <2>8, <2>9, <2>10, <2>11, Kinds
<1> QED
  BY <1>1, <1>2, TypeInvariant, PTL DEF Spec

(* A repeated phase or one that changed nothing is not counted as a review *)
(* cycle: a cycle comes with another candidate.                            *)
THEOREM CyclesForAll == Spec => CyclesHaveCandidates
<1>1. TypeInv /\ StepInv /\ [Next]_vars =>
        [job'.cycle # job.cycle =>
           job'.cycle = job.cycle + 1 /\ job'.result # job.result]_vars
  <2> SUFFICES ASSUME TypeInv, StepInv, [Next]_vars, job'.cycle # job.cycle
               PROVE  job'.cycle = job.cycle + 1 /\ job'.result # job.result
    OBVIOUS
  <2>1. ASSUME NEW e \in Engines, CompletePhase(e)
        PROVE  job'.cycle = job.cycle + 1 /\ job'.result # job.result
    <3>1. copy(e) = job /\ answers(e)
      BY <2>1, CompleteEffect DEF StepInv, stepFits, copyFits
    <3>2. copy(e).state = "repairing" /\ engine[e].cycle = job.cycle + 1
            /\ engine[e].commit # job.result
      BY <2>1, <3>1, CompleteEffect DEF answers
    <3> QED
      BY <2>1, <3>2, CompleteEffect
  <2>2. ASSUME NEW e \in Engines, Begin(e) \/ phaseStep(e) \/ RecordFailure(e) \/ dropped(e)
        PROVE  job'.cycle = job.cycle
    BY <2>2, PhaseBusy, FailureEffect, DroppedEffect DEF Begin, busy, rowUnchanged
  <2>3. ASSUME personStep
        PROVE  job'.cycle = job.cycle
    BY <2>3, PersonEffect
  <2>4. ASSUME (\E f \in Findings : ActOnFinding(f)) \/ UpstreamMoves \/ UNCHANGED vars
        PROVE  job'.cycle = job.cycle
    BY <2>4 DEF ActOnFinding, UpstreamMoves, vars, rowUnchanged
  <2> QED
    BY <2>1, <2>2, <2>3, <2>4, Kinds
<1> QED
  BY <1>1, TypeInvariant, StepInvariant, PTL DEF Spec, CyclesHaveCandidates

-----------------------------------------------------------------------------
(* Where the answers lead *)

(* States before the contract is approved, which lead to no other without  *)
(* a person; with the contract approved no job leaves them.                *)
EarlyStates ==
  {"queued", "syncing", "creating_worktree", "preparing_dependencies",
   "locking_acceptance_criteria", "awaiting_task_approval", "failed", "cancelled"}

(* States in which the candidate need not have passed the full suite.      *)
UntestedStates ==
  EarlyStates \union {"verifying_targeted", "verifying_full", "final_verification"}

(* States whose candidate a person is asked about, or that publish it.     *)
AskedStates == {"awaiting_operator", "publishing_branch", "draft_pr_created"}

(* The phases that may name a state, and the states they name or go back to. *)
RoutingStates ==
  {"implementing", "verifying_full", "test_design_review", "golden_rehearsal_review",
   "documentation_review", "policy_review", "qc_review", "repairing", "final_verification"}

NamedStates ==
  {"awaiting_remote_egress_approval", "loading_test_designer_model",
   "golden_rehearsal_review", "loading_documentation_model",
   "awaiting_test_design_disposition", "awaiting_golden_approval", "loading_qc_model",
   "awaiting_repair"}

(* What a phase answers takes its default route or to a state it may name. *)
LEMMA RouteCases ==
  ASSUME NEW s, NEW n, NEW o \in Outcomes(s, n)
  PROVE  \/ /\ o = Default
            /\ s \in DOMAIN defaultNext /\ nextState(s, o) = defaultNext[s]
            /\ s \notin {"verifying_full", "golden_rehearsal_review", "policy_review",
                         "final_verification"}
         \/ /\ o # Default
            /\ s \in RoutingStates
            /\ nextState(s, o) \in NamedStates \union {NoRoute}
<1>1. ASSUME NEW x \in NamedStates, o = To(x)
      PROVE  nextState(s, o) \in NamedStates \union {NoRoute} /\ o # Default
  <2>1. o.needsRepair = FALSE /\ o.nextState = x /\ Default.nextState = NoRoute
    BY <1>1 DEF To, Default
  <2>2. x # NoRoute
    BY DEF NamedStates, NoRoute
  <2>3. nextState(s, o) = legalOrNone(s, x)
    BY <2>1, <2>2 DEF nextState
  <2> QED
    BY <2>1, <2>2, <2>3 DEF legalOrNone
<1>2. ASSUME o = Repair
      PROVE  nextState(s, o) \in NamedStates \union {NoRoute} /\ o # Default
  <2>1. o.needsRepair /\ Default.needsRepair = FALSE
    BY <1>2 DEF Repair, Default
  <2>2. nextState(s, o) = legalOrNone(s, "awaiting_repair")
    BY <2>1 DEF nextState
  <2> QED
    BY <2>1, <2>2 DEF legalOrNone, NamedStates
<1>3. ASSUME o = Default, s \in DOMAIN defaultNext
      PROVE  nextState(s, o) = defaultNext[s]
  BY <1>3 DEF nextState, Default
<1>4. o = Default \/ o = Repair \/ \E x \in NamedStates : o = To(x)
  <2> DEFINE X == {Default, Repair} \union {To(x) : x \in NamedStates}
  <2>1. /\ Default \in X /\ Repair \in X
        /\ \A x \in NamedStates : To(x) \in X
    OBVIOUS
  <2>2. egressOutcomes \subseteq X /\ fullRoutes \subseteq X
    BY <2>1 DEF egressOutcomes, fullRoutes, NamedStates
  <2>3. qcOutcomes(n) \subseteq X
    BY <2>1, <2>2 DEF qcOutcomes
  <2>4. /\ To("awaiting_test_design_disposition") \in X /\ To("golden_rehearsal_review") \in X
        /\ To("awaiting_golden_approval") \in X /\ To("loading_qc_model") \in X
        /\ To("loading_documentation_model") \in X
    BY <2>1 DEF NamedStates
  <2> HIDE DEF X
  <2>5. Outcomes(s, n) \subseteq X
    BY <2>1, <2>2, <2>3, <2>4 DEF Outcomes
  <2> USE DEF X
  <2> QED
    BY <2>5
<1>5. o = Default => s \in DOMAIN defaultNext
  <2>1. To("loading_qc_model") # Default /\ To("awaiting_golden_approval") # Default
    BY DEF To, Default, NoRoute
  <2> QED
    BY <2>1 DEF Outcomes, defaultNext
<1>6. o = Default => s \notin {"verifying_full", "golden_rehearsal_review", "policy_review",
                               "final_verification"}
  <2>1. \A x \in NamedStates : To(x) # Default
    BY DEF To, Default, NoRoute, NamedStates
  <2> QED
    BY <2>1 DEF Outcomes, fullRoutes, NamedStates
<1>7. o # Default => s \in RoutingStates
  BY DEF Outcomes, RoutingStates
<1> QED
  BY <1>1, <1>2, <1>3, <1>4, <1>5, <1>6, <1>7

(* Before the contract the phases lead on to its approval.                 *)
LEMMA EarlyRoutes ==
  ASSUME NEW s \in EarlyStates, NEW n, NEW o \in Outcomes(s, n)
  PROVE  o = Default /\ nextState(s, o) \in EarlyStates
<1>1. s \notin RoutingStates
  BY DEF EarlyStates, RoutingStates
<1> QED
  BY <1>1, RouteCases DEF EarlyStates, defaultNext

(* A candidate that need not be verified goes on to be; and only QC, with  *)
(* its default answer, leads to a person.                                  *)
LEMMA TestedRoutes ==
  ASSUME NEW s, NEW n, NEW o \in Outcomes(s, n), nextState(s, o) # NoRoute
  PROVE  /\ s \in UntestedStates =>
              nextState(s, o) \in UntestedStates
                \/ s \in {"verifying_full", "final_verification"}
         /\ s \in {"implementing", "repairing"} /\ o = Default =>
              nextState(s, o) \in UntestedStates
         /\ nextState(s, o) \in AskedStates =>
              \/ s = "qc_review" /\ o = Default /\ nextState(s, o) = "awaiting_operator"
              \/ s = "publishing_branch" /\ nextState(s, o) = "draft_pr_created"
<1>1. NamedStates \cap AskedStates = {}
  BY DEF NamedStates, AskedStates
<1>2. CASE o # Default
  <2>1. s \in RoutingStates /\ nextState(s, o) \in NamedStates
    BY <1>2, RouteCases
  <2>2. s \in UntestedStates => s \in {"verifying_full", "final_verification"}
    BY <2>1 DEF RoutingStates, UntestedStates, EarlyStates
  <2> QED
    BY <1>1, <1>2, <2>1, <2>2
<1>3. CASE o = Default
  <2>1. s \in DOMAIN defaultNext /\ nextState(s, o) = defaultNext[s]
    BY <1>3, RouteCases
  <2>2. s \in UntestedStates => defaultNext[s] \in UntestedStates
          \/ s \in {"verifying_full", "final_verification"}
    BY <2>1 DEF UntestedStates, EarlyStates, defaultNext
  <2>3. s \in {"implementing", "repairing"} => defaultNext[s] \in UntestedStates
    BY DEF UntestedStates, defaultNext
  <2>4. defaultNext[s] \in AskedStates =>
          \/ s = "qc_review" /\ defaultNext[s] = "awaiting_operator"
          \/ s = "publishing_branch" /\ defaultNext[s] = "draft_pr_created"
    BY <2>1 DEF AskedStates, defaultNext
  <2> QED
    BY <1>3, <2>1, <2>2, <2>3, <2>4
<1> QED
  BY <1>2, <1>3

-----------------------------------------------------------------------------
(* What is verified *)

(* Before the contract is approved there is no candidate, neither in the   *)
(* row nor in a step that is under way.                                    *)
ContractInv ==
  ~contract =>
    /\ job.state \in EarlyStates /\ job.result = NoCommit
    /\ \A e \in Engines : copy(e).state \in EarlyStates /\ copy(e).result = NoCommit

(* The state and the candidate of a row go together.                       *)
resultFits(r, passed) ==
  /\ r.state \in UntestedStates \/ r.result \in passed \union {NoCommit}
  /\ r.state \in AskedStates => r.result \in passed

ResultInv ==
  /\ resultFits(job, verified)
  /\ \A e \in Engines : engine[e].pc # "idle" => resultFits(copy(e), verified)

(* What a person's step asks of the row.                                   *)
LEMMA PersonRoutes ==
  ASSUME personStep
  PROVE  \/ job'.state \in {"cancelled", "queued"} /\ UNCHANGED <<contract, approvals>>
         \/ /\ ~contract /\ contract' /\ UNCHANGED approvals
            /\ job.state = "awaiting_task_approval"
            /\ job'.state = "loading_implementation_model"
         \/ /\ job.state \in {"awaiting_test_design_disposition", "awaiting_golden_approval",
                              "awaiting_remote_egress_approval"}
            /\ job'.state \notin AskedStates \union {"cancelled"}
            /\ UNCHANGED <<contract, approvals>>
         \/ /\ job.state = "awaiting_operator" /\ job'.state = "publishing_branch"
            /\ approvals' = approvals \union {job.result} /\ UNCHANGED contract
            /\ ~\E f \in Findings : unresolved(findings, f)
<1>1. CASE CancelJob \/ RetryJob
  BY <1>1 DEF CancelJob, RetryJob, personMoves, moveTo
<1>2. CASE ApproveTaskContract
  BY <1>2 DEF ApproveTaskContract, personMoves, moveTo
<1>3. CASE DisposeTestProposals \/ ApproveGoldens
  BY <1>3 DEF DisposeTestProposals, ApproveGoldens, personMoves, moveTo, AskedStates
<1>4. CASE ApproveRemoteEgress
  <2>1. PICK to \in State \ {"failed", "cancelled"} :
          personMoves({"awaiting_remote_egress_approval"}, to)
    BY <1>4 DEF ApproveRemoteEgress
  <2>2. to \in transitions["awaiting_remote_egress_approval"] /\ job'.state = to
    BY <2>1 DEF personMoves, moveTo, CanTransition
  <2>3. to \notin AskedStates
    BY <2>1, <2>2 DEF AskedStates, transitions, orStopped, loadingAfterReview
  <2> QED
    BY <1>4, <2>1, <2>2, <2>3 DEF ApproveRemoteEgress, personMoves
<1>5. CASE ApprovePublication
  BY <1>5 DEF ApprovePublication, publicationApproved, personMoves, moveTo
<1> QED
  BY <1>1, <1>2, <1>3, <1>4, <1>5 DEF personStep

(* No engine makes a candidate before the contract is approved.            *)
LEMMA ContractInvariant == Spec => []ContractInv
<1>1. Init => ContractInv
  BY DEF Init, ContractInv, EarlyStates, Idle, NoRow, copy
<1>2. TypeInv /\ StepInv /\ ContractInv /\ [Next]_vars => ContractInv'
  <2> SUFFICES ASSUME TypeInv, StepInv, ContractInv, [Next]_vars, ~contract'
               PROVE  /\ job'.state \in EarlyStates /\ job'.result = NoCommit
                      /\ \A e \in Engines : /\ engine'[e].row.state \in EarlyStates
                                            /\ engine'[e].row.result = NoCommit
    BY DEF ContractInv, copy
  <2>1. Idle.row.state \in EarlyStates /\ Idle.row.result = NoCommit
    BY DEF Idle, NoRow, EarlyStates
  <2>2. ASSUME ~contract
        PROVE  /\ job.state \in EarlyStates /\ job.result = NoCommit
               /\ \A e \in Engines : /\ engine[e].row.state \in EarlyStates
                                     /\ engine[e].row.result = NoCommit
    BY <2>2 DEF ContractInv, copy
  <2> USE DEF rowUnchanged
  <2>3. ASSUME NEW e \in Engines, Begin(e)
        PROVE  /\ job'.state \in EarlyStates /\ job'.result = NoCommit
               /\ \A f \in Engines : /\ engine'[f].row.state \in EarlyStates
                                     /\ engine'[f].row.result = NoCommit
    BY <2>2, <2>3, BeginEffect DEF Begin, others, TypeInv, TypeOK
  <2>4. ASSUME NEW e \in Engines, phaseStep(e)
        PROVE  /\ job'.state \in EarlyStates /\ job'.result = NoCommit
               /\ \A f \in Engines : /\ engine'[f].row.state \in EarlyStates
                                     /\ engine'[f].row.result = NoCommit
    BY <2>2, <2>4, PhaseBusy DEF busy, others, sameRow
  <2>5. ASSUME NEW e \in Engines, CompletePhase(e)
        PROVE  /\ job'.state \in EarlyStates /\ job'.result = NoCommit
               /\ \A f \in Engines : /\ engine'[f].row.state \in EarlyStates
                                     /\ engine'[f].row.result = NoCommit
    <3>1. /\ ~contract /\ answers(e) /\ copy(e) = job
          /\ engine'[e] = Idle /\ others(e) /\ job'.state = route(e)
      BY <2>5, CompleteEffect DEF StepInv, stepFits, copyFits
    <3>2. route(e) \in EarlyStates
      BY <2>2, <3>1, EarlyRoutes DEF answers, route, copy
    <3>3. copy(e).state # "syncing" => engine[e].commit = NoCommit
      BY <2>2, <3>1 DEF answers, EarlyStates, copy
    <3>4. job'.result = NoCommit
      BY <2>2, <2>5, <3>1, <3>3, CompleteEffect
    <3> QED
      BY <2>1, <2>2, <3>1, <3>2, <3>4 DEF others
  <2>6. ASSUME NEW e \in Engines, RecordFailure(e) \/ dropped(e)
        PROVE  /\ job'.state \in EarlyStates /\ job'.result = NoCommit
               /\ \A f \in Engines : /\ engine'[f].row.state \in EarlyStates
                                     /\ engine'[f].row.result = NoCommit
    <3>1. others(e) /\ engine'[e] = Idle /\ ~contract /\ job'.result = job.result
            /\ job'.state \in {job.state, "failed"}
      BY <2>6, FailureEffect, DroppedEffect DEF rowMoves
    <3> QED
      BY <2>1, <2>2, <3>1 DEF others, EarlyStates
  <2>7. ASSUME personStep
        PROVE  /\ job'.state \in EarlyStates /\ job'.result = NoCommit
               /\ \A f \in Engines : /\ engine'[f].row.state \in EarlyStates
                                     /\ engine'[f].row.result = NoCommit
    <3>1. engine' = engine /\ job'.result = job.result
      BY <2>7, PersonEffect
    <3>2. ~contract /\ job'.state \in {"cancelled", "queued"}
      BY <2>2, <2>7, PersonRoutes DEF EarlyStates
    <3> QED
      BY <2>2, <3>1, <3>2 DEF EarlyStates
  <2>8. ASSUME (\E f \in Findings : ActOnFinding(f)) \/ UpstreamMoves \/ UNCHANGED vars
        PROVE  /\ job'.state \in EarlyStates /\ job'.result = NoCommit
               /\ \A f \in Engines : /\ engine'[f].row.state \in EarlyStates
                                     /\ engine'[f].row.result = NoCommit
    BY <2>2, <2>8 DEF ActOnFinding, UpstreamMoves, vars
  <2> QED
    BY <2>3, <2>4, <2>5, <2>6, <2>7, <2>8, Kinds
<1> QED
  BY <1>1, <1>2, TypeInvariant, StepInvariant, PTL DEF Spec

(* A candidate past its verification passed the full suite.                *)
LEMMA ResultInvariant == Spec => []ResultInv
<1>1. Init => ResultInv
  BY DEF Init, ResultInv, resultFits, Idle, UntestedStates, EarlyStates, AskedStates
<1>2. TypeInv /\ StepInv /\ ContractInv /\ ResultInv /\ [Next]_vars => ResultInv'
  <2> SUFFICES ASSUME TypeInv, StepInv, ContractInv, ResultInv, [Next]_vars
               PROVE  ResultInv'
    OBVIOUS
  <2>1. \A r : resultFits(r, verified) => resultFits(r, verified')
    BY VerifiedGrows DEF resultFits
  <2>2. /\ resultFits(job, verified')
        /\ \A f \in Engines : engine[f].pc # "idle" => resultFits(engine[f].row, verified')
    BY <2>1 DEF ResultInv, copy
  <2>3. ASSUME resultFits(job', verified'), NEW e \in Engines, others(e),
               engine'[e].pc # "idle" => resultFits(engine'[e].row, verified')
        PROVE  ResultInv'
    BY <2>2, <2>3 DEF ResultInv, others, copy
  <2>4. Idle.pc = "idle"
    BY DEF Idle
  <2>5. ASSUME NEW e \in Engines, Begin(e) \/ dropped(e)
        PROVE  ResultInv'
    BY <2>2, <2>3, <2>4, <2>5, BeginEffect, DroppedEffect
       DEF Begin, rowUnchanged, TypeInv, TypeOK
  <2>6. ASSUME NEW e \in Engines, phaseStep(e)
        PROVE  ResultInv'
    BY <2>2, <2>3, <2>6, PhaseBusy DEF busy, sameRow, rowUnchanged
  <2>7. ASSUME NEW e \in Engines, CompletePhase(e)
        PROVE  ResultInv'
    <3>1. /\ answers(e) /\ copy(e) = job
          /\ engine'[e] = Idle /\ others(e) /\ job'.state = route(e) /\ verified' = verified
      BY <2>7, CompleteEffect DEF StepInv, stepFits, copyFits, historyUnchanged
    <3> DEFINE s == copy(e).state
    <3>2. /\ engine[e].outcome \in Outcomes(s, copy(e).cycle)
          /\ route(e) = nextState(s, engine[e].outcome) /\ route(e) # NoRoute
      BY <2>7, <3>1 DEF answers, route, CompletePhase, canComplete
    <3>3. /\ s \in UntestedStates =>
               route(e) \in UntestedStates \/ s \in {"verifying_full", "final_verification"}
          /\ s \in {"implementing", "repairing"} /\ engine[e].outcome = Default =>
               route(e) \in UntestedStates
          /\ route(e) \in AskedStates =>
               \/ s = "qc_review" /\ engine[e].outcome = Default /\ route(e) = "awaiting_operator"
               \/ s = "publishing_branch" /\ route(e) = "draft_pr_created"
      BY <3>2, TestedRoutes
    <3>4. /\ s \in UntestedStates \/ copy(e).result \in verified \union {NoCommit}
          /\ s \in AskedStates => copy(e).result \in verified
      BY <3>1 DEF ResultInv, resultFits
    <3>5. "syncing" \in UntestedStates /\ "qc_review" \notin UntestedStates
            /\ "publishing_branch" \in AskedStates
      BY DEF UntestedStates, EarlyStates, AskedStates
    <3>6. s # "syncing" => job'.result = engine[e].commit
      BY <2>7, CompleteEffect
    <3>7. route(e) \in UntestedStates \/ job'.result \in verified \union {NoCommit}
      BY <3>1, <3>3, <3>4, <3>5, <3>6 DEF answers
    <3>8. route(e) \in AskedStates => job'.result \in verified
      BY <3>1, <3>3, <3>4, <3>5, <3>6 DEF answers
    <3> QED
      BY <2>3, <2>4, <3>1, <3>7, <3>8 DEF resultFits
  <2>8. ASSUME NEW e \in Engines, RecordFailure(e)
        PROVE  ResultInv'
    <3>1. resultFits(job', verified')
      BY <2>8, FailureEffect DEF resultFits, UntestedStates, EarlyStates, AskedStates
    <3> QED
      BY <2>3, <2>4, <2>8, <3>1, FailureEffect
  <2>9. CASE personStep
    <3>1. engine' = engine /\ job'.result = job.result
      BY <2>9, PersonEffect
    <3>2. resultFits(job', verified')
      BY <2>2, <2>9, <3>1, PersonRoutes
         DEF resultFits, ContractInv, UntestedStates, EarlyStates, AskedStates
    <3> QED
      BY <2>2, <3>1, <3>2 DEF ResultInv, copy
  <2>10. CASE (\E f \in Findings : ActOnFinding(f)) \/ UpstreamMoves \/ UNCHANGED vars
    <3>1. engine' = engine /\ job' = job
      BY <2>10 DEF ActOnFinding, UpstreamMoves, vars, rowUnchanged
    <3> QED
      BY <2>2, <3>1 DEF ResultInv, copy
  <2> QED
    BY <2>5, <2>6, <2>7, <2>8, <2>9, <2>10, Kinds
<1> QED
  BY <1>1, <1>2, TypeInvariant, StepInvariant, ContractInvariant, PTL DEF Spec

(* However many engines work on the job, a person is asked to approve, and *)
(* a phase publishes, only a candidate that passed the full suite.         *)
THEOREM VerifiedForAll == Spec => []CandidateWasVerified
<1>1. ResultInv => CandidateWasVerified
  BY DEF ResultInv, resultFits, CandidateWasVerified, AskedStates
<1> QED
  BY <1>1, ResultInvariant, PTL

-----------------------------------------------------------------------------
(* One engine at a time *)

(* At most one engine runs a step of the job: this is ExecutesAlone of     *)
(* LeaseQueue, as long as no process stalls past its lease.                *)
ExclusiveLease == \A e, f \in Engines : e = f

(* The engine works on the present row, unless a person cancelled the job  *)
(* and perhaps queued it again; once it publishes nobody can.              *)
AloneInv ==
  \A e \in Engines : engine[e].pc # "idle" =>
    /\ copy(e) = job \/ job.state \in {"cancelled", "queued"}
    /\ copy(e).state \in {"publishing_branch", "draft_pr_created"} => copy(e) = job

(* What a cancelled or queued row was before.                              *)
LEMMA NobodyStopsPublishing ==
  \A s \in {"publishing_branch", "draft_pr_created"} :
    \A to \in {"cancelled", "queued"} : ~CanTransition(s, to)
  BY DEF CanTransition, State, transitions

(* AloneInv holds as long as there is one engine.                          *)
LEMMA AloneInvariant ==
  ASSUME ExclusiveLease
  PROVE  Spec => []AloneInv
<1>1. Init => AloneInv
  BY DEF Init, AloneInv, Idle
<1>2. TypeInv /\ StepInv /\ AloneInv /\ [Next]_vars => AloneInv'
  <2> SUFFICES ASSUME TypeInv, StepInv, AloneInv, [Next]_vars PROVE AloneInv'
    OBVIOUS
  <2>1. ASSUME NEW e \in Engines, Begin(e)
        PROVE  AloneInv'
    BY <2>1, ExclusiveLease, BeginEffect
       DEF Begin, rowUnchanged, AloneInv, ExclusiveLease, copy, TypeInv, TypeOK
  <2>2. ASSUME NEW e \in Engines, phaseStep(e)
        PROVE  AloneInv'
    BY <2>2, ExclusiveLease, PhaseBusy
       DEF busy, sameRow, rowUnchanged, AloneInv, ExclusiveLease, copy
  <2>3. ASSUME NEW e \in Engines, CompletePhase(e) \/ RecordFailure(e) \/ dropped(e)
        PROVE  AloneInv'
    <3>1. engine'[e].pc = "idle"
      BY <2>3, CompleteEffect, FailureEffect, DroppedEffect DEF Idle
    <3> QED
      BY <3>1, ExclusiveLease DEF AloneInv, ExclusiveLease
  <2>4. CASE personStep
    <3> SUFFICES ASSUME NEW e \in Engines, engine[e].pc # "idle"
                 PROVE  /\ job'.state \in {"cancelled", "queued"}
                        /\ copy(e).state \notin {"publishing_branch", "draft_pr_created"}
      BY <2>4, PersonEffect DEF AloneInv, copy
    <3>1. /\ CanTransition(job.state, job'.state) /\ Resumable(copy(e).state)
          /\ copy(e) = job \/ job.state \in {"cancelled", "queued"}
          /\ copy(e).state \in {"publishing_branch", "draft_pr_created"} => copy(e) = job
      BY <2>4, PersonEffect DEF StepInv, copyFits, AloneInv
    <3>2. job.state \notin Gates
      BY <3>1 DEF Resumable, Gates
    <3>3. job'.state \in {"cancelled", "queued"}
      BY <2>4, <3>2, PersonRoutes DEF Gates
    <3> QED
      BY <3>1, <3>3, NobodyStopsPublishing
  <2>5. CASE (\E f \in Findings : ActOnFinding(f)) \/ UpstreamMoves \/ UNCHANGED vars
    BY <2>5 DEF ActOnFinding, UpstreamMoves, vars, rowUnchanged, AloneInv, copy
  <2> QED
    BY <2>1, <2>2, <2>3, <2>4, <2>5, Kinds
<1> QED
  BY <1>1, <1>2, TypeInvariant, StepInvariant, PTL DEF Spec

(* QC is done with the worktree, or has answered that the candidate passes. *)
reviewDone(x) == x.pc \in {"listing", "marking"} \/ (x.pc = "answered" /\ x.outcome = Default)

FindingPhases == {"documentation_review", "qc_review", "repairing", "final_verification"}

(* What may push, review, or move findings.                                *)
LEMMA PhasePlaces ==
  ASSUME TypeInv, NEW e \in Engines, phaseStep(e), stepFits(e)
  PROVE  /\ engine'[e].pc = "pushing" => CheckRemote(e)
         /\ copy(e).state = "qc_review" /\ reviewDone(engine'[e]) =>
              Review(e) \/ engine[e].pc \in {"listing", "marking"}
         /\ branch' # branch => Push(e)
         /\ findingsUnchanged \/ copy(e).state \in FindingPhases
<1>1. /\ engine \in [Engines -> EngineState] /\ gitTyped
      /\ copy(e).version \in Nat /\ copy(e).result \in Nat /\ copy(e).cycle \in Nat
      /\ copy(e).cycle + 1 \in Nat
      /\ findings \in [Findings -> Finding] /\ upstream \in Nat
      /\ engine[e].commit \in Nat /\ engine[e].cycle \in Nat
  BY TypesGiven
<1>2. ASSUME NEW x, ~commitRefused(e, x), commitEffect(e, x)
      PROVE  branch' = branch /\ committed(e, x) \in Nat
  BY <1>1, <1>2, CommitEffect DEF gitTyped, gitGrows, grown, Commits
<1>3. ASSUME NEW pc \in Pcs, goto(e, pc)
      PROVE  engine'[e].pc = pc
  BY <1>1, <1>3, GotoEffect
<1>4. ASSUME NEW o \in Outcome, NEW c \in Nat, NEW n \in Nat, answer(e, o, c, n)
      PROVE  engine'[e].pc = "answered" /\ engine'[e].outcome = o
  BY <1>1, <1>4, AnswerEffect
<1>5. ASSUME NEW pc \in Pcs, NEW c \in Nat, NEW n \in Nat, gotoWith(e, pc, c, n)
      PROVE  engine'[e].pc = pc
  BY <1>1, <1>5, GotoWithEffect
<1> USE AnswersTyped DEF at, Pcs, copy
<1> USE DEF gitUnchanged, reviewDone
<1>6. CASE Agent(e)
  <2>1. CASE RecoverImplementation(e) \/ CommitImplementation(e)
    <3>1. copy(e).state = "implementing" /\ findingsUnchanged /\ branch' = branch
      BY <1>2, <2>1 DEF RecoverImplementation, CommitImplementation
    <3>2. engine'[e].pc # "pushing"
      BY <1>1, <1>2, <1>3, <1>4, <2>1 DEF RecoverImplementation, CommitImplementation
    <3> QED
      BY <3>1, <3>2
  <2>2. CASE RecoverRepair(e) \/ CommitRepair(e)
    <3>1. copy(e).state = "repairing" /\ findingsUnchanged /\ branch' = branch
      BY <1>2, <2>2 DEF RecoverRepair, CommitRepair, repairCommitted
    <3>2. engine'[e].pc # "pushing"
      BY <1>1, <1>2, <1>3, <1>5, <2>2 DEF RecoverRepair, CommitRepair, repairCommitted
    <3> QED
      BY <3>1, <3>2
  <2>3. CASE StartDocumentation(e) \/ AgentReturns(e)
    BY <1>3, <2>3 DEF StartDocumentation, AgentReturns, agentRuns, ModelPhases
  <2>4. CASE AskEgress(e)
    <3>1. engine'[e].pc = "answered" /\ engine'[e].outcome # Default
      BY <1>1, <1>4, <2>4, EgressIsNotDefault DEF AskEgress
    <3> QED
      BY <2>4, <3>1 DEF AskEgress
  <2>5. CASE AgentWrites(e)
    BY <2>5 DEF AgentWrites, agentRuns, ModelPhases
  <2>6. CASE DocumentationBlocked(e)
    BY <1>3, <2>6 DEF DocumentationBlocked, FindingPhases
  <2>7. CASE CommitDocumentation(e)
    <3>1. copy(e).state = "documentation_review" /\ findingsUnchanged /\ branch' = branch
      BY <1>2, <2>7 DEF CommitDocumentation, documentationCommitted
    <3>2. engine'[e].pc # "pushing"
      BY <1>1, <1>2, <1>4, <1>5, <2>7
         DEF CommitDocumentation, documentationCommitted, answerDefault
    <3> QED
      BY <3>1, <3>2
  <2> QED
    BY <1>6, <2>1, <2>2, <2>3, <2>4, <2>5, <2>6, <2>7 DEF Agent
<1>7. CASE Judge(e)
  <2>1. CASE VerifyTargeted(e) \/ VerifyFull(e) \/ VerifyDocumentation(e)
    <3>1. findingsUnchanged /\ branch' = branch
      BY <1>1, <2>1, WorkerLeaves DEF VerifyTargeted, VerifyFull, VerifyDocumentation, passesFull
    <3>2. copy(e).state # "qc_review"
      BY <2>1 DEF VerifyTargeted, VerifyFull, VerifyDocumentation, stepFits
    <3>3. engine'[e].pc = "answered"
      BY <1>1, <1>4, <2>1 DEF VerifyTargeted, VerifyFull, VerifyDocumentation, answerDefault
    <3> QED
      BY <3>1, <3>2, <3>3
  <2>2. CASE VerifyFinal(e)
    <3>1. findingsUnchanged /\ branch' = branch /\ copy(e).state = "final_verification"
      BY <1>1, <2>2, WorkerLeaves DEF VerifyFinal, passesFull
    <3>2. engine'[e].pc = "listing"
      BY <1>1, <1>5, <2>2 DEF VerifyFinal
    <3> QED
      BY <3>1, <3>2
  <2>3. CASE Review(e)
    <3>1. engine'[e].pc \in {"answered", "listing"}
      BY <1>1, <1>4, <1>5, <2>3 DEF Review
    <3> QED
      BY <2>3, <3>1 DEF Review, FindingPhases
  <2>4. CASE List(e)
    BY <1>1, <2>4, ListEffect DEF List
  <2>5. CASE Mark(e)
    <3>1. engine'[e].pc = "marking" /\ engine[e].pc = "marking" /\ branch' = branch
      BY <1>1, <2>5, MarkEffect DEF Mark, next
    <3>2. copy(e).state \in FindingPhases
      BY <3>1 DEF stepFits, marks, FindingPhases
    <3> QED
      BY <3>1, <3>2
  <2>6. CASE MarkConflict(e)
    BY <1>3, <2>6 DEF MarkConflict
  <2>7. CASE Marked(e)
    BY <1>1, <1>4, <2>7 DEF Marked
  <2> QED
    BY <1>7, <2>1, <2>2, <2>3, <2>4, <2>5, <2>6, <2>7 DEF Judge
<1>8. CASE RunPlain(e)
  <2>1. findingsUnchanged /\ branch' = branch /\ copy(e).state # "qc_review"
    BY <1>1, <1>8, WorkerLeaves DEF RunPlain, PlainPhases, WritingPhases
  <2>2. engine'[e].pc = "answered"
    BY <1>1, <1>4, <1>8, OutcomesTyped DEF RunPlain
  <2> QED
    BY <2>1, <2>2
<1>9. CASE PhaseFails(e) \/ Interrupt(e)
  <2>1. findingsUnchanged /\ branch' = branch
    BY <1>1, <1>9, WorkerLeaves DEF PhaseFails, Interrupt, strikes
  <2>2. engine'[e].pc = "erring"
    BY <1>3, <1>9 DEF PhaseFails, Interrupt
  <2> QED
    BY <2>1, <2>2
<1>10. CASE Synchronize(e) \/ ClaimWorktree(e) \/ CheckOut(e)
  <2>1. findingsUnchanged /\ branch' = branch /\ copy(e).state # "qc_review"
    BY <1>10 DEF Synchronize, ClaimWorktree, CheckOut
  <2>2. engine'[e].pc # "pushing"
    BY <1>1, <1>3, <1>4, <1>10 DEF Synchronize, ClaimWorktree, CheckOut, answerDefault
  <2> QED
    BY <2>1, <2>2
<1>11. CASE CheckRemote(e)
  BY <1>11 DEF CheckRemote
<1>12. CASE Push(e)
  <2>1. engine'[e].pc = "answered"
    BY <1>1, <1>4, <1>12 DEF Push, answerDefault
  <2> QED
    BY <1>12, <2>1 DEF Push, stepFits
<1> QED
  BY <1>6, <1>7, <1>8, <1>9, <1>10, <1>11, <1>12 DEF phaseStep

(* HEAD moves only in the phases that build a candidate.                   *)
BuildingPhases == {"creating_worktree", "implementing", "documentation_review", "repairing"}

LEMMA HeadStays ==
  ASSUME TypeInv, [Next]_vars
  PROVE  \/ tree'.head = tree.head
         \/ \E e \in Engines : /\ CheckOut(e) \/ commitsHere(e)
                               /\ engine[e].pc # "idle" /\ copy(e).state \in BuildingPhases
<1>1. gitTyped
  BY DEF TypeInv, TypeOK, gitTyped, Known
<1>2. ASSUME NEW e \in Engines, CheckOut(e) \/ commitsHere(e)
      PROVE  engine[e].pc # "idle" /\ copy(e).state \in BuildingPhases
  BY <1>2 DEF CheckOut, commitsHere, RecoverImplementation, RecoverRepair,
     CommitImplementation, CommitRepair, repairCommitted, CommitDocumentation,
     documentationCommitted, at, copy, BuildingPhases
<1> QED
  BY <1>1, <1>2, HeadMoves

(* What waits for a person, or is published, is what QC had checked out.   *)
ReviewedInv ==
  /\ job.state \in AskedStates => tree.head \in reviewed
  /\ \A e \in Engines : copy(e).state = "qc_review" /\ reviewDone(engine[e]) => tree.head \in reviewed

LEMMA ReviewedInvariant ==
  ASSUME ExclusiveLease
  PROVE  Spec => []ReviewedInv
<1>1. Init => ReviewedInv
  BY DEF Init, ReviewedInv, AskedStates, Idle, NoRow, copy
<1>2. TypeInv /\ StepInv /\ AloneInv /\ ReviewedInv /\ [Next]_vars => ReviewedInv'
  <2> SUFFICES ASSUME TypeInv, StepInv, AloneInv, ReviewedInv, [Next]_vars
               PROVE  ReviewedInv'
    OBVIOUS
  <2>1. reviewed \subseteq reviewed'
    BY VerifiedGrows
  <2>2. job.state \in AskedStates => tree'.head \in reviewed'
    <3> SUFFICES ASSUME job.state \in AskedStates, tree'.head # tree.head
                 PROVE  FALSE
      BY <2>1 DEF ReviewedInv
    <3>1. PICK e \in Engines : engine[e].pc # "idle" /\ copy(e).state \in BuildingPhases
      BY HeadStays
    <3>2. job.state = copy(e).state
      BY <3>1 DEF AloneInv, AskedStates
    <3> QED
      BY <3>1, <3>2 DEF AskedStates, BuildingPhases
  <2>3. ASSUME NEW e \in Engines, copy(e).state = "qc_review", reviewDone(engine[e])
        PROVE  tree'.head \in reviewed'
    <3> SUFFICES ASSUME tree'.head # tree.head
                 PROVE  FALSE
      BY <2>1, <2>3 DEF ReviewedInv
    <3>1. PICK f \in Engines : copy(f).state \in BuildingPhases
      BY HeadStays
    <3>2. f = e
      BY ExclusiveLease DEF ExclusiveLease
    <3> QED
      BY <2>3, <3>1, <3>2 DEF BuildingPhases
  <2>4. ASSUME NEW e \in Engines,
               job'.state \in AskedStates => 
                 \/ job.state \in AskedStates
                 \/ (copy(e).state = "qc_review" /\ reviewDone(engine[e])),
               engine'[e].row.state = "qc_review" /\ reviewDone(engine'[e]) =>
                 copy(e).state = "qc_review" /\ reviewDone(engine[e])
        PROVE  ReviewedInv'
    <3>1. \A f \in Engines : f = e
      BY ExclusiveLease DEF ExclusiveLease
    <3>2. job'.state \in AskedStates => tree'.head \in reviewed'
      BY <2>2, <2>3, <2>4
    <3>3. engine'[e].row.state = "qc_review" /\ reviewDone(engine'[e]) => tree'.head \in reviewed'
      BY <2>3, <2>4
    <3> QED
      BY <3>1, <3>2, <3>3 DEF ReviewedInv, copy
  <2>5. ASSUME NEW e \in Engines, Begin(e)
        PROVE  ReviewedInv'
    BY <2>4, <2>5, BeginEffect DEF Begin, rowUnchanged, reviewDone, TypeInv, TypeOK
  <2>6. ASSUME NEW e \in Engines, phaseStep(e), ~Review(e)
        PROVE  ReviewedInv'
    <3>1. busy(e)
      BY <2>6, PhaseBusy
    <3>2. copy(e).state = "qc_review" /\ reviewDone(engine'[e]) => reviewDone(engine[e])
      BY <2>6, PhasePlaces DEF StepInv, reviewDone
    <3> QED
      BY <2>4, <3>1, <3>2 DEF busy, sameRow, rowUnchanged, copy
  <2>7. ASSUME NEW e \in Engines, Review(e)
        PROVE  ReviewedInv'
    <3>1. tree' = tree /\ reviewed' = reviewed \union {tree.head}
      BY <2>7 DEF Review, gitUnchanged
    <3> QED
      BY <3>1 DEF ReviewedInv
  <2>8. ASSUME NEW e \in Engines, CompletePhase(e)
        PROVE  ReviewedInv'
    <3>1. /\ answers(e) /\ copy(e) = job /\ engine[e].pc = "answered"
          /\ engine'[e] = Idle /\ job'.state = route(e)
      BY <2>8, CompleteEffect DEF StepInv, stepFits, copyFits
    <3>2. route(e) # NoRoute
      BY <2>8 DEF CompletePhase, canComplete
    <3>3. job'.state \in AskedStates =>
             \/ copy(e).state = "qc_review" /\ engine[e].outcome = Default
             \/ job.state = "publishing_branch"
      BY <3>1, <3>2, TestedRoutes DEF answers, route
    <3>4. ~reviewDone(engine'[e])
      BY <3>1 DEF reviewDone, Idle
    <3> QED
      BY <2>4, <3>1, <3>3, <3>4 DEF reviewDone, AskedStates
  <2>9. ASSUME NEW e \in Engines, RecordFailure(e) \/ dropped(e)
        PROVE  ReviewedInv'
    <3>1. /\ engine'[e] = Idle
          /\ job'.state \in AskedStates => job.state \in AskedStates
      BY <2>9, FailureEffect, DroppedEffect DEF rowUnchanged, AskedStates
    <3>2. ~reviewDone(engine'[e])
      BY <3>1 DEF reviewDone, Idle
    <3> QED
      BY <2>4, <3>1, <3>2
  <2>10. ASSUME engine' = engine, job'.state \in AskedStates => job.state \in AskedStates
         PROVE  ReviewedInv'
    BY <2>2, <2>3, <2>10 DEF ReviewedInv, reviewDone, copy
  <2>11. CASE personStep
    <3>1. job'.state \in AskedStates => job.state \in AskedStates
      BY <2>11, PersonRoutes DEF AskedStates
    <3> QED
      BY <2>10, <2>11, <3>1, PersonEffect
  <2>12. CASE (\E f \in Findings : ActOnFinding(f)) \/ UpstreamMoves \/ UNCHANGED vars
    BY <2>10, <2>12 DEF ActOnFinding, UpstreamMoves, vars, rowUnchanged
  <2> QED
    BY <2>5, <2>6, <2>7, <2>8, <2>9, <2>11, <2>12, Kinds
<1> QED
  BY <1>1, <1>2, TypeInvariant, StepInvariant, AloneInvariant, PTL DEF Spec

(* Once a person approved a publication the job only publishes it, ends,   *)
(* or is stuck before a contract that is approved already; and nothing can *)
(* bring a blocking finding back.                                          *)
ApprovedStates == EarlyStates \union {"publishing_branch", "draft_pr_created", "completed"}

ApprovedInv ==
  /\ job.state \in {"publishing_branch", "draft_pr_created"} => job.result \in approvals
  /\ approvals # {} =>
       /\ contract
       /\ job.state \in ApprovedStates
       /\ \A e \in Engines : engine[e].pc # "idle" => copy(e).state \in ApprovedStates
       /\ ~\E f \in Findings : unresolved(findings, f)
  /\ \A e \in Engines : engine[e].pc = "pushing" => tree.head = copy(e).result
  /\ branch # NoCommit => branch \in verified \intersect reviewed \intersect approvals

(* An approved job goes on to its publication.                             *)
LEMMA ApprovedRoutes ==
  ASSUME NEW s \in ApprovedStates, NEW n, NEW o \in Outcomes(s, n), nextState(s, o) # NoRoute
  PROVE  /\ nextState(s, o) \in ApprovedStates
         /\ nextState(s, o) # "publishing_branch"
         /\ nextState(s, o) = "draft_pr_created" => s = "publishing_branch"
<1>1. CASE s \in EarlyStates
  BY <1>1, EarlyRoutes DEF ApprovedStates, EarlyStates
<1>2. CASE s \notin EarlyStates
  <2>1. s \notin RoutingStates
    BY <1>2 DEF ApprovedStates, RoutingStates
  <2> QED
    BY <1>2, <2>1, RouteCases DEF ApprovedStates, EarlyStates, defaultNext
<1> QED
  BY <1>1, <1>2

(* People cannot reopen a blocking finding that is resolved.               *)
LEMMA ResolvedStays ==
  ASSUME TypeInv, NEW f \in Findings, ActOnFinding(f), NEW g \in Findings,
         ~unresolved(findings, g)
  PROVE  ~unresolved(findings', g)
<1>1. findings \in [Findings -> Finding]
  BY DEF TypeInv, TypeOK
<1>2. PICK to \in {"disputed", "accepted", "human_waived"} :
        /\ CanTransitionFinding(findings[f].status, to)
        /\ findings' = transitioned(findings, f, to)
  BY DEF ActOnFinding
<1>3. CASE g = f
  <2>1. findings[f].status \in {"open", "disputed"}
    BY <1>2 DEF CanTransitionFinding, findingEdges
  <2>2. f \notin Blocking
    BY <1>3, <2>1 DEF unresolved
  <2> QED
    BY <1>3, <2>2 DEF unresolved
<1>4. CASE g # f
  BY <1>1, <1>2, <1>4 DEF transitioned, unresolved
<1> QED
  BY <1>3, <1>4

(* ApprovedInv holds as long as there is one engine.                       *)
LEMMA ApprovedInvariant ==
  ASSUME ExclusiveLease
  PROVE  Spec => []ApprovedInv
<1>1. Init => ApprovedInv
  BY DEF Init, ApprovedInv, Idle
<1>2. TypeInv /\ StepInv /\ ContractInv /\ ResultInv /\ AloneInv /\ ReviewedInv
        /\ ApprovedInv /\ [Next]_vars => ApprovedInv'
  <2> SUFFICES ASSUME TypeInv, StepInv, ContractInv, ResultInv, AloneInv, ReviewedInv,
                      ApprovedInv, [Next]_vars
               PROVE  ApprovedInv'
    OBVIOUS
  <2>1. verified \subseteq verified' /\ reviewed \subseteq reviewed'
    BY VerifiedGrows
  <2>2. Idle.pc = "idle"
    BY DEF Idle
  <2>3. \A e, f \in Engines : e = f
    BY ExclusiveLease DEF ExclusiveLease
  <2> USE DEF rowUnchanged
  <2>4. ASSUME UNCHANGED <<approvals, contract, branch>>,
               job'.state \in {"publishing_branch", "draft_pr_created"} => job'.result \in approvals,
               approvals # {} => /\ job'.state \in ApprovedStates
                                 /\ ~\E f \in Findings : unresolved(findings', f),
               NEW e \in Engines, engine'[e].pc # "pushing",
               approvals # {} /\ engine'[e].pc # "idle" => engine'[e].row.state \in ApprovedStates
        PROVE  ApprovedInv'
    BY <2>1, <2>3, <2>4 DEF ApprovedInv, copy
  <2>5. ASSUME NEW e \in Engines, Begin(e)
        PROVE  ApprovedInv'
    <3>1. /\ UNCHANGED <<approvals, contract, branch, job, findings>>
          /\ engine'[e].pc = "begun" /\ engine'[e].row = job
      BY <2>5, BeginEffect DEF Begin, gitUnchanged, findingsUnchanged, TypeInv, TypeOK
    <3> QED
      BY <2>4, <3>1 DEF ApprovedInv
  <2>6. ASSUME NEW e \in Engines, phaseStep(e)
        PROVE  ApprovedInv'
    <3>1. busy(e) /\ engine'[e].row = engine[e].row
      BY <2>6, PhaseBusy DEF busy, sameRow
    <3>2. /\ engine'[e].pc = "pushing" => CheckRemote(e)
          /\ branch' # branch => Push(e)
          /\ findings' = findings \/ copy(e).state \in FindingPhases
      BY <2>6, PhasePlaces DEF StepInv, findingsUnchanged
    <3>3. approvals # {} => /\ copy(e).state \in ApprovedStates
                            /\ findings' = findings
      BY <3>1, <3>2 DEF ApprovedInv, busy, FindingPhases, ApprovedStates, EarlyStates
    <3>4. engine'[e].pc = "pushing" => tree'.head = copy(e).result
      BY <3>2 DEF CheckRemote, publishable, gitUnchanged
    <3>5. branch' # NoCommit => branch' \in verified' \intersect reviewed' \intersect approvals
      <4>1. CASE branch' = branch
        BY <2>1, <4>1 DEF ApprovedInv
      <4>2. CASE Push(e)
        <5>1. /\ engine[e].pc = "pushing" /\ branch' = tree.head
              /\ copy(e).state = "publishing_branch"
          BY <4>2 DEF Push, StepInv, stepFits
        <5>2. copy(e) = job /\ tree.head = job.result
          BY <5>1 DEF AloneInv, ApprovedInv
        <5>3. /\ job.state = "publishing_branch" /\ job.result \in verified
              /\ tree.head \in reviewed /\ job.result \in approvals
          BY <5>1, <5>2 DEF ResultInv, resultFits, ReviewedInv, AskedStates, ApprovedInv
        <5> QED
          BY <2>1, <5>1, <5>2, <5>3
      <4> QED
        BY <3>2, <4>1, <4>2
    <3> QED
      BY <2>3, <3>1, <3>3, <3>4, <3>5 DEF ApprovedInv, busy, copy
  <2>7. ASSUME NEW e \in Engines, CompletePhase(e)
        PROVE  ApprovedInv'
    <3>1. /\ answers(e) /\ copy(e) = job /\ engine[e].pc = "answered"
          /\ engine'[e].pc = "idle" /\ job'.state = route(e)
          /\ UNCHANGED <<approvals, contract, branch, findings>>
          /\ job.state # "syncing" => job'.result = engine[e].commit
      BY <2>2, <2>7, CompleteEffect
         DEF StepInv, stepFits, copyFits, gitUnchanged, findingsUnchanged
    <3>2. /\ engine[e].outcome \in Outcomes(job.state, job.cycle)
          /\ route(e) = nextState(job.state, engine[e].outcome) /\ route(e) # NoRoute
      BY <2>7, <3>1 DEF answers, route, CompletePhase, canComplete
    <3>3. approvals # {} => job'.state \in ApprovedStates
      BY <3>1, <3>2, ApprovedRoutes DEF ApprovedInv
    <3>4. job'.state \in {"publishing_branch", "draft_pr_created"} => job'.result \in approvals
      <4>1. job'.state \in {"publishing_branch", "draft_pr_created"} =>
              job.state = "publishing_branch"
        BY <3>1, <3>2, TestedRoutes DEF AskedStates
      <4>2. job.state = "publishing_branch" => job'.result = job.result
        BY <3>1 DEF answers
      <4> QED
        BY <4>1, <4>2 DEF ApprovedInv
    <3> QED
      BY <2>4, <3>1, <3>3, <3>4 DEF ApprovedInv
  <2>8. ASSUME NEW e \in Engines, RecordFailure(e) \/ dropped(e)
        PROVE  ApprovedInv'
    <3>1. /\ engine'[e].pc = "idle" /\ job'.state \in {job.state, "failed"}
          /\ job'.result = job.result /\ UNCHANGED <<approvals, contract, branch, findings>>
      BY <2>2, <2>8, FailureEffect, DroppedEffect
         DEF rowMoves, gitUnchanged, findingsUnchanged
    <3> QED
      BY <2>4, <3>1 DEF ApprovedInv, ApprovedStates, EarlyStates
  <2>9. CASE personStep
    <3>1. UNCHANGED <<engine, branch, findings, tree>> /\ job'.result = job.result
      BY <2>9, PersonEffect DEF gitUnchanged, findingsUnchanged
    <3>2. CASE job'.state \in {"cancelled", "queued"} /\ UNCHANGED <<contract, approvals>>
      BY <2>1, <3>1, <3>2 DEF ApprovedInv, ApprovedStates, EarlyStates, copy
    <3>3. CASE ~contract /\ contract' /\ UNCHANGED approvals
                 /\ job'.state = "loading_implementation_model"
      BY <2>1, <3>1, <3>3 DEF ApprovedInv, copy
    <3>4. CASE /\ job.state \in {"awaiting_test_design_disposition",
                                 "awaiting_golden_approval", "awaiting_remote_egress_approval"}
               /\ job'.state \notin AskedStates /\ UNCHANGED <<contract, approvals>>
      BY <2>1, <3>1, <3>4 DEF ApprovedInv, ApprovedStates, EarlyStates, AskedStates, copy
    <3>5. CASE /\ job.state = "awaiting_operator" /\ job'.state = "publishing_branch"
               /\ approvals' = approvals \union {job.result} /\ UNCHANGED contract
               /\ ~\E f \in Findings : unresolved(findings, f)
      <4>1. contract
        BY <3>5 DEF ContractInv, EarlyStates
      <4>2. \A e \in Engines : engine[e].pc = "idle"
        BY <3>5 DEF AloneInv, StepInv, copyFits, Resumable, Gates
      <4> QED
        BY <2>1, <3>1, <3>5, <4>1, <4>2 DEF ApprovedInv, ApprovedStates, copy
    <3> QED
      BY <2>9, <3>2, <3>3, <3>4, <3>5, PersonRoutes
  <2>10. ASSUME NEW f \in Findings, ActOnFinding(f)
         PROVE  ApprovedInv'
    BY <2>1, <2>10, ResolvedStays DEF ActOnFinding, ApprovedInv, gitUnchanged, copy
  <2>11. CASE UpstreamMoves \/ UNCHANGED vars
    BY <2>1, <2>11 DEF UpstreamMoves, vars, ApprovedInv, gitUnchanged, findingsUnchanged, copy
  <2> QED
    BY <2>5, <2>6, <2>7, <2>8, <2>9, <2>10, <2>11, Kinds
<1> QED
  BY <1>1, <1>2, TypeInvariant, StepInvariant, ContractInvariant, ResultInvariant,
     AloneInvariant, ReviewedInvariant, PTL DEF Spec

(* With an exclusive lease the remote branch holds only a commit that      *)
(* passed the full suite, was what QC read and was approved by a person,   *)
(* and from then on nothing that blocks it is unresolved.                  *)
THEOREM PublishedForAll ==
  ASSUME ExclusiveLease
  PROVE  Spec => []PublishedWasApproved
<1>1. ApprovedInv => PublishedWasApproved
  BY DEF ApprovedInv, PublishedWasApproved
<1> QED
  BY <1>1, ApprovedInvariant, PTL

-----------------------------------------------------------------------------
(* What a publication promises *)

(* A phase step does one thing at a time: it builds, records that a commit *)
(* passed, reviews, moves findings, or pushes.                             *)
phaseShape(e) ==
  \/ UNCHANGED <<verified, reviewed, findings, branch>>
  \/ /\ verified' = verified \union {tree.head} /\ tree.head # NoCommit
     /\ copy(e).state \in {"verifying_full", "documentation_review", "final_verification"}
     /\ UNCHANGED <<commits, reviewed, findings, branch>>
  \/ /\ reviewed' = reviewed \union {tree.head} /\ tree.head # NoCommit
     /\ copy(e).state = "qc_review"
     /\ UNCHANGED <<commits, verified, branch>>
  \/ UNCHANGED <<commits, verified, reviewed, branch>>
  \/ /\ Push(e) /\ UNCHANGED <<commits, verified, reviewed, findings>>

LEMMA PhaseShape ==
  ASSUME TypeInv, NEW e \in Engines, phaseStep(e), stepFits(e)
  PROVE  phaseShape(e)
<1>1. gitTyped /\ copy(e).version \in Nat /\ refsFit(e)
  BY TypesGiven
<1>2. ASSUME NEW x, ~commitRefused(e, x), commitEffect(e, x)
      PROVE  UNCHANGED branch
  BY <1>1, <1>2, CommitEffect
<1> USE DEF findingsUnchanged, historyUnchanged, gitUnchanged, phaseShape
<1>3. CASE Agent(e)
  <2>1. CASE RecoverImplementation(e) \/ RecoverRepair(e) \/ CommitImplementation(e)
    BY <1>2, <2>1 DEF RecoverImplementation, RecoverRepair, CommitImplementation
  <2>2. CASE CommitRepair(e) \/ CommitDocumentation(e)
    BY <1>2, <2>2 DEF CommitRepair, repairCommitted, CommitDocumentation, documentationCommitted
  <2>3. CASE StartDocumentation(e) \/ AskEgress(e) \/ AgentWrites(e) \/ AgentReturns(e)
    BY <2>3 DEF StartDocumentation, AskEgress, AgentWrites, AgentReturns
  <2>4. CASE DocumentationBlocked(e)
    BY <2>4 DEF DocumentationBlocked
  <2> QED
    BY <1>3, <2>1, <2>2, <2>3, <2>4 DEF Agent
<1>4. CASE Judge(e)
  <2>1. CASE VerifyTargeted(e)
    BY <1>1, <2>1, WorkerLeaves DEF VerifyTargeted
  <2>2. CASE VerifyFull(e) \/ VerifyDocumentation(e) \/ VerifyFinal(e)
    <3>1. PICK c : passesFull(e, c)
      BY <2>2 DEF VerifyFull, VerifyDocumentation, VerifyFinal
    <3>2. copy(e).state \in {"verifying_full", "documentation_review", "final_verification"}
      BY <2>2 DEF VerifyFull, VerifyDocumentation, VerifyFinal, at, stepFits, copy
    <3> QED
      BY <1>1, <3>1, <3>2, WorkerLeaves DEF passesFull, scanned
  <2>3. CASE Review(e)
    <3>1. tree.head # NoCommit
      BY <1>1, <2>3 DEF Review, refsFit
    <3> QED
      BY <2>3, <3>1 DEF Review, at, copy
  <2>4. CASE List(e) \/ Mark(e) \/ MarkConflict(e) \/ Marked(e)
    BY <2>4 DEF List, Mark, MarkConflict, Marked
  <2> QED
    BY <1>4, <2>1, <2>2, <2>3, <2>4 DEF Judge
<1>5. CASE RunPlain(e) \/ PhaseFails(e)
  BY <1>1, <1>5, WorkerLeaves DEF RunPlain, PhaseFails
<1>6. CASE Synchronize(e) \/ ClaimWorktree(e) \/ CheckOut(e) \/ CheckRemote(e)
  BY <1>6 DEF Synchronize, ClaimWorktree, CheckOut, CheckRemote
<1>7. CASE Push(e)
  BY <1>7 DEF Push
<1>8. CASE Interrupt(e)
  BY <1>8 DEF Interrupt, strikes
<1> QED
  BY <1>3, <1>4, <1>5, <1>6, <1>7, <1>8 DEF phaseStep

(* Who pushes has seen that there is no branch, and nobody else makes one. *)
PushInv == \A e \in Engines : engine[e].pc = "pushing" => branch = NoCommit

LEMMA PushInvariant ==
  ASSUME ExclusiveLease
  PROVE  Spec => []PushInv
<1>1. Init => PushInv
  BY DEF Init, PushInv
<1>2. TypeInv /\ StepInv /\ PushInv /\ [Next]_vars => PushInv'
  <2> SUFFICES ASSUME TypeInv, StepInv, PushInv, [Next]_vars PROVE PushInv'
    OBVIOUS
  <2>1. \A e, f \in Engines : e = f
    BY ExclusiveLease DEF ExclusiveLease
  <2>2. ASSUME NEW e \in Engines, phaseStep(e)
        PROVE  PushInv'
    <3>1. engine'[e].pc = "pushing" => CheckRemote(e)
      BY <2>2, PhasePlaces DEF StepInv
    <3>2. CheckRemote(e) => branch' = branch
      BY DEF CheckRemote, gitUnchanged
    <3>3. CheckRemote(e) /\ engine'[e].pc = "pushing" => branch = NoCommit
      <4> SUFFICES ASSUME CheckRemote(e), engine'[e].pc = "pushing", branch # NoCommit
                   PROVE  FALSE
        OBVIOUS
      <4>1. answer(e, Default, copy(e).result, copy(e).cycle)
        BY DEF CheckRemote, answerDefault
      <4>2. engine \in [Engines -> EngineState] /\ copy(e).result \in Nat /\ copy(e).cycle \in Nat
        BY CopyTyped DEF TypeInv, TypeOK
      <4> QED
        BY <4>1, <4>2, AnswersTyped, AnswerEffect
    <3> QED
      BY <2>1, <3>1, <3>2, <3>3 DEF PushInv
  <2>3. ASSUME NEW e \in Engines,
               Begin(e) \/ CompletePhase(e) \/ RecordFailure(e) \/ dropped(e)
        PROVE  PushInv'
    <3>1. engine'[e].pc \in {"begun", "idle"}
      BY <2>3, BeginEffect, CompleteEffect, FailureEffect, DroppedEffect
         DEF Idle, TypeInv, TypeOK
    <3> QED
      BY <2>1, <3>1 DEF PushInv
  <2>4. CASE personStep
    BY <2>4, PersonEffect DEF gitUnchanged, PushInv
  <2>5. CASE (\E f \in Findings : ActOnFinding(f)) \/ UpstreamMoves \/ UNCHANGED vars
    BY <2>5 DEF ActOnFinding, UpstreamMoves, vars, gitUnchanged, PushInv
  <2> QED
    BY <2>2, <2>3, <2>4, <2>5, Kinds
<1> QED
  BY <1>1, <1>2, TypeInvariant, StepInvariant, PTL DEF Spec

(* No commit is made for a candidate that is approved.                     *)
LEMMA CommitsFrozen ==
  ASSUME TypeInv, ApprovedInv, approvals # {}, [Next]_vars
  PROVE  UNCHANGED commits
<1>1. gitTyped
  BY DEF TypeInv, TypeOK, gitTyped, Known
<1>2. ASSUME NEW e \in Engines, commitsHere(e)
      PROVE  FALSE
  <2>1. engine[e].pc # "idle" /\ copy(e).state \in {"implementing", "documentation_review", "repairing"}
    BY <1>2 DEF commitsHere, RecoverImplementation, RecoverRepair, CommitImplementation,
       CommitRepair, repairCommitted, CommitDocumentation, documentationCommitted, at, copy
  <2> QED
    BY <2>1 DEF ApprovedInv, ApprovedStates, EarlyStates
<1> QED
  BY <1>1, <1>2, HeadMoves, CheckOutEffect

(* With an exclusive lease Candidate implements Publication: nothing that  *)
(* is crashed, repeated, cancelled or queued again takes evidence back,    *)
(* approves without it or twice, changes the candidate or raises a finding *)
(* after the approval, or publishes anything else or moves the branch.     *)
THEOREM PublicationForAll ==
  ASSUME ExclusiveLease
  PROVE  Spec => PublicationPromise
<1>1. Init => Published!PublicationInit
  BY DEF Init, Published!PublicationInit, Commits, NoCommit, unresolved, Unseen
<1>2. TypeInv /\ StepInv /\ ContractInv /\ ResultInv /\ AloneInv /\ ReviewedInv
        /\ ApprovedInv /\ PushInv /\ [Next]_vars
        => [Published!PublicationNext]_(Published!publicationVars)
  <2> SUFFICES ASSUME TypeInv, StepInv, ContractInv, ResultInv, AloneInv, ReviewedInv,
                      ApprovedInv, PushInv, [Next]_vars
               PROVE  Published!PublicationNext \/ UNCHANGED Published!publicationVars
    OBVIOUS
  <2>1. /\ Commits \subseteq Commits' /\ NoCommit \notin Commits'
        /\ commits' = commits => Commits' = Commits
    <3>1. /\ commits \in Seq(Nat) /\ commits' \in Seq(Nat)
          /\ Len(commits) <= Len(commits')
      BY GitGrows DEF gitGrows, grown, TypeInv, TypeOK
    <3> QED
      BY <3>1 DEF Commits, NoCommit
  <2>2. /\ tree.head \in Commits \union {NoCommit} /\ job.result \in Commits \union {NoCommit}
    BY DEF TypeInv, TypeOK
  <2>3. ASSUME UNCHANGED <<verified, reviewed, findings, approvals, branch>>
        PROVE  Published!PublicationNext \/ UNCHANGED Published!publicationVars
    <3>1. CASE approvals = {}
      <4>1. Published!Make
        BY <2>1, <2>3, <3>1 DEF Published!Make
      <4> QED
        BY <4>1 DEF Published!PublicationNext
    <3>2. CASE approvals # {}
      BY <2>1, <2>3, <3>2, CommitsFrozen DEF Published!publicationVars
    <3> QED
      BY <3>1, <3>2
  <2>4. ASSUME UNCHANGED <<commits, verified, reviewed, approvals, branch>>,
               approvals # {} =>
                 \A f \in Findings : unresolved(findings', f) <=> unresolved(findings, f)
        PROVE  Published!PublicationNext \/ UNCHANGED Published!publicationVars
    <3>1. CASE approvals = {}
      <4>1. Published!FindingsMove
        BY <2>1, <2>4, <3>1 DEF Published!FindingsMove
      <4> QED
        BY <4>1 DEF Published!PublicationNext
    <3>2. CASE approvals # {}
      BY <2>1, <2>4, <3>2 DEF Published!publicationVars
    <3> QED
      BY <3>1, <3>2
  <2>5. ASSUME NEW e \in Engines, phaseStep(e)
        PROVE  Published!PublicationNext \/ UNCHANGED Published!publicationVars
    <3>1. /\ approvals' = approvals /\ engine[e].pc # "idle"
          /\ phaseShape(e)
      BY <2>5, PhaseBusy, PhaseShape DEF busy, rowUnchanged, StepInv
    <3>2. approvals # {} => copy(e).state \in ApprovedStates
      BY <3>1 DEF ApprovedInv
    <3>3. CASE UNCHANGED <<verified, reviewed, findings, branch>>
      BY <2>3, <3>1, <3>3
    <3>4. CASE /\ verified' = verified \union {tree.head} /\ tree.head # NoCommit
               /\ copy(e).state \in {"verifying_full", "documentation_review",
                                     "final_verification"}
               /\ UNCHANGED <<commits, reviewed, findings, branch>>
      <4>1. approvals = {}
        BY <3>2, <3>4 DEF ApprovedStates, EarlyStates
      <4>2. Published!Verify(tree.head) /\ tree.head \in Commits
        BY <2>1, <2>2, <3>1, <3>4, <4>1 DEF Published!Verify
      <4> QED
        BY <4>2 DEF Published!PublicationNext
    <3>5. CASE /\ reviewed' = reviewed \union {tree.head} /\ tree.head # NoCommit
               /\ copy(e).state = "qc_review"
               /\ UNCHANGED <<commits, verified, branch>>
      <4>1. approvals = {}
        BY <3>2, <3>5 DEF ApprovedStates, EarlyStates
      <4>2. Published!Review(tree.head) /\ tree.head \in Commits
        BY <2>1, <2>2, <3>1, <3>5, <4>1 DEF Published!Review
      <4> QED
        BY <4>2 DEF Published!PublicationNext
    <3>6. CASE UNCHANGED <<commits, verified, reviewed, branch>>
      <4>1. findings' = findings \/ copy(e).state \in FindingPhases
        BY <2>5, PhasePlaces DEF StepInv, findingsUnchanged
      <4>2. approvals # {} => findings' = findings
        BY <3>2, <4>1 DEF FindingPhases, ApprovedStates, EarlyStates
      <4> QED
        BY <2>4, <3>1, <3>6, <4>2
    <3>7. CASE Push(e) /\ UNCHANGED <<commits, verified, reviewed, findings>>
      <4>1. /\ engine[e].pc = "pushing" /\ branch' = tree.head
            /\ copy(e).state = "publishing_branch" /\ branch = NoCommit
        BY <3>7 DEF Push, StepInv, stepFits, PushInv
      <4>2. copy(e) = job /\ tree.head = job.result
        BY <4>1 DEF AloneInv, ApprovedInv
      <4>3. /\ tree.head \in verified /\ tree.head \in reviewed /\ tree.head \in approvals
        BY <4>1, <4>2 DEF ResultInv, resultFits, ReviewedInv, AskedStates, ApprovedInv
      <4>4. Published!Publish(tree.head)
        BY <2>1, <3>1, <3>7, <4>1, <4>3 DEF Published!Publish
      <4>5. tree.head \in Commits
        BY <4>3 DEF TypeInv, TypeOK
      <4> QED
        BY <4>4, <4>5 DEF Published!PublicationNext
    <3> QED
      BY <3>1, <3>3, <3>4, <3>5, <3>6, <3>7 DEF phaseShape
  <2>6. ASSUME NEW e \in Engines,
               Begin(e) \/ CompletePhase(e) \/ RecordFailure(e) \/ dropped(e)
        PROVE  Published!PublicationNext \/ UNCHANGED Published!publicationVars
    <3>1. UNCHANGED <<verified, reviewed, findings, approvals, branch>>
      BY <2>6, CompleteEffect, FailureEffect, DroppedEffect
         DEF Begin, rowMoves, rowUnchanged, gitUnchanged, findingsUnchanged, historyUnchanged
    <3> QED
      BY <2>3, <3>1
  <2>7. CASE personStep
    <3>1. UNCHANGED <<commits, verified, reviewed, findings, branch>>
      BY <2>7, PersonEffect DEF gitUnchanged, findingsUnchanged, historyUnchanged
    <3>2. CASE UNCHANGED approvals
      BY <2>3, <3>1, <3>2
    <3>3. CASE /\ job.state = "awaiting_operator"
               /\ approvals' = approvals \union {job.result}
               /\ ~\E f \in Findings : unresolved(findings, f)
      <4>1. job.result \in verified /\ tree.head \in reviewed
        BY <3>3 DEF ResultInv, resultFits, ReviewedInv, AskedStates
      <4>2. approvals = {}
        BY <3>3 DEF ApprovedInv, ApprovedStates, EarlyStates
      <4>3. job.result \in Commits
        BY <4>1 DEF TypeInv, TypeOK
      <4>4. Published!Approve(job.result)
        BY <2>1, <3>1, <3>3, <4>1, <4>2 DEF Published!Approve
      <4> QED
        BY <4>3, <4>4 DEF Published!PublicationNext
    <3> QED
      BY <2>7, <3>2, <3>3, PersonRoutes
  <2>8. ASSUME NEW f \in Findings, ActOnFinding(f)
        PROVE  Published!PublicationNext \/ UNCHANGED Published!publicationVars
    <3>1. UNCHANGED <<commits, verified, reviewed, approvals, branch>>
      BY <2>8 DEF ActOnFinding, rowUnchanged, gitUnchanged, historyUnchanged
    <3>2. approvals # {} => \A g \in Findings : ~unresolved(findings, g) /\ ~unresolved(findings', g)
      BY <2>8, ResolvedStays DEF ApprovedInv
    <3> QED
      BY <2>4, <3>1, <3>2
  <2>9. CASE UpstreamMoves \/ UNCHANGED vars
    BY <2>3, <2>9 DEF UpstreamMoves, vars, rowUnchanged, gitUnchanged, findingsUnchanged,
       historyUnchanged
  <2> QED
    BY <2>5, <2>6, <2>7, <2>8, <2>9, Kinds
<1> QED
  BY <1>1, <1>2, TypeInvariant, StepInvariant, ContractInvariant, ResultInvariant,
     AloneInvariant, ReviewedInvariant, ApprovedInvariant, PushInvariant, PTL
     DEF Spec, PublicationPromise, Published!PublicationSpec

-----------------------------------------------------------------------------
(* What counts as fixed *)

(* The only marks are those of markedFrom and markedTo.                    *)
markedBy(e, f) ==
  /\ next(e, f) /\ markable(e, f)
  /\ findings'[f].status = markedTo[copy(e).state]
  /\ fix'[f] = IF copy(e).state = "repairing" THEN engine[e].commit ELSE fix[f]

(* A finding stays as it is; or gets a new version, and with it a later    *)
(* sighting, a person's decision, or the mark of a phase.                  *)
findingMoves(f) ==
  \/ findings'[f] = findings[f] /\ fix'[f] = fix[f]
  \/ /\ findings'[f].version > findings[f].version
     /\ \/ /\ fix'[f] = fix[f]
           /\ findings'[f].status \in
                {findings[f].status, "open", "disputed", "accepted", "human_waived"}
        \/ \E e \in Engines : Mark(e) /\ markedBy(e, f)

(* No step moves a finding in another way.                                 *)
LEMMA FindingMoves ==
  ASSUME TypeInv, [Next]_vars, NEW f \in Findings
  PROVE  findingMoves(f)
<1>1. /\ findings \in [Findings -> Finding] /\ findings[f].version \in Nat
      /\ fix \in [Findings -> Known]
  BY DEF TypeInv, TypeOK, Finding, Known
<1>2. ASSUME UNCHANGED <<findings, fix>>
      PROVE  findingMoves(f)
  BY <1>2 DEF findingMoves
<1>3. ASSUME UNCHANGED fix, NEW report, NEW n, findings' = observed(findings, report, n)
      PROVE  findingMoves(f)
  <2>1. CASE f \notin report
    BY <1>3, <2>1 DEF observed, findingMoves
  <2>2. CASE f \in report
    <3>1. /\ findings'[f].version = findings[f].version + 1
          /\ findings'[f].status \in {findings[f].status, "open"}
      BY <1>3, <2>2 DEF observed
    <3> QED
      BY <1>1, <1>3, <3>1 DEF findingMoves
  <2> QED
    BY <2>1, <2>2
<1>4. ASSUME NEW e \in Engines, Mark(e)
      PROVE  findingMoves(f)
  <2>1. PICK g \in Findings :
          /\ next(e, g) /\ markable(e, g)
          /\ findings' = transitioned(findings, g, markedTo[copy(e).state])
          /\ fix' = IF copy(e).state = "repairing"
                    THEN [fix EXCEPT ![g] = engine[e].commit] ELSE fix
    BY <1>4 DEF Mark
  <2>2. CASE g # f
    BY <1>1, <2>1, <2>2 DEF transitioned, findingMoves
  <2>3. CASE g = f
    <3>1. /\ findings'[f].version = findings[f].version + 1
          /\ findings'[f].status = markedTo[copy(e).state]
      BY <1>1, <2>1, <2>3 DEF transitioned
    <3>2. fix'[f] = IF copy(e).state = "repairing" THEN engine[e].commit ELSE fix[f]
      BY <1>1, <2>1, <2>3
    <3> QED
      BY <1>1, <1>4, <2>1, <2>3, <3>1, <3>2 DEF markedBy, findingMoves
  <2> QED
    BY <2>2, <2>3
<1>5. ASSUME NEW g \in Findings, ActOnFinding(g)
      PROVE  findingMoves(f)
  <2>1. PICK to \in {"disputed", "accepted", "human_waived"} :
          findings' = transitioned(findings, g, to)
    BY <1>5 DEF ActOnFinding
  <2>2. UNCHANGED fix
    BY <1>5 DEF ActOnFinding
  <2>3. CASE g # f
    BY <1>1, <2>1, <2>2, <2>3 DEF transitioned, findingMoves
  <2>4. CASE g = f
    <3>1. findings'[f].version = findings[f].version + 1 /\ findings'[f].status = to
      BY <1>1, <2>1, <2>4 DEF transitioned
    <3> QED
      BY <1>1, <2>1, <2>2, <3>1 DEF findingMoves
  <2> QED
    BY <2>3, <2>4
<1> USE DEF findingsUnchanged
<1>6. ASSUME NEW e \in Engines, Agent(e)
      PROVE  findingMoves(f)
  <2>1. CASE DocumentationBlocked(e)
    BY <1>3, <2>1 DEF DocumentationBlocked
  <2>2. CASE ~DocumentationBlocked(e)
    BY <1>2, <1>6, <2>2 DEF Agent, RecoverImplementation, RecoverRepair, StartDocumentation,
       AskEgress, AgentWrites, AgentReturns, CommitImplementation, CommitRepair,
       repairCommitted, CommitDocumentation, documentationCommitted
  <2> QED
    BY <2>1, <2>2
<1>7. ASSUME NEW e \in Engines, Judge(e)
      PROVE  findingMoves(f)
  <2>1. CASE Review(e)
    BY <1>3, <2>1 DEF Review
  <2>2. CASE Mark(e)
    BY <1>4, <2>2
  <2>3. CASE ~Review(e) /\ ~Mark(e)
    BY <1>2, <1>7, <2>3 DEF Judge, VerifyTargeted, VerifyFull, VerifyDocumentation,
       VerifyFinal, passesFull, List, MarkConflict, Marked
  <2> QED
    BY <2>1, <2>2, <2>3
<1>8. ASSUME NEW e \in Engines,
             Begin(e) \/ phaseStep(e) \/ CompletePhase(e) \/ RecordFailure(e) \/ dropped(e)
      PROVE  findingMoves(f)
  <2>1. CASE Begin(e) \/ CompletePhase(e) \/ RecordFailure(e) \/ dropped(e)
    BY <1>2, <2>1 DEF Begin, CompletePhase, RecordFailure, rowMoves, dropped,
       CompleteRefused, FailureNotRecorded, Crash, strikes
  <2>2. CASE phaseStep(e)
    BY <1>2, <1>6, <1>7, <2>2 DEF phaseStep, RunPlain, PhaseFails, Synchronize,
       ClaimWorktree, CheckOut, CheckRemote, Push, Interrupt, strikes
  <2> QED
    BY <1>8, <2>1, <2>2
<1>9. CASE personStep
  BY <1>2, <1>9, PersonEffect
<1>10. CASE UpstreamMoves \/ UNCHANGED vars
  BY <1>2, <1>10 DEF UpstreamMoves, vars
<1> QED
  BY <1>5, <1>8, <1>9, <1>10, Kinds

(* What a phase listed and nobody touched since is at the status it was    *)
(* listed at.                                                              *)
ListedInv ==
  \A e \in Engines : \A f \in Findings :
    engine[e].pc = "marking" /\ engine[e].listed[f] # 0 =>
      /\ engine[e].listed[f] <= findings[f].version
      /\ engine[e].listed[f] = findings[f].version =>
           findings[f].status = markedFrom[copy(e).state]

(* The marking phases get there by List.                                   *)
LEMMA MarkingPlaces ==
  ASSUME TypeInv, NEW e \in Engines, phaseStep(e), engine'[e].pc = "marking"
  PROVE  List(e) \/ Mark(e)
<1>1. /\ engine \in [Engines -> EngineState] /\ gitTyped
      /\ copy(e).version \in Nat /\ copy(e).result \in Nat /\ copy(e).cycle \in Nat
      /\ copy(e).cycle + 1 \in Nat /\ upstream \in Nat
      /\ engine[e].commit \in Nat /\ engine[e].cycle \in Nat
  BY TypesGiven
<1>2. ASSUME NEW x, ~commitRefused(e, x), commitEffect(e, x)
      PROVE  committed(e, x) \in Nat
  BY <1>1, <1>2, CommitEffect DEF gitTyped, gitGrows, grown, Commits
<1>3. ASSUME NEW pc \in Pcs \ {"marking"}
      PROVE  ~goto(e, pc)
  BY <1>1, <1>3, GotoEffect
<1>4. ASSUME NEW o \in Outcome, NEW c \in Nat, NEW n \in Nat
      PROVE  ~answer(e, o, c, n)
  BY <1>1, <1>4, AnswerEffect
<1>5. ASSUME NEW c \in Nat, NEW n \in Nat
      PROVE  ~gotoWith(e, "listing", c, n) /\ ~gotoWith(e, "verifying", c, n)
  BY <1>1, <1>5, GotoWithEffect DEF Pcs
<1> USE AnswersTyped DEF Pcs
<1>6. CASE RecoverImplementation(e) \/ CommitImplementation(e)
  BY <1>1, <1>2, <1>3, <1>4, <1>6 DEF RecoverImplementation, CommitImplementation
<1>7. CASE RecoverRepair(e) \/ CommitRepair(e)
  BY <1>1, <1>2, <1>3, <1>5, <1>7 DEF RecoverRepair, CommitRepair, repairCommitted
<1>8. CASE StartDocumentation(e) \/ AgentReturns(e) \/ DocumentationBlocked(e)
  BY <1>3, <1>8 DEF StartDocumentation, AgentReturns, DocumentationBlocked
<1>9. CASE AskEgress(e) \/ RunPlain(e)
  BY <1>1, <1>4, <1>9, OutcomesTyped DEF AskEgress, RunPlain
<1>10. CASE AgentWrites(e)
  BY <1>10 DEF AgentWrites, agentRuns, at
<1>11. CASE CommitDocumentation(e)
  BY <1>1, <1>2, <1>4, <1>5, <1>11
     DEF CommitDocumentation, documentationCommitted, answerDefault
<1>12. CASE VerifyTargeted(e) \/ VerifyFull(e) \/ VerifyDocumentation(e)
  BY <1>1, <1>4, <1>12 DEF VerifyTargeted, VerifyFull, VerifyDocumentation, answerDefault
<1>13. CASE VerifyFinal(e) \/ Review(e)
  BY <1>1, <1>4, <1>5, <1>13 DEF VerifyFinal, Review
<1>14. CASE Marked(e) \/ Synchronize(e) \/ CheckOut(e) \/ Push(e)
  BY <1>1, <1>4, <1>14 DEF Marked, Synchronize, CheckOut, Push, answerDefault
<1>15. CASE MarkConflict(e) \/ PhaseFails(e) \/ ClaimWorktree(e) \/ Interrupt(e)
  BY <1>3, <1>15 DEF MarkConflict, PhaseFails, ClaimWorktree, Interrupt
<1>16. CASE CheckRemote(e)
  BY <1>1, <1>3, <1>4, <1>16 DEF CheckRemote, answerDefault
<1> QED
  BY <1>6, <1>7, <1>8, <1>9, <1>10, <1>11, <1>12, <1>13, <1>14, <1>15, <1>16
     DEF phaseStep, Agent, Judge

(* Lists are true to the findings, however many engines mark them.         *)
LEMMA ListedInvariant == Spec => []ListedInv
<1>1. Init => ListedInv
  BY DEF Init, ListedInv, Idle
<1>2. TypeInv /\ ListedInv /\ [Next]_vars => ListedInv'
  <2> SUFFICES ASSUME TypeInv, ListedInv, [Next]_vars PROVE ListedInv'
    OBVIOUS
  <2>1. /\ engine \in [Engines -> EngineState] /\ findings \in [Findings -> Finding]
        /\ findings' \in [Findings -> Finding]
        /\ \A e \in Engines : engine[e].listed \in [Findings -> Nat]
    <3>1. TypeInv'
      BY TypeStep
    <3> QED
      BY <3>1 DEF TypeInv, TypeOK, EngineState
  <2>2. \A f \in Findings : /\ findings[f].version \in Nat /\ findings'[f].version \in Nat
                            /\ \/ findings'[f] = findings[f]
                               \/ findings'[f].version > findings[f].version
    BY <2>1, FindingMoves DEF findingMoves, Finding
  <2>3. ASSUME NEW e \in Engines, NEW f \in Findings,
               engine'[e].pc = "marking", engine'[e].listed[f] # 0,
               engine[e].pc = "marking", engine'[e].listed[f] = engine[e].listed[f],
               engine'[e].row = engine[e].row
        PROVE  /\ engine'[e].listed[f] <= findings'[f].version
               /\ engine'[e].listed[f] = findings'[f].version =>
                    findings'[f].status = markedFrom[engine'[e].row.state]
    <3>1. /\ engine[e].listed[f] \in Nat
          /\ engine[e].listed[f] <= findings[f].version
          /\ engine[e].listed[f] = findings[f].version =>
               findings[f].status = markedFrom[engine[e].row.state]
      BY <2>1, <2>3 DEF ListedInv, copy
    <3> QED
      BY <2>2, <2>3, <3>1
  <2>4. ASSUME NEW e \in Engines, engine'[e] = engine[e] \/ engine'[e].pc # "marking"
        PROVE  \A f \in Findings : engine'[e].pc = "marking" /\ engine'[e].listed[f] # 0 =>
                 /\ engine'[e].listed[f] <= findings'[f].version
                 /\ engine'[e].listed[f] = findings'[f].version =>
                      findings'[f].status = markedFrom[engine'[e].row.state]
    BY <2>3, <2>4
  <2>5. ASSUME NEW e \in Engines, others(e), 
               \A f \in Findings : engine'[e].pc = "marking" /\ engine'[e].listed[f] # 0 =>
                 /\ engine'[e].listed[f] <= findings'[f].version
                 /\ engine'[e].listed[f] = findings'[f].version =>
                      findings'[f].status = markedFrom[engine'[e].row.state]
        PROVE  ListedInv'
    BY <2>4, <2>5 DEF others, ListedInv, copy
  <2>6. ASSUME NEW e \in Engines, List(e)
        PROVE  ListedInv'
    <3>1. /\ others(e) /\ engine'[e].listed = listing(e) /\ engine'[e].row = engine[e].row
          /\ findings' = findings
      BY <2>1, <2>6, ListEffect DEF sameRow, List, findingsUnchanged
    <3>2. \A f \in Findings : listing(e)[f] # 0 =>
            /\ findings[f].status = markedFrom[engine[e].row.state]
            /\ listing(e)[f] = findings[f].version
      BY DEF listing, copy
    <3> QED
      BY <2>2, <2>5, <3>1, <3>2
  <2>7. ASSUME NEW e \in Engines, Mark(e)
        PROVE  ListedInv'
    <3>1. PICK g \in Findings : next(e, g) /\ engine' = [engine EXCEPT ![e].listed[g] = 0]
      BY <2>7 DEF Mark
    <3>2. /\ others(e) /\ engine'[e].row = engine[e].row /\ engine[e].pc = "marking"
          /\ engine'[e].listed = [engine[e].listed EXCEPT ![g] = 0]
      BY <2>1, <3>1, MarkEffect DEF sameRow, next
    <3>3. \A f \in Findings : engine'[e].listed[f] # 0 =>
            engine'[e].listed[f] = engine[e].listed[f]
      BY <2>1, <3>2
    <3> QED
      BY <2>3, <2>5, <3>2, <3>3
  <2>8. ASSUME NEW e \in Engines, phaseStep(e), ~List(e), ~Mark(e)
        PROVE  ListedInv'
    <3>1. engine'[e].pc # "marking" /\ others(e)
      BY <2>8, MarkingPlaces, PhaseBusy DEF busy
    <3> QED
      BY <2>4, <2>5, <3>1
  <2>9. ASSUME NEW e \in Engines, Begin(e)
        PROVE  ListedInv'
    <3>1. engine'[e].pc # "marking" /\ others(e)
      BY <2>1, <2>9, BeginEffect DEF TypeInv, TypeOK
    <3> QED
      BY <2>4, <2>5, <3>1
  <2>10. ASSUME NEW e \in Engines, CompletePhase(e) \/ RecordFailure(e) \/ dropped(e)
         PROVE  ListedInv'
    <3>1. engine'[e].pc # "marking" /\ others(e)
      BY <2>10, CompleteEffect, FailureEffect, DroppedEffect DEF Idle
    <3> QED
      BY <2>4, <2>5, <3>1
  <2>11. CASE engine' = engine
    BY <2>4, <2>11 DEF ListedInv, copy
  <2>12. CASE personStep \/ (\E f \in Findings : ActOnFinding(f)) \/ UpstreamMoves
                \/ UNCHANGED vars
    BY <2>11, <2>12, PersonEffect DEF ActOnFinding, UpstreamMoves, vars
  <2> QED
    BY <2>6, <2>7, <2>8, <2>9, <2>10, <2>12, Kinds
<1> QED
  BY <1>1, <1>2, TypeInvariant, PTL DEF Spec

(* A repair that has its commit lists and marks findings, then reports it. *)
repairHeld(x, head, log) ==
  /\ x.commit = head
  /\ x.commit # x.row.result
  /\ log[x.commit] = x.row.version

(* The steps of a repair.  A HEAD that is not the candidate it began with  *)
(* is taken as the repair, so no agent works on it.                        *)
LEMMA RepairPlaces ==
  ASSUME TypeInv, NEW e \in Engines, phaseStep(e), stepFits(e), copy(e).state = "repairing"
  PROVE  /\ engine'[e].pc \in {"listing", "marking"} =>
              \/ repairHeld(engine'[e], tree'.head, commits')
              \/ /\ engine[e].pc \in {"listing", "marking"}
                 /\ engine'[e].commit = engine[e].commit
                 /\ UNCHANGED <<tree, commits>>
         /\ engine[e].pc \notin {"working", "edited"} /\ tree.head # copy(e).result =>
              /\ tree'.head = tree.head /\ UNCHANGED commits
              /\ engine'[e].pc \notin {"working", "edited"}
              /\ engine'[e].pc = "answered" =>
                   /\ engine[e].pc = "marking"
                   /\ engine'[e].outcome = Default
                   /\ engine'[e].commit = engine[e].commit
         /\ ~Push(e)
<1>1. /\ engine \in [Engines -> EngineState] /\ gitTyped
      /\ copy(e).version \in Nat /\ copy(e).result \in Nat /\ copy(e).cycle \in Nat
      /\ copy(e).cycle + 1 \in Nat
      /\ findings \in [Findings -> Finding]
      /\ engine[e].commit \in Nat /\ engine[e].cycle \in Nat
  BY TypesGiven
<1>2. ASSUME ~commitRefused(e, copy(e).result), commitEffect(e, copy(e).result)
      PROVE  /\ committed(e, copy(e).result) = tree'.head /\ tree'.head \in Nat
             /\ tree'.head # copy(e).result => commits'[tree'.head] = copy(e).version
             /\ tree.head # copy(e).result => UNCHANGED <<tree, commits>>
  BY <1>1, <1>2, CommitEffect DEF gitTyped, gitGrows, grown, Commits
<1>3. ASSUME NEW pc \in Pcs, goto(e, pc)
      PROVE  engine'[e].pc = pc
  BY <1>1, <1>3, GotoEffect
<1>4. ASSUME ~commitRefused(e, copy(e).result), commitEffect(e, copy(e).result),
             committed(e, copy(e).result) # copy(e).result,
             gotoWith(e, "listing", committed(e, copy(e).result), copy(e).cycle + 1)
      PROVE  engine'[e].pc = "listing" /\ repairHeld(engine'[e], tree'.head, commits')
  <2>1. /\ engine'[e].pc = "listing" /\ engine'[e].row = engine[e].row
        /\ engine'[e].commit = committed(e, copy(e).result)
    BY <1>1, <1>2, <1>4, GotoWithEffect DEF sameRow, Pcs
  <2> QED
    BY <1>2, <1>4, <2>1 DEF repairHeld, copy
<1> USE AnswersTyped DEF at, Pcs
<1>5. CASE RecoverRepair(e)
  <2>1. /\ ~commitRefused(e, copy(e).result) /\ commitEffect(e, copy(e).result)
        /\ engine[e].pc = "begun"
    BY <1>5 DEF RecoverRepair
  <2>2. CASE committed(e, copy(e).result) # copy(e).result
    <3>1. engine'[e].pc = "listing" /\ repairHeld(engine'[e], tree'.head, commits')
      BY <1>4, <1>5, <2>1, <2>2 DEF RecoverRepair
    <3> QED
      BY <1>2, <2>1, <3>1 DEF Push
  <2>3. CASE committed(e, copy(e).result) = copy(e).result
    <3>1. engine'[e].pc \in {"working", "erring"}
      BY <1>3, <1>5, <2>3 DEF RecoverRepair
    <3>2. tree'.head = copy(e).result
      BY <1>2, <2>1, <2>3
    <3> QED
      BY <1>2, <2>1, <3>1, <3>2 DEF Push
  <2> QED
    BY <2>2, <2>3
<1>6. CASE CommitRepair(e)
  <2>1. /\ ~commitRefused(e, copy(e).result) /\ commitEffect(e, copy(e).result)
        /\ engine[e].pc = "edited"
    BY <1>6 DEF CommitRepair, repairCommitted
  <2>2. CASE committed(e, copy(e).result) # copy(e).result
    BY <1>4, <1>6, <2>1, <2>2 DEF CommitRepair, Push
  <2>3. CASE committed(e, copy(e).result) = copy(e).result
    <3>1. engine'[e].pc = "erring"
      BY <1>3, <1>6, <2>3 DEF CommitRepair
    <3> QED
      BY <2>1, <3>1 DEF Push
  <2> QED
    BY <2>2, <2>3
<1>7. CASE AskEgress(e)
  <2>1. engine'[e].pc = "answered" /\ engine[e].pc \in {"working", "begun"}
    BY <1>1, <1>7, AnswerEffect DEF AskEgress
  <2>2. engine[e].pc = "working"
    BY <1>7 DEF AskEgress, copy
  <2> QED
    BY <2>1, <2>2 DEF Push
<1>8. CASE AgentWrites(e) \/ AgentReturns(e)
  <2>1. engine[e].pc = "working" /\ engine'[e].pc \in {"working", "edited"}
    BY <1>3, <1>8 DEF AgentWrites, AgentReturns, agentRuns
  <2> QED
    BY <2>1 DEF Push
<1>9. CASE List(e)
  <2>1. /\ engine[e].pc = "listing" /\ engine'[e].pc = "marking"
        /\ engine'[e].commit = engine[e].commit /\ UNCHANGED <<tree, commits>>
    BY <1>1, <1>9, ListEffect DEF List, gitUnchanged
  <2> QED
    BY <2>1 DEF Push
<1>10. CASE Mark(e)
  <2>1. /\ engine[e].pc = "marking" /\ engine'[e].pc = "marking"
        /\ engine'[e].commit = engine[e].commit /\ UNCHANGED <<tree, commits>>
    BY <1>1, <1>10, MarkEffect DEF Mark, next, gitUnchanged
  <2> QED
    BY <2>1 DEF Push
<1>11. CASE Marked(e)
  <2>1. /\ engine[e].pc = "marking" /\ UNCHANGED <<tree, commits>>
        /\ answer(e, Default, engine[e].commit, engine[e].cycle)
    BY <1>11 DEF Marked, gitUnchanged
  <2>2. /\ engine'[e].pc = "answered" /\ engine'[e].outcome = Default
        /\ engine'[e].commit = engine[e].commit
    BY <1>1, <2>1, AnswerEffect
  <2> QED
    BY <2>1, <2>2 DEF Push
<1>12. CASE MarkConflict(e) \/ PhaseFails(e) \/ Interrupt(e)
  <2>1. engine'[e].pc = "erring"
    BY <1>3, <1>12 DEF MarkConflict, PhaseFails, Interrupt
  <2>2. tree'.head = tree.head /\ UNCHANGED commits
    BY <1>1, <1>12, WorkerLeaves DEF MarkConflict, PhaseFails, Interrupt, strikes, gitUnchanged
  <2>3. ~Push(e)
    BY DEF Push, stepFits
  <2> QED
    BY <2>1, <2>2, <2>3
<1>13. /\ ~RunPlain(e) /\ ~Synchronize(e) /\ ~ClaimWorktree(e) /\ ~CheckOut(e)
       /\ ~CheckRemote(e) /\ ~Push(e)
  BY DEF RunPlain, PlainPhases, WritingPhases, Synchronize, ClaimWorktree, CheckOut,
     CheckRemote, Push, stepFits, copy
<1>14. /\ ~RecoverImplementation(e) /\ ~StartDocumentation(e) /\ ~CommitImplementation(e)
       /\ ~DocumentationBlocked(e) /\ ~CommitDocumentation(e)
  BY DEF RecoverImplementation, StartDocumentation, CommitImplementation,
     DocumentationBlocked, CommitDocumentation, documentationCommitted, copy
<1>15. /\ ~VerifyTargeted(e) /\ ~VerifyFull(e) /\ ~VerifyDocumentation(e) /\ ~VerifyFinal(e)
       /\ ~Review(e)
  BY DEF VerifyTargeted, VerifyFull, VerifyDocumentation, VerifyFinal, Review, stepFits, copy
<1> QED
  BY <1>5, <1>6, <1>7, <1>8, <1>9, <1>10, <1>11, <1>12, <1>13, <1>14, <1>15
     DEF phaseStep, Agent, Judge

RepairInv ==
  \A e \in Engines :
    engine[e].pc \in {"listing", "marking"} /\ copy(e).state = "repairing" =>
      repairHeld(engine[e], tree.head, commits)

(* While it marks findings nobody else moves HEAD.                         *)
LEMMA RepairInvariant ==
  ASSUME ExclusiveLease
  PROVE  Spec => []RepairInv
<1>1. Init => RepairInv
  BY DEF Init, RepairInv, Idle
<1>2. TypeInv /\ StepInv /\ RepairInv /\ [Next]_vars => RepairInv'
  <2> SUFFICES ASSUME TypeInv, StepInv, RepairInv, [Next]_vars PROVE RepairInv'
    OBVIOUS
  <2>1. \A e, f \in Engines : e = f
    BY ExclusiveLease DEF ExclusiveLease
  <2>2. engine \in [Engines -> EngineState] /\ job \in Row
    BY DEF TypeInv, TypeOK
  <2>3. ASSUME NEW e \in Engines, engine'[e].pc \notin {"listing", "marking"}
        PROVE  RepairInv'
    BY <2>1, <2>3 DEF RepairInv
  <2>4. ASSUME NEW e \in Engines, phaseStep(e)
        PROVE  RepairInv'
    <3>1. engine'[e].row = engine[e].row
      BY <2>4, PhaseBusy DEF busy, sameRow
    <3>2. engine'[e].pc \in {"listing", "marking"} /\ copy(e).state = "repairing" =>
            repairHeld(engine'[e], tree'.head, commits')
      BY <2>4, <3>1, RepairPlaces DEF StepInv, RepairInv, repairHeld
    <3> QED
      BY <2>1, <3>1, <3>2 DEF RepairInv, copy
  <2>5. ASSUME NEW e \in Engines, Begin(e)
        PROVE  RepairInv'
    <3>1. engine'[e].pc = "begun"
      BY <2>2, <2>5, BeginEffect
    <3> QED
      BY <2>3, <3>1
  <2>6. ASSUME NEW e \in Engines, CompletePhase(e) \/ RecordFailure(e) \/ dropped(e)
        PROVE  RepairInv'
    <3>1. engine'[e].pc = "idle"
      BY <2>6, CompleteEffect, FailureEffect, DroppedEffect DEF Idle
    <3> QED
      BY <2>3, <3>1
  <2>7. CASE UNCHANGED <<engine, tree, commits>>
    BY <2>7 DEF RepairInv, copy
  <2>8. CASE personStep \/ (\E f \in Findings : ActOnFinding(f)) \/ UpstreamMoves
               \/ UNCHANGED vars
    BY <2>7, <2>8, PersonEffect DEF ActOnFinding, UpstreamMoves, vars, gitUnchanged
  <2> QED
    BY <2>4, <2>5, <2>6, <2>8, Kinds
<1> QED
  BY <1>1, <1>2, TypeInvariant, StepInvariant, PTL DEF Spec

(* A finding that is marked fixed, of a commit that has not passed.        *)
fixWaits(f) == findings[f].status = "fixed" /\ fix[f] \notin verified

(* What row r waits for: the final verification of that very commit, the   *)
(* repair that made it, which a crash or an error repeats, or nothing any  *)
(* more, as a job that is retried does not get past its approved contract. *)
fixAwaited(r, f) ==
  \/ r.state = "final_verification" /\ fix[f] = r.result
  \/ /\ r.state = "repairing"
     /\ fix[f] = tree.head /\ fix[f] # r.result /\ commits[fix[f]] = r.version
  \/ r.state \in EarlyStates /\ contract

(* A repair whose commit is marked works on nothing else.                  *)
repairEnds(e, f) ==
  copy(e).state = "repairing" =>
    /\ engine[e].pc \notin {"working", "edited"}
    /\ engine[e].pc = "answered" => engine[e].outcome = Default /\ engine[e].commit = fix[f]

FixInv ==
  /\ FixesVerified
  /\ \A f \in Findings : fixWaits(f) =>
       /\ (\A e \in Engines : engine[e].pc = "idle") => fixAwaited(job, f)
       /\ \A e \in Engines : engine[e].pc # "idle" =>
            fixAwaited(copy(e), f) /\ repairEnds(e, f)

(* A finding starts to wait, or changes what it waits for, when a repair   *)
(* marks it.                                                               *)
LEMMA WaitingBegins ==
  ASSUME TypeInv, StepInv, [Next]_vars, NEW f \in Findings, fixWaits(f)'
  PROVE  \/ fixWaits(f) /\ fix'[f] = fix[f]
         \/ \E e \in Engines : Mark(e) /\ markedBy(e, f) /\ copy(e).state = "repairing"
<1>1. verified \subseteq verified'
  BY VerifiedGrows
<1>2. findings'[f].status = "fixed" /\ fix'[f] \notin verified
  BY <1>1 DEF fixWaits
<1>3. CASE findings'[f] = findings[f] /\ fix'[f] = fix[f]
  BY <1>2, <1>3 DEF fixWaits
<1>4. CASE /\ fix'[f] = fix[f]
           /\ findings'[f].status \in
                {findings[f].status, "open", "disputed", "accepted", "human_waived"}
  BY <1>2, <1>4 DEF fixWaits
<1>5. ASSUME NEW e \in Engines, Mark(e), markedBy(e, f)
      PROVE  copy(e).state = "repairing"
  <2>1. engine[e].pc = "marking" /\ markedTo[copy(e).state] = "fixed"
    BY <1>2, <1>5 DEF markedBy, next
  <2>2. copy(e).state \in {"repairing", "final_verification", "qc_review"}
    BY <2>1 DEF StepInv, stepFits, marks
  <2> QED
    BY <2>1, <2>2 DEF markedTo
<1> QED
  BY <1>3, <1>4, <1>5, FindingMoves DEF findingMoves

(* What counts as verified has passed: final verification moves what       *)
(* waited for it, and QC what counted as verified before.                  *)
LEMMA FixesStay ==
  ASSUME ExclusiveLease, TypeInv, StepInv, ListedInv, FixInv, [Next]_vars
  PROVE  FixesVerified'
<1> SUFFICES ASSUME NEW f \in Findings, findings'[f].status \in {"verified", "closed"}
             PROVE  fix'[f] \in verified'
  BY DEF FixesVerified
<1>1. verified \subseteq verified'
  BY VerifiedGrows
<1>2. CASE /\ fix'[f] = fix[f]
           /\ findings'[f].status \in
                {findings[f].status, "open", "disputed", "accepted", "human_waived"}
  BY <1>1, <1>2 DEF FixInv, FixesVerified
<1>3. ASSUME NEW e \in Engines, Mark(e), markedBy(e, f)
      PROVE  fix'[f] \in verified'
  <2>1. /\ engine[e].pc = "marking" /\ marks(e) /\ engine[e].listed[f] # 0
        /\ engine[e].listed[f] = findings[f].version
        /\ findings'[f].status = markedTo[copy(e).state]
    BY <1>3 DEF markedBy, next, markable, listed, StepInv, stepFits
  <2>2. findings[f].status = markedFrom[copy(e).state]
    BY <2>1 DEF ListedInv
  <2>3. copy(e).state \in {"final_verification", "qc_review"}
    BY <2>1 DEF marks, markedTo
  <2>4. fix'[f] = fix[f]
    BY <1>3, <2>3 DEF markedBy
  <2>5. CASE copy(e).state = "final_verification"
    <3>1. findings[f].status = "fixed" /\ copy(e).result \in verified
      BY <2>1, <2>2, <2>5 DEF markedFrom, marks
    <3>2. fixWaits(f) => fix[f] = copy(e).result
      BY <2>1, <2>5 DEF FixInv, fixAwaited, EarlyStates
    <3> QED
      BY <1>1, <2>4, <3>1, <3>2 DEF fixWaits
  <2>6. CASE copy(e).state = "qc_review"
    BY <1>1, <2>2, <2>4, <2>6 DEF FixInv, FixesVerified, markedFrom
  <2> QED
    BY <2>3, <2>5, <2>6
<1>4. CASE findings'[f] = findings[f] /\ fix'[f] = fix[f]
  BY <1>2, <1>4
<1> QED
  BY <1>2, <1>3, <1>4, FindingMoves DEF findingMoves

(* FixInv holds as long as there is one engine.                            *)
LEMMA FixInvariant ==
  ASSUME ExclusiveLease
  PROVE  Spec => []FixInv
<1>1. Init => FixInv
  BY DEF Init, FixInv, FixesVerified, fixWaits, Unseen
<1>2. TypeInv /\ StepInv /\ ContractInv /\ AloneInv /\ ListedInv /\ RepairInv /\ FixInv
        /\ [Next]_vars => FixInv'
  <2> SUFFICES ASSUME TypeInv, StepInv, ContractInv, AloneInv, ListedInv, RepairInv, FixInv,
                      [Next]_vars
               PROVE  FixInv'
    OBVIOUS
  <2>1. \A e, f \in Engines : e = f
    BY ExclusiveLease DEF ExclusiveLease
  <2>2. FixesVerified'
    BY FixesStay
  <2>3. job \in Row /\ engine \in [Engines -> EngineState]
    BY DEF TypeInv, TypeOK
  <2>4. \A f \in Findings : /\ fixAwaited(job, f) => contract
                            /\ \A e \in Engines : fixAwaited(copy(e), f) => contract
    BY DEF ContractInv, fixAwaited, EarlyStates
  <2>5. ASSUME NEW f \in Findings, fixWaits(f)',
               NEW e \in Engines, Mark(e), markedBy(e, f), copy(e).state = "repairing"
        PROVE  /\ (\A g \in Engines : engine'[g].pc = "idle") => fixAwaited(job, f)'
               /\ \A g \in Engines : engine'[g].pc # "idle" =>
                    fixAwaited(copy(g), f)' /\ repairEnds(g, f)'
    <3>1. PICK g \in Findings : engine' = [engine EXCEPT ![e].listed[g] = 0]
      BY <2>5 DEF Mark
    <3>2. /\ engine[e].pc = "marking" /\ engine'[e].pc = "marking"
          /\ engine'[e].row = engine[e].row /\ UNCHANGED <<tree, commits>>
          /\ fix'[f] = engine[e].commit
      BY <2>3, <2>5, <3>1, MarkEffect DEF sameRow, markedBy, next, Mark, gitUnchanged
    <3>3. repairHeld(engine[e], tree.head, commits)
      BY <2>5, <3>2 DEF RepairInv
    <3> QED
      BY <2>1, <2>5, <3>2, <3>3 DEF repairHeld, fixAwaited, repairEnds, copy
  <2>6. ASSUME NEW f \in Findings, fixWaits(f), fix'[f] = fix[f]
        PROVE  /\ (\A g \in Engines : engine'[g].pc = "idle") => fixAwaited(job, f)'
               /\ \A g \in Engines : engine'[g].pc # "idle" =>
                    fixAwaited(copy(g), f)' /\ repairEnds(g, f)'
    <3>1. /\ (\A e \in Engines : engine[e].pc = "idle") => fixAwaited(job, f) /\ contract
          /\ \A e \in Engines : engine[e].pc # "idle" =>
               fixAwaited(copy(e), f) /\ repairEnds(e, f) /\ contract
      BY <2>4, <2>6 DEF FixInv
    <3> USE DEF rowUnchanged, gitUnchanged
    <3>2. ASSUME NEW e \in Engines, Begin(e)
          PROVE  engine'[e].pc # "idle" /\ fixAwaited(copy(e), f)' /\ repairEnds(e, f)'
      <4>1. /\ engine[e].pc = "idle" /\ engine'[e].pc = "begun" /\ engine'[e].row = job
            /\ UNCHANGED <<job, contract, tree, commits>>
        BY <2>3, <3>2, BeginEffect DEF Begin
      <4>2. fixAwaited(job, f)
        BY <2>1, <3>1, <4>1
      <4> QED
        BY <2>6, <4>1, <4>2 DEF fixAwaited, repairEnds, copy
    <3>3. ASSUME NEW e \in Engines, phaseStep(e)
          PROVE  engine'[e].pc # "idle" /\ fixAwaited(copy(e), f)' /\ repairEnds(e, f)'
      <4>1. /\ engine[e].pc # "idle" /\ engine'[e].pc # "idle" /\ contract' = contract
            /\ engine'[e].row = engine[e].row
            /\ fixAwaited(copy(e), f) /\ repairEnds(e, f)
        BY <3>1, <3>3, PhaseBusy DEF busy, sameRow
      <4>2. CASE copy(e).state = "repairing"
        <5>1. /\ fix[f] = tree.head /\ fix[f] # copy(e).result
              /\ commits[fix[f]] = copy(e).version
              /\ engine[e].pc \notin {"working", "edited"}
          BY <4>1, <4>2 DEF fixAwaited, repairEnds, EarlyStates, copy
        <5>2. /\ tree'.head = tree.head /\ UNCHANGED commits
              /\ engine'[e].pc \notin {"working", "edited"}
              /\ engine'[e].pc = "answered" =>
                   /\ engine[e].pc = "marking"
                   /\ engine'[e].outcome = Default
                   /\ engine'[e].commit = engine[e].commit
          BY <3>3, <4>2, <5>1, RepairPlaces DEF StepInv
        <5>3. engine[e].pc = "marking" => engine[e].commit = fix[f]
          BY <4>2, <5>1 DEF RepairInv, repairHeld
        <5> QED
          BY <2>6, <4>1, <4>2, <5>1, <5>2, <5>3 DEF fixAwaited, repairEnds, copy
      <4>3. CASE copy(e).state # "repairing"
        BY <2>6, <4>1, <4>3 DEF fixAwaited, repairEnds, copy
      <4> QED
        BY <4>2, <4>3
    <3>4. ASSUME NEW e \in Engines, CompletePhase(e)
          PROVE  engine'[e].pc = "idle" /\ fixAwaited(job, f)'
      <4>1. /\ answers(e) /\ copy(e) = job /\ engine[e].pc = "answered"
            /\ engine'[e].pc = "idle" /\ job'.state = route(e) /\ contract' = contract
            /\ job.state # "syncing" => job'.result = engine[e].commit
        BY <3>4, CompleteEffect DEF StepInv, stepFits, copyFits, Idle
      <4>2. fixAwaited(job, f) /\ repairEnds(e, f) /\ contract
        BY <3>1, <4>1
      <4>3. CASE job.state \in EarlyStates
        <5>1. job'.state \in EarlyStates
          BY <4>1, <4>3, EarlyRoutes DEF answers, route
        <5> QED
          BY <4>1, <4>2, <5>1 DEF fixAwaited
      <4>4. CASE job.state = "final_verification" /\ fix[f] = job.result
        <5>1. job.result \in verified
          BY <4>1, <4>4 DEF answers
        <5> QED
          BY <2>6, <4>4, <5>1 DEF fixWaits
      <4>5. CASE job.state = "repairing"
        <5>1. engine[e].outcome = Default /\ engine[e].commit = fix[f]
          BY <4>1, <4>2, <4>5 DEF repairEnds, copy
        <5>2. job'.state = "final_verification" /\ job'.result = fix[f]
          BY <4>1, <4>5, <5>1 DEF route, nextState, Default, defaultNext
        <5> QED
          BY <2>6, <4>1, <5>2 DEF fixAwaited
      <4> QED
        BY <4>1, <4>2, <4>3, <4>4, <4>5 DEF fixAwaited
    <3>5. ASSUME NEW e \in Engines, RecordFailure(e)
          PROVE  engine'[e].pc = "idle" /\ fixAwaited(job, f)'
      <4>1. /\ engine[e].pc # "idle" /\ engine'[e].pc = "idle" /\ job'.state = "failed"
            /\ contract' = contract
        BY <3>5, FailureEffect DEF rowMoves, Idle
      <4> QED
        BY <3>1, <4>1 DEF fixAwaited, EarlyStates
    <3>6. ASSUME NEW e \in Engines, dropped(e)
          PROVE  engine'[e].pc = "idle" /\ fixAwaited(job, f)'
      <4>1. /\ engine[e].pc # "idle" /\ engine'[e].pc = "idle"
            /\ UNCHANGED <<job, contract, tree, commits>>
        BY <3>6, DroppedEffect DEF Idle
      <4>2. copy(e) = job \/ job.state \in EarlyStates
        BY <4>1 DEF AloneInv, EarlyStates
      <4> QED
        BY <2>6, <3>1, <4>1, <4>2 DEF fixAwaited
    <3>7. CASE personStep
      <4>1. UNCHANGED <<engine, tree, commits>>
        BY <3>7, PersonEffect
      <4>2. (\A g \in Engines : engine[g].pc = "idle") => fixAwaited(job, f)'
        BY <3>1, <3>7, PersonRoutes DEF fixAwaited, EarlyStates
      <4>3. contract => contract'
        BY <3>7, PersonRoutes
      <4> QED
        BY <2>6, <3>1, <4>1, <4>2, <4>3 DEF fixAwaited, repairEnds, copy
    <3>8. CASE (\E g \in Findings : ActOnFinding(g)) \/ UpstreamMoves \/ UNCHANGED vars
      <4>1. UNCHANGED <<engine, job, contract, tree, commits>>
        BY <3>8 DEF ActOnFinding, UpstreamMoves, vars
      <4> QED
        BY <2>6, <3>1, <4>1 DEF fixAwaited, repairEnds, copy
    <3> QED
      BY <2>1, <3>2, <3>3, <3>4, <3>5, <3>6, <3>7, <3>8, Kinds
  <2>7. \A f \in Findings : fixWaits(f)' =>
          /\ (\A g \in Engines : engine'[g].pc = "idle") => fixAwaited(job, f)'
          /\ \A g \in Engines : engine'[g].pc # "idle" =>
               fixAwaited(copy(g), f)' /\ repairEnds(g, f)'
    BY <2>5, <2>6, WaitingBegins
  <2> QED
    BY <2>2, <2>7 DEF FixInv
<1> QED
  BY <1>1, <1>2, TypeInvariant, StepInvariant, ContractInvariant, AloneInvariant,
     ListedInvariant, RepairInvariant, PTL DEF Spec

(* With an exclusive lease a finding counts as verified, or closed after   *)
(* that, only if the full suite passed for the commit at which it was      *)
(* marked fixed, whatever crashes, retries and people come in between.     *)
THEOREM FixesForAll ==
  ASSUME ExclusiveLease
  PROVE  Spec => []FixesVerified
<1>1. FixInv => FixesVerified
  BY DEF FixInv
<1> QED
  BY <1>1, FixInvariant, PTL

=============================================================================
