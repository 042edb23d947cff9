------------------------- MODULE ProgressingProofs -------------------------
(***************************************************************************)
(* Proofs about what the controller's own loops bring to an end: the runs   *)
(* of a job's workers (Runner), what a project remembers and its index      *)
(* (ProjectMemory), the poll of pull requests (PullPolling), and recurring  *)
(* tasks (Automation).                                                     *)
(***************************************************************************)
EXTENDS Runner, ProjectMemory, PullPolling, Automation, FiniteSetTheorems, SequenceTheorems,
        WellFoundedInduction, TLAPS

-----------------------------------------------------------------------------
(* Runs of workers: what a phase is told was produced for it, for any packets *)
(* and any number of versions, crashes, restarts and failed calls.          *)

Container == [state : {"absent", "created", "running", "exited"}, code : {0, 1},
              born : 0..MaxVersion]

Reports == {"none", "partial", "passed", "failed"}

(* The run of the phase is one of the runs, under the key of its packet.        *)
LEMMA ThisRunIsOne ==
  ASSUME RunnerTypeOK
  PROVE  /\ ThisRun \in WorkerRuns /\ ThisRun.kind = phase.kind
         /\ phase.kind # "dependencies" =>
              /\ phaseKey(phase) \in Keys
              /\ ThisRun.packet = phaseKey(phase) /\ ThisRun.packet.version = phase.version
<1>1. phase.version \in 1..MaxVersion /\ phase.kind \in WorkerKinds
  BY DEF RunnerTypeOK
<1>2. phaseKey(phase).version = phase.version /\ phaseKey(phase).kind = phase.kind
  BY DEF phaseKey
<1>3. ThisRun.kind = phase.kind
  BY DEF ThisRun, runIDFor
<1>4. CASE phase.kind = "dependencies"
  BY <1>3, <1>4 DEF ThisRun, runIDFor, WorkerRuns
<1>5. CASE phase.kind # "dependencies"
  <2>1. phaseKey(phase) = phaseKey([version |-> phase.version, kind |-> phase.kind])
    BY DEF phaseKey
  <2>2. phaseKey(phase) \in Keys
    BY <1>1, <1>5, <2>1 DEF Keys
  <2>3. ThisRun = [kind |-> phase.kind, packet |-> phaseKey(phase)]
    BY <1>5 DEF ThisRun, runIDFor
  <2>4. ThisRun = [kind |-> phaseKey(phase).kind, packet |-> phaseKey(phase)]
    BY <1>2, <2>3
  <2>5. ThisRun \in WorkerRuns
    BY <2>2, <2>4 DEF WorkerRuns
  <2> QED
    BY <1>2, <1>3, <2>2, <2>3, <2>5
<1> QED
  BY <1>4, <1>5

(* A container that is started, or stopped.                                     *)
LEMMA StartedIsContainer ==
  ASSUME NEW c \in Container, phase.version \in 1..MaxVersion
  PROVE  /\ started(c) \in Container /\ started(c).state # "absent"
         /\ c.state = "exited" => started(c) = c
         /\ started(c).born = IF c.state = "absent" THEN phase.version ELSE c.born
BY RunnerAssumption DEF started, Container

LEMMA StoppedIsContainer ==
  ASSUME NEW c \in Container
  PROVE  /\ stopped(c) \in Container /\ stopped(c).born = c.born
         /\ stopped(c).state = "absent" <=> c.state = "absent"
         /\ c.state = "exited" => stopped(c) = c
BY DEF stopped, Container

(* How containers go on: each is born in the version of the phase that starts   *)
(* it, and stays as it is when it has exited.                                   *)
ContainersGoOn ==
  /\ containers' \in [WorkerRuns -> Container]
  /\ \A r \in WorkerRuns :
       /\ containers'[r].state = "absent" => containers[r].state = "absent"
       /\ containers[r].state = "exited" => containers'[r] = containers[r]
       /\ containers'[r].state # "absent" =>
            containers'[r].born =
              IF containers[r].state = "absent" /\ r = ThisRun THEN phase.version
              ELSE containers[r].born
       /\ containers[r].state = "absent" /\ containers'[r].state # "absent" => r = ThisRun

LEMMA OneContainerGoesOn ==
  ASSUME RunnerTypeOK, NEW r \in WorkerRuns, NEW d,
         containers' = [containers EXCEPT ![r] = d], d \in Container,
         d.state = "absent" => containers[r].state = "absent",
         containers[r].state = "exited" => d = containers[r],
         d.born = IF containers[r].state = "absent" /\ r = ThisRun THEN phase.version
                  ELSE containers[r].born,
         containers[r].state = "absent" /\ d.state # "absent" => r = ThisRun
  PROVE  ContainersGoOn
<1>1. containers \in [WorkerRuns -> Container]
  BY DEF RunnerTypeOK, Container
<1>2. containers' \in [WorkerRuns -> Container]
  BY <1>1
<1>3. \A x \in WorkerRuns : containers'[x] = IF x = r THEN d ELSE containers[x]
  BY <1>1
<1> QED
  BY <1>2, <1>3 DEF ContainersGoOn

LEMMA NoContainerMoves ==
  ASSUME RunnerTypeOK, UNCHANGED containers
  PROVE  ContainersGoOn
BY DEF RunnerTypeOK, Container, ContainersGoOn

(* What workers publish: only while they run, and only a verification says that *)
(* something failed.                                                            *)
ReportsGoOn ==
  /\ reports' \in [WorkerRuns -> Reports]
  /\ \A r \in WorkerRuns : reports'[r] # reports[r] =>
       containers[r].state = "running" /\ (reports'[r] = "failed" => r.kind = "verification")

LEMMA PublishedGoesOn ==
  ASSUME RunnerTypeOK, NEW r \in WorkerRuns, NEW said \in Reports, publishArtifact(r, said),
         Working(r), said = "failed" => r.kind = "verification"
  PROVE  ReportsGoOn /\ UNCHANGED containers
BY DEF RunnerTypeOK, Reports, publishArtifact, ReportsGoOn, Working

LEMMA ExitGoesOn ==
  ASSUME RunnerTypeOK, NEW r \in WorkerRuns, NEW code \in {0, 1}, Exit(r, code), Working(r)
  PROVE  ReportsGoOn /\ ContainersGoOn
<1> DEFINE c == containers[r]
           d == [c EXCEPT !.state = "exited", !.code = code]
<1>1. containers' = [containers EXCEPT ![r] = d]
  BY DEF Exit
<1>2. c \in Container
  BY DEF RunnerTypeOK, Container
<1>3. d \in Container /\ d.state = "exited" /\ d.born = c.born
  BY <1>2 DEF Container
<1>4. c.state = "running"
  BY DEF Working
<1> HIDE DEF d
<1>5. ContainersGoOn
  BY <1>1, <1>3, <1>4, OneContainerGoesOn
<1>6. ReportsGoOn
  BY DEF RunnerTypeOK, Reports, ReportsGoOn, Exit
<1> QED
  BY <1>5, <1>6

LEMMA WorkerGoesOn ==
  ASSUME RunnerTypeOK, NEW r \in WorkerRuns, RunWorker(r)
  PROVE  ReportsGoOn /\ ContainersGoOn
<1>1. Working(r)
  BY DEF RunWorker
<1>2. \/ \E code \in {0, 1} : Exit(r, code)
      \/ \E said \in Reports : publishArtifact(r, said) /\ (said = "failed" => r.kind = "verification")
  <2>1. CASE r.kind = "dependencies"
    BY <2>1 DEF RunWorker, runDependencies
  <2>2. CASE r.kind = "verification"
    BY <2>2 DEF RunWorker, runVerification, Reports
  <2>3. CASE r.kind # "dependencies" /\ r.kind # "verification"
    BY <2>3 DEF RunWorker, runAgent, Reports
  <2> QED
    BY <2>1, <2>2, <2>3
<1>3. CASE \E code \in {0, 1} : Exit(r, code)
  BY <1>1, <1>3, ExitGoesOn
<1>4. CASE \E said \in Reports : publishArtifact(r, said) /\ (said = "failed" => r.kind = "verification")
  BY <1>1, <1>4, PublishedGoesOn, NoContainerMoves
<1> QED
  BY <1>2, <1>3, <1>4

(* A start, a failed one, a request to stop, or a monitor: one container moves. *)
LEMMA StartGoesOn ==
  ASSUME RunnerTypeOK, containers' = [containers EXCEPT ![ThisRun] = started(@)]
  PROVE  ContainersGoOn /\ containers'[ThisRun].state # "absent"
<1> DEFINE c == containers[ThisRun]
           d == started(c)
<1>1. ThisRun \in WorkerRuns /\ c \in Container /\ phase.version \in 1..MaxVersion
  BY ThisRunIsOne DEF RunnerTypeOK, Container
<1>2. /\ d \in Container /\ d.state # "absent"
      /\ c.state = "exited" => d = c
      /\ d.born = IF c.state = "absent" THEN phase.version ELSE c.born
  BY <1>1, StartedIsContainer
<1>3. containers' = [containers EXCEPT ![ThisRun] = d]
  OBVIOUS
<1> HIDE DEF d
<1>4. containers'[ThisRun] = d
  BY <1>1, <1>3 DEF RunnerTypeOK
<1>5. ContainersGoOn
  BY <1>1, <1>2, <1>3, OneContainerGoesOn
<1> QED
  BY <1>2, <1>4, <1>5

LEMMA StopGoesOn ==
  ASSUME RunnerTypeOK, NEW r \in WorkerRuns, containers' = [containers EXCEPT ![r] = stopped(@)]
  PROVE  ContainersGoOn
<1> DEFINE c == containers[r]
           d == stopped(c)
<1>1. c \in Container
  BY DEF RunnerTypeOK, Container
<1>2. /\ d \in Container /\ (d.state = "absent" <=> c.state = "absent") /\ d.born = c.born
      /\ c.state = "exited" => d = c
  BY <1>1, StoppedIsContainer
<1>3. containers' = [containers EXCEPT ![r] = d]
  OBVIOUS
<1> HIDE DEF d
<1>4. c.state # "absent" \/ d = c \/ d.state = "absent"
  BY <1>2
<1>5. CASE c.state # "absent"
  BY <1>2, <1>3, <1>5, OneContainerGoesOn
<1>6. CASE c.state = "absent"
  <2>1. d = c
    BY <1>6 DEF d, stopped
  <2>2. UNCHANGED containers
    BY <1>3, <2>1 DEF RunnerTypeOK
  <2> QED
    BY <2>2, NoContainerMoves
<1> QED
  BY <1>5, <1>6

LEMMA CreatedGoesOn ==
  ASSUME RunnerTypeOK, containers[ThisRun].state = "absent",
         containers' = [containers EXCEPT ![ThisRun] =
                          [state |-> "created", code |-> 0, born |-> phase.version]]
  PROVE  ContainersGoOn
<1> DEFINE d == [state |-> "created", code |-> 0, born |-> phase.version]
<1>1. ThisRun \in WorkerRuns /\ phase.version \in 1..MaxVersion
  BY ThisRunIsOne DEF RunnerTypeOK
<1>2. d \in Container /\ d.born = phase.version /\ d.state # "absent"
  BY <1>1, RunnerAssumption DEF Container
<1> HIDE DEF d
<1>3. containers' = [containers EXCEPT ![ThisRun] = d]
  BY DEF d
<1> QED
  BY <1>1, <1>2, <1>3, OneContainerGoesOn

LEMMA ContainersStep ==
  ASSUME RunnerTypeOK, [RunnerNext]_runnerVars
  PROVE  ContainersGoOn /\ ReportsGoOn
<1>1. ASSUME UNCHANGED reports PROVE ReportsGoOn
  BY <1>1 DEF RunnerTypeOK, ReportsGoOn, Reports
<1>2. CASE \/ \E content \in Packets : PutPacket(content)
           \/ PrepareDependencies \/ DenyRun \/ Inspect \/ InspectFails \/ CollectArtifact
           \/ RetryPhase \/ ControllerCrash \/ RunnerdRestart \/ UNCHANGED runnerVars
  <2>1. UNCHANGED <<containers, reports>>
    BY <1>2 DEF PutPacket, PrepareDependencies, DenyRun, Inspect, InspectFails, CollectArtifact,
                RetryPhase, ControllerCrash, RunnerdRestart, runnerVars
  <2> QED
    BY <1>1, <2>1, NoContainerMoves
<1>3. CASE StartRun
  BY <1>1, <1>3, StartGoesOn DEF StartRun
<1>4. CASE StartFails
  BY <1>1, <1>4, StartGoesOn, CreatedGoesOn, NoContainerMoves DEF StartFails
<1>5. CASE StopOnCancel
  BY <1>1, <1>5, StopGoesOn, ThisRunIsOne, NoContainerMoves DEF StopOnCancel
<1>6. ASSUME NEW r \in WorkerRuns, MonitorRun(r) PROVE ContainersGoOn /\ ReportsGoOn
  BY <1>1, <1>6, StopGoesOn DEF MonitorRun
<1>7. ASSUME NEW r \in WorkerRuns, RunWorker(r) PROVE ContainersGoOn /\ ReportsGoOn
  BY <1>7, WorkerGoesOn
<1> QED
  BY <1>2, <1>3, <1>4, <1>5, <1>6, <1>7 DEF RunnerNext

-----------------------------------------------------------------------------
(* Types *)

LEMMA NextKindsAreKinds ==
  ASSUME NEW passed \in BOOLEAN, phase.kind \in WorkerKinds, NEW kind \in nextKinds(passed)
  PROVE  kind \in WorkerKinds
BY DEF nextKinds, WorkerKinds

PhaseType == [version : 1..MaxVersion, kind : WorkerKinds, status : {"running", "failed", "done"}]

BackendType == [step : {"idle", "start", "wait", "collect"}, packet : Packets \cup {NoPacket}]

LEMMA FailPhaseTypes ==
  ASSUME RunnerTypeOK, FailPhase
  PROVE  phase' \in PhaseType /\ backend' \in BackendType
BY DEF RunnerTypeOK, FailPhase, Resting, PhaseType, BackendType

LEMMA PhaseTypeStep ==
  ASSUME RunnerTypeOK, [RunnerNext]_runnerVars
  PROVE  phase' \in PhaseType /\ backend' \in BackendType
<1> USE DEF PhaseType, BackendType
<1>1. phase \in PhaseType /\ backend \in BackendType
  BY DEF RunnerTypeOK
<1>2. ASSUME NEW content \in Packets, PutPacket(content)
      PROVE  phase' \in PhaseType /\ backend' \in BackendType
  <2>1. CASE FailPhase
    BY <2>1, FailPhaseTypes
  <2>2. CASE StageInputs(content) /\ UNCHANGED phase
    BY <1>1, <2>2 DEF StageInputs
  <2> QED
    BY <1>2, <2>1, <2>2 DEF PutPacket
<1>3. CASE PrepareDependencies
  BY <1>1, <1>3 DEF PrepareDependencies
<1>4. CASE DenyRun \/ StartFails \/ InspectFails \/ StopOnCancel
  BY <1>4, FailPhaseTypes DEF DenyRun, StartFails, InspectFails, StopOnCancel
<1>5. CASE StartRun \/ Inspect
  BY <1>1, <1>5 DEF StartRun, Inspect
<1>6. CASE CollectArtifact
  <2>1. CASE FailPhase
    BY <2>1, FailPhaseTypes
  <2>2. ASSUME NEW passed \in verdicts(ThisRun), backend' = Resting,
               \/ phase' = [phase EXCEPT !.status = "done"]
               \/ /\ phase.version < MaxVersion
                  /\ \E kind \in nextKinds(passed) :
                       phase' = [version |-> phase.version + 1, kind |-> kind, status |-> "running"]
        PROVE  phase' \in PhaseType /\ backend' \in BackendType
    <3>1. backend' \in BackendType
      BY <2>2 DEF Resting
    <3>2. CASE phase' = [phase EXCEPT !.status = "done"]
      BY <1>1, <3>1, <3>2
    <3>3. ASSUME phase.version < MaxVersion, NEW kind \in nextKinds(passed),
                 phase' = [version |-> phase.version + 1, kind |-> kind, status |-> "running"]
          PROVE  phase' \in PhaseType
      <4>1. kind \in WorkerKinds
        BY <1>1, <2>2, NextKindsAreKinds DEF verdicts
      <4>2. phase.version + 1 \in 1..MaxVersion
        BY <1>1, <3>3, RunnerAssumption
      <4> QED
        BY <3>3, <4>1, <4>2
    <3> QED
      BY <2>2, <3>1, <3>2, <3>3
  <2> QED
    BY <1>6, <2>1, <2>2 DEF CollectArtifact
<1>7. CASE RetryPhase
  <2>1. phase.version + 1 \in 1..MaxVersion
    BY <1>1, <1>7, RunnerAssumption DEF RetryPhase
  <2> QED
    BY <1>1, <1>7, <2>1 DEF RetryPhase, WorkerKinds
<1>8. CASE ControllerCrash
  BY <1>1, <1>8 DEF ControllerCrash, Resting
<1>9. CASE RunnerdRestart \/ UNCHANGED runnerVars
  BY <1>1, <1>9 DEF RunnerdRestart, runnerVars
<1>10. ASSUME NEW r \in WorkerRuns, MonitorRun(r) \/ RunWorker(r)
       PROVE  phase' \in PhaseType /\ backend' \in BackendType
  BY <1>1, <1>10 DEF MonitorRun, RunWorker
<1> QED
  BY <1>2, <1>3, <1>4, <1>5, <1>6, <1>7, <1>8, <1>9, <1>10 DEF RunnerNext

(* A packet that is indexed stays under its key.                                *)
IndexedStays ==
  /\ indexed' \in [Keys -> Packets \cup {NoPacket}]
  /\ \A k \in Keys : indexed[k] # NoPacket => indexed'[k] = indexed[k]

LEMMA IndexedStep ==
  ASSUME RunnerTypeOK, [RunnerNext]_runnerVars
  PROVE  IndexedStays
<1>1. ASSUME UNCHANGED indexed PROVE IndexedStays
  BY <1>1 DEF RunnerTypeOK, IndexedStays
<1>2. ASSUME NEW content \in Packets, PutPacket(content) PROVE IndexedStays
  BY <1>1, <1>2, ThisRunIsOne DEF PutPacket, IndexArtifact, RunnerTypeOK, IndexedStays
<1>3. CASE \/ PrepareDependencies \/ StartRun \/ DenyRun \/ StartFails \/ Inspect \/ InspectFails
           \/ StopOnCancel \/ CollectArtifact \/ RetryPhase \/ ControllerCrash \/ RunnerdRestart
           \/ UNCHANGED runnerVars \/ \E r \in WorkerRuns : MonitorRun(r) \/ RunWorker(r)
  BY <1>1, <1>3 DEF PrepareDependencies, StartRun, DenyRun, StartFails, Inspect, InspectFails,
                    StopOnCancel, CollectArtifact, RetryPhase, ControllerCrash, RunnerdRestart,
                    runnerVars, MonitorRun, RunWorker
<1> QED
  BY <1>2, <1>3 DEF RunnerNext

LEMMA RestTypeStep ==
  ASSUME RunnerTypeOK, [RunnerNext]_runnerVars
  PROVE  /\ monitors' \subseteq WorkerRuns /\ runFaults' \in 0..MaxRunFaults
         /\ accepted'.packet \in Packets \cup {NoPacket}
<1>1. monitors' \subseteq WorkerRuns
  BY ThisRunIsOne
     DEF RunnerTypeOK, RunnerNext, runnerVars, PutPacket, PrepareDependencies, StartRun, DenyRun,
         StartFails, Inspect, watched, InspectFails, StopOnCancel, CollectArtifact, RetryPhase,
         ControllerCrash, RunnerdRestart, MonitorRun, RunWorker
<1>2. runFaults' \in 0..MaxRunFaults
  BY RunnerAssumption
     DEF RunnerTypeOK, RunnerNext, runnerVars, PutPacket, PrepareDependencies, StartRun, DenyRun,
         StartFails, Inspect, InspectFails, StopOnCancel, CollectArtifact, RetryPhase,
         ControllerCrash, RunnerdRestart, MonitorRun, RunWorker, Fault
<1>3. accepted'.packet \in Packets \cup {NoPacket}
  <2>1. CASE CollectArtifact
    BY <2>1 DEF CollectArtifact, RunnerTypeOK
  <2>2. CASE ~CollectArtifact
    BY <2>2
       DEF RunnerTypeOK, RunnerNext, runnerVars, PutPacket, PrepareDependencies, StartRun, DenyRun,
           StartFails, Inspect, InspectFails, StopOnCancel, RetryPhase, ControllerCrash,
           RunnerdRestart, MonitorRun, RunWorker
  <2> QED
    BY <2>1, <2>2
<1> QED
  BY <1>1, <1>2, <1>3

(* Phases, packets, containers and reports are what they should be.             *)
THEOREM RunnerTypesForAll == RunnerSpec => []RunnerTypeOK
<1>1. RunnerInit => RunnerTypeOK
  BY RunnerAssumption DEF RunnerInit, RunnerTypeOK, WorkerKinds, Resting, Absent, NoResult
<1>2. RunnerTypeOK /\ [RunnerNext]_runnerVars => RunnerTypeOK'
  <2> SUFFICES ASSUME RunnerTypeOK, [RunnerNext]_runnerVars PROVE RunnerTypeOK'
    OBVIOUS
  <2> QED
    BY PhaseTypeStep, IndexedStep, ContainersStep, RestTypeStep
       DEF PhaseType, BackendType, IndexedStays, ContainersGoOn, ReportsGoOn, Container, Reports,
           RunnerTypeOK
<1> QED
  BY <1>1, <1>2, PTL DEF RunnerSpec

-----------------------------------------------------------------------------
(* What a phase is told *)

(* The run of a packet is born in the version its key names, and only a         *)
(* verification publishes that it failed.                                       *)
RunsInv ==
  \A r \in WorkerRuns : r.kind # "dependencies" =>
    /\ containers[r].state # "absent" => containers[r].born = r.packet.version
    /\ reports[r] = "failed" => r.kind = "verification"

(* While the backend is at work the phase runs, the packet it built is the one  *)
(* under the key, and the container it waits for, then collects from, is there. *)
BackendInv ==
  /\ backend.step # "idle" =>
       /\ phase.status = "running"
       /\ phase.kind # "dependencies" =>
            backend.packet \in Packets /\ indexed[phaseKey(phase)] = backend.packet
  /\ backend.step \in {"wait", "collect"} => containers[ThisRun].state # "absent"
  /\ backend.step = "collect" => containers[ThisRun].state = "exited"

(* What was accepted is still what its run, which has exited, published.        *)
AcceptedInv ==
  \/ accepted = NoResult
  \/ /\ accepted.run \in WorkerRuns
     /\ accepted.run.kind # "dependencies" =>
          /\ accepted.run.packet \in Keys /\ accepted.packet \in Packets
          /\ indexed[accepted.run.packet] = accepted.packet
          /\ containers[accepted.run].state = "exited"
          /\ accepted.version = accepted.run.packet.version
          /\ accepted.passed <=> reports[accepted.run] = "passed"

RunnerInv == RunnerTypeOK /\ RunsInv /\ BackendInv /\ AcceptedInv

LEMMA RunsStep ==
  ASSUME RunnerTypeOK, RunsInv, ContainersGoOn, ReportsGoOn
  PROVE  RunsInv'
<1> SUFFICES ASSUME NEW r \in WorkerRuns, r.kind # "dependencies"
             PROVE  /\ containers'[r].state # "absent" => containers'[r].born = r.packet.version
                    /\ reports'[r] = "failed" => r.kind = "verification"
  BY DEF RunsInv
<1>1. reports'[r] = "failed" => r.kind = "verification"
  BY DEF RunsInv, ReportsGoOn
<1>2. ASSUME containers'[r].state # "absent" PROVE containers'[r].born = r.packet.version
  <2>1. CASE containers[r].state = "absent"
    <3>1. r = ThisRun
      BY <1>2, <2>1 DEF ContainersGoOn
    <3>2. phase.version = r.packet.version
      BY <3>1, ThisRunIsOne
    <3> QED
      BY <1>2, <2>1, <3>1, <3>2 DEF ContainersGoOn
  <2>2. CASE containers[r].state # "absent"
    BY <1>2, <2>2 DEF ContainersGoOn, RunsInv
  <2> QED
    BY <2>1, <2>2
<1> QED
  BY <1>1, <1>2

LEMMA BackendStays ==
  ASSUME RunnerTypeOK, BackendInv, ContainersGoOn, IndexedStays, UNCHANGED <<phase, backend>>
  PROVE  BackendInv'
<1>1. ThisRun' = ThisRun /\ ThisRun \in WorkerRuns
  BY ThisRunIsOne DEF ThisRun
<1>2. ASSUME backend.step # "idle", phase.kind # "dependencies"
      PROVE  backend.packet \in Packets /\ indexed'[phaseKey(phase)] = backend.packet
  BY <1>2, ThisRunIsOne, RunnerAssumption DEF BackendInv, IndexedStays
<1>3. backend.step \in {"wait", "collect"} => containers'[ThisRun].state # "absent"
  BY <1>1 DEF BackendInv, ContainersGoOn
<1>4. backend.step = "collect" => containers'[ThisRun].state = "exited"
  BY <1>1 DEF BackendInv, ContainersGoOn
<1> QED
  BY <1>1, <1>2, <1>3, <1>4 DEF BackendInv

LEMMA BackendRests ==
  ASSUME backend' = Resting
  PROVE  BackendInv'
BY DEF BackendInv, Resting

LEMMA BackendStep ==
  ASSUME RunnerTypeOK, BackendInv, [RunnerNext]_runnerVars, ContainersGoOn, IndexedStays
  PROVE  BackendInv'
<1>1. ASSUME NEW content \in Packets, PutPacket(content)
      PROVE  BackendInv'
  <2>1. CASE FailPhase
    BY <2>1, BackendRests DEF FailPhase
  <2>2. CASE /\ samePacket(phaseKey(phase), content) /\ IndexArtifact(phaseKey(phase), content)
             /\ StageInputs(content) /\ UNCHANGED phase
    <3>1. phaseKey(phase) \in Keys /\ phase.status = "running"
      BY <1>1, ThisRunIsOne DEF PutPacket, At
    <3>2. indexed'[phaseKey(phase)] = content
      BY <2>2, <3>1 DEF samePacket, IndexArtifact, RunnerTypeOK
    <3> QED
      BY <1>1, <2>2, <3>1, <3>2 DEF StageInputs, BackendInv
  <2> QED
    BY <1>1, <2>1, <2>2 DEF PutPacket
<1>2. CASE PrepareDependencies
  BY <1>2 DEF PrepareDependencies, BackendInv, At
<1>3. CASE StartRun
  <2>1. containers'[ThisRun].state # "absent" /\ ThisRun' = ThisRun
    BY <1>3, StartGoesOn DEF StartRun, ThisRun
  <2>2. /\ backend.step = "start" /\ UNCHANGED <<phase, indexed>>
        /\ backend'.step = "wait" /\ backend'.packet = backend.packet
    BY <1>3 DEF StartRun, At, RunnerTypeOK
  <2> QED
    BY <2>1, <2>2 DEF BackendInv
<1>4. CASE DenyRun \/ StartFails \/ InspectFails \/ StopOnCancel \/ ControllerCrash \/ CollectArtifact
  BY <1>4, BackendRests
     DEF DenyRun, StartFails, InspectFails, StopOnCancel, ControllerCrash, CollectArtifact, FailPhase
<1>5. CASE Inspect
  <2>1. CASE containers[ThisRun].state \in {"running", "created"}
    BY <1>5, <2>1, BackendStays DEF Inspect
  <2>2. CASE containers[ThisRun].state \notin {"running", "created"}
    <3>1. /\ backend.step = "wait" /\ UNCHANGED <<phase, indexed, containers>>
          /\ backend'.step = "collect" /\ backend'.packet = backend.packet
      BY <1>5, <2>2 DEF Inspect, At, RunnerTypeOK
    <3>2. ThisRun' = ThisRun /\ containers[ThisRun] \in Container
      BY <3>1, ThisRunIsOne DEF ThisRun, RunnerTypeOK, Container
    <3>3. containers[ThisRun].state = "exited"
      BY <2>2, <3>1, <3>2 DEF BackendInv, Container
    <3> QED
      BY <3>1, <3>2, <3>3 DEF BackendInv
  <2> QED
    BY <2>1, <2>2
<1>6. CASE RetryPhase
  BY <1>6 DEF RetryPhase, BackendInv
<1>7. CASE RunnerdRestart \/ UNCHANGED runnerVars \/ \E r \in WorkerRuns : MonitorRun(r) \/ RunWorker(r)
  BY <1>7, BackendStays DEF RunnerdRestart, runnerVars, MonitorRun, RunWorker
<1> QED
  BY <1>1, <1>2, <1>3, <1>4, <1>5, <1>6, <1>7 DEF RunnerNext

LEMMA AcceptedStays ==
  ASSUME RunnerTypeOK, AcceptedInv, ContainersGoOn, ReportsGoOn, IndexedStays, UNCHANGED accepted
  PROVE  AcceptedInv'
BY RunnerAssumption DEF AcceptedInv, ContainersGoOn, ReportsGoOn, IndexedStays

(* What is collected was published by a run that has exited, for the packet.    *)
LEMMA CollectedIsPublished ==
  ASSUME RunnerTypeOK, RunsInv, BackendInv, CollectArtifact, UNCHANGED <<containers, reports, indexed>>,
         accepted' # accepted
  PROVE  AcceptedInv'
<1>1. PICK passed \in verdicts(ThisRun) :
        accepted' = [version |-> phase.version, packet |-> backend.packet,
                     run |-> ThisRun, passed |-> passed]
  BY DEF CollectArtifact
<1>2. backend.step = "collect"
  BY DEF CollectArtifact, At
<1>3. ThisRun \in WorkerRuns /\ reports[ThisRun] \in Reports
  BY ThisRunIsOne DEF RunnerTypeOK, Reports
<1>4. ASSUME ThisRun.kind # "dependencies"
      PROVE  /\ ThisRun.packet \in Keys /\ backend.packet \in Packets
             /\ indexed[ThisRun.packet] = backend.packet
             /\ containers[ThisRun].state = "exited"
             /\ phase.version = ThisRun.packet.version
             /\ passed <=> reports[ThisRun] = "passed"
  <2>1. /\ ThisRun.packet = phaseKey(phase) /\ phaseKey(phase) \in Keys
        /\ phase.version = ThisRun.packet.version /\ phase.kind # "dependencies"
    BY <1>4, ThisRunIsOne
  <2>2. passed <=> reports[ThisRun] = "passed"
    <3>1. CASE ThisRun.kind = "verification"
      BY <3>1 DEF verdicts
    <3>2. CASE ThisRun.kind # "verification"
      BY <1>3, <1>4, <3>2 DEF verdicts, RunsInv, published
    <3> QED
      BY <3>1, <3>2
  <2> QED
    BY <1>2, <2>1, <2>2 DEF BackendInv
<1> QED
  BY <1>1, <1>3, <1>4 DEF AcceptedInv

LEMMA AcceptedStep ==
  ASSUME RunnerInv, [RunnerNext]_runnerVars, ContainersGoOn, ReportsGoOn, IndexedStays
  PROVE  AcceptedInv'
<1>1. CASE UNCHANGED accepted
  BY <1>1, AcceptedStays DEF RunnerInv
<1>2. CASE accepted' # accepted
  <2>1. CollectArtifact
    BY <1>2
       DEF RunnerNext, runnerVars, PutPacket, PrepareDependencies, StartRun, DenyRun, StartFails,
           Inspect, InspectFails, StopOnCancel, RetryPhase, ControllerCrash, RunnerdRestart,
           MonitorRun, RunWorker
  <2> QED
    BY <1>2, <2>1, CollectedIsPublished DEF RunnerInv, CollectArtifact
<1> QED
  BY <1>1, <1>2

(* What a phase is told was produced for it, by a worker that read the packet   *)
(* this execution built and that was created in this version of the job.        *)
THEOREM RunAnswersForAll == RunnerSpec => []AnswersThePacket
<1>1. RunnerInit => RunsInv /\ BackendInv /\ AcceptedInv
  BY DEF RunnerInit, RunsInv, BackendInv, AcceptedInv, Absent, Resting
<1>2. RunnerInv /\ RunnerTypeOK' /\ [RunnerNext]_runnerVars => RunsInv' /\ BackendInv' /\ AcceptedInv'
  <2> SUFFICES ASSUME RunnerInv, [RunnerNext]_runnerVars PROVE RunsInv' /\ BackendInv' /\ AcceptedInv'
    OBVIOUS
  <2>1. ContainersGoOn /\ ReportsGoOn /\ IndexedStays
    BY ContainersStep, IndexedStep DEF RunnerInv
  <2> QED
    BY <2>1, RunsStep, BackendStep, AcceptedStep DEF RunnerInv
<1>3. RunnerInv => AnswersThePacket
  <2> SUFFICES ASSUME RunnerInv, accepted # NoResult, accepted.run.kind # "dependencies"
               PROVE  /\ indexed[accepted.run.packet] = accepted.packet
                      /\ containers[accepted.run].born = accepted.version
                      /\ accepted.passed <=> reports[accepted.run] = "passed"
    BY DEF AnswersThePacket
  <2> QED
    BY DEF RunnerInv, AcceptedInv, RunsInv
<1>4. RunnerSpec => [](RunsInv /\ BackendInv /\ AcceptedInv)
  BY <1>1, <1>2, RunnerTypesForAll, PTL DEF RunnerSpec, RunnerInv
<1> QED
  BY <1>3, <1>4, RunnerTypesForAll, PTL DEF RunnerInv

-----------------------------------------------------------------------------
(* What a project remembers *)

(* What the index holds of a record, t, is the text of a record to be found. *)
fits(r, t) == record[r].status = "canonical" /\ t = record[r].text

(* Operation i is still to be carried out and will bring the index to what  *)
(* the record says: it forgets, or writes the present version.               *)
owes(i, r) ==
  /\ i \in DOMAIN outbox /\ outbox[i].record = r /\ outbox[i].state # "completed"
  /\ \/ outbox[i].action = "forget"
     \/ record[r].status = "canonical" /\ outbox[i].version = record[r].version

(* What the end of the operation under way does not complete.               *)
owesThen(i, r) == owes(i, r) /\ ~(i = worker.op /\ outbox[i].state = "running")

Settled(r) == index[r] = Nothing \/ fits(r, index[r])

(* The index is true or will be made true; the text the synchronizer is about *)
(* to write is true or will be replaced; and what it leaves is true, or is  *)
(* somebody else's operation.                                               *)
IndexFollows ==
  /\ \A r \in Records : Settled(r) \/ \E i \in DOMAIN outbox : owes(i, r)
  /\ worker.step = "upsert" =>
       LET r == outbox[worker.op].record IN
       fits(r, worker.text) \/ \E i \in DOMAIN outbox : owesThen(i, r)
  /\ worker.step = "done" =>
       LET r == outbox[worker.op].record IN
       Settled(r) \/ \E i \in DOMAIN outbox : owesThen(i, r)

(* An operation is about a version its record has had.                      *)
VersionsBehind ==
  /\ \A i \in DOMAIN outbox : outbox[i].version <= record[outbox[i].record].version
  /\ \A r \in Records : record[r].status = "absent" => record[r].version = 0

Worker ==
  [op : Nat, step : {"idle", "claimed", "upsert", "forget", "done", "failed"}, text : Nat]

MemoryInv ==
  /\ MemoryTypeOK /\ worker \in Worker /\ VersionsBehind /\ IndexFollows

NewOps == Len(outbox) + 1 .. Len(outbox')

(* Records that change get later versions, and what the index may hold of one *)
(* that was to be found gets an operation.                                   *)
LEMMA RecordsChange ==
  ASSUME MemoryInv,
         outbox' \in Seq(Operation), Len(outbox') >= Len(outbox),
         \A i \in DOMAIN outbox : outbox'[i] = outbox[i],
         \A i \in NewOps :
           /\ outbox'[i].state # "completed"
           /\ outbox'[i].version > record[outbox'[i].record].version
           /\ outbox'[i].version <= record'[outbox'[i].record].version,
         \A i, j \in NewOps : i # j => outbox'[i].record # outbox'[j].record,
         record' \in [Records -> Record],
         \A r \in Records : record'[r] # record[r] =>
           /\ record'[r].version > record[r].version /\ record'[r].status # "absent"
           /\ record[r].status = "canonical" => \E i \in NewOps :
                /\ outbox'[i].record = r
                /\ \/ outbox'[i].action = "forget"
                   \/ record'[r].status = "canonical" /\ outbox'[i].version = record'[r].version,
         worker' = worker, index' = index, served' = served,
         pull' \in [state : {"open", "merged", "rejected"}, closes : Nat]
  PROVE  MemoryInv'
<1> DEFINE L == Len(outbox)
<1>1. /\ outbox \in Seq(Operation) /\ L \in Nat /\ DOMAIN outbox = 1 .. L
      /\ Len(outbox') \in Nat /\ DOMAIN outbox' = 1 .. Len(outbox')
      /\ \A i \in 1 .. L : outbox[i] \in Operation
      /\ \A i \in DOMAIN outbox' : outbox'[i] \in Operation
      /\ NewOps = L + 1 .. Len(outbox')
  BY DEF MemoryInv, MemoryTypeOK, NewOps
<1> HIDE DEF L
<1>2. /\ DOMAIN outbox \subseteq DOMAIN outbox' /\ NewOps \subseteq DOMAIN outbox'
      /\ DOMAIN outbox' = DOMAIN outbox \union NewOps
      /\ \A i \in NewOps : i \notin DOMAIN outbox
  BY <1>1
<1>3. ASSUME NEW r \in Records
      PROVE  /\ record[r].version \in Nat /\ record'[r].version \in Nat
             /\ record'[r].version >= record[r].version
  <2>1. record[r] \in Record /\ record'[r] \in Record
    BY DEF MemoryInv, MemoryTypeOK
  <2>2. record[r].version \in Nat /\ record'[r].version \in Nat
    BY <2>1 DEF Record
  <2> QED
    BY <2>2
<1>4. \A i \in DOMAIN outbox' :
        /\ outbox'[i].record \in Records /\ outbox'[i].version \in Nat
  BY <1>1 DEF Operation
<1>5. \A i \in DOMAIN outbox : outbox[i].record \in Records /\ outbox[i].version \in Nat
  BY <1>1 DEF Operation
<1>6. VersionsBehind'
  <2>1. ASSUME NEW i \in DOMAIN outbox'
        PROVE  outbox'[i].version <= record'[outbox'[i].record].version
    <3>1. CASE i \in DOMAIN outbox
      <4>1. /\ outbox'[i] = outbox[i] /\ outbox[i].record \in Records
            /\ outbox[i].version <= record[outbox[i].record].version
        BY <3>1, <1>5 DEF MemoryInv, VersionsBehind
      <4> QED
        BY <1>3, <1>5, <3>1, <4>1
    <3>2. CASE i \in NewOps
      BY <3>2
    <3> QED
      BY <1>2, <3>1, <3>2
  <2>2. \A r \in Records : record'[r].status = "absent" => record'[r].version = 0
    BY DEF MemoryInv, VersionsBehind
  <2> QED
    BY <2>1, <2>2 DEF VersionsBehind
<1>7. ASSUME NEW i \in DOMAIN outbox', NEW j \in DOMAIN outbox', i # j
      PROVE  \/ outbox'[i].record # outbox'[j].record \/ outbox'[i].action # outbox'[j].action
             \/ outbox'[i].version # outbox'[j].version
  <2>1. CASE i \in DOMAIN outbox /\ j \in DOMAIN outbox
    <3>1. outbox'[i] = outbox[i] /\ outbox'[j] = outbox[j]
      BY <2>1
    <3>2. \/ outbox[i].record # outbox[j].record \/ outbox[i].action # outbox[j].action
          \/ outbox[i].version # outbox[j].version
      BY <1>7, <2>1 DEF MemoryInv, MemoryTypeOK
    <3> QED
      BY <3>1, <3>2
  <2>2. CASE i \in NewOps /\ j \in NewOps
    BY <1>7, <2>2
  <2>3. \A k \in DOMAIN outbox, n \in NewOps : outbox'[k].record = outbox'[n].record =>
          outbox'[k].version # outbox'[n].version
    <3> SUFFICES ASSUME NEW k \in DOMAIN outbox, NEW n \in NewOps,
                        outbox'[k].record = outbox'[n].record
                 PROVE  outbox'[k].version # outbox'[n].version
      OBVIOUS
    <3>1. /\ outbox'[k] = outbox[k] /\ outbox[k].version <= record[outbox[k].record].version
          /\ outbox'[n].version > record[outbox'[n].record].version
          /\ outbox[k].version \in Nat /\ outbox'[n].version \in Nat
          /\ record[outbox[k].record].version \in Nat
      BY <1>2, <1>3, <1>4, <1>5 DEF MemoryInv, VersionsBehind
    <3> QED
      BY <3>1
  <2> QED
    BY <1>2, <2>1, <2>2, <2>3
<1>8. MemoryTypeOK'
  <2>1. worker'.op \in 0 .. Len(outbox')
    BY <1>1 DEF MemoryInv, MemoryTypeOK, Worker, L
  <2> QED
    BY <2>1, <1>7 DEF MemoryInv, MemoryTypeOK
<1>9. ASSUME NEW r \in Records, record'[r] = record[r], NEW i, owes(i, r)
      PROVE  owes(i, r)' /\ (owesThen(i, r) => owesThen(i, r)')
  BY <1>2, <1>9 DEF owes, owesThen
<1>10. ASSUME NEW r \in Records, record'[r] # record[r], record[r].status # "canonical",
              NEW i, owes(i, r)
       PROVE  owes(i, r)' /\ (owesThen(i, r) => owesThen(i, r)')
  BY <1>2, <1>10 DEF owes, owesThen
<1>11. ASSUME NEW r \in Records, record'[r] # record[r], record[r].status = "canonical"
       PROVE  \E i \in DOMAIN outbox' : owes(i, r)' /\ owesThen(i, r)'
  <2>1. PICK i \in NewOps :
          /\ outbox'[i].record = r
          /\ \/ outbox'[i].action = "forget"
             \/ record'[r].status = "canonical" /\ outbox'[i].version = record'[r].version
    BY <1>11
  <2>2. i # worker.op
    BY <1>1, <1>2, <2>1 DEF MemoryInv, MemoryTypeOK, L
  <2> QED
    BY <1>2, <2>1, <2>2 DEF owes, owesThen
<1>12. ASSUME NEW r \in Records, NEW t, fits(r, t), record'[r] = record[r]
       PROVE  fits(r, t)'
  BY <1>12 DEF fits
<1>13. \A r \in Records :
         (Settled(r) \/ \E i \in DOMAIN outbox : owes(i, r))
         => (Settled(r)' \/ \E i \in DOMAIN outbox' : owes(i, r)')
  BY <1>2, <1>9, <1>10, <1>11, <1>12 DEF Settled, fits
<1>14. \A r \in Records :
         (Settled(r) \/ \E i \in DOMAIN outbox : owesThen(i, r))
         => (Settled(r)' \/ \E i \in DOMAIN outbox' : owesThen(i, r)')
  BY <1>2, <1>9, <1>10, <1>11, <1>12 DEF Settled, fits, owesThen
<1>15. \A r \in Records :
         (fits(r, worker.text) \/ \E i \in DOMAIN outbox : owesThen(i, r))
         => (fits(r, worker.text)' \/ \E i \in DOMAIN outbox' : owesThen(i, r)')
  BY <1>2, <1>9, <1>10, <1>11, <1>12 DEF fits, owesThen
<1>16. IndexFollows'
  <2>1. worker.step # "idle" => /\ worker.op \in DOMAIN outbox
                                /\ outbox'[worker.op].record = outbox[worker.op].record
                                /\ outbox[worker.op].record \in Records
    BY <1>1, <1>5 DEF MemoryInv, MemoryTypeOK, L
  <2> QED
    BY <1>13, <1>14, <1>15, <2>1 DEF MemoryInv, IndexFollows
<1> QED
  BY <1>6, <1>8, <1>16 DEF MemoryInv

LEMMA OutboxIsSeq ==
  ASSUME MemoryInv
  PROVE  /\ outbox \in Seq(Operation) /\ Len(outbox) \in Nat /\ DOMAIN outbox = 1 .. Len(outbox)
         /\ \A i \in DOMAIN outbox :
              /\ outbox[i] \in Operation
              /\ outbox[i].record \in Records /\ outbox[i].version \in Nat
<1>1. /\ outbox \in Seq(Operation) /\ Len(outbox) \in Nat /\ DOMAIN outbox = 1 .. Len(outbox)
      /\ \A i \in DOMAIN outbox : outbox[i] \in Operation
  BY DEF MemoryInv, MemoryTypeOK
<1> QED
  BY <1>1 DEF Operation

LEMMA RecordIsTyped ==
  ASSUME MemoryInv, NEW r \in Records
  PROVE  /\ record[r] \in Record /\ record[r].version \in Nat /\ record[r].text \in Nat
         /\ record[r].status = "absent" => record[r].version = 0
<1>1. record[r] \in Record /\ (record[r].status = "absent" => record[r].version = 0)
  BY DEF MemoryInv, MemoryTypeOK, VersionsBehind
<1> QED
  BY <1>1 DEF Record

(* Records that were not to be found change without an operation.            *)
LEMMA QuietChange ==
  ASSUME MemoryInv, outbox' = outbox, unchangedElsewhere,
         record' \in [Records -> Record],
         \A r \in Records : record'[r] # record[r] =>
           /\ record'[r].version > record[r].version /\ record'[r].status # "absent"
           /\ record[r].status # "canonical"
  PROVE  MemoryInv'
<1>1. NewOps = {}
  <2>1. Len(outbox') = Len(outbox) /\ Len(outbox) \in Nat
    BY OutboxIsSeq
  <2> QED
    BY <2>1 DEF NewOps
<1>2. /\ outbox' \in Seq(Operation) /\ Len(outbox') >= Len(outbox)
      /\ \A i \in DOMAIN outbox : outbox'[i] = outbox[i]
  BY OutboxIsSeq
<1>3. /\ worker' = worker /\ index' = index /\ served' = served
      /\ pull' \in [state : {"open", "merged", "rejected"}, closes : Nat]
  BY DEF unchangedElsewhere, MemoryInv, MemoryTypeOK
<1> QED
  BY <1>1, <1>2, <1>3, RecordsChange

(* One record changes and an operation about its new version is appended.    *)
LEMMA OwedChange ==
  ASSUME MemoryInv, NEW r \in Records, NEW to \in Record, NEW action \in {"upsert", "forget"},
         to.version > record[r].version, to.status # "absent",
         record' = [record EXCEPT ![r] = to],
         enqueue(r, action, to.version), action = "forget" \/ to.status = "canonical",
         unchangedElsewhere
  PROVE  MemoryInv'
<1> DEFINE op == operation(r, action, to.version)
<1>1. to.version \in Nat /\ record[r].version \in Nat
  BY RecordIsTyped DEF Record
<1>2. op \in Operation /\ op.record = r /\ op.version = to.version /\ op.action = action
      /\ op.state = "pending"
  BY <1>1 DEF operation, Operation
<1>3. queued(r, action, to.version) = {}
  <2> SUFFICES ASSUME NEW i \in DOMAIN outbox, outbox[i].record = r, outbox[i].version = to.version
               PROVE  FALSE
    BY DEF queued
  <2>1. outbox[i].version <= record[r].version
    BY DEF MemoryInv, VersionsBehind
  <2> QED
    BY <1>1, <2>1
<1>4. outbox' = Append(outbox, op)
  BY <1>3 DEF enqueue
<1> HIDE DEF op
<1>5. /\ outbox' \in Seq(Operation) /\ Len(outbox') = Len(outbox) + 1
      /\ \A i \in DOMAIN outbox : outbox'[i] = outbox[i]
      /\ outbox'[Len(outbox) + 1] = op
  BY <1>2, <1>4, OutboxIsSeq
<1>6. NewOps = {Len(outbox) + 1} /\ Len(outbox') >= Len(outbox)
  BY <1>5, OutboxIsSeq DEF NewOps
<1>7. /\ record' \in [Records -> Record] /\ record'[r] = to
      /\ \A q \in Records \ {r} : record'[q] = record[q]
  BY DEF MemoryInv, MemoryTypeOK
<1>8. /\ worker' = worker /\ index' = index /\ served' = served
      /\ pull' \in [state : {"open", "merged", "rejected"}, closes : Nat]
  BY DEF unchangedElsewhere, MemoryInv, MemoryTypeOK
<1>9. \A i \in NewOps :
        /\ outbox'[i].state # "completed"
        /\ outbox'[i].version > record[outbox'[i].record].version
        /\ outbox'[i].version <= record'[outbox'[i].record].version
  BY <1>1, <1>2, <1>5, <1>6, <1>7
<1>10. \A i, j \in NewOps : i # j => outbox'[i].record # outbox'[j].record
  BY <1>6
<1>11. \A q \in Records : record'[q] # record[q] =>
           /\ record'[q].version > record[q].version /\ record'[q].status # "absent"
           /\ record[q].status = "canonical" => \E i \in NewOps :
                /\ outbox'[i].record = q
                /\ \/ outbox'[i].action = "forget"
                   \/ record'[q].status = "canonical" /\ outbox'[i].version = record'[q].version
  BY <1>2, <1>5, <1>6, <1>7
<1> QED
  BY <1>5, <1>6, <1>7, <1>8, <1>9, <1>10, <1>11, RecordsChange

(* What people do with a record.                                             *)
LEMMA PeopleKeep ==
  ASSUME MemoryInv, NEW r \in Records,
         \/ PutCandidate(r) \/ CorrectMemory(r) \/ VerifyMemory(r) \/ PromoteMemory(r)
         \/ InvalidateMemory(r) \/ DeleteMemory(r)
  PROVE  MemoryInv'
<1> DEFINE old == record[r]
<1>1. /\ old \in Record /\ old.version \in Nat /\ old.text \in Nat
      /\ old.status = "absent" => old.version = 0
  BY RecordIsTyped
<1>2. record \in [Records -> Record]
  BY DEF MemoryInv, MemoryTypeOK
<1>3. ASSUME NEW to \in Record, to.version > old.version, to.status # "absent",
             record' = [record EXCEPT ![r] = to], unchangedElsewhere,
             \/ old.status # "canonical" /\ UNCHANGED outbox
             \/ enqueue(r, "forget", to.version)
             \/ to.status = "canonical" /\ enqueue(r, "upsert", to.version)
      PROVE  MemoryInv'
  <2>1. CASE old.status # "canonical" /\ UNCHANGED outbox
    <3>1. record' \in [Records -> Record]
      BY <1>2, <1>3
    <3>2. \A q \in Records : record'[q] # record[q] =>
            /\ record'[q].version > record[q].version /\ record'[q].status # "absent"
            /\ record[q].status # "canonical"
      BY <1>2, <1>3, <2>1
    <3> QED
      BY <1>3, <2>1, <3>1, <3>2, QuietChange
  <2>2. CASE enqueue(r, "forget", to.version)
    BY <1>3, <2>2, OwedChange
  <2>3. CASE to.status = "canonical" /\ enqueue(r, "upsert", to.version)
    BY <1>3, <2>3, OwedChange
  <2> QED
    BY <1>3, <2>1, <2>2, <2>3
<1>4. ASSUME NEW mid \in Record, mid.version = old.version, mid.status # "absent",
             changed(r, mid), unchangedElsewhere,
             \/ old.status # "canonical" /\ UNCHANGED outbox
             \/ enqueue(r, "forget", old.version + 1)
             \/ mid.status = "canonical" /\ enqueue(r, "upsert", old.version + 1)
      PROVE  MemoryInv'
  <2> DEFINE to == [mid EXCEPT !.version = @ + 1]
  <2>1. to \in Record /\ to.version = old.version + 1 /\ to.status = mid.status
    <3> HIDE DEF old
    <3> QED
      BY <1>1, <1>4 DEF Record
  <2>2. record' = [record EXCEPT ![r] = to]
    BY <1>4 DEF changed
  <2>3. to.version > old.version
    BY <1>1, <2>1
  <2> HIDE DEF to, old
  <2> QED
    BY <1>3, <1>4, <2>1, <2>2, <2>3
<1>5. CASE PutCandidate(r)
  <2> DEFINE a == [old EXCEPT !.status = "quarantine"]  b == [a EXCEPT !.version = 1]
             to == [b EXCEPT !.text = 1]
  <2>1. to \in Record /\ to.version = 1 /\ to.status = "quarantine"
    <3> HIDE DEF old
    <3>1. a \in Record /\ a.status = "quarantine"
      BY <1>1 DEF Record
    <3> HIDE DEF a
    <3>2. b \in Record /\ b.version = 1 /\ b.status = "quarantine"
      BY <3>1 DEF Record
    <3> HIDE DEF b
    <3> QED
      BY <3>2 DEF Record
  <2>2. record' = [record EXCEPT ![r] = to]
    <3>1. record' = [record EXCEPT ![r].status = "quarantine", ![r].version = 1, ![r].text = 1]
      BY <1>5 DEF PutCandidate
    <3> QED
      BY <1>2, <3>1
  <2>3. /\ old.status = "absent" /\ UNCHANGED outbox /\ unchangedElsewhere
        /\ to.version > old.version
    BY <1>1, <1>5, <2>1 DEF PutCandidate
  <2> HIDE DEF to, a, b, old
  <2> QED
    BY <1>3, <2>1, <2>2, <2>3
<1>6. CASE CorrectMemory(r)
  <2> DEFINE a == [old EXCEPT !.status = "quarantine"]  b == [a EXCEPT !.verified = FALSE]
             mid == [b EXCEPT !.text = @ + 1]
  <2>1. mid \in Record /\ mid.version = old.version /\ mid.status = "quarantine"
    <3> HIDE DEF old
    <3>1. a \in Record /\ a.status = "quarantine" /\ a.version = old.version
      BY <1>1 DEF Record
    <3> HIDE DEF a
    <3>2. b \in Record /\ b.version = old.version /\ b.status = "quarantine"
      BY <3>1 DEF Record
    <3> HIDE DEF b
    <3> QED
      BY <3>2 DEF Record
  <2>2. changed(r, [record[r] EXCEPT !.status = "quarantine", !.verified = FALSE, !.text = @ + 1])
    BY <1>6 DEF CorrectMemory
  <2>3. [record[r] EXCEPT !.status = "quarantine", !.verified = FALSE, !.text = @ + 1] = mid
    BY <1>1 DEF Record
  <2>4. changed(r, mid) /\ unchangedElsewhere
        /\ \/ old.status # "canonical" /\ UNCHANGED outbox
           \/ enqueue(r, "forget", old.version + 1)
    BY <1>6, <2>2, <2>3 DEF CorrectMemory
  <2> HIDE DEF mid, a, b, old
  <2> QED
    BY <1>4, <2>1, <2>4
<1>7. CASE VerifyMemory(r)
  <2> DEFINE mid == [old EXCEPT !.verified = TRUE]
  <2>1. mid \in Record /\ mid.version = old.version /\ mid.status = old.status
    <3> HIDE DEF old
    <3> QED
      BY <1>1 DEF Record
  <2>2. changed(r, mid) /\ unchangedElsewhere /\ old.status = "quarantine" /\ UNCHANGED outbox
    BY <1>7 DEF VerifyMemory
  <2> HIDE DEF mid, old
  <2> QED
    BY <1>4, <2>1, <2>2
<1>8. CASE PromoteMemory(r)
  <2>1. PICK basis \in {"deterministic_verification", "merged_pr", "human_approval"} :
          /\ changed(r, [record[r] EXCEPT !.status = "canonical", !.merged = basis = "merged_pr"])
          /\ enqueue(r, "upsert", record[r].version + 1) /\ unchangedElsewhere
    BY <1>8 DEF PromoteMemory
  <2> DEFINE byMerge == basis = "merged_pr"
             a == [old EXCEPT !.status = "canonical"]  mid == [a EXCEPT !.merged = byMerge]
  <2>2. mid \in Record /\ mid.version = old.version /\ mid.status = "canonical"
    <3>1. byMerge \in BOOLEAN
      OBVIOUS
    <3> HIDE DEF old, byMerge
    <3>2. a \in Record /\ a.status = "canonical" /\ a.version = old.version
      BY <1>1 DEF Record
    <3> HIDE DEF a
    <3> QED
      BY <3>1, <3>2 DEF Record
  <2>3. mid = [record[r] EXCEPT !.status = "canonical", !.merged = basis = "merged_pr"]
    BY <1>1 DEF Record
  <2>4. changed(r, mid)
    BY <2>1, <2>3
  <2> HIDE DEF mid, a, byMerge, old
  <2>5. enqueue(r, "upsert", old.version + 1) /\ unchangedElsewhere
    BY <2>1 DEF old
  <2> QED
    BY <1>4, <2>2, <2>4, <2>5
<1>9. ASSUME NEW status \in {"stale", "deleted"},
             changed(r, [record[r] EXCEPT !.status = status]),
             enqueue(r, "forget", record[r].version + 1), unchangedElsewhere
      PROVE  MemoryInv'
  <2> DEFINE mid == [old EXCEPT !.status = status]
  <2>1. mid \in Record /\ mid.version = old.version /\ mid.status # "absent"
    <3> HIDE DEF old
    <3> QED
      BY <1>1 DEF Record
  <2>2. changed(r, mid) /\ unchangedElsewhere /\ enqueue(r, "forget", old.version + 1)
    BY <1>9
  <2> HIDE DEF mid, old
  <2> QED
    BY <1>4, <2>1, <2>2
<1> QED
  BY <1>5, <1>6, <1>7, <1>8, <1>9 DEF InvalidateMemory, DeleteMemory

(* A restored export.                                                        *)
LEMMA RestoreKeeps ==
  ASSUME MemoryInv, RestoreProjectMemory
  PROVE  MemoryInv'
<1>1. PICK R \in SUBSET {r \in Records : record[r].status = "absent"} :
        /\ record' = [r \in Records |-> IF r \in R
             THEN [record[r] EXCEPT !.status = "quarantine", !.version = 1, !.text = 1]
             ELSE record[r]]
        /\ UNCHANGED outbox /\ unchangedElsewhere
  BY DEF RestoreProjectMemory
<1>2. ASSUME NEW old \in Record
      PROVE  \A to : to = [old EXCEPT !.status = "quarantine", !.version = 1, !.text = 1] =>
               to \in Record /\ to.version = 1 /\ to.status = "quarantine"
  <2> DEFINE a == [old EXCEPT !.status = "quarantine"]  b == [a EXCEPT !.version = 1]
             to == [b EXCEPT !.text = 1]
  <2>1. to = [old EXCEPT !.status = "quarantine", !.version = 1, !.text = 1]
    BY <1>2 DEF Record
  <2>2. a \in Record /\ a.status = "quarantine"
    BY <1>2 DEF Record
  <2> HIDE DEF a
  <2>3. b \in Record /\ b.version = 1 /\ b.status = "quarantine"
    BY <2>2 DEF Record
  <2> HIDE DEF b
  <2>4. to \in Record /\ to.version = 1 /\ to.status = "quarantine"
    BY <2>3 DEF Record
  <2> HIDE DEF to
  <2> QED
    BY <2>1, <2>4
<1>3. ASSUME NEW r \in Records
      PROVE  /\ record'[r] \in Record
             /\ record'[r] # record[r] =>
                  /\ record'[r].version > record[r].version /\ record'[r].status # "absent"
                  /\ record[r].status # "canonical"
  <2>1. CASE r \in R
    <3>1. record[r].status = "absent" /\ record[r].version = 0 /\ record[r] \in Record
      BY <2>1, RecordIsTyped
    <3>2. record'[r] = [record[r] EXCEPT !.status = "quarantine", !.version = 1, !.text = 1]
      BY <1>1, <2>1
    <3>3. record'[r] \in Record /\ record'[r].version = 1 /\ record'[r].status = "quarantine"
      <4> DEFINE old == record[r]
      <4>1. old \in Record /\ record'[r] = [old EXCEPT !.status = "quarantine", !.version = 1, !.text = 1]
        BY <3>1, <3>2
      <4> HIDE DEF old
      <4> QED
        BY <1>2, <4>1, Zenon
    <3> QED
      BY <3>1, <3>3
  <2>2. CASE r \notin R
    BY <1>1, <2>2, RecordIsTyped
  <2> QED
    BY <2>1, <2>2
<1>4. record' \in [Records -> Record]
  BY <1>1, <1>3
<1> QED
  BY <1>1, <1>3, <1>4, QuietChange

-----------------------------------------------------------------------------
(* The index operations *)

(* A list of all of a finite set, each once, has every one of them: there is *)
(* no room for one that is left out.                                         *)
LEMMA ListingIsComplete ==
  ASSUME NEW S, IsFiniteSet(S), NEW s \in [1 .. Cardinality(S) -> S],
         \A i, j \in DOMAIN s : i # j => s[i] # s[j]
  PROVE  \A x \in S : \E i \in DOMAIN s : s[i] = x
<1> SUFFICES ASSUME NEW x \in S, \A i \in DOMAIN s : s[i] # x
             PROVE  FALSE
  OBVIOUS
<1> DEFINE n == Cardinality(S)
<1>1. n \in Nat /\ IsFiniteSet(S \ {x}) /\ Cardinality(S \ {x}) = n - 1
  BY FS_CardinalityType, FS_RemoveElement
<1>2. IsFiniteSet(1 .. n) /\ Cardinality(1 .. n) = n
  <2>1. Cardinality(1 .. n) = IF 1 > n THEN 0 ELSE n - 1 + 1
    BY <1>1, FS_Interval
  <2>2. IsFiniteSet(1 .. n)
    BY <1>1, FS_Interval
  <2> HIDE DEF n
  <2> QED
    BY <1>1, <2>1, <2>2
<1>3. s \in [1 .. n -> S \ {x}]
  OBVIOUS
<1> HIDE DEF n
<1>4. Cardinality(S \ {x}) < Cardinality(1 .. n)
  BY <1>1, <1>2
<1>5. \E i, j \in 1 .. n : i # j /\ s[i] = s[j]
  BY <1>1, <1>2, <1>3, <1>4, FS_PigeonHole
<1> QED
  BY <1>3, <1>5

(* What the closed pull request decides.                                     *)
LEMMA EventKeeps ==
  ASSUME MemoryInv, NEW event, event.outcome \in {"merged", "rejected"},
         ApplyGitHubPullRequestEvent(event)
  PROVE  MemoryInv'
<1> DEFINE outcome == event.outcome
           R == {r \in Cases : decides(r, outcome)}
           ops == outcomeOperations(R, outcome)
           asked == IF outcome = "merged" THEN R ELSE {q \in R : record[q].status = "canonical"}
           action == IF outcome = "merged" THEN "upsert" ELSE "forget"
           op(r) == operation(r, action, record[r].version + 1)
<1>1. PICK s \in [1 .. Cardinality(ops) -> ops] :
        /\ \A i, j \in DOMAIN s : i # j => s[i] # s[j]
        /\ outbox' = outbox \o s
  BY Zenon DEF ApplyGitHubPullRequestEvent
<1>2. /\ record' = [r \in Records |-> IF r \in R THEN outcomeOf(r, outcome) ELSE record[r]]
      /\ UNCHANGED <<worker, index, served, pull, hooks, faults, rebuilds>>
  BY DEF ApplyGitHubPullRequestEvent
<1>3. ops = {op(r) : r \in asked}
  BY DEF outcomeOperations
<1>4. R \subseteq Records /\ asked \subseteq R /\ IsFiniteSet(asked)
  <2>1. R \subseteq Records /\ asked \subseteq R
    BY MemoryAssumption
  <2> QED
    BY <2>1, MemoryAssumption, FS_Subset
<1>5. IsFiniteSet(ops)
  <2> DEFINE f == [r \in asked |-> op(r)]
  <2>1. f \in Surjection(asked, ops)
    <3> HIDE DEF asked, ops, op
    <3> QED
      BY <1>3 DEF Surjection
  <2> HIDE DEF asked, ops, f
  <2> QED
    BY <1>4, <2>1, FS_Surjection
<1>6. ASSUME NEW r \in asked
      PROVE  /\ op(r) \in Operation /\ op(r).record = r /\ op(r).version = record[r].version + 1
             /\ op(r).action = action /\ op(r).state = "pending"
  <2>1. r \in Records /\ record[r].version \in Nat
    BY <1>4, <1>6, RecordIsTyped
  <2> HIDE DEF asked
  <2> QED
    BY <2>1 DEF operation, Operation
<1> DEFINE n == Cardinality(ops)
<1> HIDE DEF ops, op, asked
<1>7. ops \subseteq Operation
  BY <1>3, <1>6
<1>8. n \in Nat
  BY <1>5, FS_CardinalityType
<1>9. \A x \in ops : \E i \in 1 .. n : s[i] = x
  BY <1>1, <1>5, ListingIsComplete
<1> HIDE DEF n
<1>10. s \in Seq(Operation) /\ Len(s) = n /\ DOMAIN s = 1 .. n
  <2>1. s \in [1 .. n -> Operation] /\ DOMAIN s = 1 .. n
    BY <1>1, <1>7 DEF n
  <2> QED
    BY <1>8, <2>1
<1>11. /\ outbox' \in Seq(Operation) /\ Len(outbox') = Len(outbox) + n
       /\ \A i \in DOMAIN outbox : outbox'[i] = outbox[i]
       /\ \A i \in 1 .. n : outbox'[Len(outbox) + i] = s[i]
  <2>1. outbox \in Seq(Operation) /\ outbox' = outbox \o s
    BY <1>1, OutboxIsSeq
  <2>2. /\ outbox \o s \in Seq(Operation) /\ Len(outbox \o s) = Len(outbox) + Len(s)
        /\ \A i \in 1 .. Len(outbox) : (outbox \o s)[i] = outbox[i]
        /\ \A i \in 1 .. Len(s) : (outbox \o s)[Len(outbox) + i] = s[i]
    <3>1. /\ outbox \o s \in Seq(Operation) /\ Len(outbox \o s) = Len(outbox) + Len(s)
          /\ \A i \in 1 .. Len(outbox) + Len(s) : (outbox \o s)[i] =
               IF i <= Len(outbox) THEN outbox[i] ELSE s[i - Len(outbox)]
      BY <1>10, <2>1, ConcatProperties
    <3>2. Len(outbox) \in Nat /\ Len(s) \in Nat
      BY <1>8, <1>10, OutboxIsSeq
    <3> QED
      BY <3>1, <3>2
  <2> QED
    BY <1>10, <2>1, <2>2, OutboxIsSeq
<1>12. NewOps = Len(outbox) + 1 .. Len(outbox) + n /\ Len(outbox') >= Len(outbox)
  BY <1>8, <1>11, OutboxIsSeq DEF NewOps
<1>13. \A i \in NewOps : \E k \in 1 .. n : i = Len(outbox) + k /\ outbox'[i] = s[k] /\ s[k] \in ops
  <2> SUFFICES ASSUME NEW i \in NewOps
               PROVE  \E k \in 1 .. n : i = Len(outbox) + k /\ outbox'[i] = s[k] /\ s[k] \in ops
    OBVIOUS
  <2> DEFINE k == i - Len(outbox)
  <2>1. k \in 1 .. n /\ i = Len(outbox) + k
    BY <1>8, <1>12, OutboxIsSeq
  <2> HIDE DEF k
  <2>2. outbox'[i] = s[k] /\ s[k] \in ops
    BY <1>1, <1>10, <1>11, <2>1 DEF n
  <2> QED
    BY <2>1, <2>2
<1>14. \A k \in 1 .. n : Len(outbox) + k \in NewOps
  BY <1>8, <1>12, OutboxIsSeq
<1>15. ASSUME NEW r \in R
       PROVE  /\ record'[r] \in Record /\ record'[r].version = record[r].version + 1
              /\ record'[r].status = IF outcome = "merged" THEN "canonical" ELSE "stale"
              /\ record[r].version \in Nat
  <2>1. record[r] \in Record /\ record[r].version \in Nat
    BY <1>4, RecordIsTyped
  <2>2. record'[r] = outcomeOf(r, outcome)
    BY <1>2, <1>4
  <2>3. CASE outcome = "merged"
    <3> DEFINE old == record[r]
               a == [old EXCEPT !.status = "canonical"]  b == [a EXCEPT !.merged = TRUE]
               to == [b EXCEPT !.version = @ + 1]
    <3>1. record'[r] = to
      BY <2>1, <2>2, <2>3 DEF outcomeOf, Record
    <3>2. a \in Record /\ a.status = "canonical" /\ a.version = record[r].version
      BY <2>1 DEF Record
    <3> HIDE DEF a
    <3>3. b \in Record /\ b.status = "canonical" /\ b.version = record[r].version
      BY <3>2 DEF Record
    <3> HIDE DEF b
    <3>4. to \in Record /\ to.status = "canonical" /\ to.version = record[r].version + 1
      BY <3>3 DEF Record
    <3> HIDE DEF to
    <3> QED
      BY <2>1, <2>3, <3>1, <3>4
  <2>4. CASE outcome # "merged"
    <3> DEFINE old == record[r]
               a == [old EXCEPT !.status = "stale"]  to == [a EXCEPT !.version = @ + 1]
    <3>1. record'[r] = to
      BY <2>1, <2>2, <2>4 DEF outcomeOf, Record
    <3>2. a \in Record /\ a.status = "stale" /\ a.version = record[r].version
      BY <2>1 DEF Record
    <3> HIDE DEF a
    <3>3. to \in Record /\ to.status = "stale" /\ to.version = record[r].version + 1
      BY <3>2 DEF Record
    <3> HIDE DEF to
    <3> QED
      BY <2>1, <2>4, <3>1, <3>3
  <2> QED
    BY <2>3, <2>4
<1>16. \A r \in Records \ R : record'[r] = record[r]
  BY <1>2
<1>17. record' \in [Records -> Record]
  <2>1. \A r \in Records : record'[r] \in Record
    BY <1>4, <1>15, <1>16, RecordIsTyped
  <2> QED
    BY <1>2, <2>1
<1>18. ASSUME NEW x \in ops
       PROVE  \E r \in asked : x = op(r)
  BY <1>3
<1> HIDE DEF R
<1>19. \A i \in NewOps :
         /\ outbox'[i].state # "completed"
         /\ outbox'[i].version > record[outbox'[i].record].version
         /\ outbox'[i].version <= record'[outbox'[i].record].version
  <2> SUFFICES ASSUME NEW i \in NewOps
               PROVE  /\ outbox'[i].state # "completed"
                      /\ outbox'[i].version > record[outbox'[i].record].version
                      /\ outbox'[i].version <= record'[outbox'[i].record].version
    OBVIOUS
  <2>1. PICK r \in asked : outbox'[i] = op(r)
    BY <1>13, <1>18
  <2>2. /\ outbox'[i].record = r /\ outbox'[i].state = "pending"
        /\ outbox'[i].version = record[r].version + 1
        /\ record'[r].version = record[r].version + 1 /\ record[r].version \in Nat
    BY <1>4, <1>6, <1>15, <2>1
  <2> QED
    BY <2>2
<1>20. \A i, j \in NewOps : i # j => outbox'[i].record # outbox'[j].record
  <2> SUFFICES ASSUME NEW i \in NewOps, NEW j \in NewOps, outbox'[i].record = outbox'[j].record
               PROVE  i = j
    OBVIOUS
  <2>1. PICK k \in 1 .. n : i = Len(outbox) + k /\ outbox'[i] = s[k] /\ s[k] \in ops
    BY <1>13
  <2>2. PICK m \in 1 .. n : j = Len(outbox) + m /\ outbox'[j] = s[m] /\ s[m] \in ops
    BY <1>13
  <2>3. PICK r \in asked : s[k] = op(r)
    BY <1>18, <2>1
  <2>4. PICK q \in asked : s[m] = op(q)
    BY <1>18, <2>2
  <2>5. r = q
    BY <1>6, <2>1, <2>2, <2>3, <2>4
  <2>6. s[k] = s[m]
    BY <2>3, <2>4, <2>5
  <2> QED
    BY <1>1, <1>10, <2>1, <2>2, <2>6
<1>21. ASSUME NEW r \in Records, record'[r] # record[r]
       PROVE  /\ record'[r].version > record[r].version /\ record'[r].status # "absent"
              /\ record[r].status = "canonical" => \E i \in NewOps :
                   /\ outbox'[i].record = r
                   /\ \/ outbox'[i].action = "forget"
                      \/ record'[r].status = "canonical" /\ outbox'[i].version = record'[r].version
  <2>1. r \in R
    BY <1>16, <1>21
  <2>2. /\ record'[r].version > record[r].version /\ record'[r].status # "absent"
    BY <1>15, <2>1
  <2>3. ASSUME record[r].status = "canonical"
        PROVE  \E i \in NewOps :
                   /\ outbox'[i].record = r
                   /\ \/ outbox'[i].action = "forget"
                      \/ record'[r].status = "canonical" /\ outbox'[i].version = record'[r].version
    <3>1. r \in asked
      BY <2>1, <2>3 DEF asked
    <3>2. op(r) \in ops
      BY <1>3, <3>1
    <3>3. PICK k \in 1 .. n : s[k] = op(r)
      BY <1>9, <3>2
    <3>4. Len(outbox) + k \in NewOps /\ outbox'[Len(outbox) + k] = op(r)
      BY <1>11, <1>14, <3>3
    <3>5. /\ op(r).record = r /\ op(r).action = action
          /\ op(r).version = record'[r].version
      BY <1>6, <1>15, <2>1, <3>1
    <3>6. op(r).action = "forget" \/ record'[r].status = "canonical"
      BY <1>15, <2>1, <3>5
    <3> QED
      BY <3>4, <3>5, <3>6
  <2> QED
    BY <2>2, <2>3
<1>22. /\ worker' = worker /\ index' = index /\ served' = served
       /\ pull' \in [state : {"open", "merged", "rejected"}, closes : Nat]
  BY <1>2 DEF MemoryInv, MemoryTypeOK
<1> QED
  BY <1>11, <1>12, <1>17, <1>19, <1>20, <1>21, <1>22, RecordsChange

(* A rebuild asks again for what was to be found already.                    *)
LEMMA RebuildKeeps ==
  ASSUME MemoryInv, Rebuild
  PROVE  MemoryInv'
<1>1. /\ outbox' = [i \in DOMAIN outbox |->
           IF \E r \in {q \in Records : record[q].status = "canonical"} :
                i \in queued(r, "upsert", record[r].version)
           THEN operation(outbox[i].record, "upsert", outbox[i].version) ELSE outbox[i]]
      /\ UNCHANGED <<record, worker, index, served, pull, hooks, delivered, faults>>
  BY DEF Rebuild
<1>2. ASSUME NEW i \in DOMAIN outbox
      PROVE  /\ outbox'[i] \in Operation /\ outbox'[i].record = outbox[i].record
             /\ outbox'[i].action = outbox[i].action /\ outbox'[i].version = outbox[i].version
             /\ outbox'[i].state \in {outbox[i].state, "pending"}
  <2>1. /\ outbox[i] \in Operation /\ outbox[i].record \in Records /\ outbox[i].version \in Nat
    BY OutboxIsSeq
  <2>2. CASE outbox'[i] = outbox[i]
    BY <2>1, <2>2
  <2>3. CASE outbox'[i] # outbox[i]
    <3>1. /\ outbox'[i] = operation(outbox[i].record, "upsert", outbox[i].version)
          /\ outbox[i].action = "upsert"
      BY <1>1, <2>3 DEF queued
    <3> QED
      BY <2>1, <3>1 DEF operation, Operation
  <2> QED
    BY <2>2, <2>3
<1>3. /\ outbox' \in Seq(Operation) /\ Len(outbox') = Len(outbox) /\ DOMAIN outbox' = DOMAIN outbox
  <2>1. outbox' \in [1 .. Len(outbox) -> Operation] /\ DOMAIN outbox' = DOMAIN outbox
    BY <1>1, <1>2, OutboxIsSeq
  <2> QED
    BY <2>1, OutboxIsSeq
<1>4. \A r \in Records, i \in DOMAIN outbox :
        /\ owes(i, r) => owes(i, r)'
        /\ owesThen(i, r) => owesThen(i, r)'
  BY <1>1, <1>2, <1>3 DEF owes, owesThen
<1>5. \A r, t : fits(r, t)' <=> fits(r, t)
  BY <1>1 DEF fits
<1>6. MemoryTypeOK'
  <2>1. \A i, j \in DOMAIN outbox' : i # j =>
          \/ outbox'[i].record # outbox'[j].record \/ outbox'[i].action # outbox'[j].action
          \/ outbox'[i].version # outbox'[j].version
    BY <1>2, <1>3 DEF MemoryInv, MemoryTypeOK
  <2>2. /\ record' = record /\ worker' = worker /\ index' = index /\ served' = served
        /\ pull' = pull
    BY <1>1
  <2> QED
    BY <1>3, <2>1, <2>2 DEF MemoryInv, MemoryTypeOK
<1>7. VersionsBehind'
  BY <1>1, <1>2, <1>3 DEF MemoryInv, VersionsBehind
<1>8. worker.step # "idle" => /\ worker.op \in DOMAIN outbox
                              /\ outbox'[worker.op].record = outbox[worker.op].record
                              /\ outbox[worker.op].record \in Records
  <2>1. worker.step # "idle" => worker.op \in DOMAIN outbox
    BY OutboxIsSeq DEF MemoryInv, MemoryTypeOK
  <2> QED
    BY <1>2, <2>1, OutboxIsSeq
<1>9. \A r : Settled(r)' <=> Settled(r)
  BY <1>1, <1>5 DEF Settled, fits
<1>10. IndexFollows'
  BY <1>1, <1>3, <1>4, <1>5, <1>8, <1>9 DEF MemoryInv, IndexFollows, fits
<1> QED
  BY <1>1, <1>6, <1>7, <1>10 DEF MemoryInv

-----------------------------------------------------------------------------
(* The synchronizer *)

(* A set of natural numbers has a least element, for < is well-founded.    *)
LEMMA LeastExists ==
  ASSUME NEW S, S \subseteq Nat, S # {}
  PROVE  \E m \in S : \A k \in S : m <= k
<1>1. IsWellFoundedOn(OpToRel(<, Nat), Nat)
  BY NatLessThanWellFounded
<1>2. PICK m \in S : \A k \in S : ~(<<k, m>> \in OpToRel(<, Nat))
  BY <1>1, WFMin, Zenon
<1>3. ASSUME NEW k \in S
      PROVE  m <= k
  <2>1. ~(<<k, m>> \in OpToRel(<, Nat))
    BY <1>2
  <2>2. k \in Nat /\ m \in Nat
    OBVIOUS
  <2>3. k < m => <<k, m>> \in OpToRel(<, Nat)
    BY <2>2 DEF OpToRel
  <2>4. ~(k < m)
    BY <2>1, <2>3
  <2> QED
    BY <2>2, <2>4
<1> QED
  BY <1>2, <1>3

(* The operation under way is one of the outbox.                             *)
LEMMA WorkerIsTyped ==
  ASSUME MemoryInv
  PROVE  /\ worker \in Worker /\ worker.text \in Nat
         /\ worker.step # "idle" => worker.op \in DOMAIN outbox
         /\ worker.step = "idle" => worker.op = 0
         /\ Idle \in Worker /\ 0 \in 0 .. Len(outbox)
<1>1. worker.step # "idle" => worker.op \in DOMAIN outbox
  BY OutboxIsSeq DEF MemoryInv, MemoryTypeOK
<1>2. Idle \in Worker /\ 0 \in 0 .. Len(outbox)
  BY OutboxIsSeq DEF Idle, Worker, Nothing
<1> QED
  BY <1>1, <1>2 DEF MemoryInv, MemoryTypeOK, Worker

(* An operation moves on, and stays about what it was about.                 *)
LEMMA OperationMoves ==
  ASSUME MemoryInv, NEW i \in DOMAIN outbox, NEW op \in Operation,
         op.record = outbox[i].record, op.action = outbox[i].action,
         op.version = outbox[i].version,
         outbox' = [outbox EXCEPT ![i] = op], index' = index, onlyWorker,
         worker' \in Worker, worker'.op \in 0 .. Len(outbox), worker'.step = "idle" <=> worker'.op = 0,
         worker'.step \notin {"upsert", "done"},
         \A r \in Records : Settled(r) \/ \E j \in DOMAIN outbox : owes(j, r) /\ (j # i \/ op.state # "completed")
  PROVE  MemoryInv'
<1>1. /\ outbox' \in Seq(Operation) /\ Len(outbox') = Len(outbox) /\ DOMAIN outbox' = DOMAIN outbox
      /\ outbox'[i] = op /\ \A j \in DOMAIN outbox \ {i} : outbox'[j] = outbox[j]
  BY OutboxIsSeq
<1>2. \A j \in DOMAIN outbox :
        /\ outbox'[j].record = outbox[j].record /\ outbox'[j].action = outbox[j].action
        /\ outbox'[j].version = outbox[j].version
  BY <1>1
<1>3. record' = record /\ served' = served /\ pull' = pull
  BY DEF onlyWorker
<1>4. MemoryTypeOK'
  <2>1. \A j, k \in DOMAIN outbox' : j # k =>
          \/ outbox'[j].record # outbox'[k].record \/ outbox'[j].action # outbox'[k].action
          \/ outbox'[j].version # outbox'[k].version
    BY <1>1, <1>2 DEF MemoryInv, MemoryTypeOK
  <2>2. worker'.op \in 0 .. Len(outbox')
    BY <1>1
  <2>3. worker'.step \in {"idle", "claimed", "upsert", "forget", "done", "failed"}
    BY DEF Worker
  <2> QED
    BY <1>1, <1>3, <2>1, <2>2, <2>3 DEF MemoryInv, MemoryTypeOK
<1>5. VersionsBehind'
  BY <1>1, <1>2, <1>3 DEF MemoryInv, VersionsBehind
<1>6. \A r \in Records, j \in DOMAIN outbox :
        owes(j, r) /\ (j # i \/ op.state # "completed") => owes(j, r)'
  BY <1>1, <1>2, <1>3 DEF owes
<1>7. \A r : Settled(r)' <=> Settled(r)
  BY <1>3 DEF Settled, fits
<1>8. IndexFollows'
  BY <1>1, <1>6, <1>7 DEF IndexFollows
<1> QED
  BY <1>4, <1>5, <1>8 DEF MemoryInv

(* The synchronizer moves, and the outbox does not.                          *)
LEMMA WorkerMoves ==
  ASSUME MemoryInv, UNCHANGED outbox, onlyWorker,
         worker' \in Worker, worker'.op \in 0 .. Len(outbox), worker'.step = "idle" <=> worker'.op = 0,
         index' \in [Records -> Nat],
         \A r \in Records : index'[r] # index[r] =>
           Settled(r)' \/ \E i \in DOMAIN outbox : owes(i, r),
         NEW rec \in Records,
         worker'.step \in {"upsert", "done"} => outbox[worker'.op].record = rec,
         worker'.step = "upsert" => fits(rec, worker'.text),
         worker'.step = "done" => Settled(rec)' \/ \E i \in DOMAIN outbox : owesThen(i, rec)'
  PROVE  MemoryInv'
<1>1. record' = record /\ served' = served /\ pull' = pull
  BY DEF onlyWorker
<1>2. MemoryTypeOK'
  BY <1>1 DEF MemoryInv, MemoryTypeOK, Worker
<1>3. VersionsBehind'
  BY <1>1 DEF MemoryInv, VersionsBehind
<1>4. \A r \in Records, i \in DOMAIN outbox : owes(i, r)' <=> owes(i, r)
  BY <1>1 DEF owes
<1>5. \A r, t : fits(r, t)' <=> fits(r, t)
  BY <1>1 DEF fits
<1>6. \A r \in Records : index'[r] = index[r] => (Settled(r)' <=> Settled(r))
  BY <1>1 DEF Settled, fits
<1>7. \A r \in Records : Settled(r)' \/ \E i \in DOMAIN outbox' : owes(i, r)'
  BY <1>4, <1>6 DEF MemoryInv, IndexFollows
<1>8. worker'.step = "upsert" => fits(rec, worker.text)'
  BY <1>1 DEF fits
<1>9. IndexFollows'
  BY <1>7, <1>8 DEF IndexFollows
<1> QED
  BY <1>2, <1>3, <1>9 DEF MemoryInv

LEMMA ClaimKeeps ==
  ASSUME MemoryInv, ClaimMemoryIndexOperation
  PROVE  MemoryInv'
<1> DEFINE i == CHOOSE i \in claimable : \A j \in claimable : i <= j
<1>1. i \in claimable
  <2>1. claimable \subseteq Nat /\ claimable # {}
    BY OutboxIsSeq DEF claimable, ClaimMemoryIndexOperation
  <2>2. \E m \in claimable : \A j \in claimable : m <= j
    BY <2>1, LeastExists
  <2> QED
    BY <2>2, Zenon
<1>2. /\ outbox' = [outbox EXCEPT ![i].state = "running", ![i].ready = FALSE]
      /\ worker' = [Idle EXCEPT !.op = i, !.step = "claimed"]
      /\ index' = index /\ onlyWorker
  BY DEF ClaimMemoryIndexOperation
<1> HIDE DEF i
<1>3. i \in DOMAIN outbox /\ outbox[i] \in Operation /\ i \in 1 .. Len(outbox) /\ Len(outbox) \in Nat
  BY <1>1, OutboxIsSeq DEF claimable
<1> DEFINE old == outbox[i]  a == [old EXCEPT !.state = "running"]  op == [a EXCEPT !.ready = FALSE]
<1>4. outbox' = [outbox EXCEPT ![i] = op]
  BY <1>2, <1>3, OutboxIsSeq
<1>5. /\ op \in Operation /\ op.record = old.record /\ op.action = old.action
      /\ op.version = old.version /\ op.state = "running"
  <2>1. old \in Operation
    BY <1>3
  <2> HIDE DEF old
  <2>2. /\ a \in Operation /\ a.record = old.record /\ a.action = old.action
        /\ a.version = old.version /\ a.state = "running"
    BY <2>1 DEF Operation
  <2> HIDE DEF a
  <2> QED
    BY <2>2 DEF Operation
<1>6. /\ worker' \in Worker /\ worker'.op = i /\ worker'.step = "claimed"
  <2> DEFINE b == [Idle EXCEPT !.op = i]
  <2>1. i \in Nat /\ worker' = [b EXCEPT !.step = "claimed"]
    BY <1>2, <1>3 DEF Idle
  <2>2. b \in Worker /\ b.op = i
    BY <2>1 DEF Idle, Worker, Nothing
  <2> HIDE DEF b
  <2> QED
    BY <2>1, <2>2 DEF Worker
<1>7. worker'.op \in 0 .. Len(outbox) /\ (worker'.step = "idle" <=> worker'.op = 0)
  BY <1>3, <1>6
<1>8. \A r \in Records : Settled(r) \/ \E j \in DOMAIN outbox : owes(j, r)
  BY DEF MemoryInv, IndexFollows
<1> HIDE DEF op, a
<1> QED
  BY <1>2, <1>3, <1>4, <1>5, <1>6, <1>7, <1>8, OperationMoves

LEMMA DecideKeeps ==
  ASSUME MemoryInv, Decide, NEW rec \in Records, rec = outbox[worker.op].record
  PROVE  MemoryInv'
<1> DEFINE op == outbox[worker.op]
           step == CASE op.action = "forget" -> "forget"
                     [] op.action = "upsert" /\ wanted(op) -> "upsert"
                     [] OTHER -> "done"
<1>1. /\ worker' = [worker EXCEPT !.step = step, !.text = record[rec].text]
      /\ worker.step = "claimed" /\ UNCHANGED <<outbox, index>> /\ onlyWorker
  BY DEF Decide
<1>2. /\ worker.op \in DOMAIN outbox /\ rec \in Records /\ record[rec].text \in Nat
      /\ op.action \in {"upsert", "forget"}
  <2>1. worker.op \in DOMAIN outbox /\ op \in Operation /\ rec \in Records
    BY <1>1, OutboxIsSeq, WorkerIsTyped
  <2> QED
    BY <2>1, RecordIsTyped DEF Operation
<1>3. /\ step \in {"forget", "upsert", "done"}
      /\ step = "upsert" => fits(rec, record[rec].text)
      /\ step = "done" => op.action = "upsert" /\ ~wanted(op)
  BY <1>2 DEF wanted, fits
<1> DEFINE text == record[rec].text
<1> HIDE DEF step
<1>4. /\ worker' \in Worker /\ worker'.op = worker.op /\ worker'.step = step /\ worker'.text = text
  <2>1. worker \in Worker /\ text \in Nat /\ step \in {"forget", "upsert", "done"}
    BY <1>2, <1>3, WorkerIsTyped
  <2>2. worker' = [worker EXCEPT !.step = step, !.text = text]
    BY <1>1
  <2> HIDE DEF text
  <2> QED
    BY <2>1, <2>2 DEF Worker
<1>5. worker'.op \in 0 .. Len(outbox) /\ (worker'.step = "idle" <=> worker'.op = 0)
  BY <1>2, <1>3, <1>4, OutboxIsSeq
<1>6. worker'.step = "done" =>
        (Settled(rec)' \/ \E i \in DOMAIN outbox : owesThen(i, rec)')
  <2> SUFFICES ASSUME worker'.step = "done", ~Settled(rec)
               PROVE  \E i \in DOMAIN outbox : owesThen(i, rec)'
    BY <1>1 DEF Settled, fits, onlyWorker
  <2>1. PICK i \in DOMAIN outbox : owes(i, rec)
    BY <1>2 DEF MemoryInv, IndexFollows
  <2>2. i # worker.op
    BY <1>3, <1>4, <2>1 DEF owes, wanted
  <2>3. owes(i, rec)'
    BY <1>1, <2>1 DEF owes, onlyWorker
  <2> QED
    BY <1>4, <2>1, <2>2, <2>3 DEF owesThen
<1>7. worker'.step = "upsert" => fits(rec, worker'.text)
  BY <1>3, <1>4
<1>8. outbox[worker'.op].record = rec
  BY <1>4
<1>9. index' = index /\ index' \in [Records -> Nat] /\ UNCHANGED outbox /\ onlyWorker
  BY <1>1 DEF MemoryInv, MemoryTypeOK
<1> HIDE DEF op, text
<1> QED
  BY <1>4, <1>5, <1>6, <1>7, <1>8, <1>9, WorkerMoves

(* What a call leaves in the index is true or somebody's operation.          *)
LEMMA WrittenFollows ==
  ASSUME MemoryInv, worker.step \in {"upsert", "forget"}, UNCHANGED outbox, record' = record,
         index' \in {index, written},
         NEW rec \in Records, rec = outbox[worker.op].record
  PROVE  /\ index' \in [Records -> Nat]
         /\ \A r \in Records : index'[r] # index[r] =>
              Settled(r)' \/ \E i \in DOMAIN outbox : owes(i, r)
         /\ index' = written =>
              Settled(rec)' \/ \E i \in DOMAIN outbox : owesThen(i, rec)
<1>1. rec \in Records /\ worker.text \in Nat /\ index \in [Records -> Nat]
  BY OutboxIsSeq, WorkerIsTyped DEF MemoryInv, MemoryTypeOK
<1>2. written = [index EXCEPT ![rec] = IF worker.step = "upsert" THEN worker.text ELSE Nothing]
  BY DEF written
<1>3. worker.step = "upsert" =>
        (fits(rec, worker.text) \/ \E i \in DOMAIN outbox : owesThen(i, rec))
  BY DEF MemoryInv, IndexFollows
<1>4. index' \in [Records -> Nat]
  BY <1>1, <1>2 DEF Nothing
<1>5. index' = written =>
        /\ index'[rec] = IF worker.step = "upsert" THEN worker.text ELSE Nothing
        /\ \A r \in Records \ {rec} : index'[r] = index[r]
  BY <1>1, <1>2
<1>6. index' = written =>
        (Settled(rec)' \/ \E i \in DOMAIN outbox : owesThen(i, rec))
  BY <1>3, <1>5 DEF Settled, fits
<1>7. \A r \in Records : index'[r] # index[r] =>
              Settled(r)' \/ \E i \in DOMAIN outbox : owes(i, r)
  BY <1>5, <1>6 DEF owesThen
<1> QED
  BY <1>4, <1>6, <1>7

(* The call, whether it answers, fails or is cut off.                        *)
LEMMA CallKeeps ==
  ASSUME MemoryInv, Write \/ WriteFails \/ (Crash /\ worker.step \in {"upsert", "forget"})
  PROVE  MemoryInv'
<1>1. /\ worker.step \in {"upsert", "forget"} /\ index' \in {index, written}
      /\ UNCHANGED outbox /\ onlyWorker /\ record' = record
  BY DEF Write, WriteFails, Crash, onlyWorker
<1>2. /\ outbox[worker.op].record \in Records /\ worker.op \in 1 .. Len(outbox) /\ worker.op \in DOMAIN outbox
      /\ Len(outbox) \in Nat
  BY <1>1, OutboxIsSeq, WorkerIsTyped
<1>3. PICK rec \in Records : rec = outbox[worker.op].record
  BY <1>2
<1>4. /\ index' \in [Records -> Nat]
      /\ \A r \in Records : index'[r] # index[r] =>
           Settled(r)' \/ \E i \in DOMAIN outbox : owes(i, r)
      /\ index' = written => Settled(rec)' \/ \E i \in DOMAIN outbox : owesThen(i, rec)
  BY <1>1, <1>2, <1>3, WrittenFollows
<1>5. CASE Write
  <2>1. worker' = [worker EXCEPT !.step = "done"] /\ index' = written
    BY <1>5 DEF Write
  <2>2. worker' \in Worker /\ worker'.op = worker.op /\ worker'.step = "done"
    BY <2>1, WorkerIsTyped DEF Worker
  <2>3. worker'.op \in 0 .. Len(outbox) /\ (worker'.step = "idle" <=> worker'.op = 0)
    BY <1>2, <2>2
  <2>4. Settled(rec)' \/ \E i \in DOMAIN outbox : owesThen(i, rec)'
    BY <1>1, <1>4, <2>1, <2>2 DEF owesThen, owes
  <2>5. outbox[worker'.op].record = rec /\ worker'.step # "upsert"
    BY <1>3, <2>2
  <2> QED
    BY <1>1, <1>2, <1>4, <2>2, <2>3, <2>4, <2>5, WorkerMoves
<1>6. CASE WriteFails
  <2>1. worker' = [worker EXCEPT !.step = "failed"]
    BY <1>6 DEF WriteFails
  <2>2. worker' \in Worker /\ worker'.op = worker.op /\ worker'.step = "failed"
    BY <2>1, WorkerIsTyped DEF Worker
  <2>3. worker'.op \in 0 .. Len(outbox) /\ (worker'.step = "idle" <=> worker'.op = 0)
    BY <1>2, <2>2
  <2>4. worker'.step \notin {"upsert", "done"}
    BY <2>2
  <2> QED
    BY <1>1, <1>2, <1>4, <2>2, <2>3, <2>4, WorkerMoves
<1>7. CASE Crash
  <2>1. worker' = Idle
    BY <1>7 DEF Crash
  <2>2. worker' \in Worker /\ worker'.op = 0 /\ worker'.step = "idle"
    BY <2>1, WorkerIsTyped DEF Idle
  <2>3. worker'.op \in 0 .. Len(outbox) /\ (worker'.step = "idle" <=> worker'.op = 0)
        /\ worker'.step \notin {"upsert", "done"}
    BY <1>2, <2>2
  <2> QED
    BY <1>1, <1>2, <1>4, <2>2, <2>3, WorkerMoves
<1> QED
  BY <1>5, <1>6, <1>7

(* A crash away from the call leaves the index alone.                        *)
LEMMA CrashKeeps ==
  ASSUME MemoryInv, Crash
  PROVE  MemoryInv'
<1>1. CASE worker.step \in {"upsert", "forget"}
  BY <1>1, CallKeeps
<1>2. CASE worker.step \notin {"upsert", "forget"}
  <2>1. index' = index /\ worker' = Idle /\ UNCHANGED outbox /\ onlyWorker /\ worker.step # "idle"
    BY <1>2 DEF Crash
  <2>2. worker' \in Worker /\ worker'.op = 0 /\ worker'.step = "idle"
    BY <2>1, WorkerIsTyped DEF Idle
  <2>3. /\ worker'.op \in 0 .. Len(outbox) /\ (worker'.step = "idle" <=> worker'.op = 0)
        /\ worker'.step \notin {"upsert", "done"}
    BY <2>2, WorkerIsTyped
  <2>4. index' \in [Records -> Nat]
    BY <2>1 DEF MemoryInv, MemoryTypeOK
  <2>5. outbox[worker.op].record \in Records
    BY <2>1, WorkerIsTyped, OutboxIsSeq
  <2>6. PICK rec \in Records : TRUE
    BY <2>5
  <2> QED
    BY <2>1, <2>2, <2>3, <2>4, <2>6, WorkerMoves
<1> QED
  BY <1>1, <1>2

(* The end of an operation, as long as nobody asked for it again.            *)
LEMMA EndKeeps ==
  ASSUME MemoryInv, CompleteMemoryIndexOperation \/ FailMemoryIndexOperation
  PROVE  MemoryInv'
<1> DEFINE i == worker.op  old == outbox[i]  rec == old.record
<1>1. PICK state \in {"completed", "failed"} :
        /\ outbox' = IF outbox[worker.op].state = "running"
                     THEN [outbox EXCEPT ![worker.op].state = state] ELSE outbox
        /\ state = "completed" => worker.step = "done"
        /\ worker.step # "idle" /\ worker' = Idle /\ index' = index /\ onlyWorker
  BY DEF CompleteMemoryIndexOperation, FailMemoryIndexOperation, finished
<1>2. i \in DOMAIN outbox /\ old \in Operation /\ rec \in Records
  BY <1>1, WorkerIsTyped, OutboxIsSeq
<1>3. /\ worker' \in Worker /\ worker'.op \in 0 .. Len(outbox)
      /\ worker'.step = "idle" <=> worker'.op = 0
      /\ worker'.step \notin {"upsert", "done"}
  BY <1>1, WorkerIsTyped DEF Idle
<1>4. CASE old.state = "running"
  <2> DEFINE op == [old EXCEPT !.state = state]
  <2>1. outbox' = [outbox EXCEPT ![i] = op]
    BY <1>1, <1>2, <1>4
  <2>2. /\ op \in Operation /\ op.record = old.record /\ op.action = old.action
        /\ op.version = old.version /\ op.state = state
    <3>1. old \in Operation
      BY <1>2
    <3> HIDE DEF old
    <3> QED
      BY <3>1 DEF Operation
  <2>3. ASSUME NEW r \in Records, ~Settled(r)
        PROVE  \E j \in DOMAIN outbox : owes(j, r) /\ (j # i \/ op.state # "completed")
    <3>1. PICK j \in DOMAIN outbox : owes(j, r)
      BY <2>3 DEF MemoryInv, IndexFollows
    <3>2. CASE j = i /\ state = "completed"
      <4>1. r = rec /\ worker.step = "done"
        BY <1>1, <3>1, <3>2 DEF owes
      <4>2. PICK k \in DOMAIN outbox : owesThen(k, r)
        BY <2>3, <4>1 DEF MemoryInv, IndexFollows
      <4>3. k # i /\ owes(k, r)
        BY <1>4, <4>2 DEF owesThen
      <4> QED
        BY <4>3
    <3>3. CASE ~(j = i /\ state = "completed")
      BY <2>2, <3>1, <3>3
    <3> QED
      BY <3>2, <3>3
  <2> HIDE DEF op
  <2>4. \A r \in Records : Settled(r) \/ \E j \in DOMAIN outbox : owes(j, r) /\ (j # i \/ op.state # "completed")
    BY <2>3
  <2> HIDE DEF i
  <2> QED
    BY <1>1, <1>2, <1>3, <2>1, <2>2, <2>4, OperationMoves
<1>5. CASE old.state # "running"
  <2>1. UNCHANGED outbox
    BY <1>1, <1>5
  <2>2. index' = index /\ index' \in [Records -> Nat] /\ onlyWorker
    BY <1>1 DEF MemoryInv, MemoryTypeOK
  <2>3. PICK q \in Records : TRUE
    BY <1>2
  <2> QED
    BY <1>3, <2>1, <2>2, <2>3, WorkerMoves
<1> QED
  BY <1>4, <1>5

(* A delay, or a lease, ends.                                                *)
LEMMA ElapseKeeps ==
  ASSUME MemoryInv, NEW i \in DOMAIN outbox, Elapse(i)
  PROVE  MemoryInv'
<1> DEFINE old == outbox[i]  op == [old EXCEPT !.ready = TRUE]
<1>1. /\ outbox' = [outbox EXCEPT ![i] = op] /\ UNCHANGED <<worker, index>> /\ onlyWorker
      /\ worker.op # i
  BY OutboxIsSeq DEF Elapse
<1>2. old \in Operation
  BY OutboxIsSeq
<1>3. /\ op \in Operation /\ op.record = old.record /\ op.action = old.action
      /\ op.version = old.version /\ op.state = old.state
  <2> HIDE DEF old
  <2> QED
    BY <1>2 DEF Operation
<1> HIDE DEF op
<1>4. /\ outbox' \in Seq(Operation) /\ Len(outbox') = Len(outbox) /\ DOMAIN outbox' = DOMAIN outbox
      /\ outbox'[i] = op /\ \A j \in DOMAIN outbox \ {i} : outbox'[j] = outbox[j]
  BY <1>1, <1>3, OutboxIsSeq
<1>5. \A j \in DOMAIN outbox :
        /\ outbox'[j].record = outbox[j].record /\ outbox'[j].action = outbox[j].action
        /\ outbox'[j].version = outbox[j].version /\ outbox'[j].state = outbox[j].state
  BY <1>3, <1>4
<1>6. record' = record /\ served' = served /\ pull' = pull /\ worker' = worker /\ index' = index
  BY <1>1 DEF onlyWorker
<1>7. MemoryTypeOK'
  <2>1. \A j, k \in DOMAIN outbox' : j # k =>
          \/ outbox'[j].record # outbox'[k].record \/ outbox'[j].action # outbox'[k].action
          \/ outbox'[j].version # outbox'[k].version
    BY <1>4, <1>5 DEF MemoryInv, MemoryTypeOK
  <2> QED
    BY <1>4, <1>6, <2>1 DEF MemoryInv, MemoryTypeOK
<1>8. VersionsBehind'
  BY <1>4, <1>5, <1>6 DEF MemoryInv, VersionsBehind
<1>9. \A r \in Records, j \in DOMAIN outbox : /\ owes(j, r) => owes(j, r)'
                                              /\ owesThen(j, r) => owesThen(j, r)'
  BY <1>4, <1>5, <1>6 DEF owes, owesThen
<1>10. \A r : Settled(r)' <=> Settled(r)
  BY <1>6 DEF Settled, fits
<1>11. worker.step # "idle" => /\ worker.op \in DOMAIN outbox
                               /\ outbox'[worker.op].record = outbox[worker.op].record
                               /\ outbox[worker.op].record \in Records
  BY <1>5, WorkerIsTyped, OutboxIsSeq
<1>12. IndexFollows'
  BY <1>4, <1>6, <1>9, <1>10, <1>11 DEF MemoryInv, IndexFollows, fits
<1> QED
  BY <1>6, <1>7, <1>8, <1>12 DEF MemoryInv

-----------------------------------------------------------------------------
(* A webhook tells of a pull request that was closed.                        *)
HooksTell == \A h \in hooks : h.outcome \in {"merged", "rejected"}

LEMMA HooksInvariant == MemoryInit /\ [][MemoryNext]_memoryVars => []HooksTell
<1>1. MemoryInit => HooksTell
  BY DEF MemoryInit, HooksTell
<1>2. HooksTell /\ [MemoryNext]_memoryVars => HooksTell'
  <2> SUFFICES ASSUME HooksTell, [MemoryNext]_memoryVars PROVE HooksTell'
    OBVIOUS
  <2>1. CASE Close
    BY <2>1 DEF Close, HooksTell
  <2>2. ASSUME NEW r \in Records,
               \/ PutCandidate(r) \/ CorrectMemory(r) \/ VerifyMemory(r) \/ PromoteMemory(r)
               \/ InvalidateMemory(r) \/ DeleteMemory(r)
        PROVE  hooks' = hooks
    BY <2>2 DEF PutCandidate, CorrectMemory, VerifyMemory, PromoteMemory, InvalidateMemory,
                DeleteMemory, unchangedElsewhere
  <2>3. CASE RestoreProjectMemory \/ Rebuild \/ Retrieve \/ Reopen \/ UNCHANGED memoryVars
    BY <2>3 DEF RestoreProjectMemory, Rebuild, Retrieve, Reopen, memoryVars, unchangedElsewhere,
                HooksTell
  <2>4. CASE SynchronizerStep \/ Write \/ WriteFails \/ Crash \/ \E i \in DOMAIN outbox : Elapse(i)
    BY <2>4 DEF SynchronizerStep, ClaimMemoryIndexOperation, Decide,
                CompleteMemoryIndexOperation, FailMemoryIndexOperation, Write, WriteFails, Crash,
                Elapse, onlyWorker, HooksTell
  <2>5. CASE Webhook \/ Poll
    BY <2>5 DEF Webhook, Poll, ApplyGitHubPullRequestEvent, HooksTell
  <2> QED
    BY <2>1, <2>2, <2>3, <2>4, <2>5 DEF MemoryNext, HooksTell
<1> QED
  BY <1>1, <1>2, PTL

LEMMA MemoryInvariant == MemoryInit /\ [][MemoryNext]_memoryVars => []MemoryInv
<1>1. MemoryInit => MemoryInv
  <2> SUFFICES ASSUME MemoryInit PROVE MemoryInv
    OBVIOUS
  <2>1. outbox = <<>> /\ outbox \in Seq(Operation) /\ Len(outbox) = 0 /\ DOMAIN outbox = {}
    BY DEF MemoryInit
  <2>2. worker = Idle /\ Idle \in Worker /\ Idle.op = 0 /\ Idle.step = "idle"
    BY DEF MemoryInit, Idle, Worker, Nothing
  <2>3. record \in [Records -> Record] /\ \A r \in Records : record[r].version = 0
    BY DEF MemoryInit, Record
  <2>4. /\ index \in [Records -> Nat] /\ \A r \in Records : index[r] = Nothing
        /\ served \subseteq Records
        /\ pull \in [state : {"open", "merged", "rejected"}, closes : Nat]
    BY DEF MemoryInit, Nothing
  <2>5. MemoryTypeOK
    BY <2>1, <2>2, <2>3, <2>4 DEF MemoryTypeOK
  <2>6. VersionsBehind
    BY <2>1, <2>3 DEF VersionsBehind
  <2>7. IndexFollows
    BY <2>2, <2>4 DEF IndexFollows, Settled
  <2> QED
    BY <2>2, <2>5, <2>6, <2>7 DEF MemoryInv
<1>2. MemoryInv /\ HooksTell /\ [MemoryNext]_memoryVars => MemoryInv'
  <2> SUFFICES ASSUME MemoryInv, HooksTell, [MemoryNext]_memoryVars PROVE MemoryInv'
    OBVIOUS
  <2>1. ASSUME UNCHANGED <<record, outbox, worker, index>>, served' \subseteq Records,
               pull' \in [state : {"open", "merged", "rejected"}, closes : Nat]
        PROVE  MemoryInv'
    <3>1. MemoryTypeOK' /\ VersionsBehind'
      BY <2>1 DEF MemoryInv, MemoryTypeOK, VersionsBehind
    <3>2. IndexFollows'
      BY <2>1 DEF MemoryInv, IndexFollows, Settled, fits, owes, owesThen
    <3> QED
      BY <2>1, <3>1, <3>2 DEF MemoryInv
  <2>2. served \subseteq Records /\ pull \in [state : {"open", "merged", "rejected"}, closes : Nat]
    BY DEF MemoryInv, MemoryTypeOK
  <2>3. CASE Retrieve \/ UNCHANGED memoryVars
    BY <2>1, <2>2, <2>3 DEF Retrieve, memoryVars
  <2>4. CASE Close
    <3>1. PICK outcome \in {"merged", "rejected"} :
            pull' = [state |-> outcome, closes |-> pull.closes + 1]
      BY <2>4 DEF Close
    <3>2. pull' \in [state : {"open", "merged", "rejected"}, closes : Nat]
      BY <2>2, <3>1
    <3> QED
      BY <2>1, <2>2, <2>4, <3>2 DEF Close
  <2>5. CASE Reopen
    <3>1. pull' \in [state : {"open", "merged", "rejected"}, closes : Nat]
      BY <2>2, <2>5 DEF Reopen
    <3> QED
      BY <2>1, <2>2, <2>5, <3>1 DEF Reopen
  <2>6. ASSUME NEW r \in Records,
               \/ PutCandidate(r) \/ CorrectMemory(r) \/ VerifyMemory(r) \/ PromoteMemory(r)
               \/ InvalidateMemory(r) \/ DeleteMemory(r)
        PROVE  MemoryInv'
    BY <2>6, PeopleKeep
  <2>7. CASE RestoreProjectMemory \/ Rebuild
    BY <2>7, RestoreKeeps, RebuildKeeps
  <2>8. CASE SynchronizerStep
    <3>1. CASE Decide
      <4>1. outbox[worker.op].record \in Records
        BY <3>1, WorkerIsTyped, OutboxIsSeq DEF Decide
      <4> QED
        BY <3>1, <4>1, DecideKeeps
    <3> QED
      BY <2>8, <3>1, ClaimKeeps, EndKeeps DEF SynchronizerStep
  <2>9. CASE Write \/ WriteFails \/ Crash
    BY <2>9, CallKeeps, CrashKeeps
  <2>10. ASSUME NEW i \in DOMAIN outbox, Elapse(i) PROVE MemoryInv'
    BY <2>10, ElapseKeeps
  <2>11. CASE Webhook
    <3>1. PICK h \in hooks : ApplyGitHubPullRequestEvent(h)
      BY <2>11 DEF Webhook
    <3>2. h.outcome \in {"merged", "rejected"}
      BY DEF HooksTell
    <3> QED
      BY <3>1, <3>2, EventKeeps
  <2>12. CASE Poll
    <3>1. PICK h \in hooks : ApplyGitHubPullRequestEvent(polled(h.outcome))
      BY <2>12 DEF Poll
    <3>2. polled(h.outcome).outcome \in {"merged", "rejected"}
      BY DEF polled, HooksTell
    <3> QED
      BY <3>1, <3>2, EventKeeps
  <2> QED
    BY <2>3, <2>4, <2>5, <2>6, <2>7, <2>8, <2>9, <2>10, <2>11, <2>12 DEF MemoryNext
<1> QED
  BY <1>1, <1>2, HooksInvariant, PTL

(* What the index holds is true or will be looked at again, for any number of *)
(* records, changes, closed pull requests, failed calls, crashes and rebuilds *)
(* (memory_index_queue.go, sync.go, github.go).                              *)
THEOREM IndexForAll == MemorySpec => []IndexIsTrueOrOwed
<1>1. MemoryInv => IndexIsTrueOrOwed
  BY DEF MemoryInv, IndexFollows, IndexIsTrueOrOwed, Settled, fits, owes
<1> QED
  BY <1>1, MemoryInvariant, PTL DEF MemorySpec

(* Records, the outbox and the synchronizer keep their types, and the outbox *)
(* has an operation of a version once.                                       *)
THEOREM MemoryTypesForAll == MemorySpec => []MemoryTypeOK
<1>1. MemoryInv => MemoryTypeOK
  BY DEF MemoryInv
<1> QED
  BY <1>1, MemoryInvariant, PTL DEF MemorySpec

-----------------------------------------------------------------------------
(* The poll of pull requests *)

(* The job whose turn it is, is one of those that are left.                 *)
LEMMA SomeTurn ==
  ASSUME NEW n \in Nat, NEW T \in SUBSET (1 .. n), T # {}
  PROVE  \E j \in T : \A k \in T : k <= j
<1> DEFINE D == {n - k : k \in T}
<1>1. D \subseteq Nat /\ D # {}
  <2>1. ASSUME NEW k \in T PROVE n - k \in Nat
    <3>1. k \in 1 .. n
      OBVIOUS
    <3> QED
      BY <3>1
  <2> QED
    BY <2>1
<1>2. PICK d \in D : \A e \in D : d <= e
  BY <1>1, LeastExists
<1>3. PICK j \in T : d = n - j
  BY <1>2
<1>4. ASSUME NEW k \in T PROVE k <= j
  BY <1>2, <1>3
<1> QED
  BY <1>4

(* Jobs, pull requests and the step of the loop keep their types, for any   *)
(* number of jobs, any limit of a list and any failures.                    *)
THEOREM PollingTypesForAll == PollingSpec => []PollingTypeOK
<1>0. JobCount \in Nat /\ PageLimit \in Nat /\ MaxUpsets \in Nat /\ Failable \subseteq PolledJobs
  BY PollingAssumption DEF PolledJobs
<1>1. PollingInit => PollingTypeOK
  BY <1>0 DEF PollingInit, PollingTypeOK, PolledJobs, NothingRead
<1>2. PollingTypeOK /\ [PollingNext]_pollingVars => PollingTypeOK'
  <2> SUFFICES ASSUME PollingTypeOK, [PollingNext]_pollingVars PROVE PollingTypeOK'
    OBVIOUS
  <2> USE <1>0 DEF PollingTypeOK
  <2>1. ASSUME NEW j \in PolledJobs, PublishPull(j) \/ ClosePull(j) \/ ReopenPull(j) \/ ChangeTrouble(j)
        PROVE  PollingTypeOK'
    <3>1. pulls' \in [PolledJobs -> {"unpublished", "open"} \union Outcomes]
      BY <2>1 DEF PublishPull, ClosePull, ReopenPull, ChangeTrouble, becomes, Outcomes
    <3>2. failing' \subseteq Failable /\ upsets' \in 0 .. MaxUpsets
      BY <2>1 DEF PublishPull, ClosePull, ReopenPull, ChangeTrouble, becomes, upset
    <3>3. UNCHANGED <<created, projectEnabled, todo, read, reported>>
      BY <2>1 DEF PublishPull, ClosePull, ReopenPull, ChangeTrouble, becomes, loopUnchanged
    <3> QED
      BY <3>1, <3>2, <3>3
  <2>2. CASE CreatePolledJob
    <3>1. created' \in 0 .. JobCount
      BY <2>2 DEF CreatePolledJob
    <3> QED
      BY <2>2, <3>1 DEF CreatePolledJob, loopUnchanged
  <2>3. CASE BeginStep
    <3>1. listed \subseteq PolledJobs
      BY DEF listed, PolledJobs
    <3> QED
      BY <2>3, <3>1 DEF BeginStep, stepOnly
  <2>4. ASSUME todo # {} PROVE turn \in todo
    <3>1. \E j \in todo : \A k \in todo : k <= j
      BY <2>4, SomeTurn DEF PolledJobs
    <3> QED
      BY <3>1 DEF turn
  <2>5. CASE VisitJob
    BY <2>4, <2>5 DEF VisitJob, stepOnly, goesOn, endOfStep
  <2>6. CASE ApplyOutcome
    BY <2>4, <2>6 DEF ApplyOutcome, stepOnly, goesOn, endOfStep
  <2>7. CASE RestartController
    BY <2>7 DEF RestartController, upset, endOfStep
  <2>8. CASE SetEnabled
    BY <2>8 DEF SetEnabled, loopUnchanged
  <2>9. CASE UNCHANGED pollingVars
    BY <2>9 DEF pollingVars
  <2> QED
    BY <2>1, <2>2, <2>3, <2>5, <2>6, <2>7, <2>8, <2>9 DEF PollingNext, PollStep
<1> QED
  BY <1>1, <1>2, PTL DEF PollingSpec

-----------------------------------------------------------------------------
(* Schedules *)

(* A row on the screen of an administrator is one the table had, and is the  *)
(* present one as long as the version is.                                    *)
EditingFits ==
  \A a \in Editors : editing[a] # NoEdit =>
    /\ editing[a].of \in Schedules /\ editing[a].row \in Schedule
    /\ editing[a].row.version <= schedule[editing[a].of].version
    /\ editing[a].row.version = schedule[editing[a].of].version =>
         editing[a].row = schedule[editing[a].of]

AutomationInv ==
  /\ AutomationTypeOK /\ EditingFits /\ OccurrencesRunOnce
  /\ editing \in [Editors -> {NoEdit} \union [of : Schedules, row : Schedule]]

(* An occurrence is missed at most; what follows is later than now.         *)
LEMMA FollowingIsLater ==
  ASSUME AutomationTypeOK, NEW s \in Schedules, schedule[s].next <= now
  PROVE  following(s) \in Nat /\ following(s) > now
<1> DEFINE i == schedule[s].plan.interval
           d == schedule[s].next
           q == (now - d) \div i
<1>1. /\ i \in Nat \ {0} /\ d \in Nat /\ now \in Nat /\ d <= now
  BY AutomationAssumption DEF AutomationTypeOK, Schedule, Plan
<1> HIDE DEF i, d
<1>2. q \in Nat /\ i * (q + 1) > now - d
  <2> DEFINE n == now - d
  <2>1. n \in Nat
    BY <1>1
  <2> HIDE DEF n
  <2>2. n \div i \in Nat /\ n = (i * (n \div i)) + (n % i) /\ n % i < i
    BY <1>1, <2>1
  <2>3. i * ((n \div i) + 1) = (i * (n \div i)) + i
    BY <1>1, <2>2
  <2> QED
    BY <1>1, <2>1, <2>2, <2>3 DEF n
<1> HIDE DEF q
<1>3. i * (q + 1) \in Nat
  BY <1>1, <1>2
<1>4. following(s) = d + i * (q + 1)
  BY DEF following, i, d, q
<1> QED
  BY <1>1, <1>2, <1>3, <1>4

(* A row that is changed gets a later version; its next run comes after its  *)
(* last one.                                                                 *)
LEMMA RowChanges ==
  ASSUME AutomationInv, NEW s \in Schedules, NEW row \in Schedule,
         row.version = schedule[s].version + 1,
         schedule' = [schedule EXCEPT ![s] = row],
         lastRun' \in [Schedules -> 0 .. MaxMinute],
         \A t \in Schedules \ {s} : lastRun'[t] = lastRun[t],
         lastRun'[s] < row.next,
         \A a \in Editors : editing'[a] \in {editing[a], NoEdit},
         editing' \in [Editors -> {NoEdit} \union [of : Schedules, row : Schedule]],
         now' = now, enabled' = enabled, skill' = skill, notices' \subseteq Schedules
  PROVE  AutomationInv'
<1>1. schedule' \in [Schedules -> Schedule]
  BY DEF AutomationInv, AutomationTypeOK
<1>2. AutomationTypeOK'
  BY <1>1 DEF AutomationInv, AutomationTypeOK
<1>3. OccurrencesRunOnce'
  BY DEF AutomationInv, AutomationTypeOK, OccurrencesRunOnce
<1>4. EditingFits'
  <2> SUFFICES ASSUME NEW a \in Editors, editing'[a] # NoEdit
               PROVE  /\ editing'[a].of \in Schedules /\ editing'[a].row \in Schedule
                      /\ editing'[a].row.version <= schedule'[editing'[a].of].version
                      /\ editing'[a].row.version = schedule'[editing'[a].of].version =>
                           editing'[a].row = schedule'[editing'[a].of]
    BY DEF EditingFits
  <2> DEFINE t == editing[a].of  seen == editing[a].row
  <2>1. /\ editing'[a] = editing[a] /\ t \in Schedules /\ seen \in Schedule
        /\ seen.version <= schedule[t].version
        /\ seen.version = schedule[t].version => seen = schedule[t]
    BY DEF AutomationInv, EditingFits
  <2> HIDE DEF t, seen
  <2>2. CASE t = s
    <3>1. schedule'[t] = row
      BY <2>2 DEF AutomationInv, AutomationTypeOK
    <3>2. seen.version \in Nat /\ schedule[t].version \in Nat
      BY <2>1 DEF AutomationInv, AutomationTypeOK, Schedule
    <3> QED
      BY <2>1, <2>2, <3>1, <3>2 DEF t, seen
  <2>3. CASE t # s
    <3>1. schedule'[t] = schedule[t]
      BY <2>1, <2>3 DEF AutomationInv, AutomationTypeOK
    <3> QED
      BY <2>1, <3>1 DEF t, seen
  <2> QED
    BY <2>2, <2>3
<1> QED
  BY <1>2, <1>3, <1>4 DEF AutomationInv

(* A dispatch moves the occurrence on.                                      *)
LEMMA DispatchKeeps ==
  ASSUME AutomationInv, DispatchDueSchedule
  PROVE  AutomationInv'
<1>1. PICK s \in Schedules :
        /\ due(s)
        /\ schedule' = [schedule EXCEPT ![s].next = following(s), ![s].version = @ + 1]
        /\ lastRun' = [lastRun EXCEPT ![s] = now]
        /\ notices' = notices \union {s}
        /\ UNCHANGED <<enabled, now, editing, edits, skill>>
  BY DEF DispatchDueSchedule, advanced
<1>2. schedule[s] \in Schedule /\ now \in 0 .. MaxMinute /\ schedule[s].next <= now
  BY <1>1 DEF AutomationInv, AutomationTypeOK, due
<1>3. following(s) \in Nat /\ following(s) > now
  BY <1>2, FollowingIsLater DEF AutomationInv
<1> DEFINE row == [schedule[s] EXCEPT !.next = following(s), !.version = @ + 1]
<1>4. row \in Schedule /\ row.version = schedule[s].version + 1 /\ row.next = following(s)
  <2> DEFINE n == following(s)  old == schedule[s]
  <2>1. n \in Nat /\ old \in Schedule /\ row = [old EXCEPT !.next = n, !.version = @ + 1]
    BY <1>2, <1>3
  <2> HIDE DEF n, old, row
  <2> DEFINE later == [old EXCEPT !.next = n]
  <2>2. later \in Schedule /\ later.next = n /\ later.version = old.version
    BY <2>1 DEF Schedule
  <2>3. row = [later EXCEPT !.version = @ + 1]
    BY <2>1 DEF Schedule
  <2> HIDE DEF later
  <2>4. row.version = old.version + 1 /\ row.next = n /\ row \in Schedule
    BY <2>2, <2>3 DEF Schedule
  <2> QED
    BY <2>4 DEF n, old
<1>5. schedule' = [schedule EXCEPT ![s] = row]
  BY <1>1, <1>2 DEF Schedule
<1>6. /\ lastRun' \in [Schedules -> 0 .. MaxMinute] /\ lastRun'[s] = now
      /\ \A t \in Schedules \ {s} : lastRun'[t] = lastRun[t]
      /\ notices' \subseteq Schedules
  BY <1>1, <1>2 DEF AutomationInv, AutomationTypeOK
<1>7. /\ \A a \in Editors : editing'[a] \in {editing[a], NoEdit}
      /\ editing' \in [Editors -> {NoEdit} \union [of : Schedules, row : Schedule]]
      /\ now' = now /\ enabled' = enabled /\ skill' = skill
  BY <1>1 DEF AutomationInv
<1>8. lastRun'[s] < row.next
  BY <1>2, <1>3, <1>4, <1>6
<1> HIDE DEF row
<1> QED
  BY <1>1, <1>4, <1>5, <1>6, <1>7, <1>8, RowChanges

(* A row that is saved is the row that was read, but for what was changed.   *)
LEMMA SaveKeeps ==
  ASSUME AutomationInv, NEW a \in Editors, SaveSchedule(a)
  PROVE  AutomationInv'
<1> DEFINE s == editing[a].of  row == editing[a].row
<1>1. /\ s \in Schedules /\ row \in Schedule
      /\ row.version = schedule[s].version => row = schedule[s]
  BY DEF SaveSchedule, AutomationInv, EditingFits
<1>2. /\ UNCHANGED <<enabled, now, lastRun, edits, notices, skill>>
      /\ editing' = [editing EXCEPT ![a] = NoEdit]
      /\ \A b \in Editors : editing'[b] \in {editing[b], NoEdit}
      /\ editing' \in [Editors -> {NoEdit} \union [of : Schedules, row : Schedule]]
  BY DEF SaveSchedule, AutomationInv
<1>3. CASE UNCHANGED schedule
  BY <1>2, <1>3 DEF AutomationInv, AutomationTypeOK, EditingFits, OccurrencesRunOnce
<1>4. CASE ~UNCHANGED schedule
  <2>1. PICK to \in {[row EXCEPT !.on = ~@]} \union {[row EXCEPT !.plan = p] : p \in Plans \ {row.plan}} :
          /\ unchangedRow(s, row)
          /\ schedule' = [schedule EXCEPT ![s] = [to EXCEPT !.version = @ + 1]]
    BY <1>4 DEF SaveSchedule
  <2>2. row = schedule[s]
    BY <1>1, <2>1 DEF unchangedRow
  <2> DEFINE new == [to EXCEPT !.version = @ + 1]
  <2>3. to \in Schedule /\ to.next = row.next /\ to.version = row.version
    <3> HIDE DEF row
    <3> QED
      BY <1>1, <2>1, AutomationAssumption, ZenonT(60) DEF Schedule
  <2>4. new \in Schedule /\ new.version = row.version + 1 /\ new.next = row.next
    <3> HIDE DEF row
    <3> QED
      BY <2>3 DEF Schedule
  <2>5. lastRun[s] < schedule[s].next /\ lastRun \in [Schedules -> 0 .. MaxMinute]
        /\ notices \subseteq Schedules
    BY <1>1 DEF AutomationInv, AutomationTypeOK, OccurrencesRunOnce
  <2>6. schedule' = [schedule EXCEPT ![s] = new] /\ new.version = schedule[s].version + 1
    BY <2>1, <2>2, <2>4
  <2>7. lastRun'[s] < new.next
    BY <1>2, <2>2, <2>4, <2>5
  <2> HIDE DEF new, s, row
  <2> QED
    BY <1>1, <1>2, <2>4, <2>5, <2>6, <2>7, RowChanges
<1> QED
  BY <1>3, <1>4

LEMMA AutomationInvariant == AutomationInit /\ [][AutomationNext]_automationVars => []AutomationInv
<1>1. AutomationInit => AutomationInv
  <2> SUFFICES ASSUME AutomationInit PROVE AutomationInv
    OBVIOUS
  <2>1. /\ schedule \in [Schedules -> Schedule]
        /\ \A s \in Schedules : schedule[s].next \in Nat \ {0}
    <3>1. \A p \in Plans : /\ [plan |-> p, on |-> TRUE, next |-> p.interval, version |-> 1] \in Schedule
                           /\ p.interval \in Nat \ {0}
      BY AutomationAssumption DEF Plan, Schedule
    <3> QED
      BY <3>1 DEF AutomationInit
  <2>2. AutomationTypeOK
    BY <2>1, AutomationAssumption DEF AutomationInit, AutomationTypeOK
  <2> QED
    BY <2>1, <2>2 DEF AutomationInit, AutomationInv, EditingFits, OccurrencesRunOnce
<1>2. AutomationInv /\ [AutomationNext]_automationVars => AutomationInv'
  <2> SUFFICES ASSUME AutomationInv, [AutomationNext]_automationVars PROVE AutomationInv'
    OBVIOUS
  <2> USE DEF AutomationInv, AutomationTypeOK, EditingFits, OccurrencesRunOnce
  <2>1. CASE DispatchDueSchedule
    BY <2>1, DispatchKeeps
  <2>2. CASE Tick
    BY <2>2, AutomationAssumption DEF Tick
  <2>3. ASSUME NEW a \in Editors, Open(a) PROVE AutomationInv'
    <3>1. PICK s \in Schedules : editing' = [editing EXCEPT ![a] = [of |-> s, row |-> schedule[s]]]
      BY <2>3 DEF Open
    <3>2. UNCHANGED <<schedule, enabled, now, lastRun, notices, skill>>
      BY <2>3 DEF Open
    <3> DEFINE x == [of |-> s, row |-> schedule[s]]
    <3>3. x.of = s /\ x.row = schedule[s] /\ x \in [of : Schedules, row : Schedule]
          /\ schedule[s].version \in Nat
      BY DEF Schedule
    <3> HIDE DEF x
    <3>4. editing' = [editing EXCEPT ![a] = x]
      BY <3>1 DEF x
    <3> QED
      BY <3>2, <3>3, <3>4
  <2>4. ASSUME NEW a \in Editors, SaveSchedule(a) PROVE AutomationInv'
    BY <2>4, SaveKeeps
  <2>5. ASSUME NEW p \in Owners, UpsertProject(p) PROVE AutomationInv'
    BY <2>5 DEF UpsertProject
  <2>6. ASSUME NEW s \in Schedules, AcknowledgeNotification(s) PROVE AutomationInv'
    BY <2>6 DEF AcknowledgeNotification
  <2>7. ASSUME NEW k \in Skills, CreateSkillProposal(k) \/ ReviewSkillProposal(k) PROVE AutomationInv'
    BY <2>7 DEF CreateSkillProposal, ReviewSkillProposal
  <2>8. CASE UNCHANGED automationVars
    BY <2>8 DEF automationVars
  <2> QED
    BY <2>1, <2>2, <2>3, <2>4, <2>5, <2>6, <2>7, <2>8 DEF AutomationNext
<1> QED
  BY <1>1, <1>2, PTL

(* An occurrence is run or skipped once, for any schedules and plans and     *)
(* however many administrators send back the rows they read                  *)
(* (automation.go, SaveSchedule and DispatchDueSchedule).                  *)
THEOREM OccurrencesForAll == AutomationSpec => []OccurrencesRunOnce
<1>1. AutomationInv => OccurrencesRunOnce
  BY DEF AutomationInv
<1> QED
  BY <1>1, AutomationInvariant, PTL DEF AutomationSpec

(* Schedules, runs and proposals keep their types.                          *)
THEOREM AutomationTypesForAll == AutomationSpec => []AutomationTypeOK
<1>1. AutomationInv => AutomationTypeOK
  BY DEF AutomationInv
<1> QED
  BY <1>1, AutomationInvariant, PTL DEF AutomationSpec

=============================================================================
