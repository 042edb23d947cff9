-------------------------------- MODULE Runner --------------------------------
(* The phases of one job that run a worker: the execution backend of the        *)
(* controller (workflow/backend.go), runnerd (runnerd/service.go, docker.go)    *)
(* and the worker in its container (cmd/maintainer-worker).                     *)
(*                                                                              *)
(* The controller indexes the packet of the phase under the key of the job's    *)
(* version and state, stages it, asks runnerd to start the run whose identity   *)
(* is the hash of the request, polls it, and collects the artifact the worker   *)
(* published.  The controller and runnerd may die, a call may fail after it     *)
(* took effect, and a worker may hang: nothing makes a worker go on.            *)
(* Only the phases that run a worker are kept, so a version here stands for the *)
(* version the job has in such a phase.                                         *)
EXTENDS Naturals

CONSTANTS
  Packets,     \* what a packet may say
  NoPacket,    \* no packet
  MaxVersion,  \* bound: the versions of the job
  MaxRunFaults \* bound: crashes, restarts and failed calls

ASSUME RunnerAssumption ==
  /\ NoPacket \notin Packets
  /\ MaxVersion \in Nat \ {0} /\ MaxRunFaults \in Nat

VARIABLES
  phase,       \* the job: its version, the kind of worker its state runs, its status
  backend,     \* what the controller is doing, and the packet it built
  indexed,     \* the packet indexed under each key
  containers,  \* the container of each run: its state and the version it was created in
  reports,     \* what the worker of each run has published
  monitors,    \* the runs a goroutine of runnerd watches
  accepted,    \* the last result handed to the phase
  runFaults       \* crashes, restarts and failed calls so far

runnerVars == <<phase, backend, indexed, containers, reports, monitors, accepted, runFaults>>

(* The kinds of workers the phases kept here run; QC and documentation workers  *)
(* run as the implementation does.                                              *)
WorkerKinds == {"dependencies", "implementation", "verification", "test_designer"}

(* The identity of a packet: the idempotency key it is indexed under.           *)
phaseKey(j) == [version |-> j.version, kind |-> j.kind]

Keys == {phaseKey([version |-> v, kind |-> k]) :
           v \in 1..MaxVersion, k \in WorkerKinds \ {"dependencies"}}

(* The identity of a run is a hash of its request: the job, the kind and the    *)
(* packets.  A dependency run has no packet.                                    *)
runIDFor(j) == [kind |-> j.kind,
                packet |-> IF j.kind = "dependencies" THEN NoPacket ELSE phaseKey(j)]

WorkerRuns == {[kind |-> "dependencies", packet |-> NoPacket]}
                \cup {[kind |-> k.kind, packet |-> k] : k \in Keys}

ThisRun == runIDFor(phase)

Absent == [state |-> "absent", code |-> 0, born |-> 0]

NoResult == [version |-> 0, packet |-> NoPacket, run |-> NoPacket, passed |-> FALSE]

RunnerTypeOK ==
  /\ phase \in [version : 1..MaxVersion, kind : WorkerKinds, status : {"running", "failed", "done"}]
  /\ backend \in [step : {"idle", "start", "wait", "collect"}, packet : Packets \cup {NoPacket}]
  /\ indexed \in [Keys -> Packets \cup {NoPacket}]
  /\ containers \in [WorkerRuns -> [state : {"absent", "created", "running", "exited"},
                                    code : {0, 1}, born : 0..MaxVersion]]
  /\ reports \in [WorkerRuns -> {"none", "partial", "passed", "failed"}]
  /\ monitors \subseteq WorkerRuns
  /\ accepted.packet \in Packets \cup {NoPacket}
  /\ runFaults \in 0..MaxRunFaults

Resting == [step |-> "idle", packet |-> NoPacket]

RunnerInit ==
  /\ phase = [version |-> 1, kind |-> "dependencies", status |-> "running"]
  /\ backend = Resting
  /\ indexed = [k \in Keys |-> NoPacket]
  /\ containers = [r \in WorkerRuns |-> Absent]
  /\ reports = [r \in WorkerRuns |-> "none"]
  /\ monitors = {}
  /\ accepted = NoResult
  /\ runFaults = 0

Fault == runFaults < MaxRunFaults /\ runFaults' = runFaults + 1

(* The engine records any error of a phase as the failure of the job.           *)
FailPhase == phase' = [phase EXCEPT !.status = "failed"] /\ backend' = Resting

At(step) == phase.status = "running" /\ backend.step = step

(* --------------------------- the packet of a phase ------------------------- *)

(* Mutant: whatever is under the key is answered.                               *)
samePacketEver(key, content) == TRUE

(* Under a key that is taken, an artifact of the same content is the one        *)
(* answered and any other is refused.                                           *)
samePacket(key, content) == indexed[key] \in {NoPacket, content}

IndexArtifact(key, content) ==
  indexed' = [indexed EXCEPT ![key] = IF @ = NoPacket THEN content ELSE @]

(* The indexed object is linked where the container of the run will find it.    *)
StageInputs(content) == backend' = [step |-> "start", packet |-> content]

(* runPacketAllowFailure up to the call of Start: the packet is put and staged. *)
PutPacket(content) ==
  /\ At("idle") /\ phase.kind # "dependencies"
  /\ IF samePacket(phaseKey(phase), content)
       THEN IndexArtifact(phaseKey(phase), content) /\ StageInputs(content) /\ UNCHANGED phase
       ELSE FailPhase /\ UNCHANGED indexed
  /\ UNCHANGED <<containers, reports, monitors, accepted, runFaults>>

PrepareDependencies ==
  /\ At("idle") /\ phase.kind = "dependencies"
  /\ backend' = [step |-> "start", packet |-> NoPacket]
  /\ UNCHANGED <<phase, indexed, containers, reports, monitors, accepted, runFaults>>

(* ------------------------- the policy of a container ----------------------- *)

(* The image and the profile of each kind: runnerd's policy file names exactly  *)
(* these five.                                                                  *)
profiles ==
  [dependencies   |-> [network |-> "dependency-egress", readOnly |-> FALSE],
   implementation |-> [network |-> "inference-only",    readOnly |-> FALSE],
   verification   |-> [network |-> "none",              readOnly |-> FALSE],
   qc             |-> [network |-> "inference-only",    readOnly |-> TRUE],
   documentation  |-> [network |-> "inference-only",    readOnly |-> FALSE]]

(* What is asked of the executor for a request: the zero profile and no image   *)
(* for a kind the policy does not hold.                                         *)
Resolve(run) ==
  LET held     == run.kind \in DOMAIN profiles
      selected == IF held THEN profiles[run.kind] ELSE [network |-> "", readOnly |-> FALSE]
  IN [kind    |-> run.kind,
      image   |-> held,
      network |-> selected.network,
      mounts  |-> {[target |-> "/workspace", readOnly |-> selected.readOnly],
                   [target |-> "/artifacts", readOnly |-> FALSE]}
                  \cup {[target |-> "/cache",  readOnly |-> FALSE] : d \in {run.kind} \cap {"dependencies"}}
                  \cup {[target |-> "/inputs", readOnly |-> TRUE]  : p \in {run.packet} \ {NoPacket}}]

validateMount(spec, mount) ==
  CASE mount.target = "/workspace" -> mount.readOnly = (spec.kind = "qc")
    [] mount.target = "/artifacts" -> ~mount.readOnly
    [] mount.target = "/cache"     -> ~mount.readOnly /\ spec.kind = "dependencies"
    [] OTHER                       -> mount.readOnly

(* The executor checks the specification again before a container exists.       *)
containerRequest(spec) ==
  /\ spec.image
  /\ \/ spec.network = "dependency-egress" /\ spec.kind = "dependencies"
     \/ spec.network = "inference-only" /\ spec.kind \in {"implementation", "qc", "documentation"}
     \/ spec.network = "none"
  /\ \A mount \in spec.mounts : validateMount(spec, mount)

Allowed == containerRequest(Resolve(ThisRun))

(* ------------------------------ starting a run ----------------------------- *)

(* A container is created once under the name of its run: a second Start finds  *)
(* it, starts it if it never ran, and watches it again.                         *)
started(c) ==
  IF c.state = "absent" THEN [state |-> "running", code |-> 0, born |-> phase.version]
  ELSE IF c.state = "created" THEN [c EXCEPT !.state = "running"]
  ELSE c

StartRun ==
  /\ At("start") /\ Allowed
  /\ containers' = [containers EXCEPT ![ThisRun] = started(@)]
  /\ monitors' = monitors \cup {ThisRun}
  /\ backend' = [backend EXCEPT !.step = "wait"]
  /\ UNCHANGED <<phase, indexed, reports, accepted, runFaults>>

(* Without an image the specification is incomplete, and is denied.             *)
DenyRun ==
  /\ At("start") /\ ~Allowed
  /\ FailPhase
  /\ UNCHANGED <<indexed, containers, reports, monitors, accepted, runFaults>>

(* The call fails: before the container exists (or it was removed again), after *)
(* it was created and runnerd died, or after it runs and the answer is lost.    *)
StartFails ==
  /\ At("start") /\ Allowed /\ Fault /\ FailPhase
  /\ \/ UNCHANGED <<containers, monitors>>
     \/ /\ containers[ThisRun].state = "absent"
        /\ containers' = [containers EXCEPT ![ThisRun] =
                            [state |-> "created", code |-> 0, born |-> phase.version]]
        /\ monitors' = {}
     \/ /\ containers' = [containers EXCEPT ![ThisRun] = started(@)]
        /\ monitors' = monitors \cup {ThisRun}
  /\ UNCHANGED <<indexed, reports, accepted>>

(* ------------------------------ waiting for it ----------------------------- *)

(* Mutant: an inspection only reports.                                          *)
watchedNoMore(r) == monitors

(* Inspecting a running container watches it again, should runnerd have been    *)
(* restarted since.                                                             *)
watched(r) == monitors \cup {r}

Inspect ==
  /\ At("wait")
  /\ IF containers[ThisRun].state \in {"running", "created"}
       THEN /\ monitors' = IF containers[ThisRun].state = "running" THEN watched(ThisRun) ELSE monitors
            /\ UNCHANGED backend
       ELSE backend' = [backend EXCEPT !.step = "collect"] /\ UNCHANGED monitors
  /\ UNCHANGED <<phase, indexed, containers, reports, accepted, runFaults>>

(* A failed inspection ends the wait, and nothing stops the worker.             *)
InspectFails ==
  /\ At("wait") /\ Fault /\ FailPhase
  /\ UNCHANGED <<indexed, containers, reports, monitors, accepted>>

stopped(c) == IF c.state = "running" THEN [c EXCEPT !.state = "exited", !.code = 1] ELSE c

(* The controller shuts down while it waits: it asks for the run to be stopped, *)
(* without regard to the answer.                                                *)
StopOnCancel ==
  /\ At("wait") /\ Fault /\ FailPhase
  /\ containers[ThisRun].state \in {"running", "created"}
  /\ containers' \in {containers, [containers EXCEPT ![ThisRun] = stopped(@)]}
  /\ UNCHANGED <<indexed, reports, monitors, accepted>>

(* ---------------------------- collecting a result -------------------------- *)

completed(r) == containers[r].code = 0

(* An artifact is there when its manifest is.                                   *)
published(r) == reports[r] \in {"passed", "failed"}

(* A verification must say what its exit said, and any other worker must have   *)
(* completed: the outcome of the phase, or none when the phase fails.           *)
verdicts(r) ==
  {p \in BOOLEAN :
     CASE r.kind = "dependencies" -> p /\ completed(r)
       [] r.kind = "verification" -> published(r) /\ p = (reports[r] = "passed") /\ p = completed(r)
       [] OTHER                   -> p /\ published(r) /\ completed(r)}

(* The next phases that run a worker: a candidate that fails is repaired, and   *)
(* one of more than low risk is shown to the test designer.                     *)
nextKinds(passed) ==
  CASE phase.kind = "dependencies" -> {"implementation"}
    [] phase.kind = "implementation" -> {"verification"}
    [] OTHER -> IF passed THEN {"test_designer"} ELSE {"implementation"}

CollectArtifact ==
  /\ At("collect")
  /\ IF verdicts(ThisRun) = {}
       THEN FailPhase /\ UNCHANGED accepted
       ELSE \E passed \in verdicts(ThisRun) :
              /\ accepted' = [version |-> phase.version, packet |-> backend.packet,
                              run |-> ThisRun, passed |-> passed]
              /\ backend' = Resting
              /\ \/ /\ phase.kind = "verification" /\ passed
                    /\ phase' = [phase EXCEPT !.status = "done"]
                 \/ /\ phase.version < MaxVersion
                    /\ \E kind \in nextKinds(passed) :
                         phase' = [version |-> phase.version + 1, kind |-> kind, status |-> "running"]
  /\ UNCHANGED <<indexed, containers, reports, monitors, runFaults>>

(* A person queues the failed job again, which prepares dependencies anew: the  *)
(* identity of that run has not changed.                                        *)
RetryPhase ==
  /\ phase.status = "failed" /\ phase.version < MaxVersion
  /\ phase' = [version |-> phase.version + 1, kind |-> "dependencies", status |-> "running"]
  /\ UNCHANGED <<backend, indexed, containers, reports, monitors, accepted, runFaults>>

(* The controller dies; the phase is executed again at the same version.        *)
ControllerCrash ==
  /\ backend.step # "idle" /\ Fault
  /\ backend' = Resting
  /\ UNCHANGED <<phase, indexed, containers, reports, monitors, accepted>>

(* --------------------------------- runnerd --------------------------------- *)

RunnerdRestart ==
  /\ monitors # {} /\ Fault
  /\ monitors' = {}
  /\ UNCHANGED <<phase, backend, indexed, containers, reports, accepted>>

(* A monitor stops its run at the deadline or the disk limit, and ends with it. *)
MonitorRun(r) ==
  /\ r \in monitors
  /\ monitors' = monitors \ {r}
  /\ containers' = [containers EXCEPT ![r] = stopped(@)]
  /\ UNCHANGED <<phase, backend, indexed, reports, accepted, runFaults>>

(* --------------------------------- a worker -------------------------------- *)

Working(r) == containers[r].state = "running"

Exit(r, code) ==
  /\ containers' = [containers EXCEPT ![r].state = "exited", ![r].code = code]
  /\ UNCHANGED reports

(* The directory of the run, then its artifact, then the manifest that makes it *)
(* visible: the worker may be killed in between.                                *)
publishArtifact(r, said) ==
  /\ \/ reports[r] = "none" /\ reports' = [reports EXCEPT ![r] = "partial"]
     \/ reports[r] = "partial" /\ reports' = [reports EXCEPT ![r] = said]
  /\ UNCHANGED containers

runDependencies(r) == \E code \in {0, 1} : Exit(r, code)

(* An agent publishes its result, or fails without one.                         *)
runAgent(r) ==
  \/ publishArtifact(r, "passed")
  \/ reports[r] = "passed" /\ Exit(r, 0)
  \/ reports[r] # "passed" /\ Exit(r, 1)

(* A verification publishes its report, and then exits as it passed.            *)
runVerification(r) ==
  \/ \E said \in {"passed", "failed"} : publishArtifact(r, said)
  \/ reports[r] = "passed" /\ Exit(r, 0)
  \/ reports[r] # "passed" /\ Exit(r, 1)

RunWorker(r) ==
  /\ Working(r)
  /\ CASE r.kind = "dependencies" -> runDependencies(r)
       [] r.kind = "verification" -> runVerification(r)
       [] OTHER                   -> runAgent(r)
  /\ UNCHANGED <<phase, backend, indexed, monitors, accepted, runFaults>>

RunnerNext ==
  \/ \E content \in Packets : PutPacket(content)
  \/ PrepareDependencies
  \/ StartRun
  \/ DenyRun
  \/ StartFails
  \/ Inspect
  \/ InspectFails
  \/ StopOnCancel
  \/ CollectArtifact
  \/ RetryPhase
  \/ ControllerCrash
  \/ RunnerdRestart
  \/ \E r \in WorkerRuns : MonitorRun(r) \/ RunWorker(r)

(* The controller goes on with a phase, polls on a ticker, and a monitor acts   *)
(* on one, while their process lives.  A worker, a person and a fault owe       *)
(* nothing.                                                                     *)
RunnerFairness ==
  /\ WF_runnerVars(PrepareDependencies \/ \E content \in Packets : PutPacket(content))
  /\ WF_runnerVars(StartRun \/ DenyRun)
  /\ WF_runnerVars(Inspect)
  /\ WF_runnerVars(CollectArtifact)
  /\ \A r \in WorkerRuns : WF_runnerVars(MonitorRun(r))

RunnerSpec == RunnerInit /\ [][RunnerNext]_runnerVars /\ RunnerFairness

(* ------------------------------- properties -------------------------------- *)

(* What a phase is told was produced for it: by a worker that read the very     *)
(* packet this execution built and that was created in this version of the job, *)
(* whatever crashed, was retried or was killed half way through publishing.     *)
AnswersThePacket ==
  accepted # NoResult /\ accepted.run.kind # "dependencies" =>
    /\ indexed[accepted.run.packet] = accepted.packet
    /\ containers[accepted.run].born = accepted.version
    /\ accepted.passed <=> reports[accepted.run] = "passed"

(* However a worker hangs and however often runnerd loses its monitors, the     *)
(* controller does not wait for it for ever: polling restores the watch that    *)
(* stops it at its deadline.                                                    *)
WaitingEnds == backend.step = "wait" ~> backend.step # "wait"

================================================================================
