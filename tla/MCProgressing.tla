---------------------------- MODULE MCProgressing ----------------------------
(***************************************************************************)
(* The instances of what the controller's own loops bring to an end:        *)
(* project memory and its index, the poll of pull requests, schedules, and  *)
(* the runs of workers.                                                    *)
(* They share no state, so a behaviour is about one of them, chosen at the  *)
(* start, and the others keep their initial state.                         *)
(***************************************************************************)
EXTENDS ProjectMemory, PullPolling, Automation, Runner

CONSTANTS Subjects      \* the components this instance looks at

VARIABLE subject

except(s) ==
  /\ UNCHANGED subject
  /\ s # "memory"    => UNCHANGED memoryVars
  /\ s # "pulls"     => UNCHANGED pollingVars
  /\ s # "schedules" => UNCHANGED automationVars
  /\ s # "runs"      => UNCHANGED runnerVars

(* A component that does not move has one initial state, in which it owes   *)
(* nothing: no operation, no due schedule, no phase that runs a worker.     *)
ProgressingInit ==
  /\ subject \in Subjects
  /\ MemoryInit /\ PollingInit /\ AutomationInit
  /\ subject # "schedules" =>
       \A s \in Schedules : schedule[s].plan = (CHOOSE p \in Plans : TRUE)
  /\ IF subject = "runs" THEN RunnerInit
     ELSE /\ phase = [version |-> 1, kind |-> "dependencies", status |-> "done"]
          /\ backend = Resting
          /\ indexed = [k \in Keys |-> NoPacket]
          /\ containers = [r \in WorkerRuns |-> Absent]
          /\ reports = [r \in WorkerRuns |-> "none"]
          /\ monitors = {} /\ accepted = NoResult /\ runFaults = 0

ProgressingNext ==
  \/ subject = "memory"    /\ MemoryNext     /\ except("memory")
  \/ subject = "pulls"     /\ PollingNext   /\ except("pulls")
  \/ subject = "schedules" /\ AutomationNext /\ except("schedules")
  \/ subject = "runs"      /\ RunnerNext     /\ except("runs")

progressingVars == <<subject, memoryVars, pollingVars, automationVars, runnerVars>>

ProgressingFairness ==
  MemoryFairness /\ PollingFairness /\ AutomationFairness /\ RunnerFairness

ProgressingSpec ==
  ProgressingInit /\ [][ProgressingNext]_progressingVars /\ ProgressingFairness

-----------------------------------------------------------------------------
(* Values of the constants *)

SomeOrder == [s \in Schedules |-> IF s = "s1" THEN 1 ELSE 2]

SomePlan(project, interval, start, end) ==
  [project |-> project, interval |-> interval, start |-> start, end |-> end]

(* At any time, by day, and over midnight.                                  *)
SomePlans == {SomePlan("p1", 2, 0, 0), SomePlan("p2", 1, 1, 3), SomePlan("p1", 3, 3, 1)}

=============================================================================
