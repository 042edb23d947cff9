--------------------------- MODULE ModelSupervisor ---------------------------
(***************************************************************************)
(* The supervisor of the local models and those who share it               *)
(* (internal/models, internal/agents/runner.go, internal/runtimeopt, the   *)
(* loading phases of internal/workflow/coordinator.go and the model        *)
(* handlers of internal/api/server.go).                                    *)
(*                                                                         *)
(* One llama-server runs at a time.  A job loads the profile of a role in  *)
(* one phase, with two calls, and a worker asks the "active" model in a    *)
(* later phase; administrators load, unload and benchmark profiles in      *)
(* between; a benchmark is itself three calls.  The server may crash, and  *)
(* the supervisor restart.  The models of a catalog are installed from     *)
(* files whose digest the manifests fix.                                   *)
(***************************************************************************)
EXTENDS Naturals, FiniteSets

CONSTANTS
  Models,          \* ids of the catalog
  RoleOf,          \* the role of each manifest
  FamilyOf,        \* and its model family
  Patients,        \* the jobs
  Administrators,  \* callers of the model handlers
  MaxAttempts,     \* answers a worker asks for (the contract's RetryPolicy)
  MaxCycles,       \* bound on repair cycles
  MaxMishaps       \* bound: crashes, restarts, failed starts, altered files

NoModel == "none"

Roles == {"implementation", "test_designer", "documentation", "qc", "alternate", "deep_critic"}

(* The catalogs that are accepted: at most one profile for each of the two   *)
(* roles, and of different families.                                        *)
LoadCatalog ==
  /\ Models # {} /\ RoleOf \in [Models -> Roles]
  /\ \A m, n \in Models :
       /\ RoleOf[m] = RoleOf[n] /\ RoleOf[m] \in {"implementation", "qc"} => m = n
       /\ RoleOf[m] = "implementation" /\ RoleOf[n] = "qc" => FamilyOf[m] # FamilyOf[n]

(* The workflow loads a role by the profile id of the same name.            *)
ASSUME CatalogAssumption ==
  /\ LoadCatalog /\ NoModel \notin Models
  /\ {"implementation", "qc"} \subseteq Models
  /\ RoleOf["implementation"] = "implementation" /\ RoleOf["qc"] = "qc"
  /\ MaxAttempts \in Nat \ {0} /\ {MaxCycles, MaxMishaps} \subseteq Nat

VARIABLES
  files,       \* the GGUF file of each manifest under the model root
  supervised,  \* Supervisor.loaded
  server,      \* LlamaRuntime.command: the model it serves, and whether it lives
  measurement,    \* LlamaRuntime.last: the profile, and the one its timings are of
  benchmark,   \* benchmark[a]: a benchmark under way
  evidence,    \* runtime_benchmarks
  patient,     \* each job: its phase, and who wrote and who reviewed its change
  mishaps

modelsVars == <<files, supervised, server, measurement, benchmark, evidence, patient, mishaps>>

NoServer == [model |-> NoModel, up |-> FALSE]
Unmeasured == [profile |-> NoModel, timed |-> NoModel]
NoBenchmark == [step |-> "idle"]

Loading == {"loading_implementation_model", "loading_qc_model", "awaiting_repair"}
Asking == {"implementing", "qc_review", "repairing"}
Waiting == {"queued", "awaiting_remote_egress_approval"}

ModelsTypeOK ==
  /\ files \in [Models -> {"absent", "installed", "altered"}]
  /\ supervised \in Models \union {NoModel}
  /\ server \in [model : Models \union {NoModel}, up : BOOLEAN]
  /\ measurement \in [profile : Models \union {NoModel}, timed : Models \union {NoModel}]
  /\ \A a \in Administrators : benchmark[a].step \in {"idle", "loaded", "smoked"}
  /\ evidence \subseteq [profile : Models, smoked : Models, timed : Models \union {NoModel}]
  /\ \A j \in Patients : patient[j].phase \in Loading \union Asking \union Waiting \union {"approved", "failed"}
  /\ mishaps \in 0 .. MaxMishaps

ModelsInit ==
  /\ files = [m \in Models |-> "absent"]
  /\ supervised = NoModel /\ server = NoServer /\ measurement = Unmeasured
  /\ benchmark = [a \in Administrators |-> NoBenchmark] /\ evidence = {}
  /\ patient = [j \in Patients |->
       [phase |-> "queued", resume |-> "queued", unloaded |-> FALSE, attempt |-> 1, cycle |-> 0, wrote |-> NoModel, reviewed |-> NoModel]]
  /\ mishaps = 0

Mishap == mishaps < MaxMishaps /\ mishaps' = mishaps + 1

-----------------------------------------------------------------------------
(* Files.  Nothing replaces a file; a model is published with a link, read   *)
(* only, after its digest was compared.                                     *)
installVerifiedReader(m) ==
  /\ files[m] = "absent"
  /\ files' = [files EXCEPT ![m] = "installed"]
  /\ UNCHANGED <<supervised, server, measurement, benchmark, evidence, patient, mishaps>>

FileAltered(m) ==
  /\ Mishap /\ files[m] = "installed"
  /\ files' = [files EXCEPT ![m] = "altered"]
  /\ UNCHANGED <<supervised, server, measurement, benchmark, evidence, patient>>

VerifyInstalledModel(m) == files[m] = "installed"

(* The supervisor and the process it owns.                                  *)
Stop == server' = NoServer /\ measurement' = Unmeasured

StartServer(m) ==
  /\ server' = [model |-> m, up |-> TRUE]
  /\ measurement' = [profile |-> m, timed |-> NoModel]

Unload ==
  IF supervised = NoModel THEN UNCHANGED <<supervised, server, measurement>> ELSE Stop /\ supervised' = NoModel

rememberedStill == supervised

(* What the supervisor believes once the previous model is stopped.         *)
remembered == NoModel

Load(m, answered) ==
  \/ supervised = m /\ answered /\ UNCHANGED <<supervised, server, measurement, mishaps>>
  \/ /\ supervised # m /\ ~answered                  \* its file fails verification
     /\ ~VerifyInstalledModel(m)
     /\ Stop /\ supervised' = remembered /\ UNCHANGED mishaps
  \/ /\ supervised # m /\ ~answered                  \* it never becomes healthy
     /\ VerifyInstalledModel(m) /\ Mishap
     /\ Stop /\ supervised' = remembered
  \/ /\ supervised # m /\ answered
     /\ VerifyInstalledModel(m)
     /\ StartServer(m) /\ supervised' = m /\ UNCHANGED mishaps

(* The control service answers a load with the status, or refuses it.       *)
answers == BOOLEAN

(* What Status reports: nothing is known of a model that is not loaded.     *)
Status == IF supervised = NoModel \/ server = NoServer THEN Unmeasured ELSE measurement

ServerCrash ==
  /\ Mishap /\ server.up
  /\ server' = [server EXCEPT !.up = FALSE]
  /\ UNCHANGED <<files, supervised, measurement, benchmark, evidence, patient>>

SupervisorRestart ==
  /\ Mishap /\ supervised # NoModel
  /\ Stop /\ supervised' = NoModel
  /\ UNCHANGED <<files, benchmark, evidence, patient>>

-----------------------------------------------------------------------------
(* The administrators' handlers.                                           *)
loadModel(m) ==
  /\ \E answered \in answers : Load(m, answered)
  /\ UNCHANGED <<files, benchmark, evidence, patient>>

unloadModel ==
  /\ Unload /\ UNCHANGED <<files, benchmark, evidence, patient, mishaps>>

(* SmokeTest loads the profile and lets go of the lock.                     *)
benchmarkModel(a, m) ==
  /\ benchmark[a].step = "idle"
  /\ Cardinality(evidence) < 2
  /\ \E answered \in answers :
       /\ Load(m, answered)
       /\ benchmark' = IF answered THEN [benchmark EXCEPT ![a] = [step |-> "loaded", profile |-> m]] ELSE benchmark
  /\ UNCHANGED <<files, evidence, patient>>

(* With the lock taken again, whatever is loaded by then is tested.         *)
Smoke(a) ==
  /\ benchmark[a].step = "loaded"
  /\ IF server.up
     THEN /\ measurement' = [profile |-> supervised, timed |-> supervised]
          /\ benchmark' = [benchmark EXCEPT ![a] =
               [step |-> "smoked", profile |-> @.profile, smoked |-> supervised]]
     ELSE benchmark' = [benchmark EXCEPT ![a] = NoBenchmark] /\ UNCHANGED measurement
  /\ UNCHANGED <<files, supervised, server, evidence, patient, mishaps>>

timings(profile, status) == IF status.profile = profile THEN status.timed ELSE NoModel

FromSmoke(b, status) ==
  [profile |-> b.profile, smoked |-> b.smoked, timed |-> timings(b.profile, status)]

RecordRuntimeBenchmark(a) ==
  /\ benchmark[a].step = "smoked"
  /\ evidence' = evidence \union {FromSmoke(benchmark[a], Status)}
  /\ benchmark' = [benchmark EXCEPT ![a] = NoBenchmark]
  /\ UNCHANGED <<files, supervised, server, measurement, patient, mishaps>>

-----------------------------------------------------------------------------
(* The phases of a job that use a model, one job at a time; a job that       *)
(* waits for an approval of remote egress leaves its turn to another.       *)
theirTurn(j) == \A i \in Patients \ {j} : patient[i].phase \in Waiting \union {"approved", "failed"}

Enter(j, phase) == [patient[j] EXCEPT !.phase = phase, !.unloaded = FALSE, !.attempt = 1]

StartJob(j) ==
  /\ patient[j].phase = "queued" /\ theirTurn(j)
  /\ patient' = [patient EXCEPT ![j] = Enter(j, "loading_implementation_model")]
  /\ UNCHANGED <<files, supervised, server, measurement, benchmark, evidence, mishaps>>

roleFor(phase) == IF phase = "loading_qc_model" THEN "qc" ELSE "implementation"

after(phase) ==
  CASE phase = "loading_implementation_model" -> "implementing"
    [] phase = "loading_qc_model" -> "qc_review"
    [] phase = "awaiting_repair" -> "repairing"

validateRoleSeparation == FamilyOf["implementation"] # FamilyOf["qc"]

(* loadRole: a call that unloads, then a call that loads.                   *)
UnloadForRole(j) ==
  /\ patient[j].phase \in Loading /\ ~patient[j].unloaded
  /\ patient[j].phase = "loading_qc_model" => validateRoleSeparation
  /\ Unload
  /\ patient' = [patient EXCEPT ![j].unloaded = TRUE]
  /\ UNCHANGED <<files, benchmark, evidence, mishaps>>

loadRole(j) ==
  /\ patient[j].phase \in Loading /\ patient[j].unloaded
  /\ \E answered \in answers :
       /\ Load(roleFor(patient[j].phase), answered)
       /\ patient' = [patient EXCEPT ![j] = Enter(j, IF answered THEN after(patient[j].phase) ELSE "failed")]
  /\ UNCHANGED <<files, benchmark, evidence>>

(* A worker asks the active model, whichever it is.                         *)
Complete(j) ==
  /\ patient[j].phase \in Asking
  /\ UNCHANGED <<files, supervised, server, measurement, benchmark, evidence, mishaps>>

CompleteFails(j) ==
  /\ Complete(j)
  /\ ~server.up \/ patient[j].attempt = MaxAttempts   \* no answer, or none that validates
  /\ patient' = [patient EXCEPT ![j] = Enter(j, "failed")]

completeValidated(j) ==
  /\ Complete(j)
  /\ server.up /\ patient[j].attempt < MaxAttempts
  /\ patient' = [patient EXCEPT ![j].attempt = @ + 1]

RunImplementation(j) ==
  /\ Complete(j)
  /\ server.up /\ patient[j].phase \in {"implementing", "repairing"}
  /\ patient' = [patient EXCEPT ![j] = [Enter(j, "loading_qc_model") EXCEPT !.wrote = server.model, !.reviewed = NoModel]]

RunQC(j) ==
  /\ Complete(j)
  /\ server.up /\ patient[j].phase = "qc_review"
  /\ \E next \in {"approved", "awaiting_repair"} :
       /\ next = "awaiting_repair" => patient[j].cycle < MaxCycles
       /\ patient' = [patient EXCEPT ![j] =
            [Enter(j, next) EXCEPT !.reviewed = server.model, !.cycle = IF next = "approved" THEN @ ELSE @ + 1]]

(* A call that needs remote egress waits for its approval, and the job       *)
(* resumes in the phase it left.                                            *)
PauseForEgress(j) ==
  /\ patient[j].phase \in Asking
  /\ patient' = [patient EXCEPT ![j] = [Enter(j, "awaiting_remote_egress_approval") EXCEPT !.resume = patient[j].phase]]
  /\ UNCHANGED <<files, supervised, server, measurement, benchmark, evidence, mishaps>>

ResumeFromEgress(j) ==
  /\ theirTurn(j) /\ patient[j].phase = "awaiting_remote_egress_approval"
  /\ patient' = [patient EXCEPT ![j] = Enter(j, patient[j].resume)]
  /\ UNCHANGED <<files, supervised, server, measurement, benchmark, evidence, mishaps>>

ModelsNext ==
  \/ \E m \in Models : installVerifiedReader(m) \/ FileAltered(m)
  \/ ServerCrash \/ SupervisorRestart
  \/ \E a \in Administrators :
       \/ unloadModel \/ Smoke(a) \/ RecordRuntimeBenchmark(a)
       \/ \E m \in Models : loadModel(m) \/ benchmarkModel(a, m)
  \/ \E j \in Patients :
       \/ StartJob(j) \/ UnloadForRole(j) \/ loadRole(j)
       \/ CompleteFails(j) \/ completeValidated(j) \/ RunImplementation(j) \/ RunQC(j)
       \/ PauseForEgress(j) \/ ResumeFromEgress(j)

ModelsSpec == ModelsInit /\ [][ModelsNext]_modelsVars

-----------------------------------------------------------------------------
(* Properties.                                                             *)

(* The timings kept as evidence about a profile were measured on it, or     *)
(* none are kept, though the model may be changed between the three calls   *)
(* of a benchmark (runtimeopt.FromSmoke).                                  *)
TimingsAreOwn == \A e \in evidence : e.timed \in {e.profile, NoModel}

(* A loading phase that succeeds leaves the server with the model of its    *)
(* role, whatever was loaded, failed to load or was altered before it: what *)
(* the supervisor believes is loaded is what it started last               *)
(* (Supervisor.Load); and so are the timings it reports.                   *)
LoadedIsServed ==
  [][/\ TimingsAreOwn'
     /\ \A j \in Patients :
          patient[j].phase \in Loading /\ patient'[j].phase \in Asking =>
            server'.model = (IF patient[j].phase = "loading_qc_model" THEN "qc" ELSE "implementation")]_modelsVars

=============================================================================
