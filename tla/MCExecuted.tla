------------------------------ MODULE MCExecuted ------------------------------
(***************************************************************************)
(* The instances of what jobs are run with: the queue and the scheduler's   *)
(* decisions, provider routes, Windows workers, the model supervisor, the   *)
(* index of the code, and differential analyses.                            *)
(* They share no state, so a behaviour is about one of them, chosen at the  *)
(* start, and the others keep their initial state.                         *)
(***************************************************************************)
EXTENDS ProviderRoutes, WindowsWorkers, ModelSupervisor, CodeIndex,
        Differentials, Scheduler, MCLeaseQueue

CONSTANTS
  Subjects                \* the components this instance looks at

VARIABLE subject

except(s) ==
  /\ UNCHANGED subject
  /\ s # "routes"        => UNCHANGED routesVars
  /\ s # "workers"       => UNCHANGED workersVars
  /\ s # "models"        => UNCHANGED modelsVars
  /\ s # "index"         => UNCHANGED codeIndexVars
  /\ s # "differentials" => UNCHANGED differentialsVars
  /\ s # "scheduler"     => UNCHANGED schedulerVars
  /\ s # "queue"         => UNCHANGED vars

(* A component that does not move has one initial state.                    *)
NoRequest == [mode |-> "quality_latency", maintenance |-> FALSE, fairness |-> 0,
              active |-> {}, queued |-> <<>>]

ExecutedInit ==
  /\ subject \in Subjects
  /\ IF subject = "routes" THEN RoutesInit
     ELSE /\ profiles = (CHOOSE s \in Start : TRUE)
          /\ probes = [m \in DOMAIN profiles["model"] |-> <<>>]
          /\ manifests = {} /\ approvals = {} /\ call = NoCall
          /\ saving = [o \in Operators |-> Nobody] /\ updates = 0
  /\ IF subject = "scheduler" THEN SchedulerInit
     ELSE request = NoRequest /\ decision = Undecided
  /\ WorkersInit /\ ModelsInit /\ CodeIndexInit /\ DifferentialsInit /\ Init

ExecutedNext ==
  \/ subject = "routes"        /\ RoutesNext        /\ except("routes")
  \/ subject = "workers"       /\ WorkersNext       /\ except("workers")
  \/ subject = "models"        /\ ModelsNext        /\ except("models")
  \/ subject = "index"         /\ CodeIndexNext     /\ except("index")
  \/ subject = "differentials" /\ DifferentialsNext /\ except("differentials")
  \/ subject = "scheduler"     /\ SchedulerNext     /\ except("scheduler")
  \/ subject = "queue"         /\ LeasesNext        /\ except("queue")

executedVars == <<subject, routesVars, workersVars, modelsVars, codeIndexVars,
                  differentialsVars, schedulerVars, vars>>

ExecutedSpec == ExecutedInit /\ [][ExecutedNext]_executedVars

-----------------------------------------------------------------------------
(* Values of the constants *)

(* Two providers, a local one and one that is reached over the network; the *)
(* first route stays local, the second may fall back to the remote one.     *)
SomeProvider(trust, remote, enabled) ==
  [trust |-> trust, remote |-> remote, enabled |-> enabled, classes |-> Needed]

SomeModel(of, pins, price) ==
  [of |-> of, pins |-> pins, caps |-> {"structured"}, eligible |-> TRUE,
   price |-> price]

SomeRoute(models, local, keeps, order) ==
  [models |-> models, enabled |-> TRUE, local |-> local, keeps |-> keeps,
   classes |-> Needed, maxCost |-> 1, order |-> order]

Row(value) == [content |-> value, version |-> 1]

SomeStart ==
  {[provider |-> [near |-> Row(SomeProvider(4, FALSE, on)),
                  far  |-> Row(SomeProvider(2, TRUE, TRUE))],
    endpoint |-> [near |-> Row([secure |-> FALSE]), far |-> Row([secure |-> TRUE])],
    model    |-> [ml |-> Row(SomeModel("near", "v1", 0)),
                  mf |-> Row(SomeModel("far", "v1", 1))],
    route    |-> [r1 |-> Row(SomeRoute(<<"ml">>, TRUE, TRUE, 1)),
                  r2 |-> Row(SomeRoute(<<"ml", "mf">>, FALSE, keeps, 2))]] :
     on \in BOOLEAN, keeps \in BOOLEAN}

SomeChanges ==
  [provider |-> {SomeProvider(4, FALSE, FALSE), SomeProvider(3, TRUE, TRUE)},
   endpoint |-> {[secure |-> TRUE]},
   model    |-> {SomeModel("far", "v2", 1)},
   route    |-> {SomeRoute(<<"mf">>, FALSE, TRUE, 2)}]

Profile(mode, credential, gates, policy, devices) ==
  [mode |-> mode, credential |-> credential, gates |-> gates, policy |-> policy,
   types |-> JobTypes, devices |-> devices, enabled |-> TRUE]

SomeSettings ==
  {DefaultSimulatorProfile,
   Profile("remote", "c1", {"signing"}, TRUE, {"simulated"}),
   Profile("remote", "", {}, TRUE, {"simulated", "physical"})}

OwnSettings == Profile("remote", "c1", WorkerGates, TRUE, {"simulated", "physical"})

SomeJobs == {[type |-> "dotnet", device |-> "none"],
             [type |-> "signing", device |-> "none"],
             [type |-> "equipment", device |-> "physical"]}

SomeModels == {"implementation", "qc"}
TheirRoles == [m \in SomeModels |-> m]
TheirFamilies == "implementation" :> "qwen" @@ "qc" :> "mistral"

File(path, blob) == [path |-> path, blob |-> blob]

SomeSnapshots == {<<File("p", "b1")>>, <<File("q", "b1"), File("r", "b2")>>}

SomeBase == [w \in Works |-> [rev |-> "base", config |-> "c"]]
SomePurposes == [targeted |-> {"tests"}, full |-> {"lint"}]

(* The processes of the queue are alike.                                    *)
Symmetry == Permutations(Workers)

=============================================================================
