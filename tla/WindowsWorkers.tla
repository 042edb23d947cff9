---------------------------- MODULE WindowsWorkers ----------------------------
(***************************************************************************)
(* A Windows worker: its profile, which administrators edit while jobs run  *)
(* on it, the closed set of jobs it accepts, and the results that are kept  *)
(* under idempotency keys (internal/windowsworker over internal/storage/    *)
(* sqlite/windows_workers.go and internal/api/windows_workers.go).         *)
(*                                                                         *)
(* A job reads the profile, runs on the simulator or on the worker's own    *)
(* machine, and is kept in a later transaction: only there is it found out  *)
(* that its key was used before.  Answers of the worker may be lost.        *)
(***************************************************************************)
EXTENDS Naturals, FiniteSets

CONSTANTS
  Savers,       \* administrators who edit the profile
  Callers,      \* requests that run at the same time
  RunKeys,      \* idempotency keys
  Settings,     \* the contents administrators try to save
  Registered,   \* what the worker's own machine registered of the profile
  WorkerJobs,   \* the requests that are sent: [type, device]
  MaxSaves,     \* bound on saves
  MaxRuns       \* bound on runs

(* Profiles and jobs, told apart by what the gates look at.                 *)
WorkerGates == {"signing", "vpn", "hardware"}

JobTypes == {"dotnet", "equipment", "signing", "vpn"}

Devices == {"none", "simulated", "physical"}

Credentials == {""} \union {s.credential : s \in Settings \union {Registered}}

SettingSet ==
  [mode : {"simulator", "remote"}, credential : Credentials, gates : SUBSET WorkerGates,
   policy : BOOLEAN, types : SUBSET JobTypes, devices : SUBSET Devices, enabled : BOOLEAN]

ASSUME WorkersAssumption ==
  /\ Settings \union {Registered} \subseteq SettingSet
  /\ WorkerJobs \subseteq [type : JobTypes, device : Devices]
  /\ {MaxSaves, MaxRuns} \subseteq Nat

VARIABLES
  savedProfile, \* windows_worker_profiles: the setting and its revision
  profileSave, \* profileSave[a]: what a save read and is about to write
  running,    \* running[c]: a request under way
  kept,       \* windows_worker_runs: kept[key] = [job, result]
  told,       \* what callers were answered
  saves, runs

workersVars == <<savedProfile, profileSave, running, kept, told, saves, runs>>

NoSave == [step |-> "idle"]
NoRun == [step |-> "idle"]

DefaultSimulatorProfile ==
  [mode |-> "simulator", credential |-> "", gates |-> {}, policy |-> FALSE,
   types |-> JobTypes, devices |-> {"simulated"}, enabled |-> TRUE]

WorkersTypeOK ==
  /\ savedProfile.setting \in SettingSet /\ savedProfile.revision \in 1 .. MaxSaves + 1
  /\ \A a \in Savers : profileSave[a].step \in {"idle", "read", "checked"}
  /\ \A c \in Callers : running[c].step \in {"idle", "admitted", "answered"}
  /\ DOMAIN kept \subseteq RunKeys
  /\ saves \in 0 .. MaxSaves /\ runs \in 0 .. MaxRuns

WorkersInit ==
  /\ savedProfile = [setting |-> DefaultSimulatorProfile, revision |-> 1]
  /\ profileSave = [a \in Savers |-> NoSave]
  /\ running = [c \in Callers |-> NoRun]
  /\ kept = [k \in {} |-> 0] /\ told = {}
  /\ saves = 0 /\ runs = 0

-----------------------------------------------------------------------------
(* Profiles *)

(* A remote profile that names no credential keeps the one it has.          *)
inherited(s) ==
  IF s.mode = "remote" /\ s.credential = "" THEN [s EXCEPT !.credential = savedProfile.setting.credential]
  ELSE s

validateProfile(s) ==
  /\ s.types # {}
  /\ s.mode = "simulator" => s.credential = "" /\ s.gates = {}
  /\ s.mode = "remote" => s.credential # ""

needsReauthentication(old, new) ==
  \/ old.credential # new.credential
  \/ old.policy # new.policy
  \/ ~(new.gates \subseteq old.gates)

onlySaves == UNCHANGED <<running, kept, told, runs>>

(* The page an administrator looks at.                                      *)
GetProfile(a) ==
  /\ profileSave[a] = NoSave /\ saves < MaxSaves
  /\ saves' = saves + 1
  /\ profileSave' = [profileSave EXCEPT ![a] = [step |-> "read", expected |-> savedProfile.revision]]
  /\ UNCHANGED savedProfile /\ onlySaves

(* The save that follows reads the profile again, for its checks alone.     *)
SaveProfile(a) ==
  /\ profileSave[a].step = "read"
  /\ \E s \in Settings, reauthenticated \in BOOLEAN :
       LET new == inherited(s) IN
       profileSave' = [profileSave EXCEPT ![a] =
         IF /\ validateProfile(new)
            /\ needsReauthentication(savedProfile.setting, new) => reauthenticated
         THEN [step |-> "checked", expected |-> @.expected, new |-> new,
               reauthenticated |-> reauthenticated]
         ELSE NoSave]
  /\ UNCHANGED <<savedProfile, saves>> /\ onlySaves

current(a) == profileSave[a].expected = savedProfile.revision

SaveWindowsWorkerProfile(a) ==
  /\ profileSave[a].step = "checked"
  /\ savedProfile' = IF current(a)
               THEN [setting |-> profileSave[a].new, revision |-> savedProfile.revision + 1]
               ELSE savedProfile
  /\ profileSave' = [profileSave EXCEPT ![a] = NoSave]
  /\ UNCHANGED saves /\ onlySaves

-----------------------------------------------------------------------------
(* Runs *)

gated(job) == job.type \in {"signing", "vpn"} \/ (job.type = "equipment" /\ job.device = "physical")

validateRun(s, job, operatorGated, role) ==
  /\ job.device # "none" => job.device \in s.devices
  /\ job.type = "equipment" => job.device # "none"
  /\ gated(job) => operatorGated /\ role = "administrator"
  /\ job.type = "signing" => "signing" \in s.gates /\ s.policy
  /\ job.type = "vpn" => "vpn" \in s.gates

onlyRuns == UNCHANGED <<savedProfile, profileSave, saves>>

(* A gated request needs a recent login.  One that is not valid ends here.  *)
RunWindowsWorkerJob(c) ==
  /\ running[c] = NoRun /\ runs < MaxRuns
  /\ \E job \in WorkerJobs, key \in RunKeys, operatorGated, reauthenticated \in BOOLEAN,
        role \in {"operator", "administrator"} :
       /\ operatorGated => reauthenticated
       /\ savedProfile.setting.enabled /\ job.type \in savedProfile.setting.types
       /\ validateRun(savedProfile.setting, job, operatorGated, role)
       /\ running' = [running EXCEPT ![c] =
            [step |-> "admitted", job |-> job, key |-> key, gated |-> operatorGated,
             by |-> savedProfile.setting]]
  /\ runs' = runs + 1
  /\ UNCHANGED <<kept, told>> /\ onlyRuns

(* The simulator names a run after its input, a machine gives a fresh name. *)
simulated(job) ==
  [run |-> [at |-> "simulator", number |-> 0, job |-> job], state |-> "completed"]

measured(c, job) ==
  {[run |-> [at |-> c, number |-> runs, job |-> job], state |-> s] : s \in {"completed", "failed"}}

(* The machine holds its own profile and takes the controller for an        *)
(* administrator.                                                           *)
acceptedResult(r) ==
  /\ r.job.type \in Registered.types
  /\ validateRun(Registered, r.job, r.gated, "administrator")

RunWindowsJob(c) ==
  LET r == running[c] IN
  /\ r.step = "admitted"
  /\ r.by.mode = "remote" => acceptedResult(r)
  /\ \E result \in IF r.by.mode = "simulator" THEN {simulated(r.job)} ELSE measured(c, r.job) :
       running' = [running EXCEPT ![c] =
         [step |-> "answered", job |-> r.job, key |-> r.key, result |-> result]]
  /\ UNCHANGED <<kept, told, runs>> /\ onlyRuns

(* No token, a refusal, an answer that is lost or late, a controller that   *)
(* dies before it has kept the answer.                                      *)
LoseRun(c) ==
  /\ running[c] # NoRun
  /\ running' = [running EXCEPT ![c] = NoRun]
  /\ UNCHANGED <<kept, told, runs>> /\ onlyRuns

tell(r, result) == told' = told \union {[key |-> r.key, job |-> r.job, result |-> result]}

(* Mutant of answer: what this request measured.                            *)
answerOwn(r) == r.result

answer(r) == IF r.key \in DOMAIN kept THEN kept[r.key].result ELSE r.result

(* One transaction: the run that is kept under the key answers; a key that  *)
(* was used for something else, or a name that was used, is an error.       *)
SaveWindowsWorkerResult(c) ==
  LET r == running[c] IN
  /\ r.step = "answered"
  /\ running' = [running EXCEPT ![c] = NoRun]
  /\ \/ /\ r.key \in DOMAIN kept
        /\ IF kept[r.key].job = r.job THEN tell(r, answer(r)) ELSE UNCHANGED told
        /\ UNCHANGED kept
     \/ /\ r.key \notin DOMAIN kept
        /\ \A k \in DOMAIN kept : kept[k].result.run # r.result.run
        /\ kept' = [k \in DOMAIN kept \union {r.key} |->
                      IF k = r.key THEN [job |-> r.job, result |-> answer(r)] ELSE kept[k]]
        /\ tell(r, answer(r))
     \/ /\ r.key \notin DOMAIN kept
        /\ \E k \in DOMAIN kept : kept[k].result.run = r.result.run
        /\ UNCHANGED <<kept, told>>
  /\ UNCHANGED runs /\ onlyRuns

WorkersNext ==
  \/ \E a \in Savers : GetProfile(a) \/ SaveProfile(a) \/ SaveWindowsWorkerProfile(a)
  \/ \E c \in Callers :
       RunWindowsWorkerJob(c) \/ RunWindowsJob(c) \/ LoseRun(c) \/ SaveWindowsWorkerResult(c)

WorkersSpec == WorkersInit /\ [][WorkersNext]_workersVars

-----------------------------------------------------------------------------
(* Whoever is answered under a key hears the same result of the same job,    *)
(* though the job may have run more than once and at the same time.          *)
AnswersAgree == \A x, y \in told : x.key = y.key => x = y

=============================================================================
