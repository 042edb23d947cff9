---------------------------- MODULE ExecutionProofs ----------------------------
(***************************************************************************)
(* Proofs about what jobs are run with: the Windows worker                  *)
(* (WindowsWorkers), the comparisons of verifications (Differentials), the  *)
(* index of the code (CodeIndex), the routes to providers (ProviderRoutes), *)
(* the local models (ModelSupervisor) and the choice of a job (Scheduler).  *)
(***************************************************************************)
EXTENDS ProviderRoutes, WindowsWorkers, CodeIndex, Differentials, ModelSupervisor,
        Scheduler, FiniteSetTheorems, SequenceTheorems, WellFoundedInduction, TLAPS

-----------------------------------------------------------------------------
(* The Windows worker *)

Answer(x) == [key |-> x.key, job |-> x.job, result |-> x.result]

(* Whoever was told something was told what is kept under the key.         *)
ToldInv ==
  \A x \in told :
    /\ x = Answer(x)
    /\ x.key \in DOMAIN kept /\ kept[x.key].job = x.job /\ kept[x.key].result = x.result

(* The run that is kept under a key stays.                                 *)
LEMMA ToldStep ==
  ASSUME ToldInv, NEW c \in Callers, SaveWindowsWorkerResult(c)
  PROVE  ToldInv'
<1> DEFINE r == running[c]
           x == [key |-> r.key, job |-> r.job, result |-> answer(r)]
<1>1. CASE r.key \in DOMAIN kept /\ UNCHANGED kept
  <2>1. told' = told \/ (told' = told \union {x} /\ kept[r.key].job = r.job)
    BY <1>1 DEF SaveWindowsWorkerResult, tell
  <2>2. answer(r) = kept[r.key].result
    BY <1>1 DEF answer
  <2>3. x = Answer(x) /\ x.key = r.key /\ x.job = r.job /\ x.result = answer(r)
    BY DEF Answer
  <2> QED
    BY <1>1, <2>1, <2>2, <2>3 DEF ToldInv
<1>2. CASE /\ r.key \notin DOMAIN kept
           /\ kept' = [k \in DOMAIN kept \union {r.key} |->
                         IF k = r.key THEN [job |-> r.job, result |-> answer(r)] ELSE kept[k]]
           /\ tell(r, answer(r))
  <2>1. told' = told \union {x}
    BY <1>2 DEF tell
  <2>2. x = Answer(x) /\ x.key = r.key /\ x.job = r.job /\ x.result = answer(r)
    BY DEF Answer
  <2>3. /\ DOMAIN kept' = DOMAIN kept \union {r.key}
        /\ \A k \in DOMAIN kept : kept'[k] = kept[k]
        /\ kept'[r.key].job = r.job /\ kept'[r.key].result = answer(r)
    BY <1>2
  <2>4. \A y \in told : y = Answer(y) /\ y.key \in DOMAIN kept'
                          /\ kept'[y.key].job = y.job /\ kept'[y.key].result = y.result
    BY <2>3 DEF ToldInv
  <2> HIDE DEF x
  <2>5. x.key \in DOMAIN kept' /\ kept'[x.key].job = x.job /\ kept'[x.key].result = x.result
    BY <2>2, <2>3
  <2> QED
    BY <2>1, <2>2, <2>4, <2>5 DEF ToldInv
<1>3. CASE UNCHANGED <<kept, told>>
  BY <1>3 DEF ToldInv
<1> QED
  BY <1>1, <1>2, <1>3 DEF SaveWindowsWorkerResult

LEMMA ToldInvariant == WorkersSpec => []ToldInv
<1>1. WorkersInit => ToldInv
  BY DEF WorkersInit, ToldInv
<1>2. ToldInv /\ [WorkersNext]_workersVars => ToldInv'
  <2> SUFFICES ASSUME ToldInv, [WorkersNext]_workersVars PROVE ToldInv'
    OBVIOUS
  <2>1. ASSUME NEW a \in Savers, GetProfile(a) \/ SaveProfile(a) \/ SaveWindowsWorkerProfile(a)
        PROVE  ToldInv'
    BY <2>1 DEF GetProfile, SaveProfile, SaveWindowsWorkerProfile, onlySaves, ToldInv
  <2>2. ASSUME NEW c \in Callers, RunWindowsWorkerJob(c) \/ RunWindowsJob(c) \/ LoseRun(c)
        PROVE  ToldInv'
    BY <2>2 DEF RunWindowsWorkerJob, RunWindowsJob, LoseRun, ToldInv
  <2>3. ASSUME NEW c \in Callers, SaveWindowsWorkerResult(c)
        PROVE  ToldInv'
    BY <2>3, ToldStep
  <2>4. CASE UNCHANGED workersVars
    BY <2>4 DEF workersVars, ToldInv
  <2> QED
    BY <2>1, <2>2, <2>3, <2>4 DEF WorkersNext
<1> QED
  BY <1>1, <1>2, PTL DEF WorkersSpec

(* Whoever is answered under a key hears the same result of the same job,    *)
(* for any callers, keys and machines, though jobs run more than once.     *)
THEOREM AnswersForAll == WorkersSpec => []AnswersAgree
<1>1. ToldInv => AnswersAgree
  <2> SUFFICES ASSUME ToldInv, NEW x \in told, NEW y \in told, x.key = y.key
               PROVE  x = y
    BY DEF AnswersAgree
  <2>1. x.job = y.job /\ x.result = y.result /\ x = Answer(x) /\ y = Answer(y)
    BY DEF ToldInv
  <2>2. Answer(x) = Answer(y)
    BY <2>1 DEF Answer
  <2> QED
    BY <2>1, <2>2
<1> QED
  BY <1>1, ToldInvariant, PTL


(* A save that read the profile was counted, so revisions stay within what   *)
(* the saves allow.                                                        *)
Save ==
  {NoSave} \union [step : {"read"}, expected : Nat]
    \union [step : {"checked"}, expected : Nat, new : SettingSet, reauthenticated : BOOLEAN]

SaverInv ==
  /\ savedProfile.setting \in SettingSet /\ savedProfile.revision \in Nat \ {0}
  /\ saves \in 0..MaxSaves /\ savedProfile.revision <= saves + 1
  /\ profileSave \in [Savers -> Save]
  /\ \A a \in Savers : profileSave[a] # NoSave =>
       /\ profileSave[a].expected \in Nat /\ profileSave[a].expected <= savedProfile.revision
       /\ profileSave[a].expected = savedProfile.revision => savedProfile.revision <= saves

CallerInv ==
  /\ runs \in 0..MaxRuns /\ DOMAIN kept \subseteq RunKeys
  /\ running = [c \in Callers |-> running[c]]
  /\ \A c \in Callers : /\ running[c].step \in {"idle", "admitted", "answered"}
                        /\ running[c].step # "idle" => running[c].key \in RunKeys

LEMMA SaverStep ==
  ASSUME SaverInv, NEW a \in Savers,
         GetProfile(a) \/ SaveProfile(a) \/ SaveWindowsWorkerProfile(a)
  PROVE  SaverInv'
<1>1. /\ savedProfile.setting \in SettingSet /\ savedProfile.revision \in Nat \ {0}
      /\ MaxSaves \in Nat /\ saves \in 0..MaxSaves /\ savedProfile.revision <= saves + 1
      /\ profileSave \in [Savers -> Save]
  BY WorkersAssumption DEF SaverInv
<1>2. NoSave \in Save /\ NoSave.step = "idle"
  BY DEF Save, NoSave
<1>3. CASE GetProfile(a)
  <2> DEFINE x == [step |-> "read", expected |-> savedProfile.revision]
  <2>1. /\ saves < MaxSaves /\ saves' = saves + 1 /\ UNCHANGED savedProfile
        /\ profileSave' = [profileSave EXCEPT ![a] = x]
    BY <1>3 DEF GetProfile
  <2>2. x \in Save /\ x.expected = savedProfile.revision
    BY <1>1 DEF Save
  <2> HIDE DEF x
  <2>3. /\ profileSave' \in [Savers -> Save] /\ profileSave'[a] = x
        /\ \A b \in Savers : b # a => profileSave'[b] = profileSave[b]
    BY <1>1, <2>1, <2>2
  <2>4. \A b \in Savers : profileSave'[b] # NoSave =>
          /\ profileSave'[b].expected \in Nat /\ profileSave'[b].expected <= savedProfile'.revision
          /\ profileSave'[b].expected = savedProfile'.revision => savedProfile'.revision <= saves'
    BY <1>1, <2>1, <2>2, <2>3 DEF SaverInv
  <2> QED
    BY <1>1, <2>1, <2>3, <2>4 DEF SaverInv
<1>4. CASE SaveProfile(a)
  <2>1. profileSave[a].step = "read" /\ UNCHANGED <<savedProfile, saves>>
    BY <1>4 DEF SaveProfile
  <2>2. PICK s \in Settings, re \in BOOLEAN :
          profileSave' = [profileSave EXCEPT ![a] =
            IF /\ validateProfile(inherited(s))
               /\ needsReauthentication(savedProfile.setting, inherited(s)) => re
            THEN [step |-> "checked", expected |-> profileSave[a].expected,
                  new |-> inherited(s), reauthenticated |-> re]
            ELSE NoSave]
    BY <1>4 DEF SaveProfile
  <2>3. inherited(s) \in SettingSet
    <3>1. s \in SettingSet /\ savedProfile.setting.credential \in Credentials
      BY <1>1, WorkersAssumption DEF SettingSet
    <3> QED
      BY <3>1 DEF inherited, SettingSet
  <2>4. /\ profileSave[a] # NoSave /\ profileSave[a].expected \in Nat
        /\ profileSave[a].expected <= savedProfile.revision
        /\ profileSave[a].expected = savedProfile.revision => savedProfile.revision <= saves
    BY <1>2, <2>1 DEF SaverInv
  <2> DEFINE x == [step |-> "checked", expected |-> profileSave[a].expected,
                   new |-> inherited(s), reauthenticated |-> re]
  <2>5. x \in Save /\ x.expected = profileSave[a].expected
    BY <2>3, <2>4 DEF Save
  <2>6. \/ profileSave' = [profileSave EXCEPT ![a] = x]
        \/ profileSave' = [profileSave EXCEPT ![a] = NoSave]
    BY <2>2
  <2> HIDE DEF x
  <2>7. /\ profileSave' \in [Savers -> Save] /\ profileSave'[a] \in {x, NoSave}
        /\ \A b \in Savers : b # a => profileSave'[b] = profileSave[b]
    BY <1>1, <1>2, <2>5, <2>6
  <2>8. \A b \in Savers : profileSave'[b] # NoSave =>
          /\ profileSave'[b].expected \in Nat /\ profileSave'[b].expected <= savedProfile'.revision
          /\ profileSave'[b].expected = savedProfile'.revision => savedProfile'.revision <= saves'
    BY <2>1, <2>4, <2>5, <2>7 DEF SaverInv
  <2> QED
    BY <1>1, <2>1, <2>7, <2>8 DEF SaverInv
<1>5. CASE SaveWindowsWorkerProfile(a)
  <2>1. /\ profileSave[a].step = "checked" /\ UNCHANGED saves
        /\ profileSave' = [profileSave EXCEPT ![a] = NoSave]
        /\ savedProfile' = IF current(a)
                     THEN [setting |-> profileSave[a].new, revision |-> savedProfile.revision + 1]
                     ELSE savedProfile
    BY <1>5 DEF SaveWindowsWorkerProfile
  <2>2. /\ profileSave' \in [Savers -> Save] /\ profileSave'[a] = NoSave
        /\ \A b \in Savers : b # a => profileSave'[b] = profileSave[b]
    BY <1>1, <1>2, <2>1
  <2>3. CASE ~current(a)
    <3>1. savedProfile' = savedProfile
      BY <2>1, <2>3
    <3> QED
      BY <1>1, <2>1, <2>2, <3>1 DEF SaverInv
  <2>4. CASE current(a)
    <3>1. profileSave[a].new \in SettingSet /\ profileSave[a] # NoSave
      BY <1>1, <1>2, <2>1 DEF Save, NoSave
    <3>2. profileSave[a].expected = savedProfile.revision /\ savedProfile.revision <= saves
      BY <2>4, <3>1 DEF SaverInv, current
    <3>3. savedProfile'.setting \in SettingSet /\ savedProfile'.revision = savedProfile.revision + 1
      BY <2>1, <2>4, <3>1
    <3>4. \A b \in Savers : profileSave'[b] # NoSave =>
            /\ profileSave'[b].expected \in Nat /\ profileSave'[b].expected <= savedProfile.revision
      BY <2>2 DEF SaverInv
    <3>5. \A b \in Savers : profileSave'[b] # NoSave =>
            /\ profileSave'[b].expected \in Nat /\ profileSave'[b].expected <= savedProfile'.revision
            /\ profileSave'[b].expected # savedProfile'.revision
      BY <1>1, <3>3, <3>4
    <3> QED
      BY <1>1, <2>1, <2>2, <3>2, <3>3, <3>5 DEF SaverInv
  <2> QED
    BY <2>3, <2>4
<1> QED
  BY <1>3, <1>4, <1>5

LEMMA CallerStep ==
  ASSUME CallerInv, NEW c \in Callers,
         \/ RunWindowsWorkerJob(c) \/ RunWindowsJob(c) \/ LoseRun(c)
         \/ SaveWindowsWorkerResult(c)
  PROVE  CallerInv'
<1>1. MaxRuns \in Nat
  BY WorkersAssumption
<1>2. CASE RunWindowsWorkerJob(c)
  <2>1. PICK job \in WorkerJobs, key \in RunKeys, operatorGated \in BOOLEAN,
             reauthenticated \in BOOLEAN, role \in {"operator", "administrator"} :
          running' = [running EXCEPT ![c] =
            [step |-> "admitted", job |-> job, key |-> key, gated |-> operatorGated,
             by |-> savedProfile.setting]]
    BY <1>2 DEF RunWindowsWorkerJob
  <2>2. runs < MaxRuns /\ runs' = runs + 1 /\ UNCHANGED kept
    BY <1>2 DEF RunWindowsWorkerJob
  <2> QED
    BY <1>1, <2>1, <2>2 DEF CallerInv
<1>3. CASE RunWindowsJob(c)
  <2>1. PICK result :
          running' = [running EXCEPT ![c] =
            [step |-> "answered", job |-> running[c].job, key |-> running[c].key,
             result |-> result]]
    BY <1>3 DEF RunWindowsJob
  <2>2. running[c].step = "admitted" /\ UNCHANGED <<kept, runs>>
    BY <1>3 DEF RunWindowsJob
  <2> QED
    BY <2>1, <2>2 DEF CallerInv
<1>4. CASE LoseRun(c)
  BY <1>4 DEF LoseRun, NoRun, CallerInv
<1>5. CASE SaveWindowsWorkerResult(c)
  <2>1. /\ running[c].step = "answered" /\ UNCHANGED runs
        /\ running' = [running EXCEPT ![c] = NoRun]
        /\ DOMAIN kept' \in {DOMAIN kept, DOMAIN kept \union {running[c].key}}
    BY <1>5 DEF SaveWindowsWorkerResult
  <2>2. running[c].key \in RunKeys
    BY <2>1 DEF CallerInv
  <2> QED
    BY <2>1, <2>2 DEF CallerInv, NoRun
<1> QED
  BY <1>2, <1>3, <1>4, <1>5

(* Profiles, saves, runs and counters are what they should be.             *)
THEOREM WorkersTypesForAll == WorkersSpec => []WorkersTypeOK
<1>1. WorkersInit => SaverInv /\ CallerInv
  <2> SUFFICES ASSUME WorkersInit PROVE SaverInv /\ CallerInv
    OBVIOUS
  <2>1. DefaultSimulatorProfile \in SettingSet
    <3>1. {} \in SUBSET WorkerGates /\ JobTypes \in SUBSET JobTypes /\ {"simulated"} \in SUBSET Devices
      BY DEF Devices
    <3>2. "" \in Credentials
      BY DEF Credentials
    <3> QED
      BY <3>1, <3>2 DEF DefaultSimulatorProfile, SettingSet
  <2>2. NoSave \in Save
    BY DEF Save
  <2>3. SaverInv
    BY <2>1, <2>2, WorkersAssumption DEF WorkersInit, SaverInv
  <2>4. CallerInv
    BY WorkersAssumption DEF WorkersInit, CallerInv, NoRun
  <2> QED
    BY <2>3, <2>4
<1>2. SaverInv /\ CallerInv /\ [WorkersNext]_workersVars => SaverInv' /\ CallerInv'
  <2> SUFFICES ASSUME SaverInv, CallerInv, [WorkersNext]_workersVars
               PROVE  SaverInv' /\ CallerInv'
    OBVIOUS
  <2>1. ASSUME NEW a \in Savers, GetProfile(a) \/ SaveProfile(a) \/ SaveWindowsWorkerProfile(a)
        PROVE  SaverInv' /\ CallerInv'
    <3>1. UNCHANGED <<running, kept, runs>>
      BY <2>1 DEF GetProfile, SaveProfile, SaveWindowsWorkerProfile, onlySaves
    <3> QED
      BY <2>1, <3>1, SaverStep DEF CallerInv
  <2>2. ASSUME NEW c \in Callers,
               \/ RunWindowsWorkerJob(c) \/ RunWindowsJob(c) \/ LoseRun(c)
               \/ SaveWindowsWorkerResult(c)
        PROVE  SaverInv' /\ CallerInv'
    <3>1. UNCHANGED <<savedProfile, profileSave, saves>>
      BY <2>2 DEF RunWindowsWorkerJob, RunWindowsJob, LoseRun, SaveWindowsWorkerResult, onlyRuns
    <3> QED
      BY <2>2, <3>1, CallerStep DEF SaverInv
  <2>3. CASE UNCHANGED workersVars
    BY <2>3 DEF workersVars, SaverInv, CallerInv
  <2> QED
    BY <2>1, <2>2, <2>3 DEF WorkersNext
<1>3. SaverInv /\ CallerInv => WorkersTypeOK
  <2> SUFFICES ASSUME SaverInv, CallerInv PROVE WorkersTypeOK
    OBVIOUS
  <2>1. savedProfile.revision \in 1..(MaxSaves + 1)
    BY WorkersAssumption DEF SaverInv
  <2>2. \A a \in Savers : profileSave[a].step \in {"idle", "read", "checked"}
    BY DEF SaverInv, Save, NoSave
  <2> QED
    BY <2>1, <2>2 DEF SaverInv, CallerInv, WorkersTypeOK
<1> QED
  BY <1>1, <1>2, <1>3, PTL DEF WorkersSpec


-----------------------------------------------------------------------------
(* Lists *)

(* A list, of whatever it lists.                                            *)
isList(s) == \E S : s \in Seq(S)

LEMMA ListGrows ==
  ASSUME NEW s, isList(s), NEW x
  PROVE  /\ isList(Append(s, x)) /\ Len(s) \in Nat /\ DOMAIN s = 1..Len(s)
         /\ Len(Append(s, x)) = Len(s) + 1
         /\ \A i \in 1..Len(s) : Append(s, x)[i] = s[i]
         /\ Append(s, x)[Len(s) + 1] = x
<1>1. PICK S : s \in Seq(S)
  BY DEF isList
<1> DEFINE T == S \union {x}
<1>2. S \subseteq T /\ x \in T
  OBVIOUS
<1> HIDE DEF T
<1>3. s \in Seq(T)
  <2>1. s \in [1..Len(s) -> S] /\ Len(s) \in Nat
    BY <1>1
  <2>2. s \in [1..Len(s) -> T]
    BY <1>2, <2>1
  <2> QED
    BY <2>1, <2>2
<1>4. /\ Append(s, x) \in Seq(T) /\ Len(s) \in Nat /\ DOMAIN s = 1..Len(s)
      /\ Len(Append(s, x)) = Len(s) + 1
      /\ \A i \in 1..Len(s) : Append(s, x)[i] = s[i]
      /\ Append(s, x)[Len(s) + 1] = x
  BY <1>2, <1>3
<1> QED
  BY <1>4 DEF isList

LEMMA ListIsCut ==
  ASSUME NEW s, isList(s), NEW n \in 0..Len(s)
  PROVE  isList(SubSeq(s, 1, n)) /\ Len(SubSeq(s, 1, n)) = n
<1>1. PICK S : s \in Seq(S)
  BY DEF isList
<1>2. Len(s) \in Nat /\ \A i \in 1..n : s[i] \in S
  BY <1>1
<1>3. /\ SubSeq(s, 1, n) \in Seq(S)
      /\ Len(SubSeq(s, 1, n)) = (IF 1 <= n THEN n - 1 + 1 ELSE 0)
  BY <1>2, SubSeqProperties
<1>4. Len(SubSeq(s, 1, n)) = n
  BY <1>2, <1>3
<1> QED
  BY <1>3, <1>4 DEF isList

-----------------------------------------------------------------------------
(* Comparisons of verifications *)

(* A job that implements or verifies has a baseline; what was measured is a   *)
(* function to the statuses.                                               *)
WorkInv ==
  /\ work = [w \in Works |-> work[w]]
  /\ \A w \in Works :
       /\ work[w].tries \in 0..MaxTries
       /\ work[w].step \in {"reproducing", "measured", "implemented", "verified"}
       /\ work[w].step \in {"implemented", "verified"} => Base[w] \in DOMAIN baselines
       /\ work[w].step \in {"measured", "verified"} =>
            \A c \in DOMAIN work[w].seen : work[w].seen[c] \in Statuses

BaselineInv ==
  \A id \in DOMAIN baselines : \A c \in DOMAIN baselines[id] : baselines[id][c] \in Statuses

(* What a comparison says of its two measurements.                         *)
trueOf(x, before) ==
  \A c \in DOMAIN x.classes :
    /\ x.classes[c] \in Classes
    /\ x.classes[c] = "pre_existing" => before[c] = x.seen[c]
    /\ x.classes[c] = "changed" => before[c] # x.seen[c]

ComparisonInv ==
  \A d \in DOMAIN differentials :
    /\ d.baseline \in DOMAIN baselines
    /\ trueOf(differentials[d], baselines[d.baseline])
    /\ \A c \in DOMAIN differentials[d].seen : differentials[d].seen[c] \in Statuses

(* Evidence is only ever added to.                                         *)
baselinesKept ==
  /\ DOMAIN baselines \subseteq DOMAIN baselines'
  /\ \A id \in DOMAIN baselines : baselines'[id] = baselines[id]

EvidenceInv == WorkInv /\ BaselineInv /\ ComparisonInv

(* A comparison is true of what it compared.                               *)
LEMMA ComparedIsTrue ==
  ASSUME NEW before, NEW seen
  PROVE  trueOf([classes |-> CompareObservations(comparable(before, seen), seen), seen |-> seen],
                before)
<1> DEFINE known == comparable(before, seen)
           x == [classes |-> CompareObservations(known, seen), seen |-> seen]
<1>1. /\ DOMAIN known = DOMAIN before \intersect DOMAIN seen
      /\ \A c \in DOMAIN known : known[c] = before[c]
  BY DEF comparable
<1> HIDE DEF known
<1>2. /\ DOMAIN x.classes = DOMAIN known \union DOMAIN seen
      /\ \A c \in DOMAIN x.classes : x.classes[c] = classOf(known, seen, c)
      /\ x.seen = seen
  BY DEF CompareObservations
<1> HIDE DEF x
<1>3. ASSUME NEW c \in DOMAIN x.classes
      PROVE  /\ x.classes[c] \in Classes
             /\ x.classes[c] = "pre_existing" => before[c] = x.seen[c]
             /\ x.classes[c] = "changed" => before[c] # x.seen[c]
  BY <1>1, <1>2, <1>3 DEF classOf, Classes
<1>4. trueOf(x, before)
  BY <1>3 DEF trueOf
<1> QED
  BY <1>4 DEF x, known

LEMMA ComparisonsStay ==
  ASSUME ComparisonInv, baselinesKept, UNCHANGED differentials
  PROVE  ComparisonInv'
BY DEF ComparisonInv, baselinesKept, trueOf

(* Each step of a job keeps the evidence.                                  *)
LEMMA WorkStep ==
  ASSUME EvidenceInv, NEW w \in Works,
         FindBaseline(w) \/ CaptureBaseline(w) \/ Verify(w) \/ CompareAndSave(w)
  PROVE  EvidenceInv'
<1>1. CASE FindBaseline(w)
  <2>1. UNCHANGED <<baselines, differentials>> /\ work[w].step = "reproducing"
    BY <1>1 DEF FindBaseline, onlyWork
  <2>2. CASE /\ Base[w] \in DOMAIN baselines
             /\ work' = [work EXCEPT ![w] = [step |-> "implemented", tries |-> work[w].tries]]
    BY <2>1, <2>2 DEF EvidenceInv, WorkInv, BaselineInv, ComparisonInv, trueOf
  <2>3. ASSUME NEW o \in [Checks -> Statuses],
               work' = [work EXCEPT ![w] = [step |-> "measured", tries |-> work[w].tries, seen |-> o]]
        PROVE  EvidenceInv'
    BY <2>1, <2>3 DEF EvidenceInv, WorkInv, BaselineInv, ComparisonInv, trueOf
  <2> QED
    BY <1>1, <2>2, <2>3 DEF FindBaseline, go, observations
<1>2. CASE CaptureBaseline(w)
  <2>1. /\ work[w].step = "measured" /\ UNCHANGED differentials
        /\ baselines' = [x \in DOMAIN baselines \union {Base[w]} |->
                           IF x \in DOMAIN baselines THEN baselines[x] ELSE work[w].seen]
        /\ work' = [work EXCEPT ![w] = [step |-> work'[w].step, tries |-> work[w].tries]]
        /\ work'[w].step \in {"implemented", "reproducing"}
    BY <1>2 DEF CaptureBaseline, saved, goesOn, go, EvidenceInv, WorkInv
  <2>2. baselinesKept /\ BaselineInv' /\ Base[w] \in DOMAIN baselines'
    BY <2>1 DEF baselinesKept, EvidenceInv, BaselineInv, WorkInv
  <2>3. WorkInv'
    BY <2>1, <2>2 DEF EvidenceInv, WorkInv, baselinesKept
  <2> QED
    BY <2>1, <2>2, <2>3, ComparisonsStay DEF EvidenceInv
<1>3. CASE Verify(w)
  <2>1. /\ work[w].step = "implemented" /\ work[w].tries < MaxTries
        /\ UNCHANGED <<baselines, differentials>>
    BY <1>3 DEF Verify, onlyWork
  <2>2. PICK p \in Patches, purpose \in DOMAIN Purposes :
          \E o \in [Purposes[purpose] -> Statuses] :
            work' = [work EXCEPT ![w] = [step |-> "verified", tries |-> work[w].tries + 1,
                                         patch |-> p, purpose |-> purpose, seen |-> o]]
    BY <1>3 DEF Verify, go, observations
  <2>3. WorkInv'
    BY <2>1, <2>2, DifferentialsAssumption DEF EvidenceInv, WorkInv
  <2> QED
    BY <2>1, <2>3 DEF EvidenceInv, BaselineInv, ComparisonInv, trueOf
<1>4. CASE CompareAndSave(w)
  <2> DEFINE d == [baseline |-> Base[w], patch |-> work[w].patch, purpose |-> work[w].purpose]
             seen == work[w].seen
             new == [classes |-> CompareObservations(comparable(baselines[Base[w]], seen), seen),
                     seen |-> seen]
  <2>1. /\ work[w].step = "verified" /\ UNCHANGED baselines
        /\ differentials' = [x \in DOMAIN differentials \union {d} |->
                               IF x \in DOMAIN differentials THEN differentials[x] ELSE new]
        /\ work' = [work EXCEPT ![w] = [step |-> work'[w].step, tries |-> work[w].tries]]
        /\ work'[w].step \in {"implemented", "reproducing"}
    BY <1>4 DEF CompareAndSave, goesOn, go, EvidenceInv, WorkInv
  <2>2. Base[w] \in DOMAIN baselines /\ \A c \in DOMAIN seen : seen[c] \in Statuses
    BY <2>1 DEF EvidenceInv, WorkInv
  <2>3. d.baseline = Base[w] /\ new.seen = seen /\ trueOf(new, baselines[Base[w]])
    BY ComparedIsTrue
  <2>4. WorkInv'
    BY <2>1, <2>2 DEF EvidenceInv, WorkInv
  <2> HIDE DEF d, new, seen
  <2>5. ComparisonInv'
    BY <2>1, <2>2, <2>3 DEF EvidenceInv, ComparisonInv, trueOf
  <2> QED
    BY <2>1, <2>4, <2>5 DEF EvidenceInv, BaselineInv
<1> QED
  BY <1>1, <1>2, <1>3, <1>4

(* So does a replacement that is filed.                                    *)
LEMMA SupersedeStep ==
  ASSUME EvidenceInv, SupersedeBaseline
  PROVE  EvidenceInv'
<1>1. PICK d \in DOMAIN differentials :
        /\ [rev |-> d.patch, config |-> d.baseline.config] \notin DOMAIN baselines
        /\ baselines' = [x \in DOMAIN baselines \union {[rev |-> d.patch, config |-> d.baseline.config]} |->
                           IF x = [rev |-> d.patch, config |-> d.baseline.config]
                           THEN differentials[d].seen ELSE baselines[x]]
        /\ UNCHANGED <<differentials, work>>
  BY DEF SupersedeBaseline
<1>2. baselinesKept /\ BaselineInv'
  BY <1>1 DEF baselinesKept, BaselineInv, EvidenceInv, ComparisonInv
<1>3. WorkInv'
  BY <1>1, <1>2 DEF EvidenceInv, WorkInv, baselinesKept
<1> QED
  BY <1>1, <1>2, <1>3, ComparisonsStay DEF EvidenceInv

LEMMA EvidenceInvariant == DifferentialsSpec => []EvidenceInv
<1>1. DifferentialsInit => EvidenceInv
  BY DifferentialsAssumption
     DEF DifferentialsInit, EvidenceInv, WorkInv, BaselineInv, ComparisonInv
<1>2. EvidenceInv /\ [DifferentialsNext]_differentialsVars => EvidenceInv'
  <2> SUFFICES ASSUME EvidenceInv, [DifferentialsNext]_differentialsVars PROVE EvidenceInv'
    OBVIOUS
  <2>1. ASSUME UNCHANGED <<baselines, differentials, work>> PROVE EvidenceInv'
    BY <2>1 DEF EvidenceInv, WorkInv, BaselineInv, ComparisonInv, trueOf
  <2>2. ASSUME NEW a \in Admins, CorrectDifferential(a) \/ SaveDifferentialCorrection(a)
        PROVE  EvidenceInv'
    BY <2>1, <2>2 DEF CorrectDifferential, SaveDifferentialCorrection, onlyCorrecting
  <2>3. CASE UNCHANGED differentialsVars
    BY <2>1, <2>3 DEF differentialsVars
  <2> QED
    BY <2>2, <2>3, WorkStep, SupersedeStep DEF DifferentialsNext
<1> QED
  BY <1>1, <1>2, PTL DEF DifferentialsSpec

(* A kept comparison stays true of the evidence it names, for any jobs, any  *)
(* administrators and any number of verifications and replacements.        *)
THEOREM DifferentialsForAll == DifferentialsSpec => []DifferentialsStayTrue
<1>1. EvidenceInv => DifferentialsStayTrue
  BY DEF EvidenceInv, ComparisonInv, trueOf, DifferentialsStayTrue
<1> QED
  BY <1>1, EvidenceInvariant, PTL


(* What administrators say is about evidence that is kept.                  *)
CorrectionsInv ==
  /\ isList(corrections)
  /\ \A k \in DOMAIN corrections :
       corrections[k].of \in DOMAIN differentials /\ corrections[k].after \in Classes
  /\ correcting = [a \in Admins |-> correcting[a]]
  /\ \A a \in Admins : correcting[a] # NoCorrection =>
       correcting[a].of \in DOMAIN differentials /\ correcting[a].after \in Classes
  /\ \A s \in supersessions : s.baseline \in DOMAIN baselines

(* More evidence is no harm to them.                                        *)
LEMMA CorrectionsStay ==
  ASSUME CorrectionsInv, DOMAIN differentials \subseteq DOMAIN differentials',
         DOMAIN baselines \subseteq DOMAIN baselines',
         UNCHANGED <<corrections, correcting, supersessions>>
  PROVE  CorrectionsInv'
BY DEF CorrectionsInv

LEMMA CorrectionStep ==
  ASSUME CorrectionsInv, NEW a \in Admins, CorrectDifferential(a) \/ SaveDifferentialCorrection(a)
  PROVE  CorrectionsInv'
<1>1. CASE CorrectDifferential(a)
  <2>1. PICK d \in DOMAIN differentials, verdict \in Classes :
          \E c \in DOMAIN differentials[d].classes :
            correcting' = [correcting EXCEPT
              ![a] = [of |-> d, check |-> c, before |-> effective(d, c), after |-> verdict]]
    BY <1>1 DEF CorrectDifferential
  <2>2. PICK x : /\ x.of = d /\ x.after = verdict
                 /\ correcting' = [correcting EXCEPT ![a] = x]
    BY <2>1
  <2>3. UNCHANGED <<corrections, baselines, differentials, supersessions>>
    BY <1>1 DEF CorrectDifferential, onlyCorrecting
  <2> QED
    BY <2>2, <2>3 DEF CorrectionsInv
<1>2. CASE SaveDifferentialCorrection(a)
  <2> DEFINE x == correcting[a]
  <2>1. /\ x # NoCorrection /\ corrections' = Append(corrections, x)
        /\ correcting' = [correcting EXCEPT ![a] = NoCorrection]
        /\ UNCHANGED <<baselines, differentials, supersessions>>
    BY <1>2 DEF SaveDifferentialCorrection, onlyCorrecting
  <2>2. x.of \in DOMAIN differentials /\ x.after \in Classes /\ isList(corrections)
    BY <2>1 DEF CorrectionsInv
  <2> HIDE DEF x
  <2>3. /\ isList(corrections') /\ DOMAIN corrections' = 1..Len(corrections) + 1
        /\ DOMAIN corrections = 1..Len(corrections) /\ Len(corrections) \in Nat
        /\ \A i \in 1..Len(corrections) : corrections'[i] = corrections[i]
        /\ corrections'[Len(corrections) + 1] = x
    <3>1. /\ isList(Append(corrections, x)) /\ Len(corrections) \in Nat
          /\ DOMAIN corrections = 1..Len(corrections)
          /\ Len(Append(corrections, x)) = Len(corrections) + 1
          /\ \A i \in 1..Len(corrections) : Append(corrections, x)[i] = corrections[i]
          /\ Append(corrections, x)[Len(corrections) + 1] = x
      BY <2>2, ListGrows
    <3>2. DOMAIN Append(corrections, x) = 1..Len(Append(corrections, x))
      BY <3>1, ListGrows
    <3> QED
      BY <2>1, <3>1, <3>2
  <2>4. \A k \in DOMAIN corrections' :
          corrections'[k].of \in DOMAIN differentials /\ corrections'[k].after \in Classes
    <3> SUFFICES ASSUME NEW k \in DOMAIN corrections'
                 PROVE  corrections'[k].of \in DOMAIN differentials /\ corrections'[k].after \in Classes
      OBVIOUS
    <3>1. k \in DOMAIN corrections \/ k = Len(corrections) + 1
      BY <2>3
    <3> QED
      BY <2>2, <2>3, <3>1 DEF CorrectionsInv
  <2>5. /\ correcting' = [b \in Admins |-> correcting'[b]]
        /\ \A b \in Admins : correcting'[b] # NoCorrection =>
             correcting'[b].of \in DOMAIN differentials /\ correcting'[b].after \in Classes
    BY <2>1 DEF CorrectionsInv
  <2> QED
    BY <2>1, <2>3, <2>4, <2>5 DEF CorrectionsInv
<1> QED
  BY <1>1, <1>2

(* Evidence, corrections and supersessions keep their types.                *)
THEOREM DifferentialsTypesForAll == DifferentialsSpec => []DifferentialsTypeOK
<1>1. DifferentialsInit => CorrectionsInv
  <2>1. isList(<<>>) /\ DOMAIN <<>> = {}
    <3>1. <<>> \in Seq({}) /\ DOMAIN <<>> = {}
      OBVIOUS
    <3> QED
      BY <3>1 DEF isList
  <2> QED
    BY <2>1 DEF DifferentialsInit, CorrectionsInv
<1>2. EvidenceInv /\ CorrectionsInv /\ [DifferentialsNext]_differentialsVars => CorrectionsInv'
  <2> SUFFICES ASSUME EvidenceInv, CorrectionsInv, [DifferentialsNext]_differentialsVars
               PROVE  CorrectionsInv'
    OBVIOUS
  <2>1. ASSUME NEW w \in Works,
               FindBaseline(w) \/ CaptureBaseline(w) \/ Verify(w) \/ CompareAndSave(w)
        PROVE  CorrectionsInv'
    <3>1. /\ DOMAIN differentials \subseteq DOMAIN differentials'
          /\ DOMAIN baselines \subseteq DOMAIN baselines'
      BY <2>1 DEF FindBaseline, CaptureBaseline, Verify, CompareAndSave, onlyWork, saved
    <3>2. UNCHANGED <<corrections, correcting, supersessions>>
      BY <2>1 DEF FindBaseline, CaptureBaseline, Verify, CompareAndSave, onlyWork
    <3> QED
      BY <3>1, <3>2, CorrectionsStay
  <2>2. CASE SupersedeBaseline
    <3>1. PICK d \in DOMAIN differentials :
            /\ supersessions' = supersessions \union {[baseline |-> d.baseline, of |-> d]}
            /\ DOMAIN baselines \subseteq DOMAIN baselines'
            /\ UNCHANGED <<differentials, corrections, correcting>>
      BY <2>2 DEF SupersedeBaseline
    <3>2. d.baseline \in DOMAIN baselines
      BY DEF EvidenceInv, ComparisonInv
    <3> QED
      BY <3>1, <3>2 DEF CorrectionsInv
  <2>3. CASE UNCHANGED differentialsVars
    BY <2>3, CorrectionsStay DEF differentialsVars
  <2> QED
    BY <2>1, <2>2, <2>3, CorrectionStep DEF DifferentialsNext
<1>3. EvidenceInv /\ CorrectionsInv => DifferentialsTypeOK
  BY DEF EvidenceInv, WorkInv, BaselineInv, ComparisonInv, trueOf, CorrectionsInv,
         DifferentialsTypeOK
<1> QED
  BY <1>1, <1>2, <1>3, EvidenceInvariant, PTL DEF DifferentialsSpec

-----------------------------------------------------------------------------
(* The index of the code *)

(* A refresh that commits keeps an analysis of everything it parsed.         *)
LEMMA CommitKeepsParsed ==
  ASSUME ParsedIsAnswered, NEW i \in Indexers, CommitIndex(i)
  PROVE  ParsedIsAnswered'
<1> DEFINE r == index[i]
           parsed == {fileOf(r, k) : k \in DOMAIN r.done}
           new == {r.files[k].blob : k \in {k \in DOMAIN r.done : ~r.done[k].reused}}
<1>1. DOMAIN blobs' = DOMAIN blobs \union new
  BY DEF CommitIndex, inserted
<1>2. \A f \in parsed : ~f.reused => f.blob \in new
  BY DEF fileOf
<1>3. \A run \in indexRuns' : run \in indexRuns \/ run.files = parsed
  BY DEF CommitIndex
<1> HIDE DEF parsed, new
<1> QED
  BY <1>1, <1>2, <1>3 DEF ParsedIsAnswered, QueryIntelligence

(* A blob that a run which is kept names is not pruned.                     *)
LEMMA PruneKeepsParsed ==
  ASSUME ParsedIsAnswered, NEW i \in Indexers, PruneIntelligence(i)
  PROVE  ParsedIsAnswered'
<1>1. indexRuns' \subseteq indexRuns
  BY DEF PruneIntelligence, newest
<1>2. DOMAIN blobs' = DOMAIN blobs \intersect referenced(indexRuns')
  BY DEF PruneIntelligence, keptBlobs
<1>3. \A run \in indexRuns' : \A f \in run.files : f.blob \in referenced(indexRuns')
  BY DEF referenced
<1> QED
  BY <1>1, <1>2, <1>3 DEF ParsedIsAnswered, QueryIntelligence

(* Every file a run parsed itself can be answered for as long as the run is  *)
(* kept, for any refreshes, retentions and quotas.                         *)
THEOREM ParsedForAll == CodeIndexSpec => []ParsedIsAnswered
<1>1. CodeIndexInit => ParsedIsAnswered
  BY DEF CodeIndexInit, ParsedIsAnswered
<1>2. ParsedIsAnswered /\ [CodeIndexNext]_codeIndexVars => ParsedIsAnswered'
  <2> SUFFICES ASSUME ParsedIsAnswered, [CodeIndexNext]_codeIndexVars PROVE ParsedIsAnswered'
    OBVIOUS
  <2>1. ASSUME UNCHANGED <<blobs, indexRuns>> PROVE ParsedIsAnswered'
    BY <2>1 DEF ParsedIsAnswered, QueryIntelligence
  <2>2. ASSUME NEW i \in Indexers,
               \/ StartIndex(i) \/ ReadFile(i) \/ StopIndexing(i) \/ Abort(i)
               \/ Register(i) \/ FinishRegister(i)
        PROVE  ParsedIsAnswered'
    BY <2>1, <2>2
       DEF StartIndex, ReadFile, StopIndexing, Abort, Register, FinishRegister, onlyIndex
  <2>3. CASE RebuildIntelligence
    BY <2>3 DEF RebuildIntelligence, ParsedIsAnswered
  <2>4. CASE PurgeCacheEntries \/ NextDay \/ UNCHANGED codeIndexVars
    BY <2>1, <2>4 DEF PurgeCacheEntries, NextDay, codeIndexVars
  <2> QED
    BY <2>2, <2>3, <2>4, CommitKeepsParsed, PruneKeepsParsed DEF CodeIndexNext
<1> QED
  BY <1>1, <1>2, PTL DEF CodeIndexSpec

(* A refresh, as far as it got.                                             *)
Refresh(r) ==
  [step |-> r.step, files |-> r.files, done |-> r.done, cancelled |-> r.cancelled,
   retention |-> r.retention, quota |-> r.quota, next |-> r.next]

readsOn(r) ==
  /\ r = Refresh(r) /\ r.step \in {"reading", "commit", "register", "prune"}
  /\ isList(r.files) /\ isList(r.done)
  /\ Len(r.done) <= Len(r.files)
  /\ r.next \in 1 .. Len(r.files) + 1
  /\ r.step = "reading" => r.next = 1

IndexInv ==
  /\ index = [i \in Indexers |-> index[i]]
  /\ \A i \in Indexers : index[i] # NoRefresh => readsOn(index[i])

DaysInv ==
  /\ \A run \in indexRuns : run.day \in 0 .. day
  /\ day \in 0 .. MaxDay /\ indexes \in 0 .. MaxIndexes /\ rebuilds \in 0 .. MaxIndexRebuilds

LEMMA ListLengths ==
  ASSUME NEW s, isList(s)
  PROVE  Len(s) \in Nat
BY DEF isList

(* One refresh moves.                                                       *)
LEMMA RefreshMoves ==
  ASSUME IndexInv, NEW i \in Indexers, NEW to, move(i, to), to = NoRefresh \/ readsOn(to)
  PROVE  IndexInv'
<1>1. index' = [index EXCEPT ![i] = to]
  BY DEF move
<1>2. /\ index' = [j \in Indexers |-> index'[j]]
      /\ \A j \in Indexers : index'[j] = IF j = i THEN to ELSE index[j]
  BY <1>1 DEF IndexInv
<1> QED
  BY <1>2 DEF IndexInv

LEMMA RefreshStep ==
  ASSUME IndexInv, NEW i \in Indexers,
         \/ StartIndex(i) \/ ReadFile(i) \/ StopIndexing(i) \/ Abort(i) \/ CommitIndex(i)
         \/ Register(i) \/ FinishRegister(i) \/ PruneIntelligence(i)
  PROVE  IndexInv'
<1> DEFINE r == index[i]
<1>1. r.step \in {"reading", "commit", "register", "prune"} => readsOn(r)
  BY DEF IndexInv, NoRefresh
<1>2. CASE StartIndex(i)
  <2>1. PICK found \in Snapshots, retention \in Retentions, quota \in Quotas :
          move(i, [step |-> "reading", files |-> found, done |-> <<>>, cancelled |-> FALSE,
                   retention |-> retention, quota |-> quota, next |-> 1])
    BY <1>2 DEF StartIndex
  <2> DEFINE to == [step |-> "reading", files |-> found, done |-> <<>>, cancelled |-> FALSE,
                    retention |-> retention, quota |-> quota, next |-> 1]
  <2>2. isList(found) /\ isList(<<>>) /\ Len(<<>>) = 0
    <3>1. found \in Seq(SourceFile) /\ <<>> \in Seq({}) /\ Len(<<>>) = 0
      BY CodeIndexAssumption
    <3> QED
      BY <3>1 DEF isList
  <2>3. readsOn(to)
    BY <2>2, ListLengths DEF readsOn, Refresh
  <2> HIDE DEF to
  <2>4. move(i, to)
    BY <2>1 DEF to
  <2> QED
    BY <2>3, <2>4, RefreshMoves
<1>3. CASE ReadFile(i)
  <2>1. /\ r.step = "reading" /\ Len(r.done) + 1 <= Len(r.files)
        /\ \E x : move(i, [r EXCEPT !.done = Append(@, x)])
    BY <1>3 DEF ReadFile
  <2>2. PICK x : move(i, [r EXCEPT !.done = Append(@, x)])
    BY <2>1
  <2> DEFINE to == [r EXCEPT !.done = Append(@, x)]
  <2> HIDE DEF r
  <2>3. readsOn(r) /\ r.step = "reading" /\ Len(r.done) + 1 <= Len(r.files)
    BY <1>1, <2>1
  <2>4. isList(Append(r.done, x)) /\ Len(Append(r.done, x)) = Len(r.done) + 1
    BY <2>3, ListGrows DEF readsOn
  <2>5. /\ to.step = r.step /\ to.files = r.files /\ to.done = Append(r.done, x)
        /\ to.next = r.next /\ to = Refresh(to)
    <3> DEFINE l == Append(r.done, x)
    <3>1. to = [r EXCEPT !.done = l] /\ r = Refresh(r)
      BY <2>3 DEF readsOn
    <3> HIDE DEF l, to
    <3>2. /\ to.step = r.step /\ to.files = r.files /\ to.done = l
          /\ to.next = r.next /\ to = Refresh(to)
      BY <3>1 DEF Refresh
    <3> QED
      BY <3>2 DEF l
  <2> HIDE DEF to
  <2>6. readsOn(to)
    BY <2>3, <2>4, <2>5 DEF readsOn
  <2>7. move(i, to)
    BY <2>2 DEF to
  <2> QED
    BY <2>6, <2>7, RefreshMoves
<1>4. CASE StopIndexing(i)
  <2> DEFINE n == Len(r.done)
             a == [r EXCEPT !.step = "commit"]
             b == [a EXCEPT !.files = SubSeq(@, 1, n)]
             to == [b EXCEPT !.cancelled = n < Len(r.files)]
  <2>1. r.step = "reading" /\ move(i, [r EXCEPT !.step = "commit", !.files = SubSeq(@, 1, n),
                                                !.cancelled = n < Len(r.files)])
    BY <1>4 DEF StopIndexing
  <2>2. readsOn(r) /\ n \in 0..Len(r.files)
    <3>1. readsOn(r)
      BY <1>1, <2>1
    <3> QED
      BY <3>1, ListLengths DEF readsOn
  <2> HIDE DEF r
  <2>3. to = [r EXCEPT !.step = "commit", !.files = SubSeq(@, 1, n), !.cancelled = n < Len(r.files)]
    BY <2>2 DEF readsOn, Refresh
  <2>4. /\ a.step = "commit" /\ a.files = r.files /\ a.done = r.done /\ a.next = r.next
        /\ a = Refresh(a)
    BY <2>2 DEF readsOn, Refresh
  <2> HIDE DEF a, n
  <2>5. /\ b.step = "commit" /\ b.files = SubSeq(r.files, 1, n) /\ b.done = r.done
        /\ b.next = r.next /\ b = Refresh(b)
    <3> DEFINE l == SubSeq(r.files, 1, n)
    <3>1. b = [a EXCEPT !.files = l] /\ a = Refresh(a)
      BY <2>4
    <3> HIDE DEF l, b
    <3>2. /\ b.step = "commit" /\ b.files = l /\ b.done = r.done
          /\ b.next = r.next /\ b = Refresh(b)
      BY <2>4, <3>1 DEF Refresh
    <3> QED
      BY <3>2 DEF l
  <2> HIDE DEF b
  <2>6. /\ to.step = "commit" /\ to.files = SubSeq(r.files, 1, n) /\ to.done = r.done
        /\ to.next = r.next /\ to = Refresh(to)
    BY <2>5 DEF Refresh
  <2> HIDE DEF to
  <2>7. isList(SubSeq(r.files, 1, n)) /\ Len(SubSeq(r.files, 1, n)) = n
    BY <2>2, ListIsCut DEF readsOn
  <2>8. r.next = 1
    BY <1>1, <2>1, <2>2 DEF readsOn
  <2>9. n = Len(r.done) /\ n \in Nat
    BY <2>2, ListLengths DEF n, readsOn
  <2>10. readsOn(to)
    BY <2>2, <2>6, <2>7, <2>8, <2>9 DEF readsOn
  <2>11. move(i, to)
    BY <2>1, <2>3 DEF n
  <2> QED
    BY <2>10, <2>11, RefreshMoves
<1>5. CASE Abort(i)
  BY <1>5, RefreshMoves DEF Abort
<1>6. ASSUME readsOn(r), NEW step \in {"register", "prune"}, move(i, [r EXCEPT !.step = step])
      PROVE  IndexInv'
  <2> DEFINE to == [r EXCEPT !.step = step]
  <2> HIDE DEF r
  <2>1. readsOn(to)
    BY <1>6 DEF readsOn, Refresh
  <2>2. move(i, to)
    BY <1>6 DEF r
  <2> HIDE DEF to
  <2> QED
    BY <2>1, <2>2, RefreshMoves
<1>7. CASE CommitIndex(i)
  BY <1>1, <1>6, <1>7 DEF CommitIndex
<1>8. CASE Register(i)
  <2>1. CASE move(i, NoRefresh)
    BY <2>1, RefreshMoves
  <2>2. CASE ~move(i, NoRefresh)
    <3>1. r.step = "register" /\ r.next <= Len(r.files) /\ move(i, [r EXCEPT !.next = @ + 1])
      BY <1>8, <2>2 DEF Register
    <3> DEFINE to == [r EXCEPT !.next = @ + 1]
    <3>2. readsOn(r) /\ Len(r.files) \in Nat
      BY <1>1, <3>1, ListLengths DEF readsOn
    <3>3. readsOn(to)
      <4> HIDE DEF r
      <4>1. /\ to.step = r.step /\ to.files = r.files /\ to.done = r.done
            /\ to.next = r.next + 1 /\ to = Refresh(to)
        BY <3>2 DEF readsOn, Refresh
      <4> HIDE DEF to
      <4> QED
        BY <3>1, <3>2, <4>1 DEF readsOn
    <3>4. move(i, to)
      BY <3>1
    <3> HIDE DEF to
    <3> QED
      BY <3>3, <3>4, RefreshMoves
  <2> QED
    BY <2>1, <2>2
<1>9. CASE FinishRegister(i)
  <2>1. r.step = "register" /\ (move(i, NoRefresh) \/ move(i, [r EXCEPT !.step = "prune"]))
    BY <1>9 DEF FinishRegister
  <2> QED
    BY <1>1, <1>6, <2>1, RefreshMoves
<1>10. CASE PruneIntelligence(i)
  BY <1>10, RefreshMoves DEF PruneIntelligence
<1> QED
  BY <1>2, <1>3, <1>4, <1>5, <1>7, <1>8, <1>9, <1>10

(* Refreshes, runs and days keep their types.                               *)
THEOREM CodeIndexTypesForAll == CodeIndexSpec => []CodeIndexTypeOK
<1>1. CodeIndexInit => IndexInv /\ DaysInv
  BY CodeIndexAssumption DEF CodeIndexInit, IndexInv, DaysInv
<1>2. IndexInv /\ DaysInv /\ [CodeIndexNext]_codeIndexVars => IndexInv' /\ DaysInv'
  <2> SUFFICES ASSUME IndexInv, DaysInv, [CodeIndexNext]_codeIndexVars PROVE IndexInv' /\ DaysInv'
    OBVIOUS
  <2>1. ASSUME NEW i \in Indexers, StartIndex(i) PROVE IndexInv' /\ DaysInv'
    <3>1. DaysInv'
      BY <2>1, CodeIndexAssumption DEF StartIndex, DaysInv
    <3> QED
      BY <2>1, <3>1, RefreshStep
  <2>2. ASSUME NEW i \in Indexers, ReadFile(i) \/ StopIndexing(i) \/ Abort(i) \/ FinishRegister(i)
        PROVE  IndexInv' /\ DaysInv'
    <3>1. DaysInv'
      BY <2>2 DEF ReadFile, StopIndexing, Abort, FinishRegister, onlyIndex, DaysInv
    <3> QED
      BY <2>2, <3>1, RefreshStep
  <2>3. ASSUME NEW i \in Indexers, CommitIndex(i) PROVE IndexInv' /\ DaysInv'
    <3>1. \A run \in indexRuns' : run \in indexRuns \/ run.day = day
      BY <2>3 DEF CommitIndex
    <3>2. UNCHANGED <<day, indexes, rebuilds>>
      BY <2>3 DEF CommitIndex
    <3>3. DaysInv'
      BY <3>1, <3>2, CodeIndexAssumption DEF DaysInv
    <3> QED
      BY <2>3, <3>3, RefreshStep
  <2>4. ASSUME NEW i \in Indexers, Register(i) PROVE IndexInv' /\ DaysInv'
    <3>1. DaysInv'
      BY <2>4 DEF Register, DaysInv
    <3> QED
      BY <2>4, <3>1, RefreshStep
  <2>5. ASSUME NEW i \in Indexers, PruneIntelligence(i) PROVE IndexInv' /\ DaysInv'
    <3>1. indexRuns' \subseteq indexRuns
      BY <2>5 DEF PruneIntelligence, newest
    <3>2. UNCHANGED <<day, indexes, rebuilds>>
      BY <2>5 DEF PruneIntelligence
    <3>3. DaysInv'
      BY <3>1, <3>2 DEF DaysInv
    <3> QED
      BY <2>5, <3>3, RefreshStep
  <2>6. CASE RebuildIntelligence \/ PurgeCacheEntries
    BY <2>6, CodeIndexAssumption DEF RebuildIntelligence, PurgeCacheEntries, IndexInv, DaysInv
  <2>7. CASE NextDay
    BY <2>7, CodeIndexAssumption DEF NextDay, IndexInv, DaysInv
  <2>8. CASE UNCHANGED codeIndexVars
    BY <2>8 DEF codeIndexVars, IndexInv, DaysInv
  <2> QED
    BY <2>1, <2>2, <2>3, <2>4, <2>5, <2>6, <2>7, <2>8 DEF CodeIndexNext
<1>3. IndexInv /\ DaysInv => CodeIndexTypeOK
  BY DEF IndexInv, DaysInv, readsOn, CodeIndexTypeOK
<1> QED
  BY <1>1, <1>2, <1>3, PTL DEF CodeIndexSpec

-----------------------------------------------------------------------------
(* Routes to providers *)

(* A set of natural numbers has a least element, for < is well-founded.    *)
LEMMA LeastExists ==
  ASSUME NEW S, S \subseteq Nat, S # {}
  PROVE  \E m \in S : \A k \in S : m <= k
<1>1. IsWellFoundedOn(OpToRel(<, Nat), Nat)
  BY NatLessThanWellFounded
<1>2. PICK m \in S : \A k \in S : ~(<<k, m>> \in OpToRel(<, Nat))
  BY <1>1, WFMin, Zenon
<1>3. ASSUME NEW k \in S
      PROVE  m <= k
  <2>1. ~(<<k, m>> \in OpToRel(<, Nat))
    BY <1>2
  <2>2. k \in Nat /\ m \in Nat
    OBVIOUS
  <2>3. k < m => <<k, m>> \in OpToRel(<, Nat)
    BY <2>2 DEF OpToRel
  <2>4. ~(k < m)
    BY <2>1, <2>3
  <2> QED
    BY <2>2, <2>4
<1> QED
  BY <1>2, <1>3

(* The place of a model is the first one it is listed at.                  *)
LEMMA PlaceIsFirst ==
  ASSUME NEW route, DOMAIN route.models \subseteq Nat, NEW m \in modelsOf(route)
  PROVE  /\ at(route, m) \in DOMAIN route.models
         /\ route.models[at(route, m)] = m
         /\ \A j \in DOMAIN route.models : route.models[j] = m => at(route, m) <= j
<1> DEFINE S == {i \in DOMAIN route.models : route.models[i] = m}
<1>1. S \subseteq Nat /\ S # {}
  BY DEF modelsOf
<1>2. PICK i \in S : \A j \in S : i <= j
  BY <1>1, LeastExists
<1>3. /\ i \in DOMAIN route.models /\ route.models[i] = m
      /\ \A j \in DOMAIN route.models : route.models[j] = m => i <= j
  BY <1>2
<1> QED
  BY <1>3, Zenon DEF at

(* The first model of some is among them, and none is listed before it.    *)
LEMMA FirstIsListedFirst ==
  ASSUME NEW route, DOMAIN route.models \subseteq Nat,
         NEW M, M \subseteq modelsOf(route), M # {}
  PROVE  /\ firstIn(route, M) \in M
         /\ \A n \in M : at(route, firstIn(route, M)) <= at(route, n)
<1> DEFINE S == {at(route, m) : m \in M}
<1>1. S \subseteq Nat /\ S # {}
  BY PlaceIsFirst
<1>2. PICK i \in S : \A j \in S : i <= j
  BY <1>1, LeastExists
<1>3. PICK m \in M : i = at(route, m)
  BY <1>2
<1>4. \A n \in M : at(route, m) <= at(route, n)
  BY <1>2, <1>3
<1> QED
  BY <1>4, Zenon DEF firstIn

(* The trust a route keeps is that of the first model it lists which could    *)
(* have taken the data.                                                    *)
LEMMA FloorIsOfFirstUsable ==
  ASSUME NEW seen, NEW route, route.models \in Seq(STRING), route.keeps,
         NEW i \in DOMAIN route.models, usable(seen, route.models[i]),
         \A j \in 1..i - 1 : ~usable(seen, route.models[j])
  PROVE  trustFloor(seen, route) = owner(seen, route.models[i]).trust
<1> DEFINE M == {m \in modelsOf(route) : usable(seen, m)}
           first == firstIn(route, M)
<1>1. DOMAIN route.models = 1..Len(route.models) /\ Len(route.models) \in Nat
  OBVIOUS
<1>2. DOMAIN route.models \subseteq Nat
  BY <1>1
<1>3. M \subseteq modelsOf(route) /\ route.models[i] \in M
  BY DEF modelsOf
<1>4. first \in M /\ at(route, first) <= at(route, route.models[i])
  BY <1>2, <1>3, FirstIsListedFirst
<1>5. at(route, route.models[i]) <= i
  BY <1>2, <1>3, PlaceIsFirst
<1>6. /\ at(route, first) \in DOMAIN route.models
      /\ route.models[at(route, first)] = first
  BY <1>2, <1>3, <1>4, PlaceIsFirst
<1>7. at(route, route.models[i]) \in DOMAIN route.models
  BY <1>2, <1>3, PlaceIsFirst
<1>8. ~(at(route, first) \in 1..i - 1)
  BY <1>4, <1>6
<1>9. at(route, first) = i
  <2> HIDE DEF first, M
  <2> QED
    BY <1>1, <1>4, <1>5, <1>6, <1>7, <1>8
<1>10. first = route.models[i]
  BY <1>6, <1>9
<1> QED
  BY <1>3, <1>10 DEF trustFloor

(* What every table that was read is: its routes list models by name and     *)
(* have a place in the order.                                              *)
routesTyped(tables) ==
  "route" \in DOMAIN tables =>
    \A r \in DOMAIN tables["route"] :
      /\ tables["route"][r].content.models \in Seq(STRING)
      /\ tables["route"][r].content.order \in Nat
      /\ tables["route"][r].content.local \in BOOLEAN

(* Some route goes before all the others.                                  *)
LEMMA SomeRoutePrecedes ==
  ASSUME NEW seen, routesTyped(seen), "route" \in DOMAIN seen,
         NEW R, R \subseteq DOMAIN seen["route"], R # {}
  PROVE  \E r \in R : \A s \in R : precedes(seen, r, s)
<1> DEFINE route(r) == content(seen, "route", r)
           near == {r \in R : route(r).local}
           T == IF near # {} THEN near ELSE R
           S == {route(r).order : r \in T}
<1>1. \A r \in R : route(r).order \in Nat /\ route(r).local \in BOOLEAN
  BY DEF routesTyped, content
<1>2. T \subseteq R /\ T # {}
  OBVIOUS
<1>3. S \subseteq Nat /\ S # {}
  BY <1>1, <1>2
<1>4. PICK n \in S : \A k \in S : n <= k
  BY <1>3, LeastExists
<1>5. PICK r \in T : n = route(r).order
  BY <1>4
<1>6. ASSUME NEW s \in R
      PROVE  precedes(seen, r, s)
  <2>1. CASE s \in T
    <3>1. route(r).order <= route(s).order
      BY <1>4, <1>5, <2>1
    <3>2. route(r).local = route(s).local
      BY <1>1, <1>2, <1>5, <2>1
    <3> QED
      BY <3>1, <3>2 DEF precedes
  <2>2. CASE s \notin T
    <3>1. route(r).local /\ ~route(s).local
      BY <1>5, <1>6, <2>2
    <3> QED
      BY <3>1 DEF precedes
  <2> QED
    BY <2>1, <2>2
<1> QED
  BY <1>2, <1>5, <1>6

(* What a decision that allows a call was checked against.                 *)
granted(seen, d) ==
  /\ d.route \in DOMAIN seen["route"]
  /\ d.model \in modelsOf(content(seen, "route", d.route))
  /\ owner(seen, d.model).trust >= trustFloor(seen, content(seen, "route", d.route))

LEMMA DecisionIsGranted ==
  ASSUME NEW seen, routesTyped(seen), "route" \in DOMAIN seen, SimulateRoute(seen).allowed
  PROVE  granted(seen, SimulateRoute(seen))
<1> DEFINE R == {r \in DOMAIN seen["route"] : eligible(seen, r)}
           r == CHOOSE r \in R : \A s \in R : precedes(seen, r, s)
           route == content(seen, "route", r)
           model == firstIn(route, candidates(seen, route))
<1>1. R # {}
  BY DEF SimulateRoute, Unselected
<1>2. SimulateRoute(seen) = [route |-> r, model |-> model, allowed |-> TRUE]
  BY <1>1 DEF SimulateRoute
<1>3. r \in R
  <2>1. \E x \in R : \A s \in R : precedes(seen, x, s)
    BY <1>1, SomeRoutePrecedes
  <2> HIDE DEF R
  <2> QED
    BY <2>1, Zenon
<1> HIDE DEF r
<1>4. route.models \in Seq(STRING) /\ candidates(seen, route) # {}
  BY <1>3 DEF routesTyped, content, eligible
<1>5. DOMAIN route.models \subseteq Nat
  BY <1>4
<1>6. candidates(seen, route) \subseteq modelsOf(route)
  BY DEF candidates
<1> HIDE DEF route
<1>7. model \in candidates(seen, route)
  BY <1>4, <1>5, <1>6, FirstIsListedFirst
<1> HIDE DEF model
<1>8. model \in modelsOf(route) /\ owner(seen, model).trust >= trustFloor(seen, route)
  BY <1>7 DEF candidates, acceptedModel
<1> QED
  BY <1>2, <1>3, <1>8 DEF granted, route

Call(c) ==
  [step |-> c.step, seen |-> c.seen, first |-> c.first, manifest |-> c.manifest,
   high |-> c.high, calls |-> c.calls]

CallSteps == {"idle", "first", "gate", "awaiting", "second", "executed", "failed"}

(* A decision that was taken stays what the tables said that were read for it. *)
CallInv ==
  /\ call = Call(call) /\ call.step \in CallSteps
  /\ DOMAIN call.seen \subseteq KindSet /\ routesTyped(call.seen)
  /\ decided => "route" \in DOMAIN call.seen /\ granted(call.seen, call.manifest)

routeContent(to) ==
  to.models \in Seq(STRING) /\ to.order \in Nat /\ to.local \in BOOLEAN

ProfilesInv ==
  /\ DOMAIN profiles = KindSet /\ routesTyped(profiles)
  /\ saving = [o \in Operators |-> saving[o]]
  /\ \A o \in Operators : saving[o].kind = "route" => routeContent(saving[o].to)

LedgerInv == approvals \subseteq manifests /\ updates \in 0..MaxUpdates

RoutesInv == CallInv /\ ProfilesInv /\ LedgerInv

LEMMA RouteContents ==
  ASSUME NEW to \in Contents["route"]
  PROVE  routeContent(to)
<1>1. Contents["route"] =
        [models : Seq(STRING), enabled : BOOLEAN, local : BOOLEAN, keeps : BOOLEAN,
         classes : SUBSET Needed, maxCost : Nat, order : Nat]
  BY DEF Contents
<1>2. to \in [models : Seq(STRING), enabled : BOOLEAN, local : BOOLEAN, keeps : BOOLEAN,
              classes : SUBSET Needed, maxCost : Nat, order : Nat]
  BY <1>1, Zenon
<1> QED
  BY <1>2 DEF routeContent

LEMMA KindsAreFour ==
  /\ IsFiniteSet(KindSet)
  /\ \A n \in 1..Len(Kinds) : Kinds[n] \in KindSet
  /\ Len(Kinds) \in Nat
<1>1. IsFiniteSet({} \union {"provider"} \union {"endpoint"} \union {"model"} \union {"route"})
  BY FS_EmptySet, FS_AddElement
<1>2. KindSet = {} \union {"provider"} \union {"endpoint"} \union {"model"} \union {"route"}
  BY DEF KindSet
<1> QED
  BY <1>1, <1>2 DEF KindSet, Kinds

(* Steps of the call change nothing but the call and the manifests.          *)
LEMMA CallStep ==
  ASSUME RoutesInv,
         \/ StartCall \/ LoadTable \/ Decide1 \/ PassGate \/ Pause \/ SimulateExecution
         \/ EndCall \/ ApproveRemoteEgress
  PROVE  CallInv'
<1> USE DEF RoutesInv, CallInv, CallSteps, Call, decided
<1>1. CASE StartCall
  BY <1>1 DEF StartCall, routesTyped
<1>2. CASE LoadTable
  <2> DEFINE n == Cardinality(DOMAIN call.seen) + 1
             k == Kinds[n]
             seen == [x \in DOMAIN call.seen \union {k} |-> IF x = k THEN profiles[k] ELSE call.seen[x]]
  <2>1. /\ call.step \in {"first", "second"} /\ n <= Len(Kinds)
        /\ call' = [call EXCEPT !.seen = seen]
    BY <1>2 DEF LoadTable
  <2>2. k \in KindSet
    <3>1. IsFiniteSet(DOMAIN call.seen)
      BY KindsAreFour, FS_Subset
    <3>2. n \in 1..Len(Kinds)
      BY <2>1, <3>1, FS_CardinalityType, KindsAreFour
    <3> QED
      BY <3>2, KindsAreFour
  <2> HIDE DEF k
  <2>3. DOMAIN seen = DOMAIN call.seen \union {k}
    OBVIOUS
  <2>4. \A x \in DOMAIN seen : seen[x] = IF x = k THEN profiles[k] ELSE call.seen[x]
    OBVIOUS
  <2> HIDE DEF seen
  <2>5. routesTyped(seen)
    BY <2>2, <2>3, <2>4 DEF routesTyped, ProfilesInv
  <2> QED
    BY <2>1, <2>2, <2>3, <2>5
<1>3. CASE Decide1
  <2> DEFINE d == SimulateRoute(call.seen)
  <2>1. /\ call.step = "first" /\ DOMAIN call.seen = KindSet
        /\ call' = [call EXCEPT !.step = IF d.allowed THEN "gate" ELSE "failed",
                                !.first = d, !.manifest = d]
    BY <1>3 DEF Decide1, loaded
  <2>2. d.allowed => granted(call.seen, d)
    BY <2>1, DecisionIsGranted DEF KindSet
  <2> HIDE DEF d
  <2> QED
    BY <2>1, <2>2 DEF KindSet
<1>4. CASE PassGate
  BY <1>4 DEF PassGate, routesTyped
<1>5. CASE Pause
  BY <1>5 DEF Pause
<1>6. CASE SimulateExecution
  <2> DEFINE d == SimulateRoute(call.seen)
  <2>1. /\ call.step = "second" /\ DOMAIN call.seen = KindSet
        /\ call' = [call EXCEPT !.step = IF d.allowed THEN "executed" ELSE "failed",
                                !.manifest = d]
    BY <1>6 DEF SimulateExecution, loaded
  <2>2. d.allowed => granted(call.seen, d)
    BY <2>1, DecisionIsGranted DEF KindSet
  <2> HIDE DEF d
  <2> QED
    BY <2>1, <2>2 DEF KindSet
<1>7. CASE EndCall
  BY <1>7 DEF EndCall
<1>8. CASE ApproveRemoteEgress
  BY <1>8 DEF ApproveRemoteEgress
<1> QED
  BY <1>1, <1>2, <1>3, <1>4, <1>5, <1>6, <1>7, <1>8

LEMMA CallKeepsProfiles ==
  ASSUME RoutesInv,
         \/ StartCall \/ LoadTable \/ Decide1 \/ PassGate \/ Pause \/ SimulateExecution
         \/ EndCall \/ ApproveRemoteEgress
  PROVE  ProfilesInv' /\ LedgerInv'
<1>1. UNCHANGED <<profiles, saving, updates>>
  BY DEF StartCall, LoadTable, Decide1, PassGate, Pause, SimulateExecution, EndCall,
         ApproveRemoteEgress, onlyCall
<1>2. ProfilesInv'
  BY <1>1 DEF RoutesInv, ProfilesInv, routesTyped
<1>3. approvals' \subseteq manifests'
  BY DEF RoutesInv, LedgerInv, StartCall, LoadTable, Decide1, PassGate, Pause,
         SimulateExecution, EndCall, ApproveRemoteEgress, onlyCall
<1> QED
  BY <1>1, <1>2, <1>3 DEF RoutesInv, LedgerInv

(* A row that is written is one that was checked.                          *)
LEMMA UpsertKeepsProfiles ==
  ASSUME ProfilesInv, NEW kind \in KindSet, NEW id, NEW to,
         kind = "route" => routeContent(to), upsert(kind, id, to)
  PROVE  DOMAIN profiles' = KindSet /\ routesTyped(profiles)'
<1> DEFINE row == [content |-> to, version |-> profiles[kind][id].version + 1]
<1>1. profiles' = [profiles EXCEPT ![kind] = [profiles[kind] EXCEPT ![id] = row]]
  BY DEF upsert
<1>2. row.content = to
  OBVIOUS
<1> HIDE DEF row
<1>3. DOMAIN profiles' = KindSet
  BY <1>1 DEF ProfilesInv
<1>4. routesTyped(profiles)'
  <2>1. CASE kind = "route"
    <3>1. profiles'["route"] = [profiles["route"] EXCEPT ![id] = row]
      BY <1>1, <2>1 DEF ProfilesInv
    <3>2. DOMAIN profiles'["route"] = DOMAIN profiles["route"]
      BY <3>1
    <3>3. ASSUME NEW r \in DOMAIN profiles["route"]
          PROVE  routeContent(profiles'["route"][r].content)
      <4>1. CASE r = id
        BY <1>2, <2>1, <3>1, <4>1
      <4>2. CASE r # id
        BY <3>1, <4>2, <2>1 DEF ProfilesInv, routesTyped, routeContent
      <4> QED
        BY <4>1, <4>2
    <3> QED
      BY <3>2, <3>3 DEF routesTyped, routeContent
  <2>2. CASE kind # "route"
    <3>1. "route" \in KindSet => profiles'["route"] = profiles["route"]
      BY <1>1, <2>2 DEF ProfilesInv
    <3> QED
      BY <1>3, <3>1 DEF routesTyped, ProfilesInv
  <2> QED
    BY <2>1, <2>2
<1> QED
  BY <1>3, <1>4

LEMMA OperatorStep ==
  ASSUME RoutesInv, NEW o \in Operators,
         UpdateProfile(o) \/ UpsertProfile(o) \/ ProbeModel(o) \/ RecordCapabilityProbe(o)
  PROVE  RoutesInv'
<1>1. UNCHANGED <<manifests, approvals, call>>
  BY DEF UpdateProfile, UpsertProfile, ProbeModel, RecordCapabilityProbe, onlySaving
<1>2. CallInv'
  BY <1>1 DEF RoutesInv, CallInv, decided
<1>3. CASE UpdateProfile(o)
  <2>1. PICK kind \in KindSet, id \in UNION {DOMAIN profiles[k] : k \in KindSet} :
          \E to \in Changes[kind] :
            /\ saving' = [saving EXCEPT ![o] = [kind |-> kind, id |-> id, to |-> to]]
            /\ updates < MaxUpdates /\ updates' = updates + 1 /\ UNCHANGED profiles
    BY <1>3 DEF UpdateProfile
  <2>2. PICK to \in Changes[kind] :
          saving' = [saving EXCEPT ![o] = [kind |-> kind, id |-> id, to |-> to]]
    BY <2>1
  <2>3. kind = "route" => routeContent(to)
    BY RoutesAssumption, RouteContents
  <2>4. ProfilesInv'
    BY <2>1, <2>2, <2>3 DEF RoutesInv, ProfilesInv, routesTyped
  <2>5. LedgerInv'
    BY <1>1, <2>1, RoutesAssumption DEF RoutesInv, LedgerInv
  <2> QED
    BY <1>2, <2>4, <2>5 DEF RoutesInv
<1>4. CASE UpsertProfile(o)
  <2>1. /\ saving' = [saving EXCEPT ![o] = Nobody] /\ UNCHANGED updates
        /\ saving[o].kind \in KindSet
        /\ upsert(saving[o].kind, saving[o].id, saving[o].to) \/ UNCHANGED profiles
    BY <1>4 DEF UpsertProfile
  <2>2. DOMAIN profiles' = KindSet /\ routesTyped(profiles)'
    <3>1. CASE upsert(saving[o].kind, saving[o].id, saving[o].to)
      BY <2>1, <3>1, UpsertKeepsProfiles DEF RoutesInv, ProfilesInv
    <3>2. CASE UNCHANGED profiles
      BY <3>2 DEF RoutesInv, ProfilesInv, routesTyped
    <3> QED
      BY <2>1, <3>1, <3>2
  <2>3. ProfilesInv'
    BY <2>1, <2>2 DEF RoutesInv, ProfilesInv, Nobody
  <2> QED
    BY <1>1, <1>2, <2>1, <2>3 DEF RoutesInv, LedgerInv
<1>5. CASE ProbeModel(o)
  <2>1. /\ updates < MaxUpdates /\ updates' = updates + 1 /\ UNCHANGED profiles
        /\ \E probe : /\ probe.kind = "probe"
                      /\ saving' = [saving EXCEPT ![o] = probe]
    BY <1>5 DEF ProbeModel
  <2>2. ProfilesInv'
    BY <2>1 DEF RoutesInv, ProfilesInv, routesTyped
  <2>3. LedgerInv'
    BY <1>1, <2>1, RoutesAssumption DEF RoutesInv, LedgerInv
  <2> QED
    BY <1>2, <2>2, <2>3 DEF RoutesInv
<1>6. CASE RecordCapabilityProbe(o)
  <2>1. saving' = [saving EXCEPT ![o] = Nobody] /\ UNCHANGED <<profiles, updates>>
    BY <1>6 DEF RecordCapabilityProbe
  <2>2. ProfilesInv'
    BY <2>1 DEF RoutesInv, ProfilesInv, routesTyped, Nobody
  <2> QED
    BY <1>1, <1>2, <2>1, <2>2 DEF RoutesInv, LedgerInv
<1> QED
  BY <1>3, <1>4, <1>5, <1>6

LEMMA RoutesInvariant == RoutesSpec => []RoutesInv
<1>1. RoutesInit => RoutesInv
  <2> SUFFICES ASSUME RoutesInit PROVE RoutesInv
    OBVIOUS
  <2>1. profiles \in Start
    BY DEF RoutesInit
  <2>2. \A r \in DOMAIN profiles["route"] : routeContent(profiles["route"][r].content)
    BY <2>1, RoutesAssumption, RouteContents DEF KindSet
  <2>3. ProfilesInv
    BY <2>1, <2>2, RoutesAssumption
       DEF RoutesInit, ProfilesInv, routesTyped, routeContent, Nobody
  <2>4. CallInv
    BY DEF RoutesInit, NoCall, CallInv, Call, CallSteps, routesTyped, decided
  <2>5. LedgerInv
    BY RoutesAssumption DEF RoutesInit, LedgerInv
  <2> QED
    BY <2>3, <2>4, <2>5 DEF RoutesInv
<1>2. RoutesInv /\ [RoutesNext]_routesVars => RoutesInv'
  <2> SUFFICES ASSUME RoutesInv, [RoutesNext]_routesVars PROVE RoutesInv'
    OBVIOUS
  <2>1. ASSUME UNCHANGED <<profiles, call, saving>>, LedgerInv' PROVE RoutesInv'
    BY <2>1 DEF RoutesInv, ProfilesInv, CallInv, decided
  <2>2. CASE Preview
    <3>1. LedgerInv'
      BY <2>2, RoutesAssumption DEF Preview, RoutesInv, LedgerInv
    <3> QED
      BY <2>1, <2>2, <3>1 DEF Preview
  <2>3. CASE UNCHANGED routesVars
    BY <2>1, <2>3 DEF routesVars, RoutesInv, LedgerInv
  <2>4. CASE \/ StartCall \/ LoadTable \/ Decide1 \/ PassGate \/ Pause \/ SimulateExecution
             \/ EndCall \/ ApproveRemoteEgress
    BY <2>4, CallStep, CallKeepsProfiles DEF RoutesInv
  <2> QED
    BY <2>2, <2>3, <2>4, OperatorStep DEF RoutesNext
<1> QED
  BY <1>1, <1>2, PTL DEF RoutesSpec

(* A route that keeps trust never falls back to a provider trusted less than *)
(* one that could have taken the data, for any profiles, any route orders    *)
(* and any edits between the tables that are read.                         *)
THEOREM TrustForAll == RoutesSpec => []TrustFloorKept
<1>1. RoutesInv => TrustFloorKept
  <2> DEFINE seen == call.seen
             route == content(seen, "route", call.manifest.route)
             m == call.manifest.model
  <2> SUFFICES ASSUME RoutesInv, decided, route.keeps, NEW i \in 1..at(route, m),
                      usable(seen, route.models[i]),
                      \A j \in 1..i - 1 : ~usable(seen, route.models[j])
               PROVE  owner(seen, route.models[i]).trust <= owner(seen, m).trust
    BY DEF TrustFloorKept
  <2>1. "route" \in DOMAIN seen /\ granted(seen, call.manifest) /\ routesTyped(seen)
    BY DEF RoutesInv, CallInv
  <2>2. route.models \in Seq(STRING) /\ m \in modelsOf(route)
    BY <2>1 DEF granted, routesTyped, content
  <2>3. owner(seen, m).trust >= trustFloor(seen, route)
    BY <2>1 DEF granted
  <2> HIDE DEF route, m, seen
  <2>4. at(route, m) \in DOMAIN route.models
    BY <2>2, PlaceIsFirst
  <2>5. i \in DOMAIN route.models
    BY <2>2, <2>4
  <2>6. trustFloor(seen, route) = owner(seen, route.models[i]).trust
    BY <2>2, <2>5, FloorIsOfFirstUsable
  <2> QED
    BY <2>3, <2>6
<1> QED
  BY <1>1, RoutesInvariant, PTL

(* The decisions and profiles of a route keep their types.                  *)
THEOREM RoutesTypesForAll == RoutesSpec => []RoutesTypeOK
<1>1. RoutesInv => RoutesTypeOK
  BY DEF RoutesInv, CallInv, ProfilesInv, LedgerInv, CallSteps, RoutesTypeOK
<1> QED
  BY <1>1, RoutesInvariant, PTL

-----------------------------------------------------------------------------
(* The local models *)

Phases == Loading \union Asking \union Waiting \union {"approved", "failed"}

Patient ==
  [phase : Phases, resume : Asking \union {"queued"}, unloaded : BOOLEAN, attempt : Nat, cycle : Nat,
   wrote : Models \union {NoModel}, reviewed : Models \union {NoModel}]

BenchmarkRecord ==
  {NoBenchmark} \union [step : {"loaded"}, profile : Models]
    \union [step : {"smoked"}, profile : Models, smoked : Models]

(* What the supervisor believes is what it started last, a server that      *)
(* lives is one it knows of, and timings are of the profile they are kept   *)
(* with.                                                                    *)
SupervisorInv ==
  /\ ModelsTypeOK
  /\ benchmark \in [Administrators -> BenchmarkRecord]
  /\ patient \in [Patients -> Patient]
  /\ server.model = supervised
  /\ server.up => supervised # NoModel
  /\ measurement.timed \in {measurement.profile, NoModel}
  /\ TimingsAreOwn

(* What loads and unloads is consistent in the end, also when it fails.     *)
modelsFit ==
  /\ supervised \in Models \union {NoModel}
  /\ server \in [model : Models \union {NoModel}, up : BOOLEAN]
  /\ measurement \in [profile : Models \union {NoModel}, timed : Models \union {NoModel}]
  /\ server.model = supervised
  /\ server.up => supervised # NoModel
  /\ measurement.timed \in {measurement.profile, NoModel}
  /\ mishaps \in 0 .. MaxMishaps

LEMMA StopFits ==
  ASSUME Stop, supervised' = NoModel, mishaps' \in 0 .. MaxMishaps
  PROVE  modelsFit'
BY DEF Stop, NoServer, Unmeasured, modelsFit

LEMMA MishapCounts ==
  ASSUME Mishap, mishaps \in 0 .. MaxMishaps
  PROVE  mishaps' \in 0 .. MaxMishaps
BY CatalogAssumption DEF Mishap

LEMMA UnloadFits ==
  ASSUME modelsFit, Unload, UNCHANGED mishaps
  PROVE  modelsFit'
<1>1. CASE supervised = NoModel
  BY <1>1 DEF Unload, modelsFit
<1>2. CASE supervised # NoModel
  BY <1>2, StopFits DEF Unload, modelsFit
<1> QED
  BY <1>1, <1>2

LEMMA LoadFits ==
  ASSUME modelsFit, NEW m \in Models, NEW answered \in BOOLEAN, Load(m, answered)
  PROVE  modelsFit' /\ (answered => supervised' = m)
<1>1. CASE supervised = m /\ answered /\ UNCHANGED <<supervised, server, measurement, mishaps>>
  BY <1>1 DEF modelsFit
<1>2. CASE ~answered /\ Stop /\ supervised' = remembered /\ (Mishap \/ UNCHANGED mishaps)
  <2>1. mishaps' \in 0 .. MaxMishaps
    BY <1>2, MishapCounts DEF modelsFit
  <2> QED
    BY <1>2, <2>1, StopFits DEF remembered
<1>3. CASE answered /\ StartServer(m) /\ supervised' = m /\ UNCHANGED mishaps
  <2>1. m # NoModel
    BY CatalogAssumption
  <2> QED
    BY <1>3, <2>1 DEF StartServer, modelsFit
<1> QED
  BY <1>1, <1>2, <1>3 DEF Load

(* A phase that is entered has the job as it was.                           *)
LEMMA EnterFits ==
  ASSUME NEW j \in Patients, patient \in [Patients -> Patient], NEW phase \in Phases
  PROVE  Enter(j, phase) \in Patient /\ Enter(j, phase).phase = phase
BY DEF Enter, Patient

LEMMA PatientsFit ==
  ASSUME patient \in [Patients -> Patient], NEW j \in Patients, NEW p \in Patient,
         patient' = [patient EXCEPT ![j] = p]
  PROVE  patient' \in [Patients -> Patient] /\ patient'[j] = p
         /\ \A i \in Patients \ {j} : patient'[i] = patient[i]
OBVIOUS

(* Nobody but loadRole takes a job from a loading phase to a model.         *)
LoadsFor(j) ==
  /\ patient[j].phase \in Loading
  /\ supervised' = roleFor(patient[j].phase)

patientsGoOn ==
  /\ patient' \in [Patients -> Patient]
  /\ \A j \in Patients : patient[j].phase \in Loading /\ patient'[j].phase \in Asking => LoadsFor(j)

LEMMA Apart ==
  /\ Loading \union Asking \union Waiting \union {"approved", "failed"} = Phases
  /\ Loading \intersect Asking = {} /\ Waiting \intersect (Loading \union Asking) = {}
  /\ \A phase \in Loading : after(phase) \in Asking /\ roleFor(phase) \in Models
BY CatalogAssumption DEF Phases, Loading, Asking, Waiting, after, roleFor

LEMMA PhasesGoOn ==
  ASSUME patient \in [Patients -> Patient], NEW j \in Patients, NEW p \in Patient,
         patient' = [patient EXCEPT ![j] = p],
         patient[j].phase \in Loading /\ p.phase \in Asking => LoadsFor(j)
  PROVE  patientsGoOn
BY Apart, PatientsFit DEF patientsGoOn

jobStep(j) ==
  \/ StartJob(j) \/ UnloadForRole(j) \/ loadRole(j)
  \/ CompleteFails(j) \/ completeValidated(j) \/ RunImplementation(j) \/ RunQC(j)
  \/ PauseForEgress(j) \/ ResumeFromEgress(j)

LEMMA JobsGoOn ==
  ASSUME patient \in [Patients -> Patient], modelsFit, NEW j \in Patients, jobStep(j)
  PROVE  patientsGoOn
<1> DEFINE q == patient[j]
<1>1. /\ q \in Patient /\ q.phase \in Phases /\ q.resume \in Asking \union {"queued"}
      /\ q.attempt \in Nat /\ q.cycle \in Nat /\ server.model \in Models \union {NoModel}
  BY DEF Patient, modelsFit
<1>2. /\ "loading_implementation_model" \in Phases /\ "loading_qc_model" \in Phases
      /\ "failed" \in Phases /\ "approved" \in Phases /\ "awaiting_repair" \in Phases
      /\ "awaiting_remote_egress_approval" \in Phases
      /\ {"loading_implementation_model", "loading_qc_model", "failed", "approved", "awaiting_repair",
          "awaiting_remote_egress_approval"} \intersect Asking = {}
      /\ Asking \union {"queued"} \subseteq Phases
      /\ "awaiting_remote_egress_approval" \notin Loading
  BY DEF Phases, Loading, Asking, Waiting
<1>3. CASE StartJob(j)
  BY <1>2, <1>3, EnterFits, PhasesGoOn DEF StartJob
<1>4. CASE UnloadForRole(j)
  <2> DEFINE p == [q EXCEPT !.unloaded = TRUE]
  <2>1. patient' = [patient EXCEPT ![j] = p]
    BY <1>4 DEF UnloadForRole
  <2>2. p \in Patient /\ p.phase = q.phase
    BY <1>1 DEF Patient
  <2>3. q.phase \notin Asking
    BY <1>4, Apart DEF UnloadForRole
  <2> HIDE DEF p
  <2> QED
    BY <2>1, <2>2, <2>3, PhasesGoOn
<1>5. CASE loadRole(j)
  <2>1. PICK answered \in BOOLEAN :
          /\ Load(roleFor(q.phase), answered)
          /\ patient' = [patient EXCEPT ![j] = Enter(j, IF answered THEN after(q.phase) ELSE "failed")]
    BY <1>5 DEF loadRole, answers
  <2> DEFINE to == IF answered THEN after(q.phase) ELSE "failed"
  <2>2. q.phase \in Loading /\ to \in Phases
    BY <1>2, <1>5, Apart DEF loadRole
  <2>3. ASSUME to \in Asking PROVE LoadsFor(j)
    <3>1. answered
      BY <1>2, <2>3
    <3> QED
      BY <2>1, <2>2, <3>1, Apart, LoadFits DEF LoadsFor
  <2>4. patient' = [patient EXCEPT ![j] = Enter(j, to)]
    BY <2>1
  <2> HIDE DEF to
  <2> QED
    BY <2>2, <2>3, <2>4, EnterFits, PhasesGoOn
<1>6. CASE CompleteFails(j)
  BY <1>2, <1>6, EnterFits, PhasesGoOn DEF CompleteFails
<1>7. CASE completeValidated(j)
  <2> DEFINE p == [q EXCEPT !.attempt = @ + 1]
  <2>1. patient' = [patient EXCEPT ![j] = p]
    BY <1>7 DEF completeValidated
  <2>2. p \in Patient
    BY <1>1 DEF Patient
  <2>3. q.phase \notin Loading
    BY <1>7, Apart DEF completeValidated, Complete
  <2> HIDE DEF p
  <2> QED
    BY <2>1, <2>2, <2>3, PhasesGoOn
<1>8. CASE RunImplementation(j)
  <2> DEFINE entered == Enter(j, "loading_qc_model")
             p == [entered EXCEPT !.wrote = server.model, !.reviewed = NoModel]
  <2>1. patient' = [patient EXCEPT ![j] = p]
    BY <1>8 DEF RunImplementation
  <2>2. entered \in Patient
    BY <1>2, EnterFits
  <2> HIDE DEF entered
  <2>3. p \in Patient
    BY <1>1, <2>2 DEF Patient
  <2>4. q.phase \notin Loading
    BY <1>8, Apart DEF RunImplementation, Complete
  <2> HIDE DEF p
  <2> QED
    BY <2>1, <2>3, <2>4, PhasesGoOn
<1>9. CASE RunQC(j)
  <2>1. PICK next \in {"approved", "awaiting_repair"} :
          patient' = [patient EXCEPT ![j] =
            [Enter(j, next) EXCEPT !.reviewed = server.model, !.cycle = IF next = "approved" THEN @ ELSE @ + 1]]
    BY <1>9 DEF RunQC
  <2> DEFINE entered == Enter(j, next)
             cycle == IF next = "approved" THEN entered.cycle ELSE entered.cycle + 1
             p == [entered EXCEPT !.reviewed = server.model, !.cycle = cycle]
  <2>2. entered \in Patient /\ patient' = [patient EXCEPT ![j] = p]
    BY <1>2, <2>1, EnterFits
  <2> HIDE DEF entered
  <2>5. cycle \in Nat
    BY <2>2 DEF Patient
  <2> HIDE DEF cycle
  <2>3. p \in Patient
    BY <1>1, <2>2, <2>5 DEF Patient
  <2>4. q.phase \notin Loading
    BY <1>9, Apart DEF RunQC, Complete
  <2> HIDE DEF p
  <2> QED
    BY <2>2, <2>3, <2>4, PhasesGoOn
<1>10. CASE PauseForEgress(j)
  <2> DEFINE entered == Enter(j, "awaiting_remote_egress_approval")
             p == [entered EXCEPT !.resume = q.phase]
  <2>1. patient' = [patient EXCEPT ![j] = p] /\ q.phase \in Asking
    BY <1>10 DEF PauseForEgress
  <2>2. entered \in Patient
    BY <1>2, EnterFits
  <2> HIDE DEF entered
  <2>3. p \in Patient
    BY <2>1, <2>2 DEF Patient
  <2> HIDE DEF p
  <2> QED
    BY <2>1, <2>3, Apart, PhasesGoOn
<1>11. CASE ResumeFromEgress(j)
  <2>1. q.phase \notin Loading /\ Enter(j, q.resume) \in Patient
    BY <1>1, <1>2, <1>11, EnterFits DEF ResumeFromEgress
  <2> QED
    BY <1>11, <2>1, PhasesGoOn DEF ResumeFromEgress
<1> QED
  BY <1>3, <1>4, <1>5, <1>6, <1>7, <1>8, <1>9, <1>10, <1>11 DEF jobStep

LEMMA JobsKeepModels ==
  ASSUME modelsFit, NEW j \in Patients, jobStep(j), patient \in [Patients -> Patient]
  PROVE  modelsFit' /\ UNCHANGED <<files, benchmark, evidence>>
<1>1. CASE UnloadForRole(j)
  BY <1>1, UnloadFits DEF UnloadForRole
<1>2. CASE loadRole(j)
  <2>1. PICK answered \in BOOLEAN : Load(roleFor(patient[j].phase), answered)
    BY <1>2 DEF loadRole, answers
  <2> QED
    BY <1>2, <2>1, LoadFits, Apart DEF loadRole
<1>3. CASE UNCHANGED <<files, supervised, server, measurement, benchmark, evidence, mishaps>>
  BY <1>3 DEF modelsFit
<1> QED
  BY <1>1, <1>2, <1>3 DEF jobStep, StartJob, CompleteFails, completeValidated, RunImplementation,
     RunQC, Complete, PauseForEgress, ResumeFromEgress

(* What administrators, files and failures do leaves the jobs alone.        *)
LEMMA InstallingKeeps ==
  ASSUME SupervisorInv, NEW m \in Models, installVerifiedReader(m) \/ FileAltered(m)
  PROVE  SupervisorInv' /\ UNCHANGED patient
<1>1. files' \in [Models -> {"absent", "installed", "altered"}]
  BY DEF SupervisorInv, ModelsTypeOK, installVerifiedReader, FileAltered
<1>2. mishaps' \in 0 .. MaxMishaps
  BY MishapCounts DEF SupervisorInv, ModelsTypeOK, installVerifiedReader, FileAltered
<1>3. UNCHANGED <<supervised, server, measurement, benchmark, evidence, patient>>
  BY DEF installVerifiedReader, FileAltered
<1> QED
  BY <1>1, <1>2, <1>3 DEF SupervisorInv, ModelsTypeOK, TimingsAreOwn

LEMMA FitIsEnough ==
  ASSUME SupervisorInv, modelsFit', UNCHANGED <<files, evidence, patient>>,
         benchmark' \in [Administrators -> BenchmarkRecord]
  PROVE  SupervisorInv'
<1>1. \A a \in Administrators : benchmark'[a].step \in {"idle", "loaded", "smoked"}
  BY DEF BenchmarkRecord, NoBenchmark
<1> QED
  BY <1>1 DEF SupervisorInv, ModelsTypeOK, TimingsAreOwn, modelsFit

LEMMA ServersKeep ==
  ASSUME SupervisorInv, modelsFit,
         \/ ServerCrash \/ SupervisorRestart \/ unloadModel
         \/ \E m \in Models : loadModel(m)
  PROVE  SupervisorInv' /\ UNCHANGED patient
<1>1. UNCHANGED <<files, evidence, patient, benchmark>>
  BY DEF ServerCrash, SupervisorRestart, unloadModel, loadModel
<1>2. modelsFit'
  <2>1. CASE ServerCrash
    BY <2>1, MishapCounts DEF ServerCrash, modelsFit
  <2>2. CASE SupervisorRestart
    BY <2>2, MishapCounts, StopFits DEF SupervisorRestart, modelsFit
  <2>3. CASE unloadModel
    BY <2>3, UnloadFits DEF unloadModel
  <2>4. CASE \E m \in Models : loadModel(m)
    BY <2>4, LoadFits DEF loadModel, answers
  <2> QED
    BY <2>1, <2>2, <2>3, <2>4
<1> QED
  BY <1>1, <1>2, FitIsEnough DEF SupervisorInv

LEMMA BenchmarksKeep ==
  ASSUME SupervisorInv, modelsFit, NEW a \in Administrators,
         Smoke(a) \/ RecordRuntimeBenchmark(a) \/ \E m \in Models : benchmarkModel(a, m)
  PROVE  SupervisorInv' /\ UNCHANGED patient
<1>1. benchmark \in [Administrators -> BenchmarkRecord] /\ benchmark[a] \in BenchmarkRecord
      /\ NoBenchmark \in BenchmarkRecord
  BY DEF SupervisorInv, BenchmarkRecord
<1>2. ASSUME NEW m \in Models, benchmarkModel(a, m) PROVE SupervisorInv' /\ UNCHANGED patient
  <2>1. PICK answered \in BOOLEAN :
          /\ Load(m, answered)
          /\ benchmark' = IF answered THEN [benchmark EXCEPT ![a] = [step |-> "loaded", profile |-> m]] ELSE benchmark
    BY <1>2 DEF benchmarkModel, answers
  <2>2. [step |-> "loaded", profile |-> m] \in BenchmarkRecord
    BY DEF BenchmarkRecord
  <2>3. benchmark' \in [Administrators -> BenchmarkRecord]
    BY <1>1, <2>1, <2>2
  <2> QED
    BY <1>2, <2>1, <2>3, LoadFits, FitIsEnough DEF benchmarkModel
<1>3. CASE Smoke(a) /\ server.up
  <2> DEFINE smoked == [step |-> "smoked", profile |-> benchmark[a].profile, smoked |-> supervised]
  <2>1. supervised \in Models
    BY <1>3 DEF modelsFit, SupervisorInv
  <2>2. benchmark[a].profile \in Models
    BY <1>1, <1>3 DEF Smoke, BenchmarkRecord, NoBenchmark
  <2>3. smoked \in BenchmarkRecord
    BY <2>1, <2>2 DEF BenchmarkRecord
  <2>4. benchmark' = [benchmark EXCEPT ![a] = smoked]
    BY <1>3 DEF Smoke
  <2> HIDE DEF smoked
  <2>5. benchmark' \in [Administrators -> BenchmarkRecord]
    BY <1>1, <2>3, <2>4
  <2>6. modelsFit'
    BY <1>3, <2>1 DEF Smoke, modelsFit
  <2> QED
    BY <1>3, <2>5, <2>6, FitIsEnough DEF Smoke
<1>4. CASE Smoke(a) /\ ~server.up
  BY <1>1, <1>4, FitIsEnough DEF Smoke, modelsFit
<1>5. CASE RecordRuntimeBenchmark(a)
  <2> DEFINE e == FromSmoke(benchmark[a], Status)
  <2>1. benchmark[a].profile \in Models /\ benchmark[a].smoked \in Models
    BY <1>1, <1>5 DEF RecordRuntimeBenchmark, BenchmarkRecord, NoBenchmark
  <2>2. e.timed \in {e.profile, NoModel} /\ e \in [profile : Models, smoked : Models, timed : Models \union {NoModel}]
    <3>1. Status.timed \in {Status.profile, NoModel}
      BY DEF Status, Unmeasured, modelsFit
    <3>2. timings(benchmark[a].profile, Status) \in {benchmark[a].profile, NoModel}
      BY <3>1 DEF timings
    <3> QED
      BY <2>1, <3>2 DEF FromSmoke
  <2>3. evidence' = evidence \union {e} /\ benchmark' = [benchmark EXCEPT ![a] = NoBenchmark]
        /\ UNCHANGED <<files, supervised, server, measurement, patient, mishaps>>
    BY <1>5 DEF RecordRuntimeBenchmark
  <2> HIDE DEF e
  <2>4. benchmark' \in [Administrators -> BenchmarkRecord]
    BY <1>1, <2>3
  <2>5. \A b \in Administrators : benchmark'[b].step \in {"idle", "loaded", "smoked"}
    BY <2>4 DEF BenchmarkRecord, NoBenchmark
  <2> QED
    BY <2>2, <2>3, <2>4, <2>5 DEF SupervisorInv, ModelsTypeOK, TimingsAreOwn
<1> QED
  BY <1>2, <1>3, <1>4, <1>5

LEMMA JobsKeep ==
  ASSUME SupervisorInv, modelsFit, NEW j \in Patients, jobStep(j)
  PROVE  SupervisorInv' /\ patientsGoOn
<1>1. patientsGoOn
  BY JobsGoOn DEF SupervisorInv
<1>2. modelsFit' /\ UNCHANGED <<files, benchmark, evidence>>
  BY JobsKeepModels DEF SupervisorInv
<1>3. \A i \in Patients : patient'[i].phase \in Loading \union Asking \union Waiting \union {"approved", "failed"}
  BY <1>1 DEF patientsGoOn, Patient, Phases
<1> QED
  BY <1>1, <1>2, <1>3 DEF SupervisorInv, ModelsTypeOK, TimingsAreOwn, modelsFit, patientsGoOn

LEMMA SupervisorSteps ==
  ASSUME SupervisorInv, [ModelsNext]_modelsVars
  PROVE  /\ SupervisorInv'
         /\ \A j \in Patients : patient[j].phase \in Loading /\ patient'[j].phase \in Asking => LoadsFor(j)
<1> USE DEF SupervisorInv
<1>1. modelsFit
  BY DEF modelsFit, ModelsTypeOK
<1>2. ASSUME UNCHANGED patient
      PROVE  \A j \in Patients : ~(patient[j].phase \in Loading /\ patient'[j].phase \in Asking)
  BY <1>2, Apart
<1>3. CASE \E m \in Models : installVerifiedReader(m) \/ FileAltered(m)
  BY <1>2, <1>3, InstallingKeeps
<1>4. CASE ServerCrash \/ SupervisorRestart \/ unloadModel \/ \E m \in Models : loadModel(m)
  BY <1>1, <1>2, <1>4, ServersKeep
<1>5. CASE \E a \in Administrators :
             Smoke(a) \/ RecordRuntimeBenchmark(a) \/ \E m \in Models : benchmarkModel(a, m)
  BY <1>1, <1>2, <1>5, BenchmarksKeep
<1>6. CASE \E j \in Patients : jobStep(j)
  BY <1>1, <1>6, JobsKeep DEF patientsGoOn
<1>7. CASE UNCHANGED modelsVars
  BY <1>2, <1>7 DEF modelsVars, ModelsTypeOK, TimingsAreOwn
<1> QED
  BY <1>3, <1>4, <1>5, <1>6, <1>7 DEF ModelsNext, jobStep

LEMMA SupervisorStarts == ModelsInit => SupervisorInv
<1> SUFFICES ASSUME ModelsInit PROVE SupervisorInv
  OBVIOUS
<1>1. benchmark \in [Administrators -> BenchmarkRecord]
      /\ \A a \in Administrators : benchmark[a].step \in {"idle", "loaded", "smoked"}
  BY DEF ModelsInit, BenchmarkRecord, NoBenchmark
<1>2. patient \in [Patients -> Patient]
      /\ \A j \in Patients : patient[j].phase \in Loading \union Asking \union Waiting \union {"approved", "failed"}
  BY DEF ModelsInit, Patient, Phases, Waiting
<1>3. mishaps \in 0 .. MaxMishaps
  BY CatalogAssumption DEF ModelsInit
<1> QED
  BY <1>1, <1>2, <1>3 DEF ModelsInit, SupervisorInv, ModelsTypeOK, TimingsAreOwn, NoServer, Unmeasured

(* Type correctness of the models: the files, the server, the measurement,  *)
(* the benchmarks and the phases stay what they are, whoever loads, crashes *)
(* or restarts (internal/models).                                           *)
THEOREM ModelsTypesForAll == ModelsSpec => []ModelsTypeOK
<1>1. SupervisorInv => ModelsTypeOK
  BY DEF SupervisorInv
<1>2. SupervisorInv /\ [ModelsNext]_modelsVars => SupervisorInv'
  BY SupervisorSteps
<1> QED
  BY <1>1, <1>2, SupervisorStarts, PTL DEF ModelsSpec

(* A loading phase that succeeds leaves the server with the model of its    *)
(* role, and evidence keeps only timings of the profile it is about, for    *)
(* any number of models, administrators and jobs: the second follows from   *)
(* what LlamaRuntime measures being of the profile it names, the first from *)
(* the supervisor believing what it started last (Supervisor.Load).         *)
THEOREM LoadedForAll == ModelsSpec => LoadedIsServed
<1>1. ASSUME SupervisorInv, [ModelsNext]_modelsVars
      PROVE  /\ TimingsAreOwn'
             /\ \A j \in Patients :
                  patient[j].phase \in Loading /\ patient'[j].phase \in Asking =>
                    server'.model = (IF patient[j].phase = "loading_qc_model" THEN "qc" ELSE "implementation")
  <2>1. /\ TimingsAreOwn' /\ server'.model = supervised'
        /\ \A j \in Patients : patient[j].phase \in Loading /\ patient'[j].phase \in Asking => LoadsFor(j)
    BY <1>1, SupervisorSteps DEF SupervisorInv
  <2> QED
    BY <2>1 DEF LoadsFor, roleFor
<1>2. SupervisorInv /\ [ModelsNext]_modelsVars => SupervisorInv'
  BY SupervisorSteps
<1> QED
  BY <1>1, <1>2, SupervisorStarts, PTL DEF ModelsSpec, LoadedIsServed

-----------------------------------------------------------------------------
(* The choice of a job *)

(* Of some subsets of a finite set there is one that has none of them       *)
(* inside: what holds of a set when it holds of its parts holds of all.     *)
LEMMA InnermostExists ==
  ASSUME NEW S, IsFiniteSet(S), NEW C, C \subseteq SUBSET S, C # {}
  PROVE  \E s \in C : \A t \in SUBSET s : t # s => t \notin C
<1> DEFINE sizes == {Cardinality(s) : s \in C}
<1>1. \A s \in SUBSET S : IsFiniteSet(s) /\ Cardinality(s) \in Nat
  BY FS_Subset, FS_CardinalityType
<1>2. sizes \subseteq Nat /\ sizes # {}
  BY <1>1
<1>3. PICK m \in sizes : \A k \in sizes : m <= k
  BY <1>2, LeastExists
<1>4. PICK s \in C : m = Cardinality(s)
  BY <1>3
<1>5. ASSUME NEW t \in SUBSET s, t # s, t \in C PROVE FALSE
  <2>1. Cardinality(t) <= Cardinality(s) /\ (Cardinality(s) = Cardinality(t) => s = t)
    BY <1>1, FS_Subset
  <2>2. Cardinality(s) <= Cardinality(t)
    BY <1>3, <1>4, <1>5
  <2> QED
    BY <1>1, <1>5, <2>1, <2>2
<1> QED
  BY <1>4, <1>5

(* What waits, as Simulate compares it.                                     *)
Item == [job : Nat, project : Projects, profile : Profiles, priority : Nat, created : Nat, left : Int]

(* The order of urgency never goes in a circle.                             *)
LEMMA UrgencyOrders ==
  /\ \A a \in Item : ~lessUrgency(a, a)
  /\ \A a, b \in Item : lessUrgency(a, b) => ~lessUrgency(b, a)
  /\ \A a, b, c \in Item : ~lessUrgency(b, a) /\ ~lessUrgency(c, b) => ~lessUrgency(c, a)
<1>1. \A a \in Item : deadlineScore(a.left) \in 0..4 /\ a.priority \in Nat /\ a.created \in Nat
  BY ThresholdAssumption DEF Item, deadlineScore
<1> QED
  BY <1>1 DEF lessUrgency

(* The greatest of some bounded numbers.                                    *)
LEMMA MaxIsGreatest ==
  ASSUME NEW n \in Nat, NEW S, S \subseteq 0..n, S # {}
  PROVE  Max(S) \in S /\ \A k \in S : k <= Max(S)
<1> DEFINE R == {n - k : k \in S}
<1>1. R \subseteq Nat /\ R # {}
  <2>1. \A k \in S : n - k \in Nat
    OBVIOUS
  <2> QED
    BY <2>1
<1>2. PICK m \in R : \A k \in R : m <= k
  BY <1>1, LeastExists
<1>3. PICK x \in S : m = n - x
  BY <1>2
<1>4. \A k \in S : n - x <= n - k
  BY <1>2, <1>3
<1>5. \A k \in S : x >= k
  BY <1>4
<1>6. Max(S) \in S /\ \A k \in S : Max(S) >= k
  BY <1>5, Zenon DEF Max
<1> QED
  BY <1>6

(* What is in a queue, and what it means to be in order.                     *)
elements(s) == {s[i] : i \in DOMAIN s}

ordered(s) == \A i, j \in DOMAIN s : i < j => ~lessUrgency(s[j], s[i])

(* An item that is inserted goes behind all that it does not go before.     *)
LEMMA InsertSplits ==
  ASSUME NEW s \in Seq(Item), NEW x \in Item, NEW mode
  PROVE  \E k \in 0..Len(s) :
           /\ insert(s, x, mode) \in Seq(Item)
           /\ Len(insert(s, x, mode)) = Len(s) + 1
           /\ \A i \in 1..Len(s) + 1 :
                insert(s, x, mode)[i] = IF i <= k THEN s[i] ELSE IF i = k + 1 THEN x ELSE s[i - 1]
           /\ k > 0 => ~less(mode, x, s[k])
           /\ \A i \in k + 1 .. Len(s) : less(mode, x, s[i])
<1> DEFINE K == {0} \union {i \in DOMAIN s : ~less(mode, x, s[i])}
           k == Max(K)
           front == SubSeq(s, 1, k)
           back == SubSeq(s, k + 1, Len(s))
<1>1. DOMAIN s = 1..Len(s) /\ Len(s) \in Nat
  OBVIOUS
<1>2. k \in K /\ \A i \in K : i <= k
  <2>1. K \subseteq 0..Len(s) /\ K # {}
    BY <1>1
  <2> HIDE DEF K
  <2> QED
    BY <1>1, <2>1, MaxIsGreatest
<1>3. k \in 0..Len(s) /\ (k > 0 => ~less(mode, x, s[k]))
  BY <1>1, <1>2
<1>4. \A i \in k + 1 .. Len(s) : less(mode, x, s[i])
  BY <1>1, <1>2, <1>3
<1> HIDE DEF k
<1>5. /\ front \in Seq(Item) /\ Len(front) = k
      /\ \A i \in 1..k : front[i] = s[i]
  BY <1>3, SubSeqProperties
<1>6. /\ back \in Seq(Item) /\ Len(back) = Len(s) - k
      /\ \A i \in 1..Len(s) - k : back[i] = s[i + k]
  <2>1. \A i \in k + 1 .. Len(s) : s[i] \in Item
    BY <1>3
  <2>2. /\ back \in Seq(Item)
        /\ Len(back) = (IF k + 1 <= Len(s) THEN Len(s) - (k + 1) + 1 ELSE 0)
        /\ \A i \in 1..Len(s) - (k + 1) + 1 : back[i] = s[(k + 1) + i - 1]
    BY <1>1, <1>3, <2>1, SubSeqProperties
  <2> HIDE DEF back
  <2>3. Len(back) = Len(s) - k
    BY <1>1, <1>3, <2>2
  <2>4. ASSUME NEW i \in 1..Len(s) - k PROVE back[i] = s[i + k]
    <3>1. i \in 1..Len(s) - (k + 1) + 1 /\ (k + 1) + i - 1 = i + k
      BY <1>1, <1>3
    <3>2. back[i] = s[(k + 1) + i - 1]
      BY <2>2, <3>1
    <3> QED
      BY <3>1, <3>2
  <2> QED
    BY <2>2, <2>3, <2>4
<1>7. insert(s, x, mode) = front \o <<x>> \o back
  BY DEF insert, k
<1>8. <<x>> \in Seq(Item) /\ Len(<<x>>) = 1 /\ <<x>>[1] = x
  OBVIOUS
<1> HIDE DEF front, back
<1>9. /\ front \o <<x>> \in Seq(Item) /\ Len(front \o <<x>>) = k + 1
       /\ \A i \in 1..k + 1 : (front \o <<x>>)[i] = IF i <= k THEN front[i] ELSE <<x>>[i - k]
  BY <1>5, <1>8, ConcatProperties
<1>10. /\ insert(s, x, mode) \in Seq(Item) /\ Len(insert(s, x, mode)) = Len(s) + 1
       /\ \A i \in 1..Len(s) + 1 :
            insert(s, x, mode)[i] = IF i <= k + 1 THEN (front \o <<x>>)[i] ELSE back[i - (k + 1)]
  <2> DEFINE both == front \o <<x>>
  <2>1. both \in Seq(Item) /\ Len(both) = k + 1
    BY <1>9
  <2> HIDE DEF both
  <2>2. /\ both \o back \in Seq(Item)
        /\ Len(both \o back) = Len(both) + Len(back)
        /\ \A i \in 1..Len(both) + Len(back) :
             (both \o back)[i] = IF i <= Len(both) THEN both[i] ELSE back[i - Len(both)]
    BY <1>6, <2>1, ConcatProperties
  <2>3. Len(both) + Len(back) = Len(s) + 1
    BY <1>1, <1>3, <1>6, <2>1
  <2>4. insert(s, x, mode) = both \o back
    BY <1>7 DEF both
  <2>5. /\ insert(s, x, mode) \in Seq(Item) /\ Len(insert(s, x, mode)) = Len(s) + 1
        /\ \A i \in 1..Len(s) + 1 :
             insert(s, x, mode)[i] = IF i <= k + 1 THEN both[i] ELSE back[i - (k + 1)]
    BY <2>1, <2>2, <2>3, <2>4, Zenon
  <2> QED
    BY <2>5 DEF both
<1>11. \A i \in 1..Len(s) + 1 :
         insert(s, x, mode)[i] = IF i <= k THEN s[i] ELSE IF i = k + 1 THEN x ELSE s[i - 1]
  <2> SUFFICES ASSUME NEW i \in 1..Len(s) + 1
               PROVE  insert(s, x, mode)[i] = IF i <= k THEN s[i] ELSE IF i = k + 1 THEN x ELSE s[i - 1]
    OBVIOUS
  <2>1. CASE i <= k
    BY <1>1, <1>3, <1>5, <1>9, <1>10, <2>1
  <2>2. CASE i = k + 1
    BY <1>1, <1>3, <1>8, <1>9, <1>10, <2>2
  <2>3. CASE i > k + 1
    <3>1. i - (k + 1) \in 1..Len(s) - k /\ (i - (k + 1)) + k = i - 1
      BY <1>1, <1>3, <2>3
    <3>2. insert(s, x, mode)[i] = back[i - (k + 1)]
      BY <1>1, <1>3, <1>10, <2>3
    <3>3. back[i - (k + 1)] = s[i - 1]
      BY <1>6, <3>1
    <3>4. ~(i <= k) /\ i # k + 1
      BY <1>1, <1>3, <2>3
    <3> QED
      BY <3>2, <3>3, <3>4
  <2> QED
    BY <1>1, <1>3, <2>1, <2>2, <2>3
<1> QED
  BY <1>3, <1>4, <1>10, <1>11

(* An insertion adds an item, and keeps a queue in the order of urgency.     *)
LEMMA InsertOrders ==
  ASSUME NEW s \in Seq(Item), NEW x \in Item, NEW mode,
         mode = "quality_latency" => ordered(s)
  PROVE  LET t == insert(s, x, mode)
         IN  /\ t \in Seq(Item) /\ elements(t) = elements(s) \union {x}
             /\ mode = "quality_latency" => ordered(t)
<1> DEFINE t == insert(s, x, mode)
<1>1. PICK k \in 0..Len(s) :
        /\ t \in Seq(Item)
        /\ Len(t) = Len(s) + 1
        /\ \A i \in 1..Len(s) + 1 : t[i] = IF i <= k THEN s[i] ELSE IF i = k + 1 THEN x ELSE s[i - 1]
        /\ k > 0 => ~less(mode, x, s[k])
        /\ \A i \in k + 1 .. Len(s) : less(mode, x, s[i])
  BY InsertSplits
<1> HIDE DEF t
<1>2. DOMAIN t = 1..Len(s) + 1 /\ DOMAIN s = 1..Len(s) /\ Len(s) \in Nat
      /\ \A i \in 1..Len(s) : s[i] \in Item
  BY <1>1
<1>3. elements(t) \subseteq elements(s) \union {x}
  <2>1. ASSUME NEW i \in 1..Len(s) + 1 PROVE t[i] = x \/ \E m \in 1..Len(s) : t[i] = s[m]
    <3>1. CASE i <= k
      BY <1>1, <1>2, <3>1
    <3>2. CASE i = k + 1
      BY <1>1, <1>2, <3>2
    <3>3. CASE i > k + 1
      <4>1. i - 1 \in 1..Len(s) /\ t[i] = s[i - 1]
        BY <1>1, <1>2, <3>3
      <4> QED
        BY <4>1
    <3> QED
      BY <1>1, <3>1, <3>2, <3>3
  <2> QED
    BY <1>2, <2>1 DEF elements
<1>4. elements(s) \union {x} \subseteq elements(t)
  <2>1. x = t[k + 1] /\ k + 1 \in 1..Len(s) + 1
    BY <1>1, <1>2
  <2>2. ASSUME NEW i \in 1..Len(s) PROVE \E m \in 1..Len(s) + 1 : s[i] = t[m]
    <3>1. CASE i <= k
      BY <1>1, <1>2, <3>1
    <3>2. CASE i > k
      <4>1. i + 1 \in 1..Len(s) + 1 /\ t[i + 1] = s[i]
        BY <1>1, <1>2, <3>2
      <4> QED
        BY <4>1
    <3> QED
      BY <1>2, <3>1, <3>2
  <2> QED
    BY <1>2, <2>1, <2>2 DEF elements
<1>5. ASSUME mode = "quality_latency", NEW i \in 1..Len(s) + 1, NEW j \in 1..Len(s) + 1, i < j
      PROVE  ~lessUrgency(t[j], t[i])
  <2>1. less(mode, x, s[k]) = lessUrgency(x, s[k]) /\ \A m \in 1..Len(s) : less(mode, x, s[m]) = lessUrgency(x, s[m])
    BY <1>5 DEF less
  <2>2. \A a, b \in 1..Len(s) : a < b => ~lessUrgency(s[b], s[a])
    BY <1>2, <1>5 DEF ordered
  <2>3. \A a \in 1..Len(s) : a <= k => ~lessUrgency(x, s[a])
    <3> SUFFICES ASSUME NEW a \in 1..Len(s), a <= k PROVE ~lessUrgency(x, s[a])
      OBVIOUS
    <3>1. ~lessUrgency(x, s[k]) /\ k \in 1..Len(s)
      BY <1>1, <1>2, <2>1
    <3>2. a = k \/ ~lessUrgency(s[k], s[a])
      BY <1>2, <2>2, <3>1
    <3> QED
      BY <1>2, <3>1, <3>2, UrgencyOrders
  <2>4. \A b \in 1..Len(s) : b > k => ~lessUrgency(s[b], x)
    <3> SUFFICES ASSUME NEW b \in 1..Len(s), b > k PROVE ~lessUrgency(s[b], x)
      OBVIOUS
    <3>1. lessUrgency(x, s[b])
      BY <1>1, <1>2, <2>1
    <3> QED
      BY <1>2, <3>1, UrgencyOrders
  <2>5. CASE j <= k
    BY <1>1, <1>2, <1>5, <2>2, <2>5
  <2>6. CASE i <= k /\ j = k + 1
    <3>1. t[i] = s[i] /\ t[j] = x /\ i \in 1..Len(s)
      BY <1>1, <1>2, <2>6
    <3> QED
      BY <2>3, <2>6, <3>1
  <2>7. CASE i <= k /\ j > k + 1
    <3>1. t[i] = s[i] /\ i \in 1..Len(s)
      BY <1>1, <1>2, <2>7
    <3>2. t[j] = s[j - 1] /\ j - 1 \in 1..Len(s) /\ i < j - 1
      BY <1>1, <1>2, <2>7
    <3> QED
      BY <2>2, <3>1, <3>2
  <2>8. CASE i = k + 1
    <3>1. t[i] = x /\ t[j] = s[j - 1] /\ j - 1 \in 1..Len(s) /\ j - 1 > k
      BY <1>1, <1>2, <1>5, <2>8
    <3> QED
      BY <2>4, <3>1
  <2>9. CASE i > k + 1
    <3>1. t[i] = s[i - 1] /\ t[j] = s[j - 1] /\ i - 1 \in 1..Len(s) /\ j - 1 \in 1..Len(s) /\ i - 1 < j - 1
      BY <1>1, <1>2, <1>5, <2>9
    <3> QED
      BY <2>2, <3>1
  <2> QED
    BY <1>1, <1>5, <2>5, <2>6, <2>7, <2>8, <2>9
<1>6. mode = "quality_latency" => ordered(t)
  BY <1>2, <1>5 DEF ordered
<1> QED
  BY <1>1, <1>3, <1>4, <1>6 DEF t

(* What a sort is: the fold inserts the items one by one, by their places.  *)
Inserting(items, mode, g, S) ==
  g = [s \in SUBSET S |-> IF s = {} THEN <<>> ELSE insert(g[s \ {Max(s)}], items[Max(s)], mode)]

(* The sort of the items at some places.                                    *)
sortOf(items, mode, S) == (CHOOSE g : Inserting(items, mode, g, S))[S]

(* sortQueue is the sort of all items.                                      *)
LEMMA SortIsFold ==
  ASSUME NEW items, NEW mode
  PROVE  sortQueue(items, mode) = sortOf(items, mode, DOMAIN items)
BY DEF sortQueue, FoldLeft, MapThenFoldSet, sortOf, Inserting

(* The last item is inserted into the sort of those before it.               *)
Inserted(items, mode, s) ==
  sortOf(items, mode, s) =
    IF s = {} THEN <<>> ELSE insert(sortOf(items, mode, s \ {Max(s)}), items[Max(s)], mode)

(* There is such a function, and only one.                                  *)
LEMMA SortsInsert ==
  ASSUME NEW items, NEW mode, NEW S, IsFiniteSet(S), \A s \in SUBSET S : s # {} => Max(s) \in s
  PROVE  Inserted(items, mode, S)
<1> SUFFICES ASSUME ~Inserted(items, mode, S) PROVE FALSE
  OBVIOUS
<1> DEFINE C == {s \in SUBSET S : ~Inserted(items, mode, s)}
<1>1. PICK s \in C : \A t \in SUBSET s : t # s => t \notin C
  <2>1. C \subseteq SUBSET S /\ S \in C
    OBVIOUS
  <2> HIDE DEF C
  <2> QED
    BY <2>1, InnermostExists
<1>2. \A t \in SUBSET s : t # s => Inserted(items, mode, t)
  BY <1>1
<1> DEFINE g == [t \in SUBSET s |->
             IF t = {} THEN <<>> ELSE insert(sortOf(items, mode, t \ {Max(t)}), items[Max(t)], mode)]
<1>3. Inserting(items, mode, g, s)
  <2>1. ASSUME NEW t \in SUBSET s, t # {}
        PROVE  g[t \ {Max(t)}] = sortOf(items, mode, t \ {Max(t)})
    <3>1. Max(t) \in t
      BY <2>1
    <3>2. t \ {Max(t)} \in SUBSET s /\ t \ {Max(t)} # s
      BY <3>1
    <3> QED
      BY <1>2, <3>2 DEF Inserted
  <2> DEFINE g2 == [t \in SUBSET s |-> IF t = {} THEN <<>> ELSE insert(g[t \ {Max(t)}], items[Max(t)], mode)]
  <2>2. \A t \in SUBSET s : g[t] = g2[t]
    BY <2>1
  <2>3. g = g2
    BY <2>2
  <2> QED
    BY <2>3 DEF Inserting
<1> DEFINE h == CHOOSE h : Inserting(items, mode, h, s)
<1>4. Inserting(items, mode, h, s)
  <2> HIDE DEF g
  <2> QED
    BY <1>3, Zenon
<1>5. h[s] = g[s]
  <2> HIDE DEF h, g
  <2> SUFFICES ASSUME h[s] # g[s] PROVE FALSE
    OBVIOUS
  <2> DEFINE D == {t \in SUBSET s : h[t] # g[t]}
  <2>1. IsFiniteSet(s)
    BY FS_Subset
  <2>2. PICK t \in D : \A u \in SUBSET t : u # t => u \notin D
    <3>1. D \subseteq SUBSET s /\ s \in D
      OBVIOUS
    <3> HIDE DEF D
    <3> QED
      BY <2>1, <3>1, InnermostExists
  <2>3. t # {} => h[t \ {Max(t)}] = g[t \ {Max(t)}]
    <3>1. t # {} => Max(t) \in t
      OBVIOUS
    <3> QED
      BY <2>2, <3>1
  <2>4. /\ h[t] = IF t = {} THEN <<>> ELSE insert(h[t \ {Max(t)}], items[Max(t)], mode)
        /\ g[t] = IF t = {} THEN <<>> ELSE insert(g[t \ {Max(t)}], items[Max(t)], mode)
    BY <1>3, <1>4 DEF Inserting
  <2> QED
    BY <2>2, <2>3, <2>4
<1>6. sortOf(items, mode, s) = g[s]
  BY <1>5 DEF sortOf
<1> QED
  BY <1>1, <1>6 DEF Inserted

(* Sorting a queue loses and adds nothing; by urgency, it orders.            *)
LEMMA SortOrders ==
  ASSUME NEW items \in Seq(Item), NEW mode
  PROVE  LET t == sortQueue(items, mode)
         IN  /\ t \in Seq(Item) /\ elements(t) = elements(items)
             /\ mode = "quality_latency" => ordered(t)
<1> DEFINE sort(s) == sortOf(items, mode, s)
           n == Len(items)
           D == 1..n
           sorts(s) == /\ sort(s) \in Seq(Item) /\ (mode = "quality_latency" => ordered(sort(s)))
                       /\ elements(sort(s)) = {items[i] : i \in s}
<1>1. n \in Nat /\ DOMAIN items = D /\ \A i \in D : items[i] \in Item
  OBVIOUS
<1>2. sorts(D)
  <2> SUFFICES ASSUME ~sorts(D) PROVE FALSE
    OBVIOUS
  <2> DEFINE C == {s \in SUBSET D : ~sorts(s)}
  <2>1. PICK s \in C : \A t \in SUBSET s : t # s => t \notin C
    <3>1. IsFiniteSet(D)
      <4> HIDE DEF n
      <4> QED
        BY <1>1, FS_Interval
    <3>2. C \subseteq SUBSET D /\ D \in C
      <4> HIDE DEF D, sorts
      <4> QED
        OBVIOUS
    <3> HIDE DEF C, D
    <3> QED
      BY <3>1, <3>2, InnermostExists, Zenon
  <2>2. s \in SUBSET D /\ ~sorts(s)
    BY <2>1
  <2>3. Inserted(items, mode, s)
    <3>1. s \subseteq 0..n
      BY <1>1, <2>2
    <3> HIDE DEF n
    <3>2. IsFiniteSet(0..n)
      BY <1>1, FS_Interval
    <3>3. IsFiniteSet(s)
      BY <3>1, <3>2, FS_Subset
    <3>4. \A t \in SUBSET s : t # {} => Max(t) \in t
      BY <1>1, <3>1, MaxIsGreatest
    <3> QED
      BY <3>3, <3>4, SortsInsert, Zenon
  <2>4. CASE s = {}
    <3>1. sort(s) = <<>>
      BY <2>3, <2>4 DEF Inserted
    <3>2. /\ <<>> \in Seq(Item) /\ ordered(<<>>) /\ elements(<<>>) = {}
      BY DEF ordered, elements
    <3>3. {items[i] : i \in s} = {}
      BY <2>4
    <3> QED
      BY <2>2, <3>1, <3>2, <3>3
  <2>5. CASE s # {}
    <3> DEFINE m == Max(s)
               r == s \ {m}
    <3>1. m \in s
      <4>1. s \subseteq 0..n
        BY <1>1, <2>2
      <4> HIDE DEF n
      <4> QED
        BY <1>1, <2>5, <4>1, MaxIsGreatest
    <3>2. sort(s) = insert(sort(r), items[m], mode)
      BY <2>3, <2>5 DEF Inserted
    <3>3. sorts(r)
      <4>1. r \in SUBSET s /\ r # s /\ r \in SUBSET D
        BY <2>2, <3>1
      <4> HIDE DEF sorts, D, r
      <4> QED
        BY <2>1, <4>1
    <3>4. items[m] \in Item
      BY <1>1, <2>2, <3>1
    <3> HIDE DEF m, r
    <3>5. /\ sort(s) \in Seq(Item) /\ (mode = "quality_latency" => ordered(sort(s)))
          /\ elements(sort(s)) = elements(sort(r)) \union {items[m]}
      <4> DEFINE q == sort(r)
                 x == items[m]
      <4>1. q \in Seq(Item) /\ (mode = "quality_latency" => ordered(q)) /\ x \in Item
        BY <3>3, <3>4
      <4>2. sort(s) = insert(q, x, mode)
        BY <3>2
      <4> HIDE DEF sort, q, x
      <4>3. /\ insert(q, x, mode) \in Seq(Item)
            /\ mode = "quality_latency" => ordered(insert(q, x, mode))
            /\ elements(insert(q, x, mode)) = elements(q) \union {x}
        BY <4>1, InsertOrders
      <4> QED
        BY <4>2, <4>3 DEF q, x
    <3>6. {items[i] : i \in r} \union {items[m]} = {items[i] : i \in s}
      BY <3>1 DEF r
    <3> QED
      BY <2>2, <3>3, <3>5, <3>6
  <2> QED
    BY <2>4, <2>5
<1>3. sortQueue(items, mode) = sort(D)
  BY <1>1, SortIsFold
<1>4. elements(items) = {items[i] : i \in D}
  BY <1>1 DEF elements
<1> HIDE DEF sort, D
<1> QED
  BY <1>2, <1>3, <1>4

(* A queue lists items, and a job is its place in it.                       *)
LEMMA QueuesAreItems ==
  ASSUME NEW q \in Queues
  PROVE  q \in Seq(Item) /\ \A i \in DOMAIN q : q[i].job = i
<1>1. PICK n \in 0..MaxQueued :
        q \in [1..n -> UNION {Items(i) : i \in 1..n}] /\ \A i \in 1..n : q[i].job = i
  BY DEF Queues
<1>2. n \in Nat
  BY <1>1, SchedulerAssumption
<1>3. ASSUME NEW i \in 1..n PROVE q[i] \in Item
  <2>1. PICK k \in 1..n : q[i] \in Items(k)
    BY <1>1
  <2>2. k \in Nat
    BY <1>2
  <2> QED
    BY <2>1, <2>2, SchedulerAssumption DEF Items, Item
<1>4. q \in [1..n -> Item]
  BY <1>1, <1>3
<1> QED
  BY <1>1, <1>2, <1>4

(* The job of a decision may run, and none that may goes before it.         *)
LEMMA SimulateSelects ==
  ASSUME NEW r, r.queued \in Seq(Item), r.mode = "quality_latency",
         \A i \in DOMAIN r.queued : r.queued[i].job = i,
         Simulate(r).status = "scheduled"
  PROVE  LET c == r.queued[Simulate(r).selected]
         IN  /\ schedulable(c, r)
             /\ \A i \in elements(r.queued) : schedulable(i, r) => ~lessUrgency(i, c)
<1> DEFINE t == sortQueue(r.queued, r.mode)
           open == {i \in DOMAIN t : schedulable(t[i], r)}
           stop == Min(open)
           d == Simulate(r)
<1>1. t \in Seq(Item) /\ ordered(t) /\ elements(t) = elements(r.queued)
  BY SortOrders
<1>2. open # {} /\ d.selected = t[stop].job
  <2>1. r.maintenance /\ ~exhausted(r.active)
    BY DEF Simulate, deferAll
  <2> HIDE DEF t
  <2> QED
    BY <2>1 DEF Simulate, t
<1> HIDE DEF t, d
<1>3. DOMAIN t = 1..Len(t) /\ Len(t) \in Nat /\ \A i \in DOMAIN t : t[i] \in Item
  BY <1>1
<1>4. stop \in open /\ \A i \in open : stop <= i
  <2>1. PICK m \in open : \A i \in open : m <= i
    <3>1. open \subseteq Nat
      BY <1>3
    <3> HIDE DEF open
    <3> QED
      BY <1>2, <3>1, LeastExists
  <2> HIDE DEF open
  <2> QED
    BY <2>1, Zenon DEF Min
<1>5. stop \in DOMAIN t /\ schedulable(t[stop], r) /\ t[stop] \in Item
  BY <1>3, <1>4
<1>6. r.queued[d.selected] = t[stop]
  <2>1. t[stop] \in elements(r.queued)
    BY <1>1, <1>5 DEF elements
  <2>2. PICK m \in DOMAIN r.queued : t[stop] = r.queued[m]
    BY <2>1 DEF elements
  <2> QED
    BY <1>2, <2>2
<1>7. ASSUME NEW x \in elements(r.queued), schedulable(x, r) PROVE ~lessUrgency(x, t[stop])
  <2>1. PICK m \in DOMAIN t : x = t[m]
    BY <1>1 DEF elements
  <2>2. m \in open /\ m \in Nat /\ stop \in Nat
    BY <1>3, <1>5, <1>7, <2>1
  <2>3. stop <= m
    BY <1>4, <2>2
  <2>4. CASE stop = m
    BY <1>5, <2>1, <2>4, UrgencyOrders
  <2>5. CASE stop < m
    BY <1>1, <1>5, <2>1, <2>5 DEF ordered
  <2> QED
    BY <2>2, <2>3, <2>4, <2>5
<1> HIDE DEF stop, open
<1> QED
  BY <1>5, <1>6, <1>7 DEF d

(* In the mode live leases use, the scheduler selects a job that may run and *)
(* that no job that may run goes before, however many wait, in whatever      *)
(* order they are listed: the insertion sort of sortQueue orders them.       *)
THEOREM SelectsForAll == SchedulerSpec => []SelectsBest
<1> DEFINE Inv == request \in Requests /\ decision \in {Undecided, Simulate(request)}
<1>1. SchedulerInit => Inv
  BY DEF SchedulerInit
<1>2. Inv /\ [SchedulerNext]_schedulerVars => Inv'
  <2> SUFFICES ASSUME Inv, [SchedulerNext]_schedulerVars PROVE Inv'
    OBVIOUS
  <2>1. UNCHANGED request /\ decision' \in {decision, Simulate(request)}
    BY DEF SchedulerNext, Decide, schedulerVars
  <2>2. Simulate(request)' = Simulate(request) /\ Undecided' = Undecided
    BY <2>1
  <2> QED
    BY <2>1, <2>2
<1>3. Inv => SelectsBest
  <2> SUFFICES ASSUME Inv, decision.status = "scheduled", request.mode = "quality_latency"
               PROVE  /\ schedulable(chosen, request)
                      /\ \A i \in waiting : schedulable(i, request) => ~lessUrgency(i, chosen)
    BY DEF SelectsBest
  <2>1. decision = Simulate(request)
    BY DEF Undecided
  <2>2. request.queued \in Queues
    BY DEF Requests
  <2>3. request.queued \in Seq(Item) /\ \A i \in DOMAIN request.queued : request.queued[i].job = i
    BY <2>2, QueuesAreItems
  <2>4. chosen = request.queued[Simulate(request).selected] /\ waiting = elements(request.queued)
    BY <2>1 DEF chosen, waiting, elements
  <2>5. Simulate(request).status = "scheduled"
    BY <2>1
  <2> QED
    BY <2>3, <2>4, <2>5, SimulateSelects
<1> QED
  BY <1>1, <1>2, <1>3, PTL DEF SchedulerSpec

Decisions ==
  [status : {"none", "scheduled", "deferred"}, selected : 0..MaxQueued,
   deferred : Seq(1..MaxQueued), fairness : BOOLEAN, safe : BOOLEAN]

(* The jobs of some items that wait are those of places of the queue.       *)
LEMMA JobsAreListed ==
  ASSUME NEW s \in Seq(Item), \A i \in DOMAIN s : s[i].job \in 1..MaxQueued
  PROVE  jobsOf(s) \in Seq(1..MaxQueued)
<1>1. DOMAIN s = 1..Len(s) /\ Len(s) \in Nat
  OBVIOUS
<1>2. jobsOf(s) \in [1..Len(s) -> 1..MaxQueued]
  BY <1>1 DEF jobsOf
<1> DEFINE f == jobsOf(s)  n == Len(s)  T == 1..MaxQueued
<1>3. n \in Nat /\ f \in [1..n -> T]
  BY <1>1, <1>2
<1> HIDE DEF f, n, T
<1>4. f \in Seq(T)
  BY <1>3
<1> QED
  BY <1>4 DEF f, T

LEMMA SimulateIsTyped ==
  ASSUME NEW r, r.queued \in Queues
  PROVE  Simulate(r) \in Decisions
<1>1. r.queued \in Seq(Item) /\ \A i \in DOMAIN r.queued : r.queued[i].job \in 1..MaxQueued
  <2>1. PICK n \in 0..MaxQueued :
          r.queued \in [1..n -> UNION {Items(i) : i \in 1..n}] /\ \A i \in 1..n : r.queued[i].job = i
    BY DEF Queues
  <2> QED
    BY <2>1, QueuesAreItems, SchedulerAssumption
<1>2. ASSUME NEW b \in BOOLEAN PROVE deferAll(r.queued, b) \in Decisions
  <2>1. jobsOf(r.queued) \in Seq(1..MaxQueued)
    BY <1>1, JobsAreListed
  <2>2. 0 \in 0..MaxQueued
    BY SchedulerAssumption
  <2> QED
    BY <2>1, <2>2 DEF deferAll, Decisions
<1>3. CASE ~r.maintenance \/ exhausted(r.active)
  BY <1>2, <1>3 DEF Simulate
<1>4. CASE r.maintenance /\ ~exhausted(r.active)
  <2> DEFINE t == sortQueue(r.queued, r.mode)
             open == {i \in DOMAIN t : schedulable(t[i], r)}
             stop == IF open = {} THEN Len(t) + 1 ELSE Min(open)
             passed == SubSeq(t, 1, stop - 1)
             waits == \E i \in DOMAIN passed : blocked(passed[i], r)
             picked == IF open = {} THEN 0 ELSE t[stop].job
             status == IF open = {} THEN "deferred" ELSE "scheduled"
  <2>1. Simulate(r) = [status |-> status, selected |-> picked, deferred |-> jobsOf(passed),
                       fairness |-> waits, safe |-> TRUE]
    BY <1>4 DEF Simulate
  <2>2. t \in Seq(Item) /\ elements(t) = elements(r.queued)
    BY <1>1, SortOrders
  <2> HIDE DEF t
  <2>3. DOMAIN t = 1..Len(t) /\ Len(t) \in Nat
    BY <2>2
  <2>4. ASSUME NEW i \in DOMAIN t PROVE t[i].job \in 1..MaxQueued
    <3>1. t[i] \in elements(r.queued)
      BY <2>2 DEF elements
    <3>2. PICK m \in DOMAIN r.queued : t[i] = r.queued[m]
      BY <3>1 DEF elements
    <3> QED
      BY <1>1, <3>2
  <2>5. stop \in 1..Len(t) + 1 /\ (open # {} => stop \in DOMAIN t)
    <3>1. CASE open # {}
      <4>1. open \subseteq Nat
        BY <2>3
      <4>2. PICK m \in open : \A i \in open : m <= i
        <5> HIDE DEF open
        <5> QED
          BY <3>1, <4>1, LeastExists
      <4>3. Min(open) \in open
        <5> HIDE DEF open
        <5> QED
          BY <4>2, Zenon DEF Min
      <4> QED
        BY <2>3, <3>1, <4>3
    <3>2. CASE open = {}
      BY <2>3, <3>2
    <3> QED
      BY <3>1, <3>2
  <2>6. picked \in 0..MaxQueued
    BY <2>4, <2>5, SchedulerAssumption
  <2>7. waits \in BOOLEAN /\ status \in {"none", "scheduled", "deferred"}
    OBVIOUS
  <2> HIDE DEF stop, open, waits, picked, status
  <2>8. passed \in Seq(Item) /\ \A i \in DOMAIN passed : passed[i].job \in 1..MaxQueued
    <3> DEFINE m == stop - 1
    <3>1. m \in 0..Len(t) /\ passed = SubSeq(t, 1, m) /\ m \in Int
      BY <2>3, <2>5
    <3> HIDE DEF m, passed
    <3>2. \A i \in 1..m : t[i] \in Item
      BY <2>2, <2>3, <3>1
    <3>3. /\ passed \in Seq(Item)
          /\ Len(passed) = (IF 1 <= m THEN m - 1 + 1 ELSE 0)
          /\ \A i \in 1..m - 1 + 1 : passed[i] = t[1 + i - 1]
      BY <3>1, <3>2, SubSeqProperties
    <3>4. DOMAIN passed = 1..m
      BY <3>1, <3>3
    <3>5. \A i \in 1..m : passed[i] = t[i] /\ i \in DOMAIN t
      BY <2>3, <3>1, <3>3
    <3> QED
      BY <2>4, <3>3, <3>4, <3>5
  <2>9. jobsOf(passed) \in Seq(1..MaxQueued)
    BY <2>8, JobsAreListed
  <2> HIDE DEF passed
  <2> QED
    BY <2>1, <2>6, <2>7, <2>9 DEF Decisions
<1> QED
  BY <1>3, <1>4

(* A decision names jobs that wait, for any request.                        *)
THEOREM SchedulerTypesForAll == SchedulerSpec => []SchedulerTypeOK
<1>1. SchedulerInit => SchedulerTypeOK
  <2>1. 0 \in 0..MaxQueued /\ <<>> \in Seq(1..MaxQueued)
    BY SchedulerAssumption
  <2>2. Undecided \in Decisions
    BY <2>1 DEF Undecided, Decisions
  <2> QED
    BY <2>2 DEF SchedulerInit, SchedulerTypeOK, Decisions
<1>2. SchedulerTypeOK /\ [SchedulerNext]_schedulerVars => SchedulerTypeOK'
  <2> SUFFICES ASSUME SchedulerTypeOK, [SchedulerNext]_schedulerVars PROVE SchedulerTypeOK'
    OBVIOUS
  <2>1. request' = request /\ decision' \in {decision, Simulate(request)}
    BY DEF SchedulerNext, Decide, schedulerVars
  <2>2. request.queued \in Queues
    BY DEF SchedulerTypeOK, Requests
  <2>3. Simulate(request) \in Decisions
    BY <2>2, SimulateIsTyped
  <2> QED
    BY <2>1, <2>3 DEF SchedulerTypeOK, Decisions
<1> QED
  BY <1>1, <1>2, PTL DEF SchedulerSpec

=============================================================================
