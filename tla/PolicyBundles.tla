---------------------------- MODULE PolicyBundles ----------------------------
(***************************************************************************)
(* The lifecycle of policy bundles (internal/policy, its store and its     *)
(* handlers) and what a bundle decides about the entry of a job into QC.   *)
(* A bundle, its test runs and its activations are separate insertions;    *)
(* only the newest run and the newest activation count.  What a Rego       *)
(* module answers is left open: it may allow, deny or fail.                *)
(***************************************************************************)
EXTENDS Naturals

CONSTANTS Advanced,      \* the Rego bundles an administrator may write
          BuiltIn,       \* BuiltinBundle, the structured template
          Administrators

NoBundle == "none"

ASSUME BundleAssumption == {BuiltIn, NoBundle} \intersect Advanced = {}

VARIABLES created,       \* the Rego bundles in policy_bundles
          lastRun,       \* the status of the newest test run of each
          everPassed,    \* history: the bundles some run of which passed
          active,        \* the bundle of the newest activation, or the built-in
          activating     \* per administrator: the bundle whose tests were looked at

policyVars == <<created, lastRun, everPassed, active, activating>>

Bundle == Advanced \union {BuiltIn}

PolicyTypeOK ==
  /\ created \in SUBSET Advanced
  /\ lastRun \in [Advanced -> {"none", "passed", "failed"}]
  /\ everPassed \in SUBSET created
  /\ active \in created \union {BuiltIn}
  /\ activating \in [Administrators -> Bundle \union {NoBundle}]

PolicyInit ==
  /\ created = {} /\ everPassed = {}
  /\ lastRun = [b \in Advanced |-> "none"]
  /\ active = BuiltIn
  /\ activating = [a \in Administrators |-> NoBundle]

(* CreateBundle stores the formatted source; its tests are a later step, so *)
(* a bundle without a run exists in between, and after an error for good.   *)
CreateBundle(b) ==
  /\ b \notin created
  /\ created' = created \union {b}
  /\ UNCHANGED <<lastRun, everPassed, active, activating>>

(* RunTests and SavePolicyTestRun, after CreateBundle or by testPolicyBundle *)
(* with tests of the caller's choice.                                        *)
TestBundle(b) ==
  /\ b \in created
  /\ \E status \in {"passed", "failed"} :
       /\ lastRun' = [lastRun EXCEPT ![b] = status]
       /\ everPassed' = everPassed \union (IF status = "passed" THEN {b} ELSE {})
  /\ UNCHANGED <<created, active, activating>>

(* Mutant of activatable: a bundle without a run is taken for a tested one. *)
activatableUntested(b) == b = BuiltIn \/ (b \in created /\ lastRun[b] # "failed")

activatable(b) == b = BuiltIn \/ (b \in created /\ lastRun[b] = "passed")

(* Activate looks at the newest run in a transaction of its own ...         *)
CheckActivation(a, b) ==
  /\ activating[a] = NoBundle
  /\ activatable(b)
  /\ activating' = [activating EXCEPT ![a] = b]
  /\ UNCHANGED <<created, lastRun, everPassed, active>>

(* ... and ActivatePolicyBundle inserts the activation, or fails.           *)
ActivatePolicyBundle(a) ==
  /\ activating[a] # NoBundle
  /\ activating' = [activating EXCEPT ![a] = NoBundle]
  /\ active' \in {active, activating[a]}
  /\ UNCHANGED <<created, lastRun, everPassed>>

PolicyNext ==
  \/ \E b \in Advanced : CreateBundle(b) \/ TestBundle(b)
  \/ \E a \in Administrators :
       ActivatePolicyBundle(a) \/ \E b \in Bundle : CheckActivation(a, b)

(* decide, for the entry into QC.  The caller claims that the full          *)
(* verification passed, and a job in policy_review has a result.            *)
decide(documentation, golden) ==
  documentation # "blocked" /\ golden \notin {"approval_required", "failed"}

(* evaluateRego: any answer that is consistent, or none.                    *)
regoAnswers == {"allow", "deny", "error"}

(* FailClosedDecision: an evaluation that fails denies.                     *)
failClosed(regoAnswer) == regoAnswer = "allow"

(* Evaluate.                                                                *)
decisions(b, documentation, golden) ==
  IF b = BuiltIn THEN {decide(documentation, golden)}
                 ELSE {failClosed(reply) : reply \in regoAnswers}

(* A bundle in force passed its tests: activation is refused without a      *)
(* passing run, although tests may be run again while it is under way.      *)
BundlesTested ==
  \A b \in {active} \union {activating[a] : a \in Administrators} :
    b \in Advanced => b \in everPassed

=============================================================================
