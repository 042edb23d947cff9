----------------------------- MODULE Differentials -----------------------------
(***************************************************************************)
(* What verification measured before and after a change, compared, and what *)
(* administrators say about it afterwards: baselines, differentials,       *)
(* corrections and supersessions (internal/intelligence/service.go over    *)
(* internal/storage/sqlite/intelligence.go; the phases that capture and    *)
(* compare are in internal/workflow/coordinator.go).                       *)
(*                                                                         *)
(* The evidence is only ever added to.  A correction reads the history     *)
(* before it is written, without a transaction around both.                *)
(***************************************************************************)
EXTENDS Naturals, Sequences, FiniteSets

CONSTANTS
  Works,          \* jobs that verify
  Admins,         \* administrators who correct at the same time
  Base,           \* Base[w]: base commit, configuration and toolchain of the job
  Patches,        \* hashes of candidate patches
  Purposes,       \* Purposes[p]: the classes of checks a verification runs
  MaxTries,       \* bound on the verifications of a job
  MaxCorrections  \* bound on corrections and supersessions

Classes == {"pre_existing", "resolved", "newly_introduced", "changed", "indeterminate"}

Statuses == {"passed", "failed"}

Checks == UNION {Purposes[p] : p \in DOMAIN Purposes}

ASSUME DifferentialsAssumption ==
  /\ DOMAIN Base = Works
  /\ {MaxTries, MaxCorrections} \subseteq Nat

VARIABLES
  baselines,     \* verification_baselines: observations by identity
  differentials, \* verification_differentials: by baseline, patch and purpose
  corrections,   \* differential_corrections, in order
  supersessions, \* baseline_supersessions
  work,          \* work[w]: the verifying phase a job is in
  correcting     \* correcting[a]: a correction whose history was read

differentialsVars ==
  <<baselines, differentials, corrections, supersessions, work, correcting>>

NoCorrection == [after |-> "none"]

DifferentialsTypeOK ==
  /\ \A id \in DOMAIN baselines : \A c \in DOMAIN baselines[id] : baselines[id][c] \in Statuses
  /\ \A d \in DOMAIN differentials :
       /\ d.baseline \in DOMAIN baselines
       /\ \A c \in DOMAIN differentials[d].classes : differentials[d].classes[c] \in Classes
  /\ \A k \in DOMAIN corrections :
       corrections[k].of \in DOMAIN differentials /\ corrections[k].after \in Classes
  /\ \A s \in supersessions : s.baseline \in DOMAIN baselines
  /\ \A w \in Works : work[w].tries \in 0 .. MaxTries

DifferentialsInit ==
  /\ baselines = [id \in {} |-> 0] /\ differentials = [d \in {} |-> 0]
  /\ corrections = <<>> /\ supersessions = {}
  /\ work = [w \in Works |-> [step |-> "reproducing", tries |-> 0]]
  /\ correcting = [a \in Admins |-> NoCorrection]

-----------------------------------------------------------------------------
observations(checks) == [checks -> Statuses]

go(w, to) == work' = [work EXCEPT ![w] = to]

onlyWork == UNCHANGED <<baselines, differentials, corrections, supersessions, correcting>>

(* The baseline is looked up; one that is missing is measured first.        *)
FindBaseline(w) ==
  LET s == work[w] IN
  /\ s.step = "reproducing"
  /\ \/ Base[w] \in DOMAIN baselines /\ go(w, [step |-> "implemented", tries |-> s.tries])
     \/ /\ Base[w] \notin DOMAIN baselines
        /\ \E o \in observations(Checks) :
             go(w, [step |-> "measured", tries |-> s.tries, seen |-> o])
  /\ onlyWork

(* Mutant of saved: the last measurement counts.                            *)
savedAnew(id, seen) ==
  [x \in DOMAIN baselines \union {id} |-> IF x = id THEN seen ELSE baselines[x]]

(* A baseline that was saved meanwhile stays.                               *)
saved(id, seen) ==
  [x \in DOMAIN baselines \union {id} |-> IF x \in DOMAIN baselines THEN baselines[x] ELSE seen]

(* A row is looked for and inserted in two statements: one that came between *)
(* them fails the phase, and the job comes back to it when it is retried.   *)
goesOn(w, raced) ==
  \/ go(w, [step |-> "implemented", tries |-> work[w].tries])
  \/ raced /\ go(w, [step |-> "reproducing", tries |-> work[w].tries])

CaptureBaseline(w) ==
  /\ work[w].step = "measured"
  /\ baselines' = saved(Base[w], work[w].seen)
  /\ goesOn(w, Base[w] \in DOMAIN baselines)
  /\ UNCHANGED <<differentials, corrections, supersessions, correcting>>

(* A verification of a candidate; a job comes back with the same patch when *)
(* it is retried, or with another one.                                      *)
Verify(w) ==
  LET s == work[w] IN
  /\ s.step = "implemented" /\ s.tries < MaxTries
  /\ \E p \in Patches, purpose \in DOMAIN Purposes : \E o \in observations(Purposes[purpose]) :
       go(w, [step |-> "verified", tries |-> s.tries + 1, patch |-> p, purpose |-> purpose, seen |-> o])
  /\ onlyWork

comparable(baseline, seen) == [c \in DOMAIN baseline \intersect DOMAIN seen |-> baseline[c]]

classOf(before, after, c) ==
  IF c \notin DOMAIN after THEN "resolved"
  ELSE IF c \notin DOMAIN before THEN "newly_introduced"
  ELSE IF before[c] = after[c] THEN "pre_existing"
  ELSE "changed"

CompareObservations(before, after) ==
  [c \in DOMAIN before \union DOMAIN after |-> classOf(before, after, c)]

(* The differential of the same patch and purpose that is there stays.      *)
CompareAndSave(w) ==
  LET s == work[w]
      d == [baseline |-> Base[w], patch |-> s.patch, purpose |-> s.purpose]
      new == [classes |-> CompareObservations(comparable(baselines[Base[w]], s.seen), s.seen),
              seen |-> s.seen]
  IN
  /\ s.step = "verified"
  /\ differentials' = [x \in DOMAIN differentials \union {d} |->
                         IF x \in DOMAIN differentials THEN differentials[x] ELSE new]
  /\ goesOn(w, d \in DOMAIN differentials)
  /\ UNCHANGED <<baselines, corrections, supersessions, correcting>>

-----------------------------------------------------------------------------
historyOf(d, c) == SelectSeq(corrections, LAMBDA x : x.of = d /\ x.check = c)

effective(d, c) ==
  LET h == historyOf(d, c) IN
  IF h = <<>> THEN differentials[d].classes[c] ELSE h[Len(h)].after

correctable(current, after) ==
  /\ current # after
  /\ ~(current = "newly_introduced" /\ after \in {"pre_existing", "resolved"})

onlyCorrecting == UNCHANGED <<baselines, differentials, supersessions, work>>

CorrectDifferential(a) ==
  /\ correcting[a] = NoCorrection /\ Len(corrections) < MaxCorrections
  /\ \E d \in DOMAIN differentials, after \in Classes : \E c \in DOMAIN differentials[d].classes :
       /\ correctable(effective(d, c), after)
       /\ correcting' = [correcting EXCEPT
            ![a] = [of |-> d, check |-> c, before |-> effective(d, c), after |-> after]]
  /\ UNCHANGED corrections /\ onlyCorrecting

SaveDifferentialCorrection(a) ==
  /\ correcting[a] # NoCorrection
  /\ corrections' = Append(corrections, correcting[a])
  /\ correcting' = [correcting EXCEPT ![a] = NoCorrection]
  /\ onlyCorrecting

(* The replacement is filed under the patch, in one transaction that fails  *)
(* where either row is there already.                                       *)
SupersedeBaseline ==
  \E d \in DOMAIN differentials :
    LET s == [baseline |-> d.baseline, of |-> d]
        id == [rev |-> d.patch, config |-> d.baseline.config]
    IN
    /\ Cardinality(supersessions) < MaxCorrections
    /\ s \notin supersessions /\ id \notin DOMAIN baselines
    /\ supersessions' = supersessions \union {s}
    /\ baselines' = [x \in DOMAIN baselines \union {id} |->
                       IF x = id THEN differentials[d].seen ELSE baselines[x]]
    /\ UNCHANGED <<differentials, corrections, work, correcting>>

DifferentialsNext ==
  \/ \E w \in Works : FindBaseline(w) \/ CaptureBaseline(w) \/ Verify(w) \/ CompareAndSave(w)
  \/ \E a \in Admins : CorrectDifferential(a) \/ SaveDifferentialCorrection(a)
  \/ SupersedeBaseline

DifferentialsSpec == DifferentialsInit /\ [][DifferentialsNext]_differentialsVars

-----------------------------------------------------------------------------
(* A kept comparison stays true of the evidence it names: what it calls      *)
(* pre-existing was measured before the change with the same result, what    *)
(* it calls changed with another, though two jobs measure the same base and  *)
(* administrators file replacements.                                         *)
DifferentialsStayTrue ==
  \A d \in DOMAIN differentials :
    LET before == baselines[d.baseline]  x == differentials[d] IN
    \A c \in DOMAIN x.classes :
      /\ x.classes[c] = "pre_existing" => before[c] = x.seen[c]
      /\ x.classes[c] = "changed" => before[c] # x.seen[c]

=============================================================================
