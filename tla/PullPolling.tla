------------------------------ MODULE PullPolling ------------------------------
(***************************************************************************)
(* The loop that asks the forge for the outcome of the pull requests that   *)
(* were published, since a webhook may never arrive                         *)
(* (internal/githubsync/reconciler.go, started by cmd/controller/main.go).  *)
(*                                                                         *)
(* A step lists the newest jobs, and then takes them one after another.     *)
(* The first that fails ends the step, so that the older ones wait for a    *)
(* step in which it does not.  People, the forge and the other parts of the *)
(* controller move between any two calls of a step.                        *)
(*                                                                         *)
(* What an outcome does to the memory of the project is ProjectMemory's.    *)
(* Jobs are numbered in the order of their creation; all belong to one      *)
(* project on GitHub.                                                      *)
(***************************************************************************)
EXTENDS Naturals

CONSTANTS
  JobCount,     \* jobs created, at most
  PageLimit,    \* how many jobs ListJobs returns, at most
  Failable,     \* the jobs that may fail
  MaxUpsets     \* bound on pull requests opened again, and restarts, together

ASSUME PollingAssumption ==
  {JobCount, PageLimit, MaxUpsets} \subseteq Nat /\ Failable \subseteq 1 .. JobCount

VARIABLES
  created,      \* how many jobs there are
  pulls,        \* pulls[j]: what became of job j at the forge
  failing,      \* the jobs whose publication, or pull request, gives an error
  projectEnabled, \* whether the project is
  todo,         \* the jobs the step has still to visit
  read,         \* the outcome the step has read and not yet applied
  reported,     \* the outcomes that were recorded, by job
  upsets

pollingVars ==
  <<created, pulls, failing, projectEnabled, todo, read, reported, upsets>>

PolledJobs == 1 .. JobCount
Outcomes == {"merged", "rejected"}
NothingRead == "nothing"

PollingTypeOK ==
  /\ created \in 0 .. JobCount
  /\ pulls \in [PolledJobs -> {"unpublished", "open"} \union Outcomes]
  /\ failing \subseteq Failable /\ projectEnabled \in BOOLEAN
  /\ todo \subseteq PolledJobs
  /\ read \in Outcomes \union {NothingRead} /\ (read # NothingRead => todo # {})
  /\ reported \subseteq PolledJobs \X Outcomes
  /\ upsets \in 0 .. MaxUpsets

PollingInit ==
  /\ created = 0 /\ pulls = [j \in PolledJobs |-> "unpublished"]
  /\ failing = {} /\ projectEnabled = TRUE
  /\ todo = {} /\ read = NothingRead /\ reported = {}
  /\ upsets = 0

-----------------------------------------------------------------------------
(* What moves while the loop does *)

loopUnchanged == UNCHANGED <<todo, read, reported>>

CreatePolledJob ==
  /\ created < JobCount /\ created' = created + 1
  /\ loopUnchanged /\ UNCHANGED <<pulls, failing, projectEnabled, upsets>>

becomes(j, state) ==
  /\ pulls' = [pulls EXCEPT ![j] = state]
  /\ loopUnchanged /\ UNCHANGED <<created, failing, projectEnabled>>

PublishPull(j) ==
  /\ j <= created /\ pulls[j] = "unpublished" /\ becomes(j, "open") /\ UNCHANGED upsets

ClosePull(j) ==
  /\ pulls[j] = "open"
  /\ \E outcome \in Outcomes : becomes(j, outcome)
  /\ UNCHANGED upsets

upset == upsets < MaxUpsets /\ upsets' = upsets + 1

ReopenPull(j) == pulls[j] = "rejected" /\ upset /\ becomes(j, "open")

(* The forge does not answer for it, its publication cannot be read, or its *)
(* branch is not at the result any more; or that is mended.                *)
ChangeTrouble(j) ==
  /\ j \in Failable
  /\ failing' = IF j \in failing THEN failing \ {j} ELSE failing \union {j}
  /\ loopUnchanged /\ UNCHANGED <<created, pulls, projectEnabled, upsets>>

SetEnabled ==
  /\ projectEnabled' = ~projectEnabled
  /\ loopUnchanged /\ UNCHANGED <<created, pulls, failing, upsets>>

-----------------------------------------------------------------------------
(* Step *)

stepOnly == UNCHANGED <<created, pulls, failing, projectEnabled, upsets>>

(* ListJobs returns the newest.                                            *)
listed == {j \in 1 .. created : j > created - PageLimit}

(* A step begins: of the listed jobs it takes those that were published,    *)
(* the newest first.                                                       *)
BeginStep ==
  /\ todo = {}
  /\ todo' = {j \in listed : pulls[j] # "unpublished"}
  /\ UNCHANGED <<read, reported>> /\ stepOnly

turn == CHOOSE j \in todo : \A k \in todo : k <= j

endOfStep == todo' = {} /\ read' = NothingRead

(* Mutant of goesOn: a pull request that is still open ends the step.       *)
goesOnNever == endOfStep

(* The next job's turn.                                                    *)
goesOn == todo' = todo \ {turn} /\ read' = NothingRead

(* Nothing is asked of a project that is disabled.  Of a job that fails, an *)
(* error ends the step, unless only its result is not accepted, later.      *)
VisitJob ==
  /\ todo # {} /\ read = NothingRead
  /\ \/ (~projectEnabled \/ pulls[turn] \notin Outcomes) /\ goesOn
     \/ projectEnabled /\ turn \in failing /\ endOfStep
     \/ projectEnabled /\ pulls[turn] \in Outcomes /\ read' = pulls[turn] /\ UNCHANGED todo
  /\ UNCHANGED reported /\ stepOnly

(* ApplyGitHubPullRequestEvent: by now the project may be disabled.         *)
ApplyOutcome ==
  /\ read # NothingRead
  /\ IF ~projectEnabled \/ turn \in failing THEN endOfStep /\ UNCHANGED reported
     ELSE goesOn /\ reported' = reported \union {<<turn, read>>}
  /\ stepOnly

PollStep == BeginStep \/ VisitJob \/ ApplyOutcome

RestartController ==
  /\ upset /\ endOfStep
  /\ UNCHANGED <<created, pulls, failing, projectEnabled, reported>>

-----------------------------------------------------------------------------
PollingNext ==
  \/ \E j \in PolledJobs : PublishPull(j) \/ ClosePull(j) \/ ReopenPull(j) \/ ChangeTrouble(j)
  \/ CreatePolledJob \/ SetEnabled \/ PollStep \/ RestartController

(* The loop of a running controller goes on: its ticker runs, and a call    *)
(* returns or fails.  Nothing else is promised.                            *)
PollingFairness == WF_pollingVars(PollStep)

PollingSpec == PollingInit /\ [][PollingNext]_pollingVars /\ PollingFairness

-----------------------------------------------------------------------------
(* A job a step gets to: it is listed, and neither it nor a newer one fails. *)
reached(j) == projectEnabled /\ j > created - PageLimit /\ failing \intersect (j .. created) = {}

(* A pull request that was closed, and stays so, is taken note of although  *)
(* every webhook is lost, provided that its project stays enabled, its job  *)
(* among the newest, and no newer one keeps failing (reconciler.go, Step).  *)
ClosedPullsReconciled ==
  \A j \in PolledJobs : \A outcome \in Outcomes :
    <>[](pulls[j] = outcome /\ reached(j)) => <>(<<j, outcome>> \in reported)

=============================================================================
