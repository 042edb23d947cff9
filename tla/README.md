# A verification development for the code maintainer

TLA+ modules, TLC runs and TLAPS proofs about the controller of this repository:
the Go program that takes a maintenance task, works on it in an isolated git
worktree with the help of language models, and asks people before anything
leaves the machine. Paths below are relative to `src/`.

## 1. The system

A controller process (`cmd/controller/main.go`) owns one SQLite database, opened
with a single connection, so that every transaction is atomic and totally
ordered. In it run a queue worker, an automation scheduler, a memory index
synchronizer, a repository poller and the HTTP API. Git, models and sandboxes
are other processes (`cmd/git-bridge`, `cmd/model-supervisor`, `cmd/runnerd`),
reached over narrow services.

| Part | State it keeps | Operations | What is hard about it |
|---|---|---|---|
| job state machine `internal/jobs` | none | which edges exist | every phase must answer with an edge that exists |
| workflow engine `internal/workflow/engine.go` | the job row, `job_token_reservations`, `workflow_phase_records`, `job_transitions` | `Step`, `fail` | several transactions with hours in between; crash, shutdown, deadline and people at any point |
| coordinator `internal/workflow/coordinator.go` | worktree, findings, reports | one method per phase | effects before the phase is committed, repeated after a crash |
| lease queue `internal/queue`, `RenewJobLease` ... | `job_leases` | acquire, renew, release | a lease outlives or underlives its holder, and every controller has the same owner ID |
| scheduler `internal/scheduler` | `scheduler_decisions` | `Simulate` | order of candidates, resources, starvation |
| git bridge, worktrees `internal/gitbridge`, `internal/repositories` | mirrors, worktrees, remote branches | sync, commit, publish | idempotent commits after a crash, moved upstream |
| findings `internal/findings` | `qc_findings` | observe, transition | lifecycle over several review cycles |
| test designer and golden gates | reports, dispositions, approvals | save, dispose, approve | two transactions per approval, reports of older attempts |
| policy bundles `internal/policy` | bundles, test runs, activations | create, test, activate, evaluate | tested and activated in separate calls |
| task contracts, risk | contracts, assessments, waivers | ensure, edit, assess, waive, approve | people and the phase write the same row |
| configuration `internal/config` | values by scope, drafts, revisions, snapshots of jobs | create, update, review, apply, import, roll back | validated first, written later |
| memory `internal/memory` | records, outbox, semantic index | promote, invalidate, delete, synchronize | the index follows the table through failures |
| automation `internal/automation` | schedules, runs, notices | save, dispatch, acknowledge | an edit overlaps a dispatch |
| webhooks, polling `internal/githubsync` | deliveries | deliver, poll | the same event twice, late or never; one job that fails stops the poll |
| providers `internal/providers` | profiles, probes, manifests, approvals | save, probe, route, approve | the route is evaluated twice over tables people edit |
| model supervisor `internal/models` | the process served, the catalog | load, unload, status, smoke | several callers share one server |
| runner daemon `internal/runnerd` | containers, monitors | start, inspect, collect | both ends may die at any point |
| code intelligence `internal/intelligence` | analyses, runs, cache, baselines, differentials | index, prune, compare, correct | five kinds of transactions of two indexers |
| capability packs `internal/capabilities` | installation, proposals, assignment | scan, review, configure, upgrade | a catalog that changes under requests |
| windows workers `internal/windowsworker` | profiles, results | save, run | results under reused keys |
| authentication `internal/auth` | users, sessions, attempts | log in, authenticate, change | requests outlive the rights they were read with |
| artifacts, backups | files, index, archives, a marker | put, create, stage, apply | not atomic, on purpose |
| forge inventory `internal/forges`, `internal/gitbridge/forge_inventory.go` | runs, objects | sync | collected by page number from something that changes |
| people `internal/api` | - | cancel, retry, approvals and all of the above | act between any two transactions |

The row of a job is the meeting point: the engine advances it with
compare-and-set on its `version`, the handlers move it the same way, the
scheduler reads it, the lease says who may work on it. The other parts
(configuration, memory, providers, packs, forges and so on) have tables of their
own; what one hands to another, such as a snapshot of settings, is an input
there.

## 2. Modules

| Module | Models | Correspondence |
|---|---|---|
| `JobStates` | `internal/jobs/state.go` | `transitions` is the table; `Resumable`, `Terminal`, `CanTransition` the methods |
| `PhaseRouting` | outcomes of `Coordinator.Execute`, `nextState` | `Outcomes(s, cycle)` is the set of answers phase `s` can give |
| `JobLedger` | what a job row promises | abstract specification: edges, versions, charges, cycles |
| `JobEngine` | `Engine.Step`, `Engine.fail`, the store's transactions, the handlers that move a job | one action per transaction or per decision between two; one action per handler |
| `SchedulerRules` | profiles, priorities, order and resource arithmetic of `internal/scheduler/types.go` | operators named as the functions, memory in GiB |
| `Scheduler` | `Simulate` and `sortQueue` as the code computes them | one action `Decide` over every small request |
| `LeaseQueue` | `internal/queue/worker.go`, the lease transactions | one action per transaction of a worker; `Tick` and `DeadlineNears` are the clocks |
| `FindingRules` | `internal/findings/types.go`, `storage/sqlite/findings.go` | the lifecycle and the effect of one report |
| `Candidate` | the effects of the phases on worktree, commits, findings and remote branch; approval of the publication | one action per effect between which a crash can fall |
| `Publication` | what publishing promises to who approves and who reads the branch | abstract specification: evidence, one decision, one push |
| `PolicyBundles` | `internal/policy`, its store and handlers | `CheckActivation` and `ActivatePolicyBundle` are two actions, as they are two calls |
| `QualityGates` | the phases between verification and QC, test designer, goldens, documentation, policy, and the handlers that decide | phase = begin, answer, complete; handler = store, count, advance |
| `TaskContracts` | contract, risk, waivers, the locking phase | phase = lock, assess, complete; a waiver reads before its transaction |
| `ConfigRegistry` | settings by scope, drafts, revisions, snapshots of jobs | a request validates in one action and writes in another |
| `ProjectMemory` | records, outbox, synchronizer, retrieval, and what a webhook or a poll decides | one action per transaction; a call to the index may fail after it took effect |
| `PullPolling` | `githubsync.Reconciler` over many published jobs | a step lists, then visits and applies job by job; the first error ends it |
| `Automation` | schedules, dispatcher, notices, skill proposals | `DispatchDueSchedule` is one transaction |
| `ProviderRoutes` | profiles, probes, `Service.Evaluate`, manifests, `routeModelCall` | each table is read in a step of its own; gate, approval and second evaluation |
| `ModelSupervisor` | `Supervisor`, `agents.Runner`, benchmarks, the loading phases | `Load` is stop, start, health; a benchmark is three calls |
| `Runner` | `workflow/backend.go`, `runnerd`, the worker | packet, start, wait, collect; monitors and containers apart |
| `CodeIndex` | `intelligence.Service.Index` and the tables | look up, analyse, commit, register, prune |
| `Differentials` | baselines, differentials, corrections | find or measure, capture, compare; corrections read before they write |
| `CapabilityPacks` | one pack: installation, proposals, assignment | a request = what it read, then its transaction |
| `WindowsWorkers` | profiles, routing, runs | read, execute, keep |
| `Sessions` | logins, sessions, throttle, changes of people | a login is four steps; a request carries the principal it arrived with |
| `Backups` | `artifacts.Store.Put`, `backup.Manager`, the start of the controller | one action per file system step |
| `ForgeSync` | `forges.Service.Sync`, `Manager.SyncForge`, `collectInventory`, `SaveForgeSync` | one action per page asked for |
| `...Proofs` | - | theorems: `JobEngine`, `LeaseQueue`, `Candidate` and `QualityGates` (with `PolicyBundles`) have a proof module each; `AdministrationProofs` is about `Sessions` and `ConfigRegistry`, `RecordsProofs` about `CapabilityPacks`, `TaskContracts`, `Backups` and `ForgeSync`, `ExecutionProofs` about `WindowsWorkers`, `CodeIndex`, `Differentials`, `ProviderRoutes`, `ModelSupervisor` and `Scheduler`, `ProgressingProofs` about `Runner`, `ProjectMemory`, `PullPolling` and `Automation` |
| `MC...` | - | the instances: values of constants, symmetry, and joint runs |

How they compose: `JobStates` and `PhaseRouting` are shared by `JobEngine`,
`LeaseQueue`, `Candidate` and `QualityGates`. These look at one job row from
different sides: `JobEngine` keeps its transactions, budget, deadline and
contexts and leaves a phase one step; `LeaseQueue` has several rows and
processes and leaves a whole `Step` one action; `Candidate` takes the phases
apart that touch the worktree, and `QualityGates` those that ask for decisions;
both leave budget and deadline out. `QualityGates` extends `PolicyBundles`,
whose active bundle decides about its job. `SchedulerRules` is shared by
`Scheduler` and `LeaseQueue`, which takes "the first job that may run" as its
selection, the fact `SelectsBest` is about and `SelectsForAll` proves.

The joint modules `MCAdministered`, `MCExecuted` and `MCProgressing` put
components that share no state into one run: a behaviour chooses a `subject`
and moves that component only. This is a way to run them together, not a claim
that they interact; nothing is lost by it, since the product would only
interleave independent steps. `MCCandidate` splits the behaviours of
`Candidate`, whose product is too many states: those without remote calls have
both findings, and those with remote calls only the one that is found late.

### JobEngine

`job` is the row (state, version, reserved tokens in units of one reservation,
review cycle), `base` its `base_sha`, `reservations` the phase versions in
`job_token_reservations`, `ledger` the actor and error of the last
`job_transitions` row, `contract` the status of the task contract. `engine[e]`
is the step engine `e` is in: its copy of the row, the answer of the phase, the
error to record. `attempt` counts retries and is not stored by the code; it is
there to state what an attempt may write. `upstream` is the default branch.

A step of the engine is `Load`, then `RefuseExpired` or a reservation (one of
six ends of `ReserveJobTokens`) followed by the separate `ReadBack`, then
`Execute` or `ExecuteFails`, then `CompletePhase` or `CompleteRefused`; an error
goes through `ChooseFailContext`, `RecordFailure` or `FailureNotRecorded`.
`contextDone` is the context of the step: it ends at the job's deadline
(`main.go`) and when the worker is stopped or loses its lease. A handler reads
the row and writes it under the version read; it is one step, since the only
other outcome is a conflict that changes nothing.

### LeaseQueue

`row` holds state and version of each job, `lease` the owner and the time left,
`worker[w]` the job a process was given with the state and version it was in.
`holder` is not stored: it remembers who acquired a job last. A process may
crash, stall for any time and wake up. Timestamps are kept as the time left
until them; leases and deadlines tick apart because one lives for seconds and
the other for hours. `Acquire` is one transaction, selection included, as in
`acquireScheduledJobLease`. All processes write the same `OwnerID`, as
`main.go:122` has it, so `Renew` and `Release` accept the lease of any process
(`owns` tells only whether there is one).

### Candidate

Commits are numbers: the first ones belong to the default branch, the others
are made by `Manager.Commit`, and `commits[c]` is the version of the phase that
made `c`, which is what its `Maintainer-Operation` trailer names. `tree` is the
worktree: HEAD, and whether it differs from HEAD. `engine[e].row` is the copy of
the row a step works on. Three variables are history: `repairs` (cycles in which
an agent ran), `fix` (the commit at which a finding was marked fixed) and
`reviewed` (what was checked out when QC read the worktree).

A model phase is `Recover...` (the commit that takes up an earlier run), the
agent (`AgentWrites`, `AgentReturns`) and `Commit...`. Findings are marked by
`List`, then `Mark` one transaction each, then `Marked`. Publishing is
`CheckRemote` and `Push`. `PhaseFails` is every error of a worker, a model or a
policy; `Interrupt` is the end of the context or a record that cannot be
written; `Crash` loses the step and nothing else. People cancel, retry, approve,
dispute and waive at any time.

### QualityGates and PolicyBundles

`tests` and `goldens` are the append-only reports, `disposed` and `approved`
the decisions, each of a proposal or request in a report. `job.result` is the
candidate, `level` its risk. A phase stores its report before `Complete`, so a
crash leaves a report behind and repeats the phase. A decision is stored, then
counted (`Count` over the reports of that moment), then the job is moved
(`Advance`); `seen` is a history of what was counted. A bundle's tests and
activations are insertions; what a Rego module answers is open, and failing to
evaluate denies (`failClosed`).

### TaskContracts

`contracts[j]` is the row with its author (history), `criteria[j]` what the
phases read. The phase drafts, assesses and completes; people edit, assess,
waive and approve by version. `Weight` and the levels are the numbers of
`risk/types.go`.

### ConfigRegistry

`values[s]` are the settings of a scope, `revisions` the history, `past` what it
left (history, to compare with), `requests[a]` a request between its validation
and its transaction. The two keys are the pair the built-in registry relates.
`AcceptJob` takes the snapshot inside the transaction that creates a job;
`SnapshotsExplained` compares it with what the history says of that moment, all
scopes together.

### ProjectMemory and Automation

`outbox` is the table of index operations with its claims, `worker` the one
synchronizer; `written` is what its call would leave in the index, which a crash
may or may not have done. Webhooks stay with the forge and may come twice or
never; the poll names its event by what it read. When the poll reaches a job is
`PullPolling`'s matter: `todo` are the jobs its step has still to visit,
`failing` those whose publication, registration or pull request gives an error.
In `ProjectMemory` a poll may happen or not. A schedule's row carries a
version; `editing` is the row an administrator has on the screen.

### ProviderRoutes, ModelSupervisor, Runner

`call` is one worker call: the tables as read one after the other (`seen`), the
manifest of the decision, and a second evaluation, whose manifest is executed. A model's
place in a route is the first one it has there (`at`). `profiles`
of the instance are those that make the trust floor and the gate matter.
`supervised` is what the supervisor believes, `server` what runs, `files` what
is installed. `Runner` identifies a run by the hash of its request, so a phase
repeated after a crash meets the container of the earlier try; `born` tells in
which version of the job it was created.

### CodeIndex and Differentials

Objects have size one and a quota counts registrations. The runs are a set: a
run takes its time before its transaction, so the newest by its time need not be
the last that was committed, and which run of a day pruning takes for the newest
is open. `Differentials` keeps the evidence tables and the corrections in order;
a row that came between the look and the insertion fails the phase (`goesOn`).

### CapabilityPacks, WindowsWorkers, Sessions

`act[u]`, `running[c]` and `client[c]` are requests between what they read and what
they write. Time in `Sessions` is a bounded clock with the code's deadlines
scaled down in the same order.

### Backups

`objects` and `temps` are the files, `database` and `log` the SQLite file
and its write-ahead log, `marker` a staged restore, `process` where a start is.
`walkOrder` is the order in which `Create` walks the directories of the artifact
root: what workers write (`inputs/` and one directory per job, whose names sort
before `objects`), the objects, and `tmp/`. A file that vanishes under the walk
ends it (`WalkWorkers`, `WalkTemporaries`), and what is `Large` is left out. What
a backup lacks for these reasons is noted with it (`lacking`), a history that
the properties need to say that it lacks nothing else.

### ForgeSync

`forge[f]` is what a family of endpoints lists, newest first; `syncRuns` the
runs with the cursor each left; `collected` the stored objects. A cursor's
`promise` is history: the objects that were there when its collection began. It
is void once a page number counts pages of another size or an object was
deleted, since then the code promises nothing (section 3).

## 3. Runs

| Run | Question | Bounds, and why they are enough |
|---|---|---|
| `engine_exclusive` | with one lease holder, do budget, gates, charges and ledger hold, and does every job settle? | 3 reservations, so the limit is met after three model phases and by repetitions; 2 review cycles give one repair; one fault, one retry, one move of the default branch, each at any point |
| `candidate_repaired` | is what is published verified, reviewed, approved, are findings fixed in fact, and is `Publication` implemented? | 2 review cycles give one repair and one later review; one finding of the first review and one found late; one trouble (crash, interruption, cancellation, retry or move of the default branch) between any two effects; remote calls that are approved and resumed in any phase in behaviours of their own, which have the late finding only |
| `gates_kept` | do test designer, goldens, documentation and policy keep QC from what they did not allow? | 2 reports of each kind, so that one is old when the other counts; one proposal, two rehearsals of which one asks for a new golden, two people, one bundle that is written, tested, activated; one crash or cancellation |
| `administered` | settings, sessions, packs, contracts, backups, forges: section 4 | settings: 2 requests at once, 3 revisions, 2 drafts of 2 versions, so that a draft is reviewed, edited, applied and rolled back under another; one accepted job. sessions: 2 people, 5 requests, clock 0 to 2 with every deadline reached. packs: 2 versions, 2 releases of which the second dropped the first, 3 events, 2 proposals, 3 revisions, 2 users. contracts: 2 edits, 1 waiver, 1 failure, 2 people of whom one may lower a risk. backups: 2 artifacts of which one is too large to be backed up, 2 archives, 1 mishap. forges: 2 families, a page of 2, a limit of 3, so that a family needs two pages and the limit cuts the second family; 2 requests, 2 keys, one event |
| `executed` | routes, Windows jobs, models, index, differentials, scheduler, leases | routes: the profiles the trust floor and the gate tell apart, 2 edits, 2 tries. workers: 2 editors, 2 callers, 2 keys, 2 runs. models: both roles, one job, one administrator, one mishap. index: 2 indexers, retention 1 day, quota 1, so that everything competes. differentials: 2 jobs of one base, 2 corrections. scheduler: every request of up to three waiting and two running jobs of two projects (one for all outside the maintenance window, where what runs is not read): the order compares pairs, so three jobs show a wrong comparison. leases: three processes and four jobs of three projects, because two implementations fit the host and three do not; one crash, stall, failed heartbeat or passed deadline (`MaxTroubles`), and a cancellation under a running phase; leases of 2 ticks, so that a heartbeat may come in time or too late; section 5 proves the three properties for any number of each |
| `progressing` | what the loops of the controller owe, and what they keep meanwhile | memory: one record, 3 versions, one fault, one close, one rebuild. pulls: 3 jobs of which the newest 2 are listed, so that a newer job pushes one out; the second may fail, so that it stops the first from being reached and is itself passed by the third; one reopened pull request or restart. schedules: 2 of 2 projects in a day of 4 minutes. runs: 4 versions of a job, 2 faults, 2 packets |
| `engine_retry`, `queue_takeover`, `queue_expires`, `candidate_recovered`, `contract_edited`, `egress_unapproved` | statements of the documentation the code does not keep | as above, the component alone; two processes and one job show the takeover, one process and two jobs the deadline |

`CHECK_DEADLOCK FALSE` is set everywhere: a completed or cancelled job whose
retries are used up, a component whose people have nothing left to ask, really
stop. Symmetry is used for people, requests, keys, drafts and the processes of
the queue, only where no constant and no property tells them apart, and in no
run with liveness.

What each property says is in the comment above it; the hazards of
`PROJECT.json` say at which line of the code it could go wrong.

Fairness. `JobEngine!FairSpec` asks weak fairness of `Step(e)`: `Worker.Run`
polls every 250 ms and has no state in which it declines a step it could take.
`LeaseQueue!ServingSpec`, which only the two violation runs use, asks it of the
polls, the heartbeat (a goroutine of its own), the end of a phase (every phase
has a time limit in the runner or the model client), the release, the waking up
of a stalled process, and of time. `MemoryFairness` asks it of the
synchronizer's loop, of the call it is in and of the delays that elapse;
`AutomationFairness` of the dispatcher's loop; `RunnerFairness` of the
controller's next step, of its poll and of runnerd's monitor of each run, which
acts on a ticker; `PollingFairness` of the steps of the poll, each of which
returns or fails. Nothing is assumed of people, faults, workers, webhooks,
deadlines or the default branch.

### What the violation runs show

- `engine_retry`: a job that failed or was cancelled after its contract was
  approved cannot be retried; it waits for an approval that always conflicts.
- `candidate_recovered`: whatever a worker leaves in the worktree is committed as
  "the already committed bounded repair", and the findings count as fixed.
- `contract_edited`: the locking phase overwrites the draft a person edited.
- `queue_takeover`: a controller that stalled past its lease renews the lease of
  the one that took over, because both call themselves `controller-workflow`, and
  two execute one phase. With one controller over a database, as the compose
  file has it, this cannot happen.
- `queue_expires`: a job whose deadline passed before it is leased never comes to
  the code that records its failure; it is leased again and again before all
  others, which can wait for ever behind it.
- `egress_unapproved`: the gate asks for an approval of the first manifest; the
  one executed comes from a second simulation over tables that may have changed,
  and may be of a remote provider and approved by nobody.

### Met while modelling, without a run of their own

Engine, queue and candidate:

- a job retried after the default branch moved synchronizes for ever, because
  the row refuses a new base (`JobsSettle` excepts it);
- a finding reported again after it was verified blocks the job, and nobody can
  act on it;
- a step interrupted by a shutdown fails its job instead of leaving it to be
  resumed (`engine.go:77`, against `docs/architecture.md:7`);
- after a takeover (`queue_takeover`) the engines of two controllers may run a
  phase that was not the one charged (`budgets.go:54`);
- a job cancelled under its worker is counted with the profile of its new state,
  so the scheduler may overcommit the host until the worker returns;
- lease times are compared as RFC 3339 text that drops trailing zeros
  (`store.go:703`); only the 128 oldest candidates are looked at
  (`storage/sqlite/scheduler.go:167`);
- an agent that dies half way leaves edits that the next run commits
  (`gitbridge/manager.go:216`); the default branch may move between the
  comparison and the push (`manager.go:303`); the secret scan compares HEAD only
  (`verification/scanner.go:55`); a job retried after a commit finds its worktree
  at "an unexpected commit" (`repositories/worktree.go:95`).

Gates and reviews:

- the record for QC may quote a golden report of the code before the repair,
  since the latest report of the job counts, whatever it was made of
  (`coordinator.go:1042`, against `docs/quality-workflow.md:79`);
- role separation compares the families of the profiles that are listed when it
  is asked, one per role (the last one listed), not the family of the model that
  wrote the change (`coordinator.go:1516-1528`);
- a waiver reads the assessment before its transaction, and its expiry is never
  looked at again.

Models, workers, providers, index:

- a job on physical hardware needs an operator gate, but the hardware gate of
  the profile is never looked at, unlike those of signing and VPN
  (`windowsworker/service.go:245-255`, against `docs/windows-workers.md:31`);
- a repeated verification may report a check as introduced once and as changed
  later (`docs/intelligence.md`);
- edits of endpoints and models keep the provider they had; the third preference
  of a route compares by no order (`providers/service.go:557`);
- an outage of the analyser is stored as the analysis of a blob
  (`intelligence/remote.go:63`); a reused analysis that is pruned before the run
  commits leaves its file out of every answer, without a word
  (`storage/sqlite/intelligence.go:190`), so `ParsedIsAnswered` is about what the
  run parsed itself;
- the supervisor releases its lock in a smoke test (`supervisor.go:103`), and a
  server that crashed still counts as started until it is stopped;
- runnerd has no profile for the runs of the test designer
  (`runnerd/policy.go:146`, against `docs/quality-workflow.md:60`), so a job of
  medium or high risk fails at that phase;
- the identity of a dependency run does not hash its inputs
  (`runnerd/docker.go:109`), and one failed inspection fails a phase
  (`workflow/backend.go:221`); a packet that differs after a crash is refused.

Settings, backups, forges:

- the whole-document revisions kept for compatibility read and write in two
  transactions; a project scope may lose a dependency when the system's changes;
- a temporary file of a worker that vanishes during a backup ends the walk of
  all artifacts before any object is copied, quietly (`backup/manager.go:122-138`,
  `cmd/maintainer-worker/main.go:325-333`), and files above 32 MiB are left out
  although the store takes 64 (`manager.go:130`, `artifacts/store.go:23`), so a
  restored controller may name artifacts it does not have; the copy kept beside
  a restore is without
  the write-ahead log (`manager.go:304-311`);
- an inventory page that starts with little room is asked for with a smaller
  page size, but its next page number is used with a full one, so objects in
  between are skipped (`forge_inventory.go:147-150`); a last family that is
  forbidden leaves the cursor behind it, so the run is never complete
  (`forge_inventory.go:158-161`, `186`, against `docs/forges.md:44`); issues are
  not read again until the default branch moves (`gitbridge/manager.go:506`);
  objects deleted on the forge stay;
- the poll of pull requests asks for 500 jobs and gets 200
  (`githubsync/reconciler.go:66`, `storage/sqlite/store.go:410`), and a job that
  fails for ever keeps every older one from being polled
  (`reconciler.go:75-101`);
- an edit of a contract is stored before it is assessed, and an approval asks for
  no assessment of its version (`storage/sqlite/task_contracts.go:186`).

## 4. What the properties say

- Job row: `BudgetExact`, `ModelPhasesCharged`, `GatesNeedPerson`,
  `CommitsOwnAttempt`, `LedgerPromise` (the refinement of `JobLedger`),
  `JobsSettle`.
- Leases: `ProjectsApart`; `ExecutesAlone` (no job is executed twice) and
  `ExecutionFits` (what runs together fits the host), as long as no process
  stalled past its heartbeat or failed in it; `SelectsBest`.
- Candidate: `CandidateWasVerified`, `PublishedWasApproved`, `FixesVerified`,
  `CyclesHaveCandidates`, `PublicationPromise` (the refinement of `Publication`);
  gates: `BundlesTested`, `QCWasAllowed`, `ProposalsDisposed`; contract:
  `ApprovedIsImplemented`.
- Settings: `SystemScopeConsistent`; `RevisionsAreTrue`: the history rebuilds
  every state, a rollback restores, a draft applies what was reviewed, and a
  job's snapshot is the settings of one moment.
- People: `SomebodyAdministers`. Packs: `ConfigurationFits`. Artifacts:
  `BackupHoldsItsRecords`, `IndexedIsStored`. Forges: `CollectedIsComplete`.
- Calls: `TrustFloorKept`; Windows jobs: `AnswersAgree`; models:
  `LoadedIsServed`; runs: `AnswersThePacket`, `WaitingEnds`; index:
  `ParsedIsAnswered`; differentials: `DifferentialsStayTrue`.
- Loops: `ForgottenLeavesIndex`, `ClosedPullsReconciled`, `DueIsDispatched`;
  `IndexIsTrueOrOwed`: what the index holds is the canonical text or will be
  looked at again; `OccurrencesRunOnce`: an edit that sends back an old row does
  not bring back an occurrence.

## 5. Proofs

Each theorem holds for every value of the constants: any number of engines,
people, requests, keys and objects, and any bound on faults, retries and
versions. Every safety property and every action property of the passing runs
is proved, and so are the types of every component; what is not is named at the
end of this section.

### The job row: `JobEngineProofs`

- `TypeCorrect` - types are kept;
- `BudgetCorrect` - `BudgetExact`, from `BudgetInv`, which adds that the
  reservations are finite (the cardinality of an infinite set is no number);
- `AttemptsKeptApart` - from `CopiesInv`: a copy is never newer than the row and
  a copy of the current version belongs to the current attempt;
- `RowIsALedger` - the refinement of `JobLedger`;
- `GatesAreKept`, `ChargedBeforeCompletion` - under `ExclusiveLease`, there is at
  most one engine, from `ExclusiveInv`: between a reservation and its read-back
  the row is the charged one or was cancelled and perhaps retried. With two
  engines both are false.

The first four hold for several engines at once, so they cover the takeover of a
job whose first engine still runs; TLC checks one engine.

### Leases: `LeaseQueueProofs`

- `TypeCorrect` - types are kept;
- `OneLeasePerProject` - `ProjectsApart`, which is inductive as it stands: only
  `Acquire` starts a lease, and it looks at every live one;
- `AloneForAll` - `ExecutesAlone`, under `LeaseOutlivesBeat` (a lease lives longer
  than one tick), from `Undisturbed`: as long as no process stalled or failed in
  its heartbeat, who has a job has a live lease of it, which lasts beyond the
  next heartbeat while the job runs; only a person who cancels moves its row;
  and no job is in the hands of two. Processes may die at any point. The owner
  ID, which all share, plays no part in it: that a second process can only come
  when a lease has expired does. This is why the heartbeat is a third of the
  lease;
- `FitsForAll` - `ExecutionFits`, under the same hypothesis, from `Undisturbed` and
  `FitInv`: only finitely many leases live, and what runs, without the cancelled
  jobs, fits the host. What runs before `Acquire` is embedded in the items it
  counts, so what it adds fits beside them. The sums are folds over a set; their
  laws (`SumTakesOut`, `SumEmbeds`) are proved from an innermost counterexample
  among the finite subsets, which needs no induction theorem.

What happens to a process that does stall past its lease is refuted, not proved
(`queue_takeover`). `LeaseOutlivesBeat` is about the granularity of the model: the
code renews at a third of a lease of at least a second
(`internal/queue/worker.go:44` and `:77`), and with a lease of a single tick it
would end with the beat that renews it.

### The candidate: `CandidateProofs`

- `TypeCorrect` - types, from `TypeInv`: every commit that a row, a copy or the
  worktree names exists, and no worktree means no result;
- `CyclesForAll` - `CyclesHaveCandidates`, from `StepInv`: a copy of the present
  version is the present row, and what a phase answers is an edge;
- `VerifiedForAll` - `CandidateWasVerified`, from `ResultInv`, which ties the
  state of a row and of every copy to its result, and `ContractInv`: before the
  contract is approved there is no candidate anywhere.
- `PublishedForAll` - `PublishedWasApproved`, under `ExclusiveLease`: `AloneInv`
  (the engine works on the present row, unless the job was cancelled),
  `ReviewedInv` (what waits for a person is what QC had checked out) and
  `ApprovedInv` (an approved job goes to its publication only, and nothing brings
  a blocking finding back);
- `FixesForAll` - `FixesVerified`, under `ExclusiveLease`: `ListedInv` (a finding
  nobody touched has the status it was listed at), `RepairInv` (while a repair
  marks findings HEAD is its commit) and `FixInv` (a fix waits for the
  final verification of that very commit, or for the repair that made it, or its
  job cannot get past its approved contract);
- `PublicationForAll` - `PublicationPromise`, under `ExclusiveLease`: every step
  is a step of `Publication` or none. Besides the invariants above it needs
  `PushInv` (who pushes has seen that there is no branch, and nobody else makes
  one). The steps are told apart by what they change: commits, evidence, findings,
  the decision, the branch; and from the decision on `ApprovedInv` leaves no step
  that makes a commit, reviews or raises a finding.

`Publication` asks for a review of the very commit where it is pushed, and only
for some review where it is approved. This is what the code does: a
documentation phase that commits, is interrupted, and whose job is then resumed
in QC after a remote call leaves HEAD at its commit while the row names the
candidate before it, so a person may be asked to approve a candidate that QC did
not have checked out. `Publish` refuses to push it, because HEAD is not the
result (`gitbridge/manager.go:308`).

The first three hold with any number of engines, the last three need the lease:
`ExclusiveLease` says there is one engine. This is what `ExecutesAlone` says of a
job as long as no process stalls past its lease; after such a takeover two
engines may work on it (`queue_takeover`), and these three promise nothing.

### Gates: `QualityGatesProofs`

- `BundlesForAll` - `BundlesTested`, from `PolicyInv`: a bundle that is being
  activated has passed, whatever its newer runs say;
- `GatesTypesForAll` - types, from `GatesInv`: a phase works on the present row
  or on that of a cancelled job, and repairs stay below the limit;
- `QCForAll` - `QCWasAllowed`, from `QCInv`: a phase that is about to move its
  job beyond policy has a decision that allowed this result;
- `ProposalsForAll` - `ProposalsDisposed`, an action property, from `CountInv`
  (what a request counted stays counted: reports and dispositions only grow) and
  `GoldenInv` (a job that waits for dispositions has no golden report yet, so one
  gate's request cannot move a job at the other).

### People and settings: `AdministrationProofs`

- `SomebodyForAll` - `SomebodyAdministers`, from `PeopleInv`, which adds types,
  that requests and sessions name people there are, and that at most one person
  bootstrapped; that two administrators cannot demote each other needs nothing
  more, because the last administrator is counted inside the transaction;
- `SessionsTypesForAll` - sessions and requests name people there are;
- `SystemForAll` - `SystemScopeConsistent`, from `DependencyInv`: not only the
  present settings but those after every revision keep the dependency, since a
  rollback returns to one;
- `RevisionsForAll` - `RevisionsAreTrue`, from `ConfigInv`: versions of a scope
  rise with its revisions (`VersionInv`), the present is what the whole history
  says (`PresentInv`), a reviewed draft has the entries its reviewer saw
  (`DraftInv`), and a request that validated against the present version still
  says what it said (`RequestInv`);
- `ConfigTypesForAll` - types of drafts, revisions, requests and snapshots.

### Records: `RecordsProofs`

- `BackupsHoldForAll` - `BackupHoldsItsRecords`, `StoredForAll` -
  `IndexedIsStored`, from `BackupsInv`: a snapshot is taken before the walk, and
  objects are linked before they are indexed, so until the walk has come to the
  objects what the snapshot lists is on the disk, or is noted as lacking, because
  a walk that ended early or left a large file out says so in the model
  (`Walked`); a start with a marker writes the marker's objects before the
  controller runs, however often it is interrupted (`Restoring`), so a restored
  controller lacks no more than its backup;
- `ApprovedForAll` - `ApprovedIsImplemented`. `ApprovalInv` adds that the phase
  runs in its own state only (`PhaseInPlace`): otherwise a phase that began
  before the approval could write after it;
- `FitsForAll` - `ConfigurationFits`. `PacksInv` adds what requests under way
  carry: a review the configuration of its proposal's version, an edit one that
  fits the assignment as long as its revision is the expected one (`ReviewFits`,
  `EditFits`). Proposals are a sequence, and that a finite set of them can be
  listed is a lemma;
- `CollectedForAll` - `CollectedIsComplete`. The invariant `ForgeInv` says of
  every run and every request that the objects its promise still owes are stored,
  held by the request, or ahead of its cursor (`Covers`), and of a request also
  that they are ahead of the page it would leave as its cursor, which stays
  behind families that are passed over. New objects push others to later pages
  (`AddedStaysAhead`); a page of a smaller size starts no later than one of the
  full size (`PageIsCollected`), which is why only the next page is wrong then.

The types say more than domains where a bound or an identity is part of them:

- `PacksTypesForAll` - an installation has no more revisions than events, and a
  proposal is decided at most once (`LifecycleTypes`, `AssignmentTypes`);
- `ContractsTypesForAll` - that the versions of a contract are bounded needs
  `Tallies`: a contract has a version for each edit and each failure at most, and
  one for a locking phase that has not failed since. Only a failed phase can
  come back to write again;
- `BackupsTypesForAll` - archives stay within their number although the one being
  walked is not among them yet (`Room`);
- `ForgeTypesForAll` - a run stores no more than its limit, whichever page its
  request stops at (`LimitsHold`), it is partial exactly if its cursor names a
  page, and the forge lists an object once: what is added is numbered by its
  event, a number nothing else has (`Identities`, `EventsBound`).

### Execution: `ExecutionProofs`

- `SchedulerTypesForAll` - a decision selects and defers jobs of its request only,
  by either order of the queue;
- `SelectsForAll` - `SelectsBest`, for every queue and every running job. The
  queue is sorted by inserting its items one by one (`sortQueue`, a fold), and an
  insertion keeps what is in order in order (`InsertOrders`); that the fold
  has put every item in order follows by a smallest set of places where it has
  not (`SortOrders`). The code calls `sort.SliceStable`, and a stable sort by a
  strict weak order has one result, whatever algorithm computes it;
- `AnswersForAll` - `AnswersAgree`, from `ToldInv`: whoever was told something was
  told what is kept under the key; `WorkersTypesForAll` - types, where no save
  expects a revision above the present one and saves bound revisions (`SaverInv`);
- `ParsedForAll` - `ParsedIsAnswered`, which is inductive as it stands: a run is
  committed with the blobs it parsed, and pruning keeps what a run names;
  `CodeIndexTypesForAll` - a refresh stays within its snapshot, from how far it
  has read (`IndexInv`), and no run is of a day to come (`DaysInv`);
- `DifferentialsForAll` - `DifferentialsStayTrue`, from `EvidenceInv`: baselines
  are never changed, a job that implements has one, and a correction changes the
  reading of a comparison but not the comparison; `DifferentialsTypesForAll` -
  types, with `CorrectionsInv`: what is being corrected stays there;
- `TrustForAll` - `TrustFloorKept`,
  `RoutesTypesForAll` - types, from `RoutesInv`: a decision stays what the tables
  said that were read for it (`CallInv`, `granted`), and what is approved is a
  manifest (`LedgerInv`). The argument about the floor is by least elements: of
  the usable models before the chosen one there is a first;
- `LoadedForAll` - `LoadedIsServed`, `ModelsTypesForAll` - types, from
  `SupervisorInv`: the supervisor believes what it started last, whether or not
  the server still lives, and what the runtime measured is of the profile it
  names. That a failed load forgets the previous model is what the induction
  needs (`LoadFits`); of the jobs it needs that only `loadRole` leaves a loading
  phase for one that asks (`JobsGoOn`).

### Loops: `ProgressingProofs`

- `RunnerTypesForAll`, `RunAnswersForAll` - `AnswersThePacket`, from `RunnerInv`:
  while the backend waits the packet it built is the one under the key
  (`BackendInv`), the run of a packet is born in the version its key names
  (`RunsInv`), and what was accepted is still what its run, which has exited,
  published (`AcceptedInv`);
- `IndexForAll` - `IndexIsTrueOrOwed`, `MemoryTypesForAll` - types, from
  `MemoryInv`. The property is not inductive: the synchronizer decides what to
  write from the record it reads, and writes later, into an index that may have
  moved on. `IndexFollows` says that what it is about to write, and what it
  leaves when it is done, is true or is owed to another operation than its own,
  which either forgets or is of the present version; `VersionsBehind` that no
  operation is newer than its record, so every change brings an operation of its
  own instead of meeting one that is completed. A rebuild and a closed pull
  request change several records at once; of what they append only the records
  and the versions matter (`RecordsChange`);
- `OccurrencesForAll` - `OccurrencesRunOnce`, `AutomationTypesForAll` - types, from
  `AutomationInv`: a row on a screen is one the table had, and the present one as
  long as its version is (`EditingFits`). That what the dispatcher plans next is
  later than now is the arithmetic of a division (`FollowingIsLater`);
- `PollingTypesForAll` - types of the poll; what it read is of a job it still has
  to visit.

### Assumptions, and what is left to TLC

Besides the two hypotheses above (`ExclusiveLease` and `LeaseOutlivesBeat`), the
assumptions are the named ASSUMEs on constants, which TLC evaluates in every
run: that bounds are numbers, that the null values are none of the proper ones
(`BundleAssumption`, `RunnerAssumption`, `RegistryAssumption`), that the initial
tables and the edits of profiles are profiles (`RoutesAssumption`), that a forge
has at least one family, a page is no larger than a request, and an inventory
lists an object once, under a number that is none of those given to objects
added later (`ForgeAssumption`), that a snapshot is a list of files and not
empty (`CodeIndexAssumption`), that there are finitely many records
(`MemoryAssumption`), that queue items name known profiles
(`SchedulerAssumption`).

The type invariants are proved rather than run: every component has its theorem.
With TLC stays liveness: `JobsSettle`, `ForgottenLeavesIndex`,
`ClosedPullsReconciled`, `DueIsDispatched` and `WaitingEnds`, because the provers
cannot reason about fairness. TLC also refutes the six statements of the
documentation, for which one counterexample is enough.

## 6. Plan

Modelled, checked and proved: everything in section 2. What could follow:

1. Abstract specifications of the settings (a register per scope with a history)
   and of stored results (a map that only grows), with their refinements proved
   from the invariants above.
2. The log of scheduler decisions and the audit chain; context manifests and test
   impact of the code intelligence; the text form of timestamps.

## 7. Not modelled

Prompts, patches, sandboxes and the content of documents; they decide which
answer a phase gives, and every answer is allowed. SQLite errors other than
those a finished context causes: a failed transaction changes nothing and ends
the step like a conflict. The decision log of the scheduler, the audit chain and
other append-only records. Encryption, signatures, tokens and addresses. The
command line and web clients, which keep no state, and the evaluation, soak and
observability reports, which only read. The parts listed `not_modelled` or
`partly` in `PROJECT.json` say what is left out of each.
