---------------------------- MODULE ProjectMemory ----------------------------
(***************************************************************************)
(* What a project remembers, its semantic index and the pull requests that *)
(* decide about it: the records and the outbox of index operations         *)
(* (internal/storage/sqlite/memory.go, memory_index_queue.go), the one     *)
(* synchronizer that empties it (internal/memory/sync.go), retrieval       *)
(* (internal/api/memory.go), and what the webhooks and the poll of a closed *)
(* pull request decide about it (github.go).                               *)
(*                                                                         *)
(* People name the version of the record they saw.  A handler reads the    *)
(* record and then writes it where the version is still that one, so what  *)
(* it read was that version too: one action each.                          *)
(***************************************************************************)
EXTENDS Naturals, Sequences, FiniteSets

CONSTANTS
  Records,      \* record IDs, one project
  Cases,        \* those extracted from the final report of the published job
  MaxChanges,   \* bound on the version at which people still change a record
  MaxFaults,    \* bound on failed calls and crashes together
  MaxCloses,    \* bound on how often the pull request is closed
  MaxRebuilds   \* bound on rebuilds of the index

ASSUME MemoryAssumption ==
  /\ IsFiniteSet(Records) /\ Cases \subseteq Records
  /\ {MaxChanges, MaxFaults, MaxCloses, MaxRebuilds} \subseteq Nat

VARIABLES
  record,     \* the table of records
  outbox,     \* index operations, in the order of their sequence number
  worker,     \* the operation the synchronizer works on, and how far it is
  index,      \* index[r]: the text the external index holds of r, or Nothing
  served,     \* what the last retrieval selected
  pull,       \* the pull request at the forge, and how often it was closed
  hooks,      \* webhooks that were sent: they arrive late, twice or never
  delivered,  \* the deliveries that were recorded
  faults, rebuilds

memoryVars ==
  <<record, outbox, worker, index, served, pull, hooks, delivered, faults, rebuilds>>

Nothing == 0

Record ==
  [status : {"absent", "quarantine", "canonical", "stale", "deleted"},
   version : Nat, text : Nat, verified : BOOLEAN, merged : BOOLEAN]

Operation ==
  [record : Records, action : {"upsert", "forget"}, version : Nat,
   state : {"pending", "running", "failed", "completed"}, ready : BOOLEAN]

Idle == [op |-> 0, step |-> "idle", text |-> Nothing]

MemoryTypeOK ==
  /\ record \in [Records -> Record]
  /\ outbox \in Seq(Operation)
  /\ worker.op \in 0 .. Len(outbox)
  /\ worker.step \in {"idle", "claimed", "upsert", "forget", "done", "failed"}
  /\ worker.step = "idle" <=> worker.op = 0
  /\ index \in [Records -> Nat]
  /\ served \subseteq Records
  /\ pull \in [state : {"open", "merged", "rejected"}, closes : Nat]
  /\ \A i, j \in DOMAIN outbox :
       i # j => \/ outbox[i].record # outbox[j].record \/ outbox[i].action # outbox[j].action
                \/ outbox[i].version # outbox[j].version

MemoryInit ==
  /\ record = [r \in Records |-> [status |-> "absent", version |-> 0, text |-> 0,
                                  verified |-> FALSE, merged |-> FALSE]]
  /\ outbox = <<>>
  /\ worker = Idle
  /\ index = [r \in Records |-> Nothing]
  /\ served = {}
  /\ pull = [state |-> "open", closes |-> 0]
  /\ hooks = {} /\ delivered = {}
  /\ faults = 0 /\ rebuilds = 0

-----------------------------------------------------------------------------
(* Records *)

operation(r, action, version) ==
  [record |-> r, action |-> action, version |-> version, state |-> "pending", ready |-> TRUE]

queued(r, action, version) ==
  {i \in DOMAIN outbox : /\ outbox[i].record = r /\ outbox[i].action = action
                         /\ outbox[i].version = version}

enqueue(r, action, version) ==
  outbox' = IF queued(r, action, version) = {}
            THEN Append(outbox, operation(r, action, version)) ELSE outbox

changed(r, to) == record' = [record EXCEPT ![r] = [to EXCEPT !.version = @ + 1]]

unchangedElsewhere == UNCHANGED <<worker, index, served, pull, hooks, delivered, faults, rebuilds>>

(* A lesson or an extraction: always quarantined.                           *)
PutCandidate(r) ==
  /\ record[r].status = "absent"
  /\ record' = [record EXCEPT ![r].status = "quarantine", ![r].version = 1, ![r].text = 1]
  /\ UNCHANGED outbox /\ unchangedElsewhere

(* A restored export: whatever it was, it is quarantined again, all of it   *)
(* or nothing; content that is still there is skipped.                      *)
RestoreProjectMemory ==
  \E R \in SUBSET {r \in Records : record[r].status = "absent"} :
    /\ R # {}
    /\ record' = [r \in Records |-> IF r \in R
         THEN [record[r] EXCEPT !.status = "quarantine", !.version = 1, !.text = 1]
         ELSE record[r]]
    /\ UNCHANGED outbox /\ unchangedElsewhere

CorrectMemory(r) ==
  /\ record[r].status \notin {"absent", "deleted"} /\ record[r].version < MaxChanges
  /\ changed(r, [record[r] EXCEPT !.status = "quarantine", !.verified = FALSE, !.text = @ + 1])
  /\ \/ record[r].status = "canonical" /\ enqueue(r, "forget", record[r].version + 1)
     \/ record[r].status # "canonical" /\ UNCHANGED outbox
  /\ unchangedElsewhere

VerifyMemory(r) ==
  /\ record[r].status = "quarantine" /\ record[r].version < MaxChanges
  /\ changed(r, [record[r] EXCEPT !.verified = TRUE])
  /\ UNCHANGED outbox /\ unchangedElsewhere

eligible(r, basis) ==
  \/ basis = "deterministic_verification" /\ record[r].verified
  \/ basis \in {"merged_pr", "human_approval"}

PromoteMemory(r) ==
  \E basis \in {"deterministic_verification", "merged_pr", "human_approval"} :
    /\ record[r].status = "quarantine" /\ record[r].version < MaxChanges /\ eligible(r, basis)
    /\ changed(r, [record[r] EXCEPT !.status = "canonical", !.merged = basis = "merged_pr"])
    /\ enqueue(r, "upsert", record[r].version + 1)
    /\ unchangedElsewhere

InvalidateMemory(r) ==
  /\ record[r].status \in {"quarantine", "canonical"} /\ record[r].version < MaxChanges
  /\ changed(r, [record[r] EXCEPT !.status = "stale"])
  /\ enqueue(r, "forget", record[r].version + 1)
  /\ unchangedElsewhere

DeleteMemory(r) ==
  /\ record[r].status \notin {"absent", "deleted"} /\ record[r].version < MaxChanges
  /\ changed(r, [record[r] EXCEPT !.status = "deleted"])
  /\ enqueue(r, "forget", record[r].version + 1)
  /\ unchangedElsewhere

(* Every canonical record is written again, also where the operation of its *)
(* version was completed, or is being worked on.                            *)
Rebuild ==
  LET C == {r \in Records : record[r].status = "canonical"}
      again == [i \in DOMAIN outbox |->
        IF \E r \in C : i \in queued(r, "upsert", record[r].version)
        THEN operation(outbox[i].record, "upsert", outbox[i].version) ELSE outbox[i]]
  IN /\ rebuilds < MaxRebuilds /\ C # {} /\ rebuilds' = rebuilds + 1
     /\ \A r \in C : queued(r, "upsert", record[r].version) # {}
     /\ outbox' = again
     /\ UNCHANGED <<record, worker, index, served, pull, hooks, delivered, faults>>

-----------------------------------------------------------------------------
(* The synchronizer *)

onlyWorker == UNCHANGED <<record, served, pull, hooks, delivered, rebuilds>>

claimable == {i \in DOMAIN outbox : outbox[i].state # "completed" /\ outbox[i].ready}

ClaimMemoryIndexOperation ==
  /\ worker.step = "idle" /\ claimable # {}
  /\ LET i == CHOOSE i \in claimable : \A j \in claimable : i <= j IN
     /\ outbox' = [outbox EXCEPT ![i].state = "running", ![i].ready = FALSE]
     /\ worker' = [Idle EXCEPT !.op = i, !.step = "claimed"]
  /\ UNCHANGED <<index, faults>> /\ onlyWorker

(* Mutant of wanted: the record is written whatever became of it.           *)
wantedAnyway(op) == record[op.record].status # "deleted"

wanted(op) ==
  record[op.record].version = op.version /\ record[op.record].status = "canonical"

Decide ==
  /\ worker.step = "claimed"
  /\ LET op == outbox[worker.op] IN
     worker' = [worker EXCEPT
       !.step = CASE op.action = "forget" -> "forget"
                  [] op.action = "upsert" /\ wanted(op) -> "upsert"
                  [] OTHER -> "done",
       !.text = record[op.record].text]
  /\ UNCHANGED <<outbox, index, faults>> /\ onlyWorker

written == [index EXCEPT ![outbox[worker.op].record] =
              IF worker.step = "upsert" THEN worker.text ELSE Nothing]

Write ==
  /\ worker.step \in {"upsert", "forget"}
  /\ index' = written
  /\ worker' = [worker EXCEPT !.step = "done"]
  /\ UNCHANGED <<outbox, faults>> /\ onlyWorker

(* A call that fails may have been carried out.                             *)
WriteFails ==
  /\ worker.step \in {"upsert", "forget"} /\ faults < MaxFaults
  /\ faults' = faults + 1
  /\ index' \in {index, written}
  /\ worker' = [worker EXCEPT !.step = "failed"]
  /\ UNCHANGED outbox /\ onlyWorker

finished == Idle

(* A rebuild may have put the operation back meanwhile: then the answer is  *)
(* refused, and it is done again.                                           *)
CompleteMemoryIndexOperation ==
  /\ worker.step = "done"
  /\ outbox' = IF outbox[worker.op].state = "running"
               THEN [outbox EXCEPT ![worker.op].state = "completed"] ELSE outbox
  /\ worker' = finished
  /\ UNCHANGED <<index, faults>> /\ onlyWorker

FailMemoryIndexOperation ==
  /\ worker.step = "failed"
  /\ outbox' = IF outbox[worker.op].state = "running"
               THEN [outbox EXCEPT ![worker.op].state = "failed"] ELSE outbox
  /\ worker' = finished
  /\ UNCHANGED <<index, faults>> /\ onlyWorker

(* The delay of a failed operation ends, or the lease of one whose          *)
(* controller died.                                                         *)
Elapse(i) ==
  /\ i \in DOMAIN outbox /\ worker.op # i /\ ~outbox[i].ready
  /\ outbox[i].state \in {"failed", "running"}
  /\ outbox' = [outbox EXCEPT ![i].ready = TRUE]
  /\ UNCHANGED <<worker, index, faults>> /\ onlyWorker

Crash ==
  /\ worker.step # "idle" /\ faults < MaxFaults
  /\ faults' = faults + 1
  /\ index' \in {index, IF worker.step \in {"upsert", "forget"} THEN written ELSE index}
  /\ worker' = Idle
  /\ UNCHANGED outbox /\ onlyWorker

-----------------------------------------------------------------------------
(* Retrieval: the index proposes, the table decides. *)

retrievable(r) == record[r].status = "canonical"

Retrieve ==
  /\ served' = {r \in Records : index[r] # Nothing /\ retrievable(r)}
  /\ UNCHANGED <<record, outbox, worker, index, pull, hooks, delivered, faults, rebuilds>>

-----------------------------------------------------------------------------
(* The pull request *)

Close ==
  \E outcome \in {"merged", "rejected"} :
    /\ pull.state = "open" /\ pull.closes < MaxCloses
    /\ pull' = [state |-> outcome, closes |-> pull.closes + 1]
    /\ hooks' = hooks \union {[via |-> "webhook", number |-> pull'.closes, outcome |-> outcome]}
    /\ UNCHANGED <<record, outbox, worker, index, served, delivered, faults, rebuilds>>

Reopen ==
  /\ pull.state = "rejected" /\ pull.closes < MaxCloses
  /\ pull' = [pull EXCEPT !.state = "open"]
  /\ UNCHANGED <<record, outbox, worker, index, served, hooks, delivered, faults, rebuilds>>

decides(r, outcome) ==
  /\ record[r].status \in {"quarantine", "canonical"}
  /\ ~(outcome = "merged" /\ record[r].status = "canonical" /\ record[r].merged)

outcomeOf(r, outcome) ==
  IF outcome = "merged"
  THEN [record[r] EXCEPT !.status = "canonical", !.merged = TRUE, !.version = @ + 1]
  ELSE [record[r] EXCEPT !.status = "stale", !.version = @ + 1]

(* An outcome of a canonical record that stays canonical, or of one that    *)
(* becomes it, is written to the index; one that stops being is forgotten.  *)
outcomeOperations(R, outcome) ==
  IF outcome = "merged" THEN {operation(r, "upsert", record[r].version + 1) : r \in R}
  ELSE {operation(r, "forget", record[r].version + 1) :
          r \in {q \in R : record[q].status = "canonical"}}

ApplyGitHubPullRequestEvent(event) ==
  LET outcome == event.outcome  R == {r \in Cases : decides(r, outcome)} IN
  /\ event \notin delivered
  /\ record' = [r \in Records |-> IF r \in R THEN outcomeOf(r, outcome) ELSE record[r]]
  /\ \E s \in [1 .. Cardinality(outcomeOperations(R, outcome)) -> outcomeOperations(R, outcome)] :
       /\ \A i, j \in DOMAIN s : i # j => s[i] # s[j]
       /\ outbox' = outbox \o s
  /\ delivered' = delivered \union {event}
  /\ UNCHANGED <<worker, index, served, pull, hooks, faults, rebuilds>>

(* A webhook stays with the forge, which may deliver it again: the ID makes *)
(* the second time a replay.                                                *)
Webhook == \E h \in hooks : ApplyGitHubPullRequestEvent(h)

(* The poll names the event after a hash of what it read, so the next one   *)
(* is a replay unless the pull request changed.                             *)
polled(outcome) == [via |-> "poll", number |-> 0, outcome |-> outcome]

(* The poll of this pull request succeeds, with what it read when the pull  *)
(* request was closed.  When it does is PullPolling's matter.               *)
Poll == \E h \in hooks : ApplyGitHubPullRequestEvent(polled(h.outcome))

-----------------------------------------------------------------------------
SynchronizerStep ==
  \/ ClaimMemoryIndexOperation \/ Decide
  \/ CompleteMemoryIndexOperation \/ FailMemoryIndexOperation

MemoryNext ==
  \/ \E r \in Records :
       \/ PutCandidate(r) \/ CorrectMemory(r) \/ VerifyMemory(r) \/ PromoteMemory(r)
       \/ InvalidateMemory(r) \/ DeleteMemory(r)
  \/ RestoreProjectMemory \/ Rebuild \/ Retrieve
  \/ SynchronizerStep \/ Write \/ WriteFails \/ Crash
  \/ \E i \in DOMAIN outbox : Elapse(i)
  \/ Close \/ Reopen \/ Webhook \/ Poll

(* The synchronizer is a loop of a running controller; the clock advances;  *)
(* a call that is tried often enough succeeds (faults are bounded).         *)
(* People, the forge, its webhooks and the poll promise nothing.            *)
MemoryFairness ==
  /\ WF_memoryVars(SynchronizerStep) /\ WF_memoryVars(Write)
  /\ WF_memoryVars(\E i \in DOMAIN outbox : Elapse(i))

MemorySpec == MemoryInit /\ [][MemoryNext]_memoryVars /\ MemoryFairness

-----------------------------------------------------------------------------
(* What the index holds of a record is the text of the record, which is     *)
(* canonical, or an operation of the record is still owed: a correction, a  *)
(* decision about the pull request or a deletion leaves nothing behind that *)
(* nobody will look at again (sync.go, memory_index_queue.go).              *)
IndexIsTrueOrOwed ==
  \A r \in Records : index[r] # Nothing =>
    \/ record[r].status = "canonical" /\ index[r] = record[r].text
    \/ \E i \in DOMAIN outbox : outbox[i].record = r /\ outbox[i].state # "completed"

(* What was invalidated or deleted leaves the index, whatever operation of  *)
(* it was under way, failed or was interrupted (sync.go re-reads the record *)
(* before it writes).                                                       *)
ForgottenLeavesIndex ==
  \A r \in Records :
    record[r].status \in {"stale", "deleted"} ~>
      (index[r] = Nothing \/ record[r].status \notin {"stale", "deleted"})

=============================================================================
