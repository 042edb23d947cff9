------------------------------- MODULE CodeIndex -------------------------------
(***************************************************************************)
(* The derived index of a project's source: analyses of blobs, the runs    *)
(* that name them file by file, and the registrations of the parse cache   *)
(* (internal/intelligence/service.go, internal/storage/sqlite/             *)
(* intelligence.go, internal/api/intelligence.go).                         *)
(*                                                                         *)
(* Index looks every blob up on its own, analyses those that are not there, *)
(* commits, registers every file and prunes: five kinds of transactions, in *)
(* which a refresh of an operator, one of a job, rebuilds and purges meet.  *)
(*                                                                         *)
(* One project, one parser; every object has size one; the files of a      *)
(* snapshot are of one language.                                           *)
(***************************************************************************)
EXTENDS Naturals, Sequences, FiniteSets

CONSTANTS
  Indexers,    \* refreshes that may run at the same time: jobs and operators
  Snapshots,   \* sequences of [path, blob]: what a refresh may find
  Bare,        \* blobs without symbols or imports: their analysis names no path
  Retentions,  \* days kept, by the configuration of the project or of a job
  Quotas,      \* likewise: registrations allowed
  MaxDay,      \* bound on the time that passes
  MaxIndexes,  \* bound on refreshes
  MaxIndexRebuilds  \* bound on rebuilds and purges

SourceFile == [path : STRING, blob : STRING]

ASSUME CodeIndexAssumption ==
  /\ {MaxDay, MaxIndexes, MaxIndexRebuilds} \subseteq Nat
  /\ Retentions \union Quotas \subseteq Nat \ {0}
  /\ Snapshots \subseteq Seq(SourceFile) \ {<<>>}

VARIABLES
  blobs,     \* code_intel_blobs: the analysis kept of a blob
  indexRuns, \* code_intel_runs with their files, each with the day it completed
  caches,    \* cache_entries: what is registered under the key of a blob
  index,     \* index[i]: a refresh under way
  day, indexes, rebuilds

codeIndexVars == <<blobs, indexRuns, caches, index, day, indexes, rebuilds>>

NoRefresh == [step |-> "idle"]

CodeIndexTypeOK ==
  /\ \A i \in Indexers :
       index[i] # NoRefresh =>
         /\ index[i].step \in {"reading", "commit", "register", "prune"}
         /\ Len(index[i].done) <= Len(index[i].files)
         /\ index[i].next \in 1 .. Len(index[i].files) + 1
  /\ \A run \in indexRuns : run.day \in 0 .. day
  /\ day \in 0 .. MaxDay /\ indexes \in 0 .. MaxIndexes /\ rebuilds \in 0 .. MaxIndexRebuilds

CodeIndexInit ==
  /\ blobs = [b \in {} |-> 0] /\ caches = [b \in {} |-> 0]
  /\ indexRuns = {}
  /\ index = [i \in Indexers |-> NoRefresh]
  /\ day = 0 /\ indexes = 0 /\ rebuilds = 0

-----------------------------------------------------------------------------
(* What the analyzer says of a file: symbols and imports carry its path.    *)
(* The service may be away, or its answer refused: that is an analysis too. *)
analyses(file) ==
  {[says |-> IF file.blob \in Bare THEN "nothing" ELSE file.path, failed |-> FALSE],
   [says |-> "nothing", failed |-> TRUE]}

move(i, to) == index' = [index EXCEPT ![i] = to]

onlyIndex == UNCHANGED <<blobs, indexRuns, caches, day, indexes, rebuilds>>

StartIndex(i) ==
  /\ index[i] = NoRefresh /\ indexes < MaxIndexes
  /\ \E files \in Snapshots, retention \in Retentions, quota \in Quotas :
       move(i, [step |-> "reading", files |-> files, done |-> <<>>, cancelled |-> FALSE,
                retention |-> retention, quota |-> quota, next |-> 1])
  /\ indexes' = indexes + 1
  /\ UNCHANGED <<blobs, indexRuns, caches, day, rebuilds>>

(* One file: its blob is looked up, and analysed when it is not there.      *)
ReadFile(i) ==
  LET r == index[i]  k == Len(r.done) + 1  b == r.files[k].blob
      found == b \in DOMAIN blobs
  IN
  /\ r.step = "reading" /\ k <= Len(r.files)
  /\ \E a \in IF found THEN {blobs[b]} ELSE analyses(r.files[k]) :
       move(i, [r EXCEPT !.done = Append(@, [says |-> a.says, failed |-> a.failed, reused |-> found])])
  /\ onlyIndex

(* A refresh that is cancelled keeps what it has read, if that is anything. *)
StopIndexing(i) ==
  LET r == index[i]  n == Len(r.done) IN
  /\ r.step = "reading"
  /\ n = Len(r.files) \/ n > 0
  /\ move(i, [r EXCEPT !.step = "commit", !.files = SubSeq(@, 1, n), !.cancelled = n < Len(r.files)])
  /\ onlyIndex

(* The caller goes away, a statement fails, the controller dies.            *)
Abort(i) == index[i].step # "idle" /\ move(i, NoRefresh) /\ onlyIndex

fileOf(r, k) ==
  [path |-> r.files[k].path, blob |-> r.files[k].blob, reused |-> r.done[k].reused,
   failed |-> r.done[k].failed]

inserted(r) ==
  LET new == {r.files[k].blob : k \in {k \in DOMAIN r.done : ~r.done[k].reused}}
      first(b) == CHOOSE k \in DOMAIN r.done :
                    /\ r.files[k].blob = b /\ ~r.done[k].reused
                    /\ \A j \in 1 .. k - 1 : r.files[j].blob = b => r.done[j].reused
  IN [b \in DOMAIN blobs \union new |->
        IF b \in DOMAIN blobs THEN blobs[b]
        ELSE [says |-> r.done[first(b)].says, failed |-> r.done[first(b)].failed]]

(* One transaction; an analysis that came in the meantime stays.            *)
CommitIndex(i) ==
  LET r == index[i] IN
  /\ r.step = "commit"
  /\ blobs' = inserted(r)
  /\ indexRuns' = indexRuns \union
       {[day |-> day, files |-> {fileOf(r, k) : k \in DOMAIN r.done},
         state |-> IF r.cancelled THEN "cancelled"
                   ELSE IF \E k \in DOMAIN r.done : r.done[k].failed THEN "partial" ELSE "complete"]}
  /\ move(i, [r EXCEPT !.step = "register"])
  /\ UNCHANGED <<caches, day, indexes, rebuilds>>

object(a) == [says |-> a.says, failed |-> a.failed]

(* A key that is taken by another object, or a full cache, ends the refresh *)
(* with an error, after its commit.                                         *)
Register(i) ==
  LET r == index[i]  b == r.files[r.next].blob  o == object(r.done[r.next])
      fits == Cardinality(DOMAIN caches \ {b}) + 1 <= r.quota
      same == b \in DOMAIN caches => caches[b].object = o
  IN
  /\ r.step = "register" /\ r.next <= Len(r.files)
  /\ \/ /\ fits /\ same
        /\ caches' = [c \in DOMAIN caches \union {b} |->
                        IF c = b THEN [object |-> o, expires |-> day + r.retention] ELSE caches[c]]
        /\ move(i, [r EXCEPT !.next = @ + 1])
     \/ ~(fits /\ same) /\ move(i, NoRefresh) /\ UNCHANGED caches
  /\ UNCHANGED <<blobs, indexRuns, day, indexes, rebuilds>>

FinishRegister(i) ==
  LET r == index[i] IN
  /\ r.step = "register" /\ r.next > Len(r.files)
  /\ move(i, IF r.cancelled THEN NoRefresh ELSE [r EXCEPT !.step = "prune"])
  /\ onlyIndex

referenced(runs) == {f.blob : f \in UNION {run.files : run \in runs}}

newest == {run \in indexRuns : \A other \in indexRuns : other.day <= run.day}

(* Mutant of keptBlobs: what the newest runs name.                          *)
keptBlobsNewest(runs) == DOMAIN blobs \intersect referenced(runs \intersect newest)

keptBlobs(runs) == DOMAIN blobs \intersect referenced(runs)

(* Old runs but the newest, blobs no run names, registrations that expired. *)
(* A run takes its time before its transaction begins: which one of a day   *)
(* is the newest is not known.                                              *)
PruneIntelligence(i) ==
  LET r == index[i]
      young == {run \in indexRuns : run.day + r.retention >= day}
  IN
  /\ r.step = "prune"
  /\ \E runs \in IF indexRuns = {} THEN {{}} ELSE {young \union {last} : last \in newest} :
       /\ indexRuns' = runs
       /\ blobs' = [b \in keptBlobs(runs) |-> blobs[b]]
  /\ caches' = [b \in {b \in DOMAIN caches : caches[b].expires >= day} |-> caches[b]]
  /\ move(i, NoRefresh)
  /\ UNCHANGED <<day, indexes, rebuilds>>

RebuildIntelligence ==
  /\ rebuilds < MaxIndexRebuilds /\ rebuilds' = rebuilds + 1
  /\ blobs' = [b \in {} |-> 0] /\ caches' = [b \in {} |-> 0] /\ indexRuns' = {}
  /\ UNCHANGED <<index, day, indexes>>

PurgeCacheEntries ==
  /\ rebuilds < MaxIndexRebuilds /\ rebuilds' = rebuilds + 1
  /\ caches' = [b \in {} |-> 0]
  /\ UNCHANGED <<blobs, indexRuns, index, day, indexes>>

NextDay ==
  /\ day < MaxDay /\ day' = day + 1
  /\ UNCHANGED <<blobs, indexRuns, caches, index, indexes, rebuilds>>

CodeIndexNext ==
  \/ \E i \in Indexers :
       \/ StartIndex(i) \/ ReadFile(i) \/ StopIndexing(i) \/ Abort(i) \/ CommitIndex(i)
       \/ Register(i) \/ FinishRegister(i) \/ PruneIntelligence(i)
  \/ RebuildIntelligence \/ PurgeCacheEntries \/ NextDay

CodeIndexSpec == CodeIndexInit /\ [][CodeIndexNext]_codeIndexVars

-----------------------------------------------------------------------------
(* The rows a query of a run joins. *)
QueryIntelligence(run) == {f \in run.files : f.blob \in DOMAIN blobs}

(* Every file a run parsed itself can be answered for as long as the run is  *)
(* kept, whatever other refreshes prune and administrators rebuild.          *)
ParsedIsAnswered ==
  \A run \in indexRuns : {f \in run.files : ~f.reused} \subseteq QueryIntelligence(run)

=============================================================================
