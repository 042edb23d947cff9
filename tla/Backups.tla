------------------------------- MODULE Backups -------------------------------
(***************************************************************************)
(* The artifact store, backups and restores (internal/artifacts/store.go,  *)
(* internal/backup/manager.go, the start of cmd/controller/main.go).       *)
(*                                                                         *)
(* An artifact is written under tmp/, linked under objects/ and indexed in  *)
(* the database.  A backup is a snapshot of the database and then a walk    *)
(* over the files, while the controller and the workers go on working.  A   *)
(* restore is staged as a marker file and applied by the next start, file   *)
(* by file, before the database is opened; the controller may die at any    *)
(* point.                                                                  *)
(*                                                                         *)
(* A backup may lack what its database names: a file above the size policy  *)
(* is left out, and a file of a worker that vanishes under the walk ends it *)
(* before the objects.  What a backup lacks for one of these reasons is     *)
(* noted with it, for the property only.                                   *)
(*                                                                         *)
(* Of the database the model keeps which artifacts it has indexed.  Left    *)
(* out: encryption, mirrors and the memory index (walked and restored the   *)
(* way artifacts are).                                                     *)
(***************************************************************************)
EXTENDS Naturals, Sequences, FiniteSets

CONSTANTS
  Artifacts,     \* artifacts, by digest
  Large,         \* those that are larger than a backup takes a file
  MaxArchives,   \* bound on backups kept
  MaxMishaps     \* bound on crashes, lost disks and damaged backups

ASSUME BackupsAssumption ==
  /\ {MaxArchives, MaxMishaps} \subseteq Nat
  /\ "no file" \notin Artifacts /\ Large \subseteq Artifacts

VARIABLES
  process,       \* "running", "down", or the step of the start it is at
  database,      \* the main file of the database, or NoFile
  log,           \* the write-ahead log: what is committed, or NoFile
  objects, temps,\* artifacts/objects/ and artifacts/tmp/
  putting,       \* the artifacts being stored, with the step each is at
  maker,         \* Create, as far as it got
  archives,      \* the published backups
  marker,        \* restore-pending.json, or NoArchive
  left,          \* the objects of the marker the start has still to write
  lacking,       \* what the backup restored last is known to have left out
  mishaps

backupsVars == <<process, database, log, objects, temps, putting, maker,
                 archives, marker, left, lacking, mishaps>>

NoFile == {"no file"}
NoArchive == [intact |-> FALSE]
Nobody == [step |-> "idle"]

Archive ==
  [records : SUBSET Artifacts, objects : SUBSET Artifacts, lacking : SUBSET Artifacts,
   intact : BOOLEAN]

BackupsTypeOK ==
  /\ process \in {"running", "down", "moving", "clearing", "writing", "copying"}
  /\ {database, log} \subseteq (SUBSET Artifacts) \union {NoFile}
  /\ objects \subseteq Artifacts /\ temps \subseteq Artifacts
  /\ DOMAIN putting \subseteq Artifacts
  /\ maker.step \in {"idle", "walking"}
  /\ archives \subseteq Archive /\ Cardinality(archives) <= MaxArchives
  /\ marker \in Archive \union {NoArchive}
  /\ left \subseteq Artifacts /\ lacking \subseteq Artifacts
  /\ mishaps \in 0 .. MaxMishaps

BackupsInit ==
  /\ process = "running" /\ database = {} /\ log = NoFile
  /\ objects = {} /\ temps = {} /\ putting = [a \in {} |-> "none"]
  /\ maker = Nobody /\ archives = {} /\ marker = NoArchive /\ left = {}
  /\ lacking = {} /\ mishaps = 0

(* What the database answers: its log is read over its file.               *)
committed == IF log # NoFile THEN log ELSE database

running == process = "running"

diskUnchanged == UNCHANGED <<database, log, objects, temps, archives, marker, lacking>>

-----------------------------------------------------------------------------
(* Put: temporary file, link, index, and the temporary file goes last.      *)

reach(a, step) == [b \in DOMAIN putting \union {a} |-> IF b = a THEN step ELSE putting[b]]
gone(a) == [b \in DOMAIN putting \ {a} |-> putting[b]]

WriteTemporary(a) ==
  /\ running /\ a \notin DOMAIN putting
  /\ temps' = temps \union {a} /\ putting' = reach(a, "written")
  /\ UNCHANGED <<process, database, log, objects, maker, archives, marker, left, lacking, mishaps>>

LinkObject(a) ==
  /\ running /\ a \in DOMAIN putting /\ putting[a] = "written"
  /\ objects' = objects \union {a} /\ lacking' = lacking \ {a}
  /\ putting' = reach(a, "linked")
  /\ UNCHANGED <<process, database, log, temps, maker, archives, marker, left, mishaps>>

(* Mutant of IndexArtifact: the row does not wait for the link.             *)
IndexArtifactEarly(a) ==
  /\ running /\ a \in DOMAIN putting /\ putting[a] # "indexed"
  /\ log' = committed \union {a} /\ putting' = reach(a, "indexed")
  /\ UNCHANGED <<process, database, objects, temps, maker, archives, marker, left, lacking, mishaps>>

IndexArtifact(a) ==
  /\ running /\ a \in DOMAIN putting /\ putting[a] = "linked"
  /\ log' = committed \union {a} /\ putting' = reach(a, "indexed")
  /\ UNCHANGED <<process, database, objects, temps, maker, archives, marker, left, lacking, mishaps>>

(* The deferred removal: after success, and after a failure at any step.    *)
RemoveTemporary(a) ==
  /\ running /\ a \in DOMAIN putting
  /\ temps' = temps \ {a} /\ putting' = gone(a)
  /\ UNCHANGED <<process, database, log, objects, maker, archives, marker, left, lacking, mishaps>>

Checkpoint ==
  /\ running /\ log # NoFile
  /\ database' = log /\ log' = NoFile
  /\ UNCHANGED <<process, objects, temps, putting, maker, archives, marker, left, lacking, mishaps>>

-----------------------------------------------------------------------------
(* Create *)

(* Mutant of walkOrder: temporary files before the objects.                 *)
walkOrderTemporaries == <<"workers", "tmp", "objects">>

(* WalkDir goes through a directory in the order of the names: inputs/ and  *)
(* the directory of each job, in which its workers write, sort before       *)
(* objects/.                                                               *)
walkOrder == <<"workers", "objects", "tmp">>

Snapshot ==
  /\ running /\ maker = Nobody /\ Cardinality(archives) < MaxArchives
  /\ maker' = [step |-> "walking", todo |-> walkOrder, present |-> objects,
               bundle |-> [records |-> committed, objects |-> {}, lacking |-> lacking,
                           intact |-> TRUE]]
  /\ diskUnchanged /\ UNCHANGED <<process, putting, left, mishaps>>

walking(place) == running /\ maker # Nobody /\ maker.todo # <<>> /\ Head(maker.todo) = place

(* A file that vanishes before it is read ends the walk of all artifacts,   *)
(* and nothing reports it.  A worker of a job writes the manifest of its    *)
(* results under another name, which it then removes.                      *)
WalkWorkers ==
  /\ walking("workers")
  /\ \/ maker' = [maker EXCEPT !.todo = Tail(@)]
     \/ maker' = [maker EXCEPT !.todo = <<>>, !.bundle.lacking = maker.bundle.records]
  /\ diskUnchanged /\ UNCHANGED <<process, putting, left, mishaps>>

(* An object linked since the walk began may be missed; one that is too     *)
(* large is left out.                                                      *)
WalkObjects ==
  /\ walking("objects")
  /\ \E missed \in SUBSET (objects \ maker.present) :
       maker' = [maker EXCEPT !.todo = Tail(@),
                              !.bundle.objects = (objects \ missed) \ Large,
                              !.bundle.lacking = @ \union (Large \intersect maker.bundle.records)]
  /\ diskUnchanged /\ UNCHANGED <<process, putting, left, mishaps>>

WalkTemporaries ==
  /\ walking("tmp")
  /\ \/ maker' = [maker EXCEPT !.todo = Tail(@)]
     \/ temps # {} /\ maker' = [maker EXCEPT !.todo = <<>>]
  /\ diskUnchanged /\ UNCHANGED <<process, putting, left, mishaps>>

Publish ==
  /\ running /\ maker # Nobody /\ maker.todo = <<>>
  /\ archives' = archives \union {maker.bundle} /\ maker' = Nobody
  /\ UNCHANGED <<process, database, log, objects, temps, putting, marker, left, lacking, mishaps>>

(* A write fails, or the bundle is over its bound.                          *)
CreateFails ==
  /\ running /\ maker # Nobody /\ maker' = Nobody
  /\ diskUnchanged /\ UNCHANGED <<process, putting, left, mishaps>>

-----------------------------------------------------------------------------
(* StageRestore, and ApplyPending at the start                              *)

validBundle(bundle) == bundle.intact

StageRestore(bundle) ==
  /\ running /\ validBundle(bundle)
  /\ marker' = bundle
  /\ UNCHANGED <<process, database, log, objects, temps, putting, maker, archives,
                 left, lacking, mishaps>>

OpenDatabase ==
  /\ process = "down" /\ marker = NoArchive
  /\ process' = "running"
  /\ database' = IF database = NoFile THEN {} ELSE database
  /\ UNCHANGED <<log, objects, temps, putting, maker, archives, marker, left, lacking, mishaps>>

BeginApply ==
  /\ process = "down" /\ marker # NoArchive /\ validBundle(marker)
  /\ process' = "moving" /\ left' = marker.objects
  /\ diskUnchanged /\ UNCHANGED <<putting, maker, mishaps>>

(* The old database is kept under another name, which nothing reads.        *)
MoveDatabase ==
  /\ process = "moving" /\ process' = "clearing" /\ database' = NoFile
  /\ UNCHANGED <<log, objects, temps, putting, maker, archives, marker, left, lacking, mishaps>>

RemoveLog ==
  /\ process = "clearing" /\ process' = "writing" /\ log' = NoFile
  /\ UNCHANGED <<database, objects, temps, putting, maker, archives, marker, left, lacking, mishaps>>

WriteDatabase ==
  /\ process = "writing" /\ process' = "copying" /\ database' = marker.records
  /\ UNCHANGED <<log, objects, temps, putting, maker, archives, marker, left, lacking, mishaps>>

WriteObject(a) ==
  /\ process = "copying" /\ a \in left
  /\ objects' = objects \union {a} /\ left' = left \ {a}
  /\ UNCHANGED <<process, database, log, temps, putting, maker, archives, marker, lacking, mishaps>>

(* The marker goes last, and the database is opened.                        *)
RemoveMarker ==
  /\ process = "copying" /\ left = {}
  /\ process' = "down" /\ marker' = NoArchive /\ lacking' = marker.lacking \ objects
  /\ UNCHANGED <<database, log, objects, temps, putting, maker, archives, left, mishaps>>

-----------------------------------------------------------------------------
(* The machine *)

forgotten == putting' = [a \in {} |-> "none"] /\ maker' = Nobody /\ left' = {}

(* A regular stop closes the database, which empties its log.               *)
StopController ==
  /\ running /\ process' = "down" /\ forgotten
  /\ database' = committed /\ log' = NoFile
  /\ UNCHANGED <<objects, temps, archives, marker, lacking, mishaps>>

mishap == mishaps < MaxMishaps /\ mishaps' = mishaps + 1

CrashController ==
  /\ process # "down" /\ process' = "down" /\ forgotten /\ mishap
  /\ diskUnchanged

(* The data is lost, the backups kept elsewhere are not.                    *)
LoseDisk ==
  /\ process = "down" /\ mishap
  /\ database' = NoFile /\ log' = NoFile /\ objects' = {} /\ temps' = {}
  /\ marker' = NoArchive /\ lacking' = {}
  /\ UNCHANGED <<process, putting, maker, archives, left>>

DamageArchive(bundle) ==
  /\ bundle.intact /\ mishap
  /\ archives' = (archives \ {bundle}) \union
                   {[bundle EXCEPT !.intact = FALSE, !.objects = {}]}
  /\ UNCHANGED <<process, database, log, objects, temps, putting, maker, marker, left, lacking>>

BackupsNext ==
  \/ \E a \in Artifacts :
       WriteTemporary(a) \/ LinkObject(a) \/ IndexArtifact(a) \/ RemoveTemporary(a)
       \/ WriteObject(a)
  \/ Checkpoint \/ Snapshot \/ WalkWorkers \/ WalkObjects \/ WalkTemporaries
  \/ Publish \/ CreateFails
  \/ \E bundle \in archives : StageRestore(bundle) \/ DamageArchive(bundle)
  \/ OpenDatabase \/ BeginApply \/ MoveDatabase \/ RemoveLog \/ WriteDatabase
  \/ RemoveMarker \/ StopController \/ CrashController \/ LoseDisk

BackupsSpec == BackupsInit /\ [][BackupsNext]_backupsVars

-----------------------------------------------------------------------------
(* Properties *)

(* An undamaged backup holds every object that its database names, although *)
(* artifacts are stored while it is made (manager.go takes the snapshot     *)
(* first, and WalkDir happens to visit tmp/ last), but for what it is known *)
(* to lack.                                                                *)
BackupHoldsItsRecords ==
  \A bundle \in archives : bundle.intact => bundle.records \subseteq bundle.objects \union bundle.lacking

(* What the database has indexed is stored, but for what the backup that    *)
(* was restored last is known to lack: files too large for it, or all, if   *)
(* a worker's file vanished under its walk.  So whenever the controller     *)
(* runs, also after a crash between any two steps of a put, and after a     *)
(* restore of a backup that was made while artifacts were stored, onto an   *)
(* empty disk, and interrupted any number of times.                        *)
IndexedIsStored == running => committed \subseteq objects \union lacking
=============================================================================
