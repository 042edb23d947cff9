--------------------------- MODULE ConfigRegistry ---------------------------
(***************************************************************************)
(* Settings by scope, the drafts that change them and the history of what  *)
(* was applied: RegistryService (internal/config/service.go) over the      *)
(* transactions of internal/storage/sqlite (config_drafts.go,              *)
(* config_registry.go).  A request reads and validates first and writes    *)
(* in a transaction later; others write in between.  A job that is accepted *)
(* keeps a snapshot of the settings effective for its project.             *)
(*                                                                         *)
(* The settings are the two the built-in registry relates: human waivers   *)
(* depend on the policy that demands their rationale.  It registers no     *)
(* secret; the whole-document revisions kept for compatibility are left    *)
(* out.                                                                    *)
(***************************************************************************)
EXTENDS Naturals, Sequences, FiniteSets

CONSTANTS
  Projects,
  Drafts,        \* draft IDs
  Admins,        \* requests served at the same time
  Edits,         \* the entries administrators submit
  Unset,         \* no value
  MaxRevisions,  \* bound on the length of the history
  MaxVersion,    \* bound on the version of a draft
  MaxSnapshots   \* bound on the jobs accepted

Keys == {"waiver", "rationale"}

(* What a draft or a revision says of some settings: a value, or a reset.   *)
Entries == UNION {[K -> BOOLEAN \union {Unset}] : K \in (SUBSET Keys) \ {{}}}

ASSUME RegistryAssumption ==
  /\ "system" \notin Projects /\ Unset \notin BOOLEAN
  /\ Edits \subseteq Entries
  /\ MaxRevisions \in Nat \ {0}
  /\ MaxVersion \in Nat \ {0} /\ MaxSnapshots \in Nat

Scopes == {"system"} \union Projects

VARIABLES
  values,     \* values[s][k]: what scope s sets, or Unset
  revisions,  \* the append-only history, of all scopes
  past,       \* past[r]: the values of its scope right after revision r (not stored)
  draft,
  snapshots,  \* what each accepted job was given; at is the length of the history
              \* then (not stored)
  requests     \* what each administrator's request holds between its transactions

configVars == <<values, revisions, past, draft, snapshots, requests>>

Draft ==
  [state : {"none", "draft", "reviewed", "applied", "discarded"}, scope : Scopes,
   base : Nat, version : Nat, entries : Entries, approved : Entries]

NoEntries == [k \in {"waiver"} |-> Unset]

NoDraft ==
  [state |-> "none", scope |-> "system", base |-> 0, version |-> 0,
   entries |-> NoEntries, approved |-> NoEntries]

Request ==
  [op : {"none", "create", "update", "review", "apply", "rollback", "restore"},
   scope : Scopes, version : Nat, entries : Entries, id : Drafts \union Nat]

NoRequest == [op |-> "none", scope |-> "system", version |-> 0, entries |-> NoEntries, id |-> 0]

DefaultOf == [k \in Keys |-> TRUE]

ConfigTypeOK ==
  /\ values \in [Scopes -> [Keys -> BOOLEAN \union {Unset}]]
  /\ \A r \in DOMAIN revisions :
       revisions[r] \in [scope : Scopes, version : Nat, entries : Entries,
                         draft : Drafts \union {"none"}, rollbackOf : Nat]
  /\ draft \in [Drafts -> Draft]
  /\ requests \in [Admins -> Request]
  /\ \A i \in DOMAIN snapshots :
       snapshots[i] \in [project : Projects, values : [Keys -> BOOLEAN], at : DOMAIN revisions]

(* The first start imports the active document into the system scope.       *)
ConfigInit ==
  /\ values = [s \in Scopes |-> IF s = "system" THEN DefaultOf ELSE [k \in Keys |-> Unset]]
  /\ revisions = <<[scope |-> "system", version |-> 1, entries |-> DefaultOf,
                    draft |-> "none", rollbackOf |-> 0]>>
  /\ past = <<DefaultOf>>
  /\ draft = [d \in Drafts |-> NoDraft]
  /\ snapshots = <<>>
  /\ requests = [a \in Admins |-> NoRequest]

-----------------------------------------------------------------------------
(* Resolution and validation *)

ofScope(s) == {r \in DOMAIN revisions : revisions[r].scope = s}

scopeVersion(s) == Cardinality(ofScope(s))

(* The highest scope that sets a value wins: a project, the system, the     *)
(* built-in default.                                                        *)
resolve(s, vals, k) ==
  CASE vals[s][k] # Unset -> vals[s][k]
    [] vals[s][k] = Unset /\ vals["system"][k] # Unset -> vals["system"][k]
    [] OTHER -> DefaultOf[k]

apply(vals, s, entries) ==
  [vals EXCEPT ![s] = [k \in Keys |-> IF k \in DOMAIN entries THEN entries[k] ELSE @[k]]]

(* Mutant of impacted: only the setting that has the dependency is looked at. *)
impactedSelf(entries) == "waiver" \in DOMAIN entries

impacted(entries) == DOMAIN entries \intersect {"waiver", "rationale"} # {}

satisfied(s, vals) == resolve(s, vals, "waiver") => resolve(s, vals, "rationale")

valid(s, entries) ==
  impacted(entries) => satisfied(s, apply(values, s, entries))

(* The settings of a scope as its revisions up to r tell them.              *)
touching(r, k) ==
  {i \in ofScope(revisions[r].scope) :
     revisions[i].version <= revisions[r].version /\ k \in DOMAIN revisions[i].entries}

(* Mutant of atRevision: a reset is skipped.                                *)
atRevisionSet(r) ==
  [k \in Keys |->
     LET T == {i \in touching(r, k) : revisions[i].entries[k] # Unset} IN
     IF T = {} THEN Unset
     ELSE revisions[CHOOSE i \in T : \A j \in T : j <= i].entries[k]]

atRevision(r) ==
  [k \in Keys |->
     LET T == touching(r, k) IN
     IF T = {} THEN Unset
     ELSE revisions[CHOOSE i \in T : \A j \in T : j <= i].entries[k]]

-----------------------------------------------------------------------------
(* The transactions *)

answeredAdmin(a) == requests' = [requests EXCEPT ![a] = NoRequest]

unmoved(s, version) == scopeVersion(s) = version

isVersion(d, version) == draft[d].version = version

CreateConfigDraft(a) ==
  LET q == requests[a] IN
  /\ q.op = "create"
  /\ \/ /\ unmoved(q.scope, q.version)
        /\ draft' = [draft EXCEPT ![q.id] =
             [state |-> "draft", scope |-> q.scope, base |-> q.version, version |-> 1,
              entries |-> q.entries, approved |-> NoEntries]]
     \/ ~unmoved(q.scope, q.version) /\ UNCHANGED draft
  /\ answeredAdmin(a)
  /\ UNCHANGED <<values, revisions, past, snapshots>>

mayUpdate(d, version) ==
  /\ draft[d].state = "draft" /\ isVersion(d, version)
  /\ unmoved(draft[d].scope, draft[d].base)

UpdateConfigDraft(a) ==
  LET q == requests[a] IN
  /\ q.op = "update"
  /\ \/ /\ mayUpdate(q.id, q.version)
        /\ draft' = [draft EXCEPT ![q.id].version = @ + 1, ![q.id].entries = q.entries]
     \/ ~mayUpdate(q.id, q.version) /\ UNCHANGED draft
  /\ answeredAdmin(a)
  /\ UNCHANGED <<values, revisions, past, snapshots>>

mayTransition(d, version, target) ==
  /\ isVersion(d, version)
  /\ \/ draft[d].state = "draft" /\ target = "reviewed"
     \/ draft[d].state \in {"draft", "reviewed"} /\ target = "discarded"
  /\ unmoved(draft[d].scope, draft[d].base)

TransitionConfigDraft(a) ==
  LET q == requests[a] IN
  /\ q.op = "review"
  /\ \/ /\ mayTransition(q.id, q.version, "reviewed")
        /\ draft' = [draft EXCEPT ![q.id].version = @ + 1, ![q.id].state = "reviewed",
                                  ![q.id].approved = q.entries]
     \/ ~mayTransition(q.id, q.version, "reviewed") /\ UNCHANGED draft
  /\ answeredAdmin(a)
  /\ UNCHANGED <<values, revisions, past, snapshots>>

Discard(d) ==
  /\ mayTransition(d, draft[d].version, "discarded")
  /\ draft' = [draft EXCEPT ![d].version = @ + 1, ![d].state = "discarded"]
  /\ UNCHANGED <<values, revisions, past, snapshots, requests>>

validateAppliedDraft(q) ==
  /\ draft[q.id].state = "reviewed" /\ draft[q.id].version = q.version
  /\ draft[q.id].entries = q.entries

appendRevision(s, entries, d, rollbackOf) ==
  /\ Len(revisions) < MaxRevisions
  /\ values' = apply(values, s, entries)
  /\ revisions' = Append(revisions,
       [scope |-> s, version |-> scopeVersion(s) + 1, entries |-> entries,
        draft |-> d, rollbackOf |-> rollbackOf])
  /\ past' = Append(past, values'[s])

ApplyConfigScope(a) ==
  LET q == requests[a] IN
  /\ \/ /\ q.op = "apply" /\ unmoved(q.scope, draft[q.id].base) /\ validateAppliedDraft(q)
        /\ appendRevision(q.scope, q.entries, q.id, 0)
        /\ draft' = [draft EXCEPT ![q.id].version = @ + 1, ![q.id].state = "applied"]
     \/ /\ q.op = "apply" /\ ~(unmoved(q.scope, draft[q.id].base) /\ validateAppliedDraft(q))
        /\ UNCHANGED <<values, revisions, past, draft>>
     \/ /\ q.op = "restore" /\ unmoved(q.scope, q.version)
        /\ appendRevision(q.scope, q.entries, "none", q.id)
        /\ UNCHANGED draft
     \/ /\ q.op = "restore" /\ ~unmoved(q.scope, q.version)
        /\ UNCHANGED <<values, revisions, past, draft>>
  /\ answeredAdmin(a)
  /\ UNCHANGED snapshots

-----------------------------------------------------------------------------
(* The requests, up to their transaction *)

asks(a, op, s, version, entries, id) ==
  /\ requests[a].op = "none"
  /\ requests' = [requests EXCEPT ![a] =
       [op |-> op, scope |-> s, version |-> version, entries |-> entries, id |-> id]]
  /\ UNCHANGED <<values, revisions, past, draft, snapshots>>

fresh(d) == draft[d].state = "none" /\ \A b \in Admins : requests[b].id # d

CreateDraft(a) ==
  \E d \in Drafts, s \in Scopes, e \in Edits :
    /\ fresh(d) /\ valid(s, e)
    /\ asks(a, "create", s, scopeVersion(s), e, d)

(* An export names what its scope sets, never what it does not: importing   *)
(* it later resets nothing.                                                 *)
ExportScope(r) ==
  LET K == {k \in Keys : past[r][k] # Unset} IN [k \in K |-> past[r][k]]

ImportDraft(a) ==
  \E d \in Drafts, r \in DOMAIN revisions :
    LET s == revisions[r].scope  e == ExportScope(r) IN
    /\ DOMAIN e # {} /\ fresh(d) /\ valid(s, e)
    /\ asks(a, "create", s, scopeVersion(s), e, d)

UpdateDraft(a) ==
  \E d \in Drafts, e \in Edits :
    /\ draft[d].state = "draft" /\ draft[d].version < MaxVersion
    /\ valid(draft[d].scope, e)
    /\ asks(a, "update", draft[d].scope, draft[d].version, e, d)

(* The reviewer names the version shown to them; the entries validated are  *)
(* those of the moment.                                                     *)
ReviewDraft(a) ==
  \E d \in Drafts :
    /\ draft[d].state = "draft"
    /\ valid(draft[d].scope, draft[d].entries)
    /\ asks(a, "review", draft[d].scope, draft[d].version, draft[d].entries, d)

ApplyDraft(a) ==
  \E d \in Drafts :
    /\ draft[d].state = "reviewed"
    /\ valid(draft[d].scope, draft[d].entries)
    /\ asks(a, "apply", draft[d].scope, draft[d].version, draft[d].entries, d)

(* GetConfigScope reads the head of the scope, then its values.             *)
Rollback(a) ==
  \E r \in DOMAIN revisions :
    LET s == revisions[r].scope IN
    asks(a, "rollback", s, scopeVersion(s), NoEntries, r)

changes(target, current) ==
  LET K == {k \in Keys : target[k] # current[k]} IN [k \in K |-> target[k]]

RollbackReadsValues(a) ==
  LET q == requests[a]  c == changes(atRevision(q.id), values[q.scope]) IN
  /\ q.op = "rollback"
  /\ requests' = [requests EXCEPT ![a] =
       IF DOMAIN c = {} THEN NoRequest ELSE [q EXCEPT !.op = "restore", !.entries = c]]
  /\ UNCHANGED <<values, revisions, past, draft, snapshots>>

-----------------------------------------------------------------------------
(* The jobs that are accepted: a snapshot of what is effective for their    *)
(* project is taken in the transaction that creates the job.                *)
snapshotOf(p) == [k \in Keys |-> resolve(p, values, k)]

insertJobConfigSnapshot(p) ==
  snapshots' = Append(snapshots, [project |-> p, values |-> snapshotOf(p), at |-> Len(revisions)])

AcceptJob(p) ==
  /\ Len(snapshots) < MaxSnapshots
  /\ insertJobConfigSnapshot(p)
  /\ UNCHANGED <<values, revisions, past, draft, requests>>

ConfigNext ==
  \/ \E p \in Projects : AcceptJob(p)
  \/ \E d \in Drafts : Discard(d)
  \/ \E a \in Admins :
       \/ CreateDraft(a) \/ ImportDraft(a) \/ UpdateDraft(a) \/ ReviewDraft(a) \/ ApplyDraft(a)
       \/ Rollback(a) \/ RollbackReadsValues(a)
       \/ CreateConfigDraft(a) \/ UpdateConfigDraft(a) \/ TransitionConfigDraft(a)
       \/ ApplyConfigScope(a)

ConfigSpec == ConfigInit /\ [][ConfigNext]_configVars

-----------------------------------------------------------------------------
(* Whatever is applied, imported or rolled back, and however the requests   *)
(* interleave, the system's own settings keep the declared dependency.      *)
(* (A project's may lose it: the system scope changes under its feet.)      *)
SystemScopeConsistent == satisfied("system", values)

(* The state of every past revision can be rebuilt from the changes the     *)
(* history keeps, resets included.                                          *)
HistoryReconstructs == \A r \in DOMAIN revisions : atRevision(r) = past[r]

(* A rollback leaves its scope exactly as it was after the chosen revision, *)
(* although others apply drafts while it computes the difference.           *)
RollbackRestores ==
  \A r \in DOMAIN revisions :
    revisions[r].rollbackOf # 0 => past[r] = past[revisions[r].rollbackOf]

(* What a draft applied is what its reviewer had validated, never entries   *)
(* somebody edited in meanwhile.                                            *)
AppliedAsReviewed ==
  \A r \in DOMAIN revisions :
    revisions[r].draft # "none" => revisions[r].entries = draft[revisions[r].draft].approved

(* What a scope set when the history had n revisions, as these tell it.     *)
setAt(n) ==
  [s \in Scopes |->
     LET R == {r \in ofScope(s) : r <= n} IN
     IF R = {} THEN [k \in Keys |-> Unset]
     ELSE atRevision(CHOOSE r \in R : \A q \in R : q <= r)]

(* The configuration a job was given is that of one moment of the history,  *)
(* of all scopes together, whatever is applied or rolled back later.        *)
SnapshotsExplained ==
  \A i \in DOMAIN snapshots, k \in Keys :
    snapshots[i].values[k] = resolve(snapshots[i].project, setAt(snapshots[i].at), k)

(* The history of revisions tells the truth about the settings of a moment, *)
(* rollbacks, reviewed drafts and the configurations of jobs.               *)
RevisionsAreTrue ==
  HistoryReconstructs /\ RollbackRestores /\ AppliedAsReviewed /\ SnapshotsExplained

=============================================================================
