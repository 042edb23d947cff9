------------------------------ MODULE ForgeSync ------------------------------
(***************************************************************************)
(* The inventory of a project's forge, collected page by page over several  *)
(* requests: forges.Service.Sync (internal/forges/service.go), the bridge's  *)
(* SyncForge and collectInventory (internal/gitbridge/manager.go and        *)
(* forge_inventory.go), and SaveForgeSync                                   *)
(* (internal/storage/sqlite/forges.go).                                    *)
(*                                                                         *)
(* A request collects as much as its limit allows, and keeps it, with the   *)
(* cursor where the next one goes on, under an idempotency key.  The forge  *)
(* changes while it is read, between the pages and between the requests.    *)
(*                                                                         *)
(* An object is its identity.  Left out: local remotes, which have no       *)
(* families; the artifacts derived from GitLab jobs; pull requests among    *)
(* the issues; and what only decides whether a request is refused: the      *)
(* revision of the profile, and the input a key was used with.              *)
(***************************************************************************)
EXTENDS Naturals, Sequences, FiniteSetsExt, Functions

CONSTANTS
  Inventories,   \* what the families of objects of the forge may be at first:
                 \* sequences of families, of sequences of objects, newest first
  RefCounts,     \* how many branches, tags and submodules the mirror may have
  Limit,         \* objects in a request (500)
  PageCap,       \* objects on a page (100)
  Requesters,    \* requests served at the same time
  SyncKeys,      \* idempotency keys
  MaxForgeEvents \* bound on changes of the forge, the profile and the default branch

Objects == [family : Nat, number : Nat]

(* An object is listed once.  The numbers below MaxForgeEvents are those of  *)
(* the objects that are added.                                             *)
ASSUME ForgeAssumption ==
  /\ Inventories \subseteq Seq(Seq(Objects)) /\ <<>> \notin Inventories
  /\ RefCounts \subseteq Nat /\ MaxForgeEvents \in Nat
  /\ Limit \in Nat /\ PageCap \in 1 .. Limit
  /\ \A there \in Inventories : \A f \in DOMAIN there :
       IsInjective(there[f]) /\ \A i \in DOMAIN there[f] : there[f][i].number >= MaxForgeEvents

VARIABLES
  forge,       \* forge[f]: the objects of family f, newest first
  unavailable, \* families the credential or the edition does not offer
  refs, base,  \* the mirror: its refs, and the head of the default branch
  profileEnabled,     \* of the profile
  syncRuns,    \* forge_sync_runs, by idempotency key
  collected,   \* forge_objects, but for those of the mirror
  syncing,     \* syncing[r]: what request r holds
  deletions, forgeEvents

forgeVars == <<forge, unavailable, refs, base, profileEnabled, syncRuns, collected,
               syncing, deletions, forgeEvents>>

FamiliesOf == DOMAIN forge
There == UNION {Range(forge[f]) : f \in FamiliesOf}

(* The start, a base, or a page of a family at a base.  A cursor promises   *)
(* the objects that were there when its collection began (not stored), save *)
(* those of families that are reported as unavailable.  The promise is void *)
(* once the page number counts pages of another size, or an object is       *)
(* deleted before the page.                                                *)
Start == [kind |-> "start"]
AtBase(b) == [kind |-> "base", base |-> b]
AtPage(b, f, p) == [kind |-> "page", base |-> b, family |-> f, page |-> p]

NoPromise == [since |-> {}, deletions |-> 0, void |-> FALSE]
NoSync == [step |-> "idle"]

ForgeTypeOK ==
  /\ unavailable \subseteq FamiliesOf /\ base \in 0 .. MaxForgeEvents
  /\ \A f \in FamiliesOf : IsInjective(forge[f])
  /\ DOMAIN syncRuns \subseteq SyncKeys
  /\ \A k \in DOMAIN syncRuns :
       /\ syncRuns[k].partial <=> syncRuns[k].next.kind = "page"
       /\ syncRuns[k].objects <= Limit
  /\ \A r \in Requesters :
       /\ syncing[r].step \in {"idle", "collecting", "saving"}
       /\ syncing[r].step = "collecting" => syncing[r].room \in 1 .. Limit /\ syncing[r].family \in FamiliesOf

ForgeInit ==
  /\ forge \in Inventories /\ refs \in RefCounts
  /\ unavailable = {} /\ base = 0 /\ profileEnabled = TRUE
  /\ syncRuns = [k \in {} |-> NoSync] /\ collected = {}
  /\ syncing = [r \in Requesters |-> NoSync]
  /\ deletions = 0 /\ forgeEvents = 0

-----------------------------------------------------------------------------
(* The forge, its default branch and the profile.                          *)

forgeEvent == forgeEvents < MaxForgeEvents /\ forgeEvents' = forgeEvents + 1

AddObject(f) ==
  /\ forgeEvent
  /\ forge' = [forge EXCEPT ![f] = <<[family |-> f, number |-> forgeEvents]>> \o @]
  /\ UNCHANGED <<unavailable, refs, base, profileEnabled, syncRuns, collected, syncing, deletions>>

DeleteObject(f) ==
  /\ forgeEvent /\ forge[f] # <<>>
  /\ \E i \in DOMAIN forge[f] :
       forge' = [forge EXCEPT ![f] = SubSeq(@, 1, i - 1) \o SubSeq(@, i + 1, Len(@))]
  /\ deletions' = deletions + 1
  /\ UNCHANGED <<unavailable, refs, base, profileEnabled, syncRuns, collected, syncing>>

ChangeAccess(f) ==
  /\ forgeEvent
  /\ unavailable' = IF f \in unavailable THEN unavailable \ {f} ELSE unavailable \union {f}
  /\ UNCHANGED <<forge, refs, base, profileEnabled, syncRuns, collected, syncing, deletions>>

MoveBase ==
  /\ forgeEvent /\ base' = base + 1
  /\ UNCHANGED <<forge, unavailable, refs, profileEnabled, syncRuns, collected, syncing, deletions>>

SaveForgeProfile ==
  /\ forgeEvent /\ profileEnabled' = ~profileEnabled
  /\ UNCHANGED <<forge, unavailable, refs, base, syncRuns, collected, syncing, deletions>>

-----------------------------------------------------------------------------
(* A request, up to its transaction.                                       *)

holds(r, what) == syncing' = [syncing EXCEPT ![r] = what]

onlySyncing == UNCHANGED <<forge, unavailable, refs, base, profileEnabled, syncRuns, collected,
                           deletions, forgeEvents>>

(* The page a request returns, with where it goes on.                      *)
pageOf(q, next, got, promise) ==
  [step |-> "saving", key |-> q.key, got |-> got, next |-> next,
   objects |-> Cardinality(got) + q.fromMirror, promise |-> promise]

(* The repository, and as many refs as the limit allows.                    *)
fromMirror == Min({1 + refs, Limit})

resuming(cursor) == cursor.kind = "page" /\ cursor.base = base

(* SyncForge, after it has synchronized the mirror.                         *)
SyncForge(r, cursor, promise, key) ==
  LET goesOn == resuming(cursor)
      q == [step |-> "collecting", key |-> key, base |-> base,
            fromMirror |-> IF goesOn THEN 0 ELSE fromMirror,
            room |-> Limit - (IF goesOn THEN 0 ELSE fromMirror),
            family |-> IF goesOn THEN cursor.family ELSE 1,
            page |-> IF goesOn THEN cursor.page ELSE 1,
            next |-> IF goesOn THEN <<cursor.family, cursor.page>> ELSE <<1, 1>>,
            got |-> {},
            promise |-> IF goesOn THEN promise
                        ELSE [since |-> There, deletions |-> deletions, void |-> FALSE]]
  IN /\ syncing[r] = NoSync /\ profileEnabled
     /\ holds(r, IF cursor = AtBase(base)
                 THEN pageOf([q EXCEPT !.fromMirror = 0], cursor, {}, NoPromise)
                 ELSE IF q.room < 1 THEN pageOf(q, AtPage(base, q.next[1], q.next[2]), {}, q.promise)
                 ELSE q)
     /\ onlySyncing

(* A request goes on where it likes, or where the runs say.                 *)
Sync(r, key) ==
  \/ SyncForge(r, Start, NoPromise, key)
  \/ \E k \in DOMAIN syncRuns : SyncForge(r, syncRuns[k].next, syncRuns[k].promise, key)

(* Where the inventory has been collected up to, and whether to the end.    *)
result(q, next, limited) ==
  IF next[1] > Len(forge) /\ ~limited THEN AtBase(q.base) ELSE AtPage(q.base, next[1], next[2])

(* The next family, unless there is none or no room.                        *)
goOn(q, next, got, promise) ==
  LET room == q.room - Cardinality(got \ q.got)
  IN IF q.family < Len(forge) /\ room > 0
     THEN [q EXCEPT !.family = @ + 1, !.page = 1, !.room = room, !.next = next,
                    !.got = got, !.promise = promise]
     ELSE pageOf(q, result(q, next, FALSE), got, promise)

sizeOf(q) == Min({q.room, PageCap})

onPage(f, p, size) ==
  Range(SubSeq(forge[f], (p - 1) * size + 1, Min({p * size, Len(forge[f])})))

CollectPage(r) ==
  LET q == syncing[r]
      size == sizeOf(q)
      got == q.got \union onPage(q.family, q.page, size)
  IN /\ q.step = "collecting" /\ q.family \notin unavailable
     /\ holds(r, IF Len(forge[q.family]) > q.page * size
                 THEN pageOf(q, AtPage(q.base, q.family, q.page + 1), got,
                             [q.promise EXCEPT !.void = @ \/ size # PageCap])
                 ELSE goOn(q, <<q.family + 1, 1>>, got, q.promise))
     /\ onlySyncing

(* A family that is forbidden or not found is passed over, and where to go  *)
(* on stays behind it.                                                     *)
PassOver(r) ==
  LET q == syncing[r]
  IN /\ q.step = "collecting" /\ q.family \in unavailable
     /\ holds(r, goOn(q, q.next, q.got,
                      [q.promise EXCEPT !.since = @ \ Range(forge[q.family])]))
     /\ onlySyncing

(* Mutant of limitedAt: the page that was refused counts as collected.      *)
limitedAtNext(q) == <<q.family, q.page + 1>>

limitedAt(q) == <<q.family, q.page>>

(* Too many requests: what there is so far is kept.                         *)
RateLimited(r) ==
  LET q == syncing[r]
  IN /\ q.step = "collecting"
     /\ holds(r, pageOf(q, result(q, limitedAt(q), TRUE), q.got, q.promise))
     /\ onlySyncing

(* A request fails three times, or the controller stops.                    *)
SyncFails(r) == syncing[r] # NoSync /\ holds(r, NoSync) /\ onlySyncing

(* SaveForgeSync: a key that has a run replays it, or is refused.           *)
SaveForgeSync(r) ==
  LET q == syncing[r]
      run == [next |-> q.next, objects |-> q.objects,
              partial |-> q.next.kind = "page",
              promise |-> [q.promise EXCEPT !.void = @ \/ q.promise.deletions # deletions]]
  IN /\ q.step = "saving"
     /\ IF q.key \in DOMAIN syncRuns THEN UNCHANGED <<syncRuns, collected>>
        ELSE /\ syncRuns' = [k \in DOMAIN syncRuns \union {q.key} |->
                               IF k = q.key THEN run ELSE syncRuns[k]]
             /\ collected' = collected \union q.got
     /\ holds(r, NoSync)
     /\ UNCHANGED <<forge, unavailable, refs, base, profileEnabled, deletions, forgeEvents>>

ForgeNext ==
  \/ MoveBase \/ SaveForgeProfile
  \/ \E f \in FamiliesOf : AddObject(f) \/ DeleteObject(f) \/ ChangeAccess(f)
  \/ \E r \in Requesters :
       \/ CollectPage(r) \/ PassOver(r) \/ RateLimited(r) \/ SyncFails(r) \/ SaveForgeSync(r)
       \/ \E key \in SyncKeys : Sync(r, key)

ForgeSpec == ForgeInit /\ [][ForgeNext]_forgeVars

-----------------------------------------------------------------------------
(* Properties.                                                             *)

(* When a run is complete, all objects are stored that were there when its  *)
(* collection began: over any number of requests, rate limits, moves of the *)
(* default branch, new objects and concurrent collections; but for families *)
(* reported as unavailable, deletions, and a page number that counts pages   *)
(* of another size (collectInventory, SyncForge and SaveForgeSync).          *)
CollectedIsComplete ==
  \A k \in DOMAIN syncRuns :
    ~syncRuns[k].partial /\ ~syncRuns[k].promise.void => syncRuns[k].promise.since \subseteq collected

=============================================================================
