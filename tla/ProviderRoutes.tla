---------------------------- MODULE ProviderRoutes ----------------------------
(***************************************************************************)
(* Which model provider may see a job's data: the profiles operators edit  *)
(* (internal/providers/service.go over internal/storage/sqlite/providers.go), *)
(* the route a worker call takes through them, the manifest that is kept   *)
(* of it, and the approval a remote one waits for (routeModelCall,         *)
(* internal/workflow/coordinator.go).                                      *)
(*                                                                         *)
(* The four tables are read one after the other, without a transaction;    *)
(* an update is checked against what was read and written later.           *)
(*                                                                         *)
(* There is one endpoint for each provider.  The preference                *)
(* "measured_hybrid" is left out: its comparison with the third preference *)
(* is no order.  So are token limits, which skip a route as its data       *)
(* classes do.                                                             *)
(***************************************************************************)
EXTENDS Naturals, Sequences, FiniteSets

CONSTANTS
  Operators,       \* people who edit profiles at the same time
  Needed,          \* data classes of the call
  Capabilities,    \* of the interface family of the remote providers
  Start,           \* the profiles the database may hold
  Changes,         \* Changes[kind]: the contents operators save
  MaxUpdates,      \* bound on edits and probes
  MaxCalls         \* bound on how often the worker phase is tried

Kinds == <<"provider", "endpoint", "model", "route">>
KindSet == {"provider", "endpoint", "model", "route"}

LocalTrust == 4

Contents ==
  [provider |-> [trust : 1 .. LocalTrust, remote : BOOLEAN, enabled : BOOLEAN, classes : SUBSET Needed],
   endpoint |-> {[secure |-> b] : b \in BOOLEAN},
   model |-> [of : STRING, pins : STRING, caps : SUBSET Capabilities, eligible : BOOLEAN, price : Nat],
   route |-> [models : Seq(STRING), enabled : BOOLEAN, local : BOOLEAN, keeps : BOOLEAN,
              classes : SUBSET Needed, maxCost : Nat, order : Nat]]

ASSUME RoutesAssumption ==
  /\ "structured" \in Capabilities
  /\ {MaxUpdates, MaxCalls} \subseteq Nat
  /\ DOMAIN Changes = KindSet
  /\ \A kind \in KindSet : Changes[kind] \subseteq Contents[kind]
  /\ \A tables \in Start :
       /\ DOMAIN tables = KindSet
       /\ \A kind \in KindSet : \A id \in DOMAIN tables[kind] :
            tables[kind][id] \in [content : Contents[kind], version : Nat]

VARIABLES
  profiles,    \* profiles[kind][id]: the tables, each row with its version
  probes,     \* probes[m]: the capability probes kept of model m, in order
  manifests,  \* the egress manifests kept of the job
  approvals,  \* those somebody approved
  call,       \* the worker call of the job
  saving,     \* saving[o]: what an operator's request read, and will write
  updates

routesVars == <<profiles, probes, manifests, approvals, call, saving, updates>>

Nobody == [kind |-> "none"]

Unselected == [route |-> "unselected", model |-> "unselected", allowed |-> FALSE]

NoCall == [step |-> "idle", seen |-> [k \in {} |-> 0], first |-> Unselected,
           manifest |-> Unselected, high |-> FALSE, calls |-> 0]

RoutesTypeOK ==
  /\ DOMAIN profiles = KindSet
  /\ call.step \in {"idle", "first", "gate", "awaiting", "second", "executed", "failed"}
  /\ DOMAIN call.seen \subseteq KindSet
  /\ approvals \subseteq manifests
  /\ updates \in 0 .. MaxUpdates

(* A database with some profiles; the defaults are inserted where they are  *)
(* missing, before anything else.                                           *)
RoutesInit ==
  /\ profiles \in Start
  /\ probes = [m \in DOMAIN profiles["model"] |-> <<>>]
  /\ manifests = {} /\ approvals = {}
  /\ \E high \in BOOLEAN : call = [NoCall EXCEPT !.high = high]
  /\ saving = [o \in Operators |-> Nobody]
  /\ updates = 0

-----------------------------------------------------------------------------
(* The decision, over the tables as they were read *)

content(seen, kind, id) == seen[kind][id].content

providerOf(seen, m) == content(seen, "model", m).of

owner(seen, m) == content(seen, "provider", providerOf(seen, m))

endpointValid(provider, endpoint) == provider.remote => endpoint.secure

(* What a model must have before its provider's trust counts.               *)
usable(seen, m) ==
  /\ content(seen, "model", m).eligible
  /\ Needed \subseteq owner(seen, m).classes
  /\ endpointValid(owner(seen, m), content(seen, "endpoint", providerOf(seen, m)))

(* Nothing keeps a model from being listed twice.                           *)
at(route, m) ==
  CHOOSE i \in DOMAIN route.models :
    route.models[i] = m /\ \A j \in DOMAIN route.models : route.models[j] = m => i <= j

modelsOf(route) == {route.models[i] : i \in DOMAIN route.models}

firstIn(route, M) == CHOOSE m \in M : \A n \in M : at(route, m) <= at(route, n)

(* Mutant of trustFloor: set by the first model that could be chosen.       *)
trustFloorEnabled(seen, route) ==
  LET M == {m \in modelsOf(route) : usable(seen, m) /\ owner(seen, m).enabled} IN
  IF route.keeps /\ M # {} THEN owner(seen, firstIn(route, M)).trust ELSE 0

trustFloor(seen, route) ==
  LET M == {m \in modelsOf(route) : usable(seen, m)} IN
  IF route.keeps /\ M # {} THEN owner(seen, firstIn(route, M)).trust ELSE 0

latestProbe(m) == probes[m][Len(probes[m])]

remoteProbeAllows(seen, m) ==
  /\ probes[m] # <<>>
  /\ latestProbe(m).passed
  /\ latestProbe(m).saw = content(seen, "model", m).pins
  /\ "structured" \in latestProbe(m).caps
  /\ content(seen, "model", m).caps \subseteq latestProbe(m).caps

acceptedModel(seen, route, m) ==
  /\ usable(seen, m)
  /\ owner(seen, m).trust >= trustFloor(seen, route)
  /\ owner(seen, m).remote => remoteProbeAllows(seen, m)
  /\ owner(seen, m).enabled
  /\ "structured" \in content(seen, "model", m).caps
  /\ route.maxCost = 0 \/ content(seen, "model", m).price <= route.maxCost

candidates(seen, route) == {m \in modelsOf(route) : acceptedModel(seen, route, m)}

eligible(seen, r) ==
  LET route == content(seen, "route", r) IN
  route.enabled /\ Needed \subseteq route.classes /\ candidates(seen, route) # {}

(* Routes that prefer local models first, then by their IDs.                *)
precedes(seen, r, s) ==
  LET a == content(seen, "route", r)  b == content(seen, "route", s) IN
  \/ a.local /\ ~b.local
  \/ a.local = b.local /\ a.order <= b.order

SimulateRoute(seen) ==
  LET R == {r \in DOMAIN seen["route"] : eligible(seen, r)} IN
  IF R = {} THEN Unselected
  ELSE LET r == CHOOSE r \in R : \A s \in R : precedes(seen, r, s)
           route == content(seen, "route", r)
       IN [route |-> r, model |-> firstIn(route, candidates(seen, route)), allowed |-> TRUE]

-----------------------------------------------------------------------------
(* The worker call of a job *)

onlyCall == UNCHANGED <<profiles, probes, approvals, saving, updates>>

StartCall ==
  /\ call.step = "idle" /\ call.calls < MaxCalls
  /\ call' = [call EXCEPT !.step = "first", !.seen = [k \in {} |-> 0], !.calls = @ + 1,
                          !.first = Unselected, !.manifest = Unselected]
  /\ UNCHANGED manifests /\ onlyCall

LoadTable ==
  LET n == Cardinality(DOMAIN call.seen) + 1  k == Kinds[n] IN
  /\ call.step \in {"first", "second"} /\ n <= Len(Kinds)
  /\ call' = [call EXCEPT !.seen =
       [x \in DOMAIN @ \union {k} |-> IF x = k THEN profiles[k] ELSE call.seen[x]]]
  /\ UNCHANGED manifests /\ onlyCall

loaded == DOMAIN call.seen = KindSet

(* The manifest of the decision is kept, allowed or denied.  Its hash does  *)
(* not name the time: the same decision has the same one.                   *)
Decide1 ==
  LET d == SimulateRoute(call.seen) IN
  /\ call.step = "first" /\ loaded
  /\ manifests' = manifests \union {d}
  /\ call' = [call EXCEPT !.step = IF d.allowed THEN "gate" ELSE "failed",
                          !.first = d, !.manifest = d]
  /\ onlyCall

needsApproval(seen, manifest, high) ==
  /\ owner(seen, manifest.model).remote
  /\ owner(seen, manifest.model).trust # LocalTrust
  /\ high

approved(manifest) == manifest \in approvals

PassGate ==
  /\ call.step = "gate"
  /\ needsApproval(call.seen, call.first, call.high) => approved(call.first)
  /\ call' = [call EXCEPT !.step = "second", !.seen = [k \in {} |-> 0]]
  /\ UNCHANGED manifests /\ onlyCall

Pause ==
  /\ call.step = "gate"
  /\ needsApproval(call.seen, call.first, call.high) /\ ~approved(call.first)
  /\ call' = [call EXCEPT !.step = "awaiting"]
  /\ UNCHANGED manifests /\ onlyCall

(* The execution takes the route again.                                     *)
SimulateExecution ==
  LET d == SimulateRoute(call.seen) IN
  /\ call.step = "second" /\ loaded
  /\ manifests' = manifests \union {d}
  /\ call' = [call EXCEPT !.step = IF d.allowed THEN "executed" ELSE "failed", !.manifest = d]
  /\ onlyCall

(* The next worker phase of the job, or the same one once more.             *)
EndCall ==
  /\ call.step \in {"executed", "failed"}
  /\ call' = [call EXCEPT !.step = "idle"]
  /\ UNCHANGED manifests /\ onlyCall

(* Any manifest of the job that is allowed and whose provider is remote     *)
(* now; the job goes back to the phase the reviewer names.                  *)
ApproveRemoteEgress ==
  /\ call.step = "awaiting"
  /\ \E m \in manifests :
       /\ m.allowed /\ owner(profiles, m.model).remote /\ m \notin approvals
       /\ approvals' = approvals \union {m}
  /\ call' = [call EXCEPT !.step = "idle"]
  /\ UNCHANGED <<profiles, probes, manifests, saving, updates>>

-----------------------------------------------------------------------------
(* Operators *)

onlySaving == UNCHANGED <<manifests, approvals, call>>

(* A simulation: its manifest is kept as one of the job it names.  Nobody   *)
(* uses what it read, so it is one step.                                    *)
Preview ==
  /\ updates < MaxUpdates /\ updates' = updates + 1
  /\ manifests' = manifests \union {SimulateRoute(profiles)}
  /\ UNCHANGED <<profiles, probes, approvals, call, saving>>

valid(tables, kind, id, to, approval) ==
  /\ kind = "endpoint" => endpointValid(content(tables, "provider", id), to)
  /\ kind = "model" => to.of = content(tables, "model", id).of
  /\ kind = "route" =>
       /\ modelsOf(to) \subseteq DOMAIN tables["model"]
       /\ to.enabled /\ (\E m \in modelsOf(to) : owner(tables, m).remote) => approval

(* The version is compared with the one the operator saw: here, not where   *)
(* the row is written.                                                      *)
UpdateProfile(o) ==
  \E kind \in KindSet, id \in UNION {DOMAIN profiles[k] : k \in KindSet}, approval \in BOOLEAN :
    \E to \in Changes[kind] :
      /\ saving[o] = Nobody /\ updates < MaxUpdates
      /\ id \in DOMAIN profiles[kind] /\ to # profiles[kind][id].content
      /\ approval => kind = "route"
      /\ valid(profiles, kind, id, to, approval)
      /\ saving' = [saving EXCEPT ![o] = [kind |-> kind, id |-> id, to |-> to]]
      /\ updates' = updates + 1
      /\ UNCHANGED <<profiles, probes>> /\ onlySaving

upsert(kind, id, to) ==
  profiles' = [profiles EXCEPT ![kind][id] = [content |-> to, version |-> @.version + 1]]

(* An endpoint is checked once more, against the provider of now.           *)
UpsertProfile(o) ==
  LET s == saving[o] IN
  /\ s.kind \in KindSet
  /\ \/ /\ s.kind = "endpoint" => endpointValid(content(profiles, "provider", s.id), s.to)
        /\ upsert(s.kind, s.id, s.to)
     \/ /\ s.kind = "endpoint" /\ ~endpointValid(content(profiles, "provider", s.id), s.to)
        /\ UNCHANGED profiles
  /\ saving' = [saving EXCEPT ![o] = Nobody]
  /\ UNCHANGED <<probes, updates>> /\ onlySaving

(* A probe of the model as it is; it fails where the endpoint is not valid. *)
ProbeModel(o) ==
  \E m \in DOMAIN profiles["model"] :
    /\ saving[o] = Nobody /\ updates < MaxUpdates
    /\ saving' = [saving EXCEPT ![o] =
         [kind |-> "probe", id |-> m,
          to |-> [passed |-> endpointValid(owner(profiles, m),
                               content(profiles, "endpoint", providerOf(profiles, m))),
                  saw |-> content(profiles, "model", m).pins, caps |-> Capabilities]]]
    /\ updates' = updates + 1
    /\ UNCHANGED <<profiles, probes>> /\ onlySaving

RecordCapabilityProbe(o) ==
  LET s == saving[o] IN
  /\ s.kind = "probe"
  /\ probes' = [probes EXCEPT ![s.id] = Append(@, s.to)]
  /\ saving' = [saving EXCEPT ![o] = Nobody]
  /\ UNCHANGED <<profiles, updates>> /\ onlySaving

RoutesNext ==
  \/ StartCall \/ LoadTable \/ Decide1 \/ PassGate \/ Pause \/ SimulateExecution \/ EndCall
  \/ ApproveRemoteEgress \/ Preview
  \/ \E o \in Operators :
       UpdateProfile(o) \/ UpsertProfile(o) \/ ProbeModel(o) \/ RecordCapabilityProbe(o)

RoutesSpec == RoutesInit /\ [][RoutesNext]_routesVars

-----------------------------------------------------------------------------
decided == call.step \in {"gate", "awaiting", "executed"} /\ call.manifest.allowed

(* A route that keeps trust never falls back to a provider trusted less     *)
(* than that of an earlier model of the route that could have taken the     *)
(* data, be it disabled, too expensive or drifted.                          *)
TrustFloorKept ==
  decided =>
    LET route == content(call.seen, "route", call.manifest.route)  m == call.manifest.model IN
    route.keeps =>
      \A i \in 1 .. at(route, m) :
        usable(call.seen, route.models[i]) /\ (\A j \in 1 .. i - 1 : ~usable(call.seen, route.models[j]))
          => owner(call.seen, route.models[i]).trust <= owner(call.seen, m).trust

(* What is executed at a remote provider for a job of high risk is the      *)
(* manifest somebody approved.  The gate asks that of the first simulation; *)
(* the execution simulates the route once more, over tables that operators  *)
(* have changed since, and nobody looks at the manifest it comes to.        *)
ExecutedWasApproved ==
  call.step = "executed" /\ needsApproval(call.seen, call.manifest, call.high)
    => approved(call.manifest)

=============================================================================
