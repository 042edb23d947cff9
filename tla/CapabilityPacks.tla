--------------------------- MODULE CapabilityPacks ---------------------------
(***************************************************************************)
(* A capability pack of the catalog the controller was built with: its     *)
(* installation and lifecycle history, the proposals Repo Doctor makes of   *)
(* it for a project, and the assignment and configuration of that project   *)
(* (internal/capabilities over internal/storage/sqlite/capabilities.go and *)
(* internal/api/capabilities.go).                                          *)
(*                                                                         *)
(* A request is checked against what it read outside the transaction that   *)
(* carries it out: the direction of an upgrade, and the configuration,      *)
(* which is validated and completed by the manifest of one version.  The    *)
(* catalog changes when another controller is deployed.                    *)
(***************************************************************************)
EXTENDS Naturals, Sequences, FiniteSets, SequencesExt

CONSTANTS
  Declared,       \* Declared[v]: the fields the manifest of version v declares
  Releases,       \* the catalogs of the controllers that are deployed, in order
  PackUsers,      \* administrators and operators
  Documents,      \* configurations they send: the fields set in them
  MaxHistory,     \* bound on lifecycle events
  MaxProposals,   \* bound on proposals
  MaxConfigures   \* bound on the revisions of the assignment

Versions == DOMAIN Declared
NoPack == [version |-> 0, state |-> "absent", pinned |-> FALSE, revision |-> 0]
NoAssignment == [version |-> 0, config |-> <<>>, revision |-> 0]
NoAct == [step |-> "idle"]

ASSUME PacksAssumption ==
  /\ Versions \subseteq Nat \ {0} /\ IsFiniteSet(Versions)
  /\ Releases \in Seq(SUBSET Versions) /\ Releases # <<>>
  /\ {MaxHistory, MaxProposals, MaxConfigures} \subseteq Nat

VARIABLES
  release,     \* the controller that runs
  pack,        \* capability_installations
  lifecycle,   \* capability_lifecycle_events
  assignment,  \* capability_assignments, of the project
  proposals,   \* repo_doctor_proposals
  act          \* act[u]: the request of a user under way

packsVars == <<release, pack, lifecycle, assignment, proposals, act>>

PacksTypeOK ==
  /\ release \in DOMAIN Releases
  /\ pack \in [version : Versions \union {0}, state : {"absent", "enabled", "disabled"},
               pinned : BOOLEAN, revision : 0 .. MaxHistory]
  /\ Len(lifecycle) <= MaxHistory
  /\ assignment.version \in Versions \union {0} /\ assignment.revision \in 0 .. MaxConfigures
  /\ \A p \in DOMAIN proposals :
       proposals[p] \in [version : Versions, state : {"pending", "accepted", "rejected"}, revision : {1, 2}]
  /\ \A u \in PackUsers : act[u].step \in {"idle", "transition", "configure", "review"}

PacksInit ==
  /\ release = 1 /\ pack = NoPack /\ lifecycle = <<>>
  /\ assignment = NoAssignment /\ proposals = <<>>
  /\ act = [u \in PackUsers |-> NoAct]

Catalog == Releases[release]

(* Another controller is deployed; the requests under way are cut off.      *)
NewCatalog ==
  /\ release < Len(Releases) /\ release' = release + 1
  /\ act' = [u \in PackUsers |-> NoAct]
  /\ UNCHANGED <<pack, lifecycle, assignment, proposals>>

onlyActing == UNCHANGED <<release, pack, lifecycle, assignment, proposals>>

-----------------------------------------------------------------------------
(* The lifecycle of the installation.                                      *)
Toggles == {"enable", "disable", "pin", "unpin"}

compareVersions(action, target) ==
  /\ action = "upgrade" => target > pack.version
  /\ action = "rollback" => target < pack.version

(* Service.Transition, for a client that expects the revision it has seen.   *)
Transition(u, action, target) ==
  /\ act[u].step = "idle"
  /\ IF action \in Toggles THEN pack # NoPack /\ target = 0 ELSE target \in Catalog
  /\ pack # NoPack => compareVersions(action, target)
  /\ act' = [act EXCEPT ![u] = [step |-> "transition", action |-> action, target |-> target, expected |-> pack.revision]]
  /\ onlyActing

current(expected) == pack.revision = expected

wasInstalled(version) ==
  \E i \in DOMAIN lifecycle : version \in {lifecycle[i].from, lifecycle[i].to}

admitted(a) ==
  CASE a.action = "install" -> pack = NoPack /\ a.expected = 0
    [] a.action = "upgrade" -> pack # NoPack /\ current(a.expected) /\ ~pack.pinned /\ a.target # pack.version
    [] a.action = "rollback" -> /\ pack # NoPack /\ current(a.expected) /\ ~pack.pinned
                                /\ a.target # pack.version /\ wasInstalled(a.target)
    [] a.action \in Toggles -> pack # NoPack /\ current(a.expected)

transitioned(a) ==
  CASE a.action = "install" -> [version |-> a.target, state |-> "enabled", pinned |-> FALSE, revision |-> 1]
    [] a.action \in {"upgrade", "rollback"} -> [pack EXCEPT !.version = a.target, !.revision = @ + 1]
    [] a.action = "enable" -> [pack EXCEPT !.state = "enabled", !.revision = @ + 1]
    [] a.action = "disable" -> [pack EXCEPT !.state = "disabled", !.revision = @ + 1]
    [] a.action = "pin" -> [pack EXCEPT !.pinned = TRUE, !.revision = @ + 1]
    [] a.action = "unpin" -> [pack EXCEPT !.pinned = FALSE, !.revision = @ + 1]

TransitionCapability(u) ==
  /\ act[u].step = "transition" /\ Len(lifecycle) < MaxHistory
  /\ IF admitted(act[u])
     THEN /\ pack' = transitioned(act[u])
          /\ lifecycle' = Append(lifecycle, [from |-> pack.version, to |-> pack'.version])
     ELSE UNCHANGED <<pack, lifecycle>>
  /\ act' = [act EXCEPT ![u] = NoAct]
  /\ UNCHANGED <<release, assignment, proposals>>

-----------------------------------------------------------------------------
(* Configurations: a document may set declared fields only, and the others   *)
(* get their defaults, before anything is kept.                            *)
acceptable(version, document) == version \in Catalog /\ document \subseteq Declared[version]

NormalizeConfiguration(version, document) ==
  [field \in Declared[version] |-> IF field \in document THEN "set" ELSE "default"]

(* UpdateAssignmentConfiguration up to the transaction.                     *)
prepareAssignmentConfiguration(u, document) ==
  /\ act[u].step = "idle" /\ assignment # NoAssignment
  /\ acceptable(assignment.version, document)
  /\ act' = [act EXCEPT ![u] =
       [step |-> "configure", expected |-> assignment.revision,
        config |-> NormalizeConfiguration(assignment.version, document)]]
  /\ onlyActing

(* Mutant of unrevised: the assignment is not looked at again.              *)
unrevisedEver(expected) == expected \in Nat

unrevised(expected) == assignment.revision = expected

UpdateCapabilityAssignmentConfiguration(u) ==
  /\ act[u].step = "configure" /\ assignment.revision < MaxConfigures
  /\ assignment' = IF unrevised(act[u].expected)
                   THEN [assignment EXCEPT !.config = act[u].config, !.revision = @ + 1] ELSE assignment
  /\ act' = [act EXCEPT ![u] = NoAct]
  /\ UNCHANGED <<release, pack, lifecycle, proposals>>

-----------------------------------------------------------------------------
(* Repo Doctor: a scan proposes every version of the catalog whose detection *)
(* rules match the repository.                                             *)
propose(matching) == {[version |-> v, state |-> "pending", revision |-> 1] : v \in matching}

(* What the detection rules may match in a repository.                      *)
matches == (SUBSET Catalog) \ {{}}

Scan ==
  /\ \E matching \in matches :
       /\ Len(proposals) + Cardinality(matching) <= MaxProposals
       /\ proposals' = proposals \o SetToSeq(propose(matching))
  /\ UNCHANGED <<release, pack, lifecycle, assignment, act>>

(* A review of the proposal as the client saw it.                           *)
Review(u, p, accept, document) ==
  /\ act[u].step = "idle" /\ proposals[p].state = "pending"
  /\ accept => acceptable(proposals[p].version, document)
  /\ act' = [act EXCEPT ![u] =
       [step |-> "review", proposal |-> p, accept |-> accept, expected |-> proposals[p].revision,
        config |-> IF accept THEN NormalizeConfiguration(proposals[p].version, document) ELSE <<>>]]
  /\ onlyActing

undecided(p, expected) == proposals[p].state = "pending" /\ proposals[p].revision = expected

enabled(version) == pack.version = version /\ pack.state = "enabled"

ReviewRepoDoctorProposal(u) ==
  /\ act[u].step = "review" /\ assignment.revision < MaxConfigures
  /\ LET p == act[u].proposal
     IN IF undecided(p, act[u].expected) /\ (act[u].accept => enabled(proposals[p].version))
        THEN /\ proposals' = [proposals EXCEPT ![p].state = IF act[u].accept THEN "accepted" ELSE "rejected",
                                               ![p].revision = @ + 1]
             /\ assignment' = IF act[u].accept
                              THEN [version |-> proposals[p].version, config |-> act[u].config,
                                    revision |-> assignment.revision + 1]
                              ELSE assignment
        ELSE UNCHANGED <<proposals, assignment>>
  /\ act' = [act EXCEPT ![u] = NoAct]
  /\ UNCHANGED <<release, pack, lifecycle>>

PacksNext ==
  \/ NewCatalog \/ Scan
  \/ \E u \in PackUsers :
       \/ TransitionCapability(u) \/ UpdateCapabilityAssignmentConfiguration(u) \/ ReviewRepoDoctorProposal(u)
       \/ \E action \in {"install", "upgrade", "rollback"} \union Toggles, target \in Versions \union {0} :
            Transition(u, action, target)
       \/ \E document \in Documents : prepareAssignmentConfiguration(u, document)
       \/ \E p \in DOMAIN proposals, accept \in BOOLEAN, document \in Documents : Review(u, p, accept, document)

PacksSpec == PacksInit /\ [][PacksNext]_packsVars

-----------------------------------------------------------------------------
(* Properties.                                                             *)

(* The configuration of a project is complete for the exact version it is    *)
(* assigned, whichever proposals and edits were under way together           *)
(* (Service.UpdateAssignmentConfiguration and Service.Review).              *)
ConfigurationFits == assignment # NoAssignment => DOMAIN assignment.config = Declared[assignment.version]

=============================================================================
