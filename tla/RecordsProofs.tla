----------------------------- MODULE RecordsProofs -----------------------------
(***************************************************************************)
(* Proofs about what people approve and what is kept: packs                 *)
(* (CapabilityPacks), contracts (TaskContracts), artifacts (Backups) and    *)
(* the inventory of a forge (ForgeSync).                                    *)
(***************************************************************************)
EXTENDS CapabilityPacks, TaskContracts, Backups, ForgeSync, FiniteSetTheorems, SequenceTheorems, TLAPS

-----------------------------------------------------------------------------
(* Capability packs, for any manifests, catalogs and users.                 *)

Proposal == [version : Versions, state : {"pending", "accepted", "rejected"}, revision : Nat]

(* The tables: the assignment is one row, proposals are only added to.      *)
Tables ==
  /\ release \in DOMAIN Releases
  /\ proposals \in Seq(Proposal)
  /\ assignment = [version |-> assignment.version, config |-> assignment.config,
                   revision |-> assignment.revision]
  /\ assignment.revision \in Nat
  /\ act = [u \in PackUsers |-> act[u]]

(* A configuration on its way fits the version it will be kept with: that   *)
(* of its proposal, or that of the assignment unless that was revised.      *)
ReviewFits ==
  \A u \in PackUsers : act[u].step = "review" =>
    /\ act[u].proposal \in DOMAIN proposals
    /\ act[u].accept => DOMAIN act[u].config = Declared[proposals[act[u].proposal].version]

EditFits ==
  \A u \in PackUsers : act[u].step = "configure" =>
    /\ act[u].expected \in Nat /\ act[u].expected <= assignment.revision
    /\ act[u].expected = assignment.revision => DOMAIN act[u].config = Declared[assignment.version]

PacksInv == Tables /\ ReviewFits /\ EditFits /\ ConfigurationFits

(* Nothing is assigned and no request is under way at first.                *)
LEMMA PacksInitially == PacksInit => PacksInv
<1> SUFFICES ASSUME PacksInit PROVE PacksInv
  OBVIOUS
<1>1. Tables
  BY PacksAssumption, EmptySeq DEF PacksInit, Tables, NoAssignment
<1>2. \A u \in PackUsers : act[u].step = "idle"
  BY DEF PacksInit, NoAct
<1> QED
  BY <1>1, <1>2 DEF PacksInit, PacksInv, ReviewFits, EditFits, ConfigurationFits

(* A finite set of proposals can be appended.                               *)
LEMMA Listed ==
  ASSUME NEW S \in SUBSET Proposal, IsFiniteSet(S)
  PROVE  SetToSeq(S) \in Seq(Proposal) /\ \A i \in DOMAIN SetToSeq(S) : SetToSeq(S)[i] \in S
<1>1. PICK n \in Nat : ExistsBijection(1..n, S)
  BY FS_NatBijection
<1>2. Cardinality(S) = n
  BY <1>1, FS_CountingElements
<1>3. \E f \in [1..Cardinality(S) -> S] : IsInjective(f)
  BY <1>1, <1>2 DEF ExistsBijection, Bijection, Injection, IsInjective
<1>4. SetToSeq(S) \in [1..Cardinality(S) -> S]
  BY <1>3 DEF SetToSeq
<1> QED
  BY <1>2, <1>4, IsASeq

(* A deployment cuts the requests off; a scan leaves the proposals alone    *)
(* that there are.                                                         *)
LEMMA ScanKeeps == ASSUME PacksInv, NewCatalog \/ Scan PROVE PacksInv'
<1> USE DEF PacksInv
<1>1. CASE NewCatalog
  <2>1. \A u \in PackUsers : act'[u].step = "idle"
    BY <1>1 DEF NewCatalog, NoAct
  <2>2. release' \in DOMAIN Releases
    BY <1>1, PacksAssumption DEF NewCatalog, Tables
  <2> QED
    BY <1>1, <2>1, <2>2 DEF NewCatalog, Tables, ReviewFits, EditFits, ConfigurationFits
<1>2. CASE Scan
  <2>1. PICK matching \in matches : proposals' = proposals \o SetToSeq(propose(matching))
    BY <1>2 DEF Scan
  <2>2. matching \subseteq Versions
    BY PacksAssumption DEF matches, Catalog, Tables
  <2>3. propose(matching) \subseteq Proposal
    BY <2>2 DEF propose, Proposal
  <2>4. IsFiniteSet(propose(matching))
    <3>1. IsFiniteSet(matching)
      BY <2>2, PacksAssumption, FS_Subset
    <3> DEFINE F(v) == [version |-> v, state |-> "pending", revision |-> 1]
               f == [v \in matching |-> F(v)]
    <3>2. f \in Surjection(matching, propose(matching))
      BY DEF Surjection, propose
    <3> QED
      BY <3>1, <3>2, FS_Surjection
  <2>5. SetToSeq(propose(matching)) \in Seq(Proposal)
    BY <2>3, <2>4, Listed
  <2>6. /\ proposals' \in Seq(Proposal) /\ DOMAIN proposals \subseteq DOMAIN proposals'
        /\ \A p \in DOMAIN proposals : proposals'[p] = proposals[p]
    <3> DEFINE t == SetToSeq(propose(matching))
    <3> HIDE DEF t
    <3>1. proposals \in Seq(Proposal) /\ t \in Seq(Proposal) /\ proposals' = proposals \o t
      BY <2>1, <2>5 DEF Tables, t
    <3> QED
      BY <3>1, ConcatProperties, LenProperties
  <2> QED
    BY <1>2, <2>6 DEF Scan, Tables, ReviewFits, EditFits, ConfigurationFits
<1> QED
  BY <1>1, <1>2

(* The lifecycle of the installation leaves the project alone.              *)
LEMMA LifecycleKeeps ==
  ASSUME PacksInv, NEW u \in PackUsers,
         \/ TransitionCapability(u)
         \/ \E action \in {"install", "upgrade", "rollback"} \union Toggles, target \in Versions \union {0} :
              Transition(u, action, target)
  PROVE  PacksInv'
<1> USE DEF PacksInv
<1>1. PICK a \in {NoAct} \union [step : {"transition"}, action : {"install", "upgrade", "rollback"} \union Toggles,
                                 target : Versions \union {0}, expected : {pack.revision}] :
        act' = [act EXCEPT ![u] = a]
  <2>1. CASE TransitionCapability(u)
    BY <2>1 DEF TransitionCapability
  <2>2. ASSUME NEW action \in {"install", "upgrade", "rollback"} \union Toggles,
               NEW target \in Versions \union {0}, Transition(u, action, target)
        PROVE  \E a \in [step : {"transition"}, action : {"install", "upgrade", "rollback"} \union Toggles,
                         target : Versions \union {0}, expected : {pack.revision}] :
                 act' = [act EXCEPT ![u] = a]
    BY <2>2 DEF Transition
  <2> QED
    BY <2>1, <2>2
<1>2. a.step \notin {"review", "configure"}
  BY DEF NoAct
<1>3. UNCHANGED <<release, assignment, proposals>>
  BY DEF TransitionCapability, Transition, onlyActing
<1> QED
  BY <1>1, <1>2, <1>3 DEF Tables, ReviewFits, EditFits, ConfigurationFits

(* A request reads the assignment, or a proposal, and remembers what it read. *)
LEMMA RequestKeeps ==
  ASSUME PacksInv, NEW u \in PackUsers,
         \/ \E document \in Documents : prepareAssignmentConfiguration(u, document)
         \/ \E p \in DOMAIN proposals, accept \in BOOLEAN, document \in Documents : Review(u, p, accept, document)
  PROVE  PacksInv'
<1> USE DEF PacksInv
<1>n. \A version, document : DOMAIN NormalizeConfiguration(version, document) = Declared[version]
  BY DEF NormalizeConfiguration
<1>1. ASSUME NEW document \in Documents, prepareAssignmentConfiguration(u, document) PROVE PacksInv'
  <2> DEFINE a == [step |-> "configure", expected |-> assignment.revision,
                   config |-> NormalizeConfiguration(assignment.version, document)]
  <2>1. act' = [act EXCEPT ![u] = a] /\ onlyActing
    BY <1>1 DEF prepareAssignmentConfiguration
  <2>2. /\ a.step = "configure" /\ a.expected = assignment.revision
        /\ DOMAIN a.config = Declared[assignment.version]
    BY <1>n
  <2> HIDE DEF a
  <2> QED
    BY <2>1, <2>2 DEF onlyActing, Tables, ReviewFits, EditFits, ConfigurationFits
<1>2. ASSUME NEW p \in DOMAIN proposals, NEW accept \in BOOLEAN, NEW document \in Documents,
             Review(u, p, accept, document)
      PROVE  PacksInv'
  <2> DEFINE a == [step |-> "review", proposal |-> p, accept |-> accept, expected |-> proposals[p].revision,
                   config |-> IF accept THEN NormalizeConfiguration(proposals[p].version, document) ELSE <<>>]
  <2>1. act' = [act EXCEPT ![u] = a] /\ onlyActing
    BY <1>2 DEF Review
  <2>2. /\ a.step = "review" /\ a.proposal = p /\ a.accept = accept
        /\ accept => DOMAIN a.config = Declared[proposals[p].version]
    BY <1>n
  <2> HIDE DEF a
  <2> QED
    BY <2>1, <2>2 DEF onlyActing, Tables, ReviewFits, EditFits, ConfigurationFits
<1> QED
  BY <1>1, <1>2

(* An edit is kept only while the assignment is the one it was made for.    *)
LEMMA EditKeeps ==
  ASSUME PacksInv, NEW u \in PackUsers, UpdateCapabilityAssignmentConfiguration(u)
  PROVE  PacksInv'
<1> USE DEF PacksInv
<1>1. act' = [act EXCEPT ![u] = NoAct] /\ NoAct.step = "idle" /\ UNCHANGED <<release, proposals>>
  BY DEF UpdateCapabilityAssignmentConfiguration, NoAct
<1>2. CASE ~unrevised(act[u].expected)
  <2>1. UNCHANGED assignment
    BY <1>2 DEF UpdateCapabilityAssignmentConfiguration
  <2> QED
    BY <1>1, <2>1 DEF Tables, ReviewFits, EditFits, ConfigurationFits
<1>3. CASE unrevised(act[u].expected)
  <2>1. DOMAIN act[u].config = Declared[assignment.version]
    BY <1>3 DEF UpdateCapabilityAssignmentConfiguration, unrevised, EditFits
  <2>2. assignment' = [assignment EXCEPT !.config = act[u].config, !.revision = @ + 1]
    BY <1>3 DEF UpdateCapabilityAssignmentConfiguration
  <2>3. /\ assignment' = [version |-> assignment'.version, config |-> assignment'.config,
                          revision |-> assignment'.revision]
        /\ assignment'.version = assignment.version /\ assignment'.config = act[u].config
        /\ assignment'.revision = assignment.revision + 1
    BY <2>2 DEF Tables
  <2> QED
    BY <1>1, <2>1, <2>3 DEF Tables, ReviewFits, EditFits, ConfigurationFits
<1> QED
  BY <1>2, <1>3

(* A decision assigns the version of its proposal with the configuration    *)
(* that was completed for it, and with a new revision.                      *)
LEMMA DecisionKeeps ==
  ASSUME PacksInv, NEW u \in PackUsers, ReviewRepoDoctorProposal(u)
  PROVE  PacksInv'
<1> USE DEF PacksInv
<1> DEFINE p == act[u].proposal
<1>1. act' = [act EXCEPT ![u] = NoAct] /\ NoAct.step = "idle" /\ UNCHANGED release
  BY DEF ReviewRepoDoctorProposal, NoAct
<1>2. p \in DOMAIN proposals /\ (act[u].accept => DOMAIN act[u].config = Declared[proposals[p].version])
  BY DEF ReviewRepoDoctorProposal, ReviewFits
<1>3. \/ UNCHANGED <<proposals, assignment>>
      \/ /\ proposals' = [proposals EXCEPT ![p].state = IF act[u].accept THEN "accepted" ELSE "rejected",
                                           ![p].revision = @ + 1]
         /\ assignment' = IF act[u].accept
                          THEN [version |-> proposals[p].version, config |-> act[u].config,
                                revision |-> assignment.revision + 1]
                          ELSE assignment
  BY DEF ReviewRepoDoctorProposal
<1>4. CASE UNCHANGED <<proposals, assignment>>
  BY <1>1, <1>4 DEF Tables, ReviewFits, EditFits, ConfigurationFits
<1>5. CASE ~UNCHANGED <<proposals, assignment>>
  <2> DEFINE decided == [proposals[p] EXCEPT !.state = IF act[u].accept THEN "accepted" ELSE "rejected",
                                             !.revision = @ + 1]
  <2>1. proposals[p] \in Proposal
    BY <1>2 DEF Tables
  <2>2. decided \in Proposal /\ decided.version = proposals[p].version
    <3> DEFINE now == IF act[u].accept THEN "accepted" ELSE "rejected"
    <3>1. now \in {"pending", "accepted", "rejected"}
      OBVIOUS
    <3> DEFINE q == proposals[p]
               reviewed == [q EXCEPT !.state = now]
               counted == [reviewed EXCEPT !.revision = q.revision + 1]
    <3>2. reviewed \in Proposal /\ reviewed.version = q.version /\ q.revision + 1 \in Nat
      BY <2>1, <3>1 DEF Proposal
    <3>3. counted \in Proposal /\ counted.version = q.version
      <4> HIDE DEF reviewed, q
      <4> QED
        BY <3>2 DEF Proposal
    <3>4. decided = counted
      <4> HIDE DEF q, now
      <4>1. q \in Proposal
        BY <2>1 DEF q
      <4>2. [q EXCEPT !.state = now, !.revision = @ + 1] = counted
        BY <4>1 DEF Proposal
      <4> QED
        BY <4>2 DEF q, now
    <3> HIDE DEF counted, decided
    <3> QED
      BY <3>3, <3>4
  <2>3. proposals' = [proposals EXCEPT ![p] = decided]
    BY <1>3, <1>5, <2>1 DEF Proposal
  <2>4. /\ proposals' \in Seq(Proposal) /\ DOMAIN proposals' = DOMAIN proposals
        /\ \A q \in DOMAIN proposals : proposals'[q].version = proposals[q].version
    <3>1. p \in DOMAIN proposals
      BY <1>2
    <3> HIDE DEF p, decided
    <3> QED
      BY <3>1, <2>2, <2>3, ExceptSeq, ElementOfSeq, LenProperties DEF Tables
  <2>5. CASE ~act[u].accept
    <3>1. UNCHANGED assignment
      BY <1>3, <1>5, <2>5
    <3> HIDE DEF p, decided
    <3> QED
      BY <1>1, <2>4, <3>1 DEF Tables, ReviewFits, EditFits, ConfigurationFits
  <2>6. CASE act[u].accept
    <3>1. assignment' = [version |-> proposals[p].version, config |-> act[u].config,
                         revision |-> assignment.revision + 1]
      BY <1>3, <1>5, <2>6
    <3>2. /\ assignment' = [version |-> assignment'.version, config |-> assignment'.config,
                            revision |-> assignment'.revision]
          /\ assignment'.revision = assignment.revision + 1
          /\ DOMAIN assignment'.config = Declared[assignment'.version]
      <4> DEFINE v == proposals[p].version  c == act[u].config
      <4>1. DOMAIN c = Declared[v]
        BY <1>2, <2>6
      <4>2. assignment' = [version |-> v, config |-> c, revision |-> assignment.revision + 1]
        BY <3>1
      <4> HIDE DEF v, c
      <4> QED
        BY <4>1, <4>2
    <3> HIDE DEF p, decided
    <3>3. Tables' /\ ConfigurationFits'
      BY <1>1, <2>4, <3>2 DEF Tables, ConfigurationFits
    <3>4. ReviewFits'
      BY <1>1, <2>4 DEF Tables, ReviewFits
    <3>5. EditFits'
      BY <1>1, <3>2 DEF Tables, EditFits
    <3> QED
      BY <3>3, <3>4, <3>5
  <2> QED
    BY <2>5, <2>6
<1> QED
  BY <1>4, <1>5

LEMMA PacksStep ==
  ASSUME PacksInv, [PacksNext]_packsVars
  PROVE  PacksInv'
<1>1. CASE UNCHANGED packsVars
  BY <1>1 DEF packsVars, PacksInv, Tables, ReviewFits, EditFits, ConfigurationFits
<1>2. CASE PacksNext
  BY <1>2, ScanKeeps, LifecycleKeeps, RequestKeeps, EditKeeps, DecisionKeeps DEF PacksNext
<1> QED
  BY <1>1, <1>2

(* The configuration of a project is complete for the version it is         *)
(* assigned, for any manifests, catalogs, users and interleavings           *)
(* (capabilities.go, UpdateCapabilityAssignmentConfiguration and            *)
(* ReviewRepoDoctorProposal).                                               *)
THEOREM FitsForAll == PacksSpec => []ConfigurationFits
<1>1. PacksInv => ConfigurationFits
  BY DEF PacksInv
<1> QED
  BY <1>1, PacksInitially, PacksStep, PTL DEF PacksSpec

(* The types: a request holds what it was admitted with, the revision of an  *)
(* installation is behind its history, and a proposal is decided once.      *)
Installation ==
  [version : Versions \union {0}, state : {"absent", "enabled", "disabled"}, pinned : BOOLEAN, revision : Nat]

Transitions ==
  [step : {"transition"}, action : Toggles, target : {0}, expected : Nat]
    \union [step : {"transition"}, action : {"install", "upgrade", "rollback"}, target : Versions, expected : Nat]

LifecycleTypes ==
  /\ pack \in Installation
  /\ lifecycle \in Seq([from : Versions \union {0}, to : Versions \union {0}])
  /\ pack.revision <= Len(lifecycle) /\ Len(lifecycle) <= MaxHistory
  /\ \A u \in PackUsers :
       /\ act[u].step \in {"idle", "transition", "configure", "review"}
       /\ act[u].step = "transition" => act[u] \in Transitions

AssignmentTypes ==
  /\ assignment.version \in Versions \union {0} /\ assignment.revision <= MaxConfigures
  /\ \A p \in DOMAIN proposals :
       proposals[p].revision \in {1, 2} /\ (proposals[p].state = "pending" => proposals[p].revision = 1)

(* An installation changes by at most one revision.                         *)
LEMMA InstallationMoves ==
  ASSUME NEW a \in Transitions, pack \in Installation
  PROVE  transitioned(a) \in Installation /\ transitioned(a).revision <= pack.revision + 1
<1>1. pack.revision + 1 \in Nat
  BY DEF Installation
<1>2. CASE a.action = "install"
  <2>1. transitioned(a) = [version |-> a.target, state |-> "enabled", pinned |-> FALSE, revision |-> 1]
    BY <1>2 DEF transitioned
  <2>2. a.target \in Versions
    BY <1>2 DEF Transitions, Toggles
  <2> QED
    BY <1>1, <2>1, <2>2 DEF Installation
<1> DEFINE counted(p) == [p EXCEPT !.revision = pack.revision + 1]
<1>3. ASSUME NEW p \in Installation
      PROVE  counted(p) \in Installation /\ counted(p).revision = pack.revision + 1
  BY <1>1 DEF Installation
<1>4. CASE a.action \in {"upgrade", "rollback"}
  <2> DEFINE p == [pack EXCEPT !.version = a.target]
  <2>1. a.target \in Versions
    BY <1>4 DEF Transitions, Toggles
  <2>2. p \in Installation
    BY <2>1 DEF Installation
  <2>3. transitioned(a) = [pack EXCEPT !.version = a.target, !.revision = @ + 1]
    BY <1>4 DEF transitioned
  <2>4. transitioned(a) = counted(p)
    BY <2>3 DEF Installation
  <2> HIDE DEF p, counted
  <2> QED
    BY <1>1, <1>3, <2>2, <2>4 DEF Installation
<1>5. CASE a.action \in {"enable", "disable"}
  <2> DEFINE s == IF a.action = "enable" THEN "enabled" ELSE "disabled"
             p == [pack EXCEPT !.state = s]
  <2>1. s \in {"absent", "enabled", "disabled"}
    OBVIOUS
  <2>3. transitioned(a) = [pack EXCEPT !.state = s, !.revision = @ + 1]
    BY <1>5 DEF transitioned, Toggles
  <2> HIDE DEF s
  <2>2. p \in Installation
    BY <2>1 DEF Installation
  <2>4. transitioned(a) = counted(p)
    BY <2>3 DEF Installation
  <2> HIDE DEF p, counted
  <2> QED
    BY <1>1, <1>3, <2>2, <2>4 DEF Installation
<1>6. CASE a.action \in {"pin", "unpin"}
  <2> DEFINE b == a.action = "pin"
             p == [pack EXCEPT !.pinned = b]
  <2>1. b \in BOOLEAN
    OBVIOUS
  <2>3. transitioned(a) = [pack EXCEPT !.pinned = b, !.revision = @ + 1]
    <3>1. CASE a.action = "pin"
      BY <3>1 DEF transitioned, Toggles
    <3>2. CASE a.action = "unpin"
      BY <3>2 DEF transitioned, Toggles
    <3> QED
      BY <1>6, <3>1, <3>2
  <2> HIDE DEF b
  <2>2. p \in Installation
    BY <2>1 DEF Installation
  <2>4. transitioned(a) = counted(p)
    BY <2>3 DEF Installation
  <2> HIDE DEF p, counted
  <2> QED
    BY <1>1, <1>3, <2>2, <2>4 DEF Installation
<1> QED
  BY <1>2, <1>4, <1>5, <1>6 DEF Transitions, Toggles

LEMMA LifecycleTyped ==
  ASSUME PacksInv, LifecycleTypes, [PacksNext]_packsVars
  PROVE  LifecycleTypes'
<1>0. act = [u \in PackUsers |-> act[u]]
  BY DEF PacksInv, Tables
<1>1. ASSUME NEW u \in PackUsers, NEW a, act' = [act EXCEPT ![u] = a],
             a.step \in {"idle", "configure", "review"} \/ a \in Transitions
      PROVE  \A v \in PackUsers :
               /\ act'[v].step \in {"idle", "transition", "configure", "review"}
               /\ act'[v].step = "transition" => act'[v] \in Transitions
  BY <1>0, <1>1 DEF LifecycleTypes, Transitions
<1>2. ASSUME NEW u \in PackUsers, NEW action \in {"install", "upgrade", "rollback"} \union Toggles,
             NEW target \in Versions \union {0}, Transition(u, action, target)
      PROVE  LifecycleTypes'
  <2> DEFINE a == [step |-> "transition", action |-> action, target |-> target, expected |-> pack.revision]
  <2>1. act' = [act EXCEPT ![u] = a] /\ UNCHANGED <<pack, lifecycle>>
    BY <1>2 DEF Transition, onlyActing
  <2>2. IF action \in Toggles THEN target = 0 ELSE target \in Versions
    BY <1>2, PacksAssumption DEF Transition, Catalog, PacksInv, Tables
  <2>3. a \in Transitions
    BY <2>2 DEF Transitions, LifecycleTypes, Installation
  <2> HIDE DEF a
  <2> QED
    BY <1>1, <2>1, <2>3 DEF LifecycleTypes
<1>3. ASSUME NEW u \in PackUsers, TransitionCapability(u) PROVE LifecycleTypes'
  <2>1. act[u] \in Transitions /\ act' = [act EXCEPT ![u] = NoAct] /\ NoAct.step = "idle"
    BY <1>3 DEF TransitionCapability, LifecycleTypes, NoAct
  <2>2. CASE UNCHANGED <<pack, lifecycle>>
    BY <1>1, <2>1, <2>2 DEF LifecycleTypes
  <2>3. CASE /\ pack' = transitioned(act[u])
             /\ lifecycle' = Append(lifecycle, [from |-> pack.version, to |-> pack'.version])
    <3>1. pack' \in Installation /\ pack'.revision <= pack.revision + 1
      BY <2>1, <2>3, InstallationMoves DEF LifecycleTypes
    <3> DEFINE e == [from |-> pack.version, to |-> pack'.version]
               E == [from : Versions \union {0}, to : Versions \union {0}]
    <3>2. e \in E /\ lifecycle \in Seq(E) /\ lifecycle' = Append(lifecycle, e)
      BY <2>3, <3>1 DEF LifecycleTypes, Installation
    <3>3. Len(lifecycle) < MaxHistory
      BY <1>3 DEF TransitionCapability
    <3> HIDE DEF e
    <3>4. lifecycle' \in Seq(E) /\ Len(lifecycle') = Len(lifecycle) + 1 /\ Len(lifecycle) \in Nat
      BY <3>2
    <3>5. pack.revision <= Len(lifecycle) /\ pack.revision \in Nat /\ pack'.revision \in Nat /\ MaxHistory \in Nat
      BY <3>1, PacksAssumption DEF LifecycleTypes, Installation
    <3>6. pack'.revision <= Len(lifecycle') /\ Len(lifecycle') <= MaxHistory
      BY <3>1, <3>3, <3>4, <3>5
    <3> QED
      BY <1>1, <2>1, <3>1, <3>4, <3>6 DEF LifecycleTypes
  <2> QED
    BY <1>3, <2>2, <2>3 DEF TransitionCapability
<1>4. ASSUME NEW u \in PackUsers, NEW document \in Documents, prepareAssignmentConfiguration(u, document)
      PROVE  LifecycleTypes'
  <2>1. PICK a : a.step = "configure" /\ act' = [act EXCEPT ![u] = a]
    BY <1>4 DEF prepareAssignmentConfiguration
  <2> QED
    BY <1>1, <1>4, <2>1 DEF prepareAssignmentConfiguration, onlyActing, LifecycleTypes
<1>5. ASSUME NEW u \in PackUsers, NEW p \in DOMAIN proposals, NEW accept \in BOOLEAN,
             NEW document \in Documents, Review(u, p, accept, document)
      PROVE  LifecycleTypes'
  <2>1. PICK a : a.step = "review" /\ act' = [act EXCEPT ![u] = a]
    BY <1>5 DEF Review
  <2> QED
    BY <1>1, <1>5, <2>1 DEF Review, onlyActing, LifecycleTypes
<1>6. ASSUME NEW u \in PackUsers, UpdateCapabilityAssignmentConfiguration(u) \/ ReviewRepoDoctorProposal(u)
      PROVE  LifecycleTypes'
  <2>1. act' = [act EXCEPT ![u] = NoAct] /\ NoAct.step = "idle" /\ UNCHANGED <<pack, lifecycle>>
    BY <1>6 DEF UpdateCapabilityAssignmentConfiguration, ReviewRepoDoctorProposal, NoAct
  <2> QED
    BY <1>1, <2>1 DEF LifecycleTypes
<1>7. CASE NewCatalog
  BY <1>7 DEF NewCatalog, NoAct, LifecycleTypes
<1>8. CASE Scan \/ UNCHANGED packsVars
  BY <1>8 DEF Scan, packsVars, LifecycleTypes
<1> QED
  BY <1>2, <1>3, <1>4, <1>5, <1>6, <1>7, <1>8 DEF PacksNext

LEMMA AssignmentTyped ==
  ASSUME PacksInv, AssignmentTypes, [PacksNext]_packsVars
  PROVE  AssignmentTypes'
<1>0. /\ assignment.revision \in Nat /\ proposals \in Seq(Proposal) /\ MaxConfigures \in Nat
      /\ assignment = [version |-> assignment.version, config |-> assignment.config,
                       revision |-> assignment.revision]
  BY PacksAssumption DEF PacksInv, Tables
<1>1. CASE UNCHANGED <<assignment, proposals>>
  BY <1>1 DEF AssignmentTypes
<1>2. CASE Scan
  <2>1. PICK matching \in matches : proposals' = proposals \o SetToSeq(propose(matching))
    BY <1>2 DEF Scan
  <2> DEFINE New == propose(matching)
             t == SetToSeq(New)
  <2>2. matching \subseteq Versions /\ IsFiniteSet(matching)
    BY PacksAssumption, FS_Subset DEF matches, Catalog, PacksInv, Tables
  <2>3. New \subseteq Proposal /\ \A x \in New : x.revision = 1
    BY <2>2 DEF propose, Proposal
  <2>4. IsFiniteSet(New)
    <3> DEFINE f == [v \in matching |-> [version |-> v, state |-> "pending", revision |-> 1]]
    <3>1. f \in Surjection(matching, New)
      BY DEF Surjection, propose
    <3> QED
      BY <2>2, <3>1, FS_Surjection
  <2> HIDE DEF New
  <2>5. t \in Seq(Proposal) /\ \A i \in DOMAIN t : t[i] \in New
    BY <2>3, <2>4, Listed
  <2>7. proposals' = proposals \o t /\ UNCHANGED assignment
    BY <1>2, <2>1 DEF Scan, New
  <2> HIDE DEF t
  <2>8. ASSUME NEW p \in DOMAIN proposals'
        PROVE  \/ p \in DOMAIN proposals /\ proposals'[p] = proposals[p]
               \/ \E i \in DOMAIN t : proposals'[p] = t[i]
    <3>1. /\ DOMAIN proposals' = 1..Len(proposals) + Len(t) /\ Len(proposals) \in Nat /\ Len(t) \in Nat
          /\ DOMAIN proposals = 1..Len(proposals) /\ DOMAIN t = 1..Len(t)
      BY <1>0, <2>5, <2>7, ConcatProperties, LenProperties
    <3>2. CASE p <= Len(proposals)
      BY <1>0, <2>5, <2>7, <3>1, <3>2, ConcatProperties
    <3>3. CASE p > Len(proposals)
      <4>1. p - Len(proposals) \in DOMAIN t
        BY <3>1, <3>3
      <4>2. proposals'[p] = t[p - Len(proposals)]
        BY <1>0, <2>5, <2>7, <3>1, <3>3, ConcatProperties
      <4> QED
        BY <4>1, <4>2
    <3> QED
      BY <3>1, <3>2, <3>3
  <2> QED
    BY <2>3, <2>5, <2>7, <2>8 DEF AssignmentTypes
<1>3. ASSUME NEW u \in PackUsers, UpdateCapabilityAssignmentConfiguration(u) PROVE AssignmentTypes'
  <2>1. CASE UNCHANGED assignment
    BY <1>3, <2>1 DEF UpdateCapabilityAssignmentConfiguration, AssignmentTypes
  <2>2. CASE assignment' = [assignment EXCEPT !.config = act[u].config, !.revision = @ + 1]
    <3>1. assignment'.version = assignment.version /\ assignment'.revision = assignment.revision + 1
      BY <1>0, <2>2
    <3>2. assignment.revision < MaxConfigures /\ UNCHANGED proposals
      BY <1>3 DEF UpdateCapabilityAssignmentConfiguration
    <3> QED
      BY <1>0, <3>1, <3>2 DEF AssignmentTypes
  <2> QED
    BY <1>3, <2>1, <2>2 DEF UpdateCapabilityAssignmentConfiguration
<1>4. ASSUME NEW u \in PackUsers, ReviewRepoDoctorProposal(u) PROVE AssignmentTypes'
  <2> DEFINE p == act[u].proposal
             now == IF act[u].accept THEN "accepted" ELSE "rejected"
  <2>1. p \in DOMAIN proposals /\ proposals[p] \in Proposal
    <3>1. p \in DOMAIN proposals
      BY <1>4 DEF ReviewRepoDoctorProposal, PacksInv, ReviewFits
    <3> QED
      BY <1>0, <3>1
  <2>2. CASE UNCHANGED <<proposals, assignment>>
    BY <1>1, <2>2
  <2>3. CASE ~UNCHANGED <<proposals, assignment>>
    <3>1. /\ proposals[p].state = "pending" /\ assignment.revision < MaxConfigures
          /\ proposals' = [proposals EXCEPT ![p].state = now, ![p].revision = @ + 1]
          /\ assignment' = IF act[u].accept
                           THEN [version |-> proposals[p].version, config |-> act[u].config,
                                 revision |-> assignment.revision + 1]
                           ELSE assignment
      BY <1>4, <2>3 DEF ReviewRepoDoctorProposal, undecided
    <3>2. assignment'.version \in Versions \union {0} /\ assignment'.revision <= MaxConfigures
      <4>1. CASE act[u].accept
        <5>1. proposals[p].version \in Versions
          BY <2>1 DEF Proposal
        <5>2. assignment'.version = proposals[p].version /\ assignment'.revision = assignment.revision + 1
          BY <3>1, <4>1
        <5> QED
          BY <1>0, <3>1, <5>1, <5>2
      <4>2. CASE ~act[u].accept
        BY <3>1, <4>2 DEF AssignmentTypes
      <4> QED
        BY <4>1, <4>2
    <3>3. proposals[p].revision = 1 /\ now # "pending"
      BY <2>1, <3>1 DEF AssignmentTypes
    <3> DEFINE x == proposals[p]
               y == [x EXCEPT !.state = now]
               z == [y EXCEPT !.revision = x.revision + 1]
    <3>4. proposals' = [proposals EXCEPT ![p] = z]
      <4> HIDE DEF p, now
      <4> QED
        BY <2>1, <3>1 DEF Proposal
    <3>5. z.revision = 2 /\ z.state = now
      <4>1. y.state = now /\ y = [version |-> y.version, state |-> y.state, revision |-> y.revision]
        BY <2>1 DEF Proposal
      <4> HIDE DEF y, p, now
      <4> QED
        BY <3>3, <4>1
    <3> HIDE DEF z, p, now
    <3>6. /\ DOMAIN proposals' = DOMAIN proposals
          /\ \A q \in DOMAIN proposals : proposals'[q] = IF q = p THEN z ELSE proposals[q]
      BY <2>1, <3>4
    <3> QED
      BY <3>2, <3>3, <3>5, <3>6 DEF AssignmentTypes
  <2> QED
    BY <2>2, <2>3
<1>5. CASE UNCHANGED packsVars
  BY <1>1, <1>5 DEF packsVars
<1>6. CASE NewCatalog
  BY <1>1, <1>6 DEF NewCatalog
<1>7. ASSUME NEW u \in PackUsers,
             \/ TransitionCapability(u)
             \/ \E action \in {"install", "upgrade", "rollback"} \union Toggles, target \in Versions \union {0} :
                  Transition(u, action, target)
             \/ \E document \in Documents : prepareAssignmentConfiguration(u, document)
             \/ \E p \in DOMAIN proposals, accept \in BOOLEAN, document \in Documents :
                  Review(u, p, accept, document)
      PROVE  AssignmentTypes'
  <2>1. UNCHANGED <<assignment, proposals>>
    BY <1>7 DEF TransitionCapability, Transition, prepareAssignmentConfiguration, Review, onlyActing
  <2> QED
    BY <1>1, <2>1
<1> QED
  BY <1>2, <1>3, <1>4, <1>5, <1>6, <1>7 DEF PacksNext

(* Installations, histories, proposals and assignments keep their types, and *)
(* no proposal is decided twice.                                            *)
THEOREM PacksTypesForAll == PacksSpec => []PacksTypeOK
<1> DEFINE Inv == PacksInv /\ LifecycleTypes /\ AssignmentTypes
<1>1. PacksInit => Inv
  <2> SUFFICES ASSUME PacksInit PROVE Inv
    OBVIOUS
  <2>1. PacksInv
    BY PacksInitially
  <2>2. LifecycleTypes
    <3>1. <<>> \in Seq([from : Versions \union {0}, to : Versions \union {0}]) /\ Len(<<>>) = 0
      OBVIOUS
    <3>2. NoPack \in Installation /\ NoPack.revision = 0
      BY DEF NoPack, Installation
    <3> QED
      BY <3>1, <3>2, PacksAssumption DEF PacksInit, NoAct, LifecycleTypes
  <2>3. AssignmentTypes
    BY PacksAssumption DEF PacksInit, NoAssignment, AssignmentTypes
  <2> QED
    BY <2>1, <2>2, <2>3
<1>2. Inv /\ [PacksNext]_packsVars => Inv'
  <2> SUFFICES ASSUME Inv, [PacksNext]_packsVars PROVE Inv'
    OBVIOUS
  <2> QED
    BY PacksStep, LifecycleTyped, AssignmentTyped
<1>3. Inv => PacksTypeOK
  <2> SUFFICES ASSUME Inv PROVE PacksTypeOK
    OBVIOUS
  <2>1. pack \in Installation /\ pack.revision <= Len(lifecycle) /\ Len(lifecycle) <= MaxHistory
        /\ Len(lifecycle) \in Nat /\ MaxHistory \in Nat
    BY PacksAssumption DEF LifecycleTypes
  <2>2. pack.revision \in 0..MaxHistory
    BY <2>1 DEF Installation
  <2>3. pack \in [version : Versions \union {0}, state : {"absent", "enabled", "disabled"},
                  pinned : BOOLEAN, revision : 0 .. MaxHistory]
    BY <2>1, <2>2 DEF Installation
  <2>4. \A p \in DOMAIN proposals :
          proposals[p] \in [version : Versions, state : {"pending", "accepted", "rejected"}, revision : {1, 2}]
    <3> SUFFICES ASSUME NEW p \in DOMAIN proposals
                 PROVE  proposals[p] \in [version : Versions, state : {"pending", "accepted", "rejected"},
                                          revision : {1, 2}]
      OBVIOUS
    <3>1. proposals[p] \in Proposal
      BY DEF PacksInv, Tables
    <3>2. proposals[p].revision \in {1, 2}
      BY DEF AssignmentTypes
    <3> QED
      BY <3>1, <3>2 DEF Proposal
  <2>5. assignment.revision \in 0 .. MaxConfigures
    BY PacksAssumption DEF PacksInv, Tables, AssignmentTypes
  <2> QED
    BY <2>1, <2>3, <2>4, <2>5 DEF PacksInv, Tables, LifecycleTypes, AssignmentTypes, PacksTypeOK
<1> QED
  BY <1>1, <1>2, <1>3, PTL DEF PacksSpec

-----------------------------------------------------------------------------
(* Task contracts, for any jobs, contributors and wordings.                 *)

(* A contract, whatever its version: the bounds of the model play no part.  *)
Written ==
  [version : Nat \ {0}, approved : BOOLEAN, author : Contributors \union {Clerk}, text : Text]

Rows == contracts \in [TaskJobs -> Written \union {NoContract}] /\ criteria = [j \in TaskJobs |-> criteria[j]]

States ==
  taskState \in [TaskJobs -> {"waiting", "locking_acceptance_criteria", "awaiting_task_approval",
                              "loading_implementation_model", "failed"}]

(* The phase runs in its own state only, and never beside an approval.      *)
PhaseInPlace ==
  \A j \in TaskJobs : phase[j] # Free => taskState[j] = "locking_acceptance_criteria"

PhaseDefined == phase = [j \in TaskJobs |-> phase[j]]

ApprovalInv == Rows /\ States /\ PhaseDefined /\ PhaseInPlace /\ ApprovedIsImplemented

(* A contract that was written is not a missing one.                        *)
LEMMA WrittenExists == ASSUME NEW c \in Written PROVE c # NoContract /\ c.version \in Nat
  BY DEF Written, NoContract

(* Writing a draft leaves the approved contract alone.                      *)
LEMMA EnsureKeeps ==
  ASSUME Rows, NEW j \in TaskJobs, NEW text \in Text, NEW author \in Contributors \union {Clerk},
         EnsureTaskContract(j, text, author)
  PROVE  /\ contracts' \in [TaskJobs -> Written \union {NoContract}]
         /\ \A k \in TaskJobs : closed(k) => contracts'[k] = contracts[k]
<1>1. CASE closed(j)
  BY <1>1 DEF EnsureTaskContract, Rows
<1>2. CASE ~closed(j)
  <2>1. contracts[j].version \in Nat
    BY WrittenExists DEF Rows, NoContract
  <2>2. Normalize(j, text, author) \in Written
    BY <2>1 DEF Normalize, Written
  <2> QED
    BY <1>2, <2>2 DEF EnsureTaskContract, Rows
<1> QED
  BY <1>1, <1>2

(* No contract is written and no phase runs at first.                      *)
LEMMA ApprovalInitially == ContractsInit => ApprovalInv
  BY DEF ContractsInit, ApprovalInv, Rows, States, PhaseDefined, PhaseInPlace, ApprovedIsImplemented

(* What the words of a task and of an edit become is a text.                *)
LEMMA Texts ==
  /\ \A j \in TaskJobs : DraftFromTask(j) \in Text
  /\ [criteria : Criteria, signals : Wordings] \subseteq Text
  BY TaskContractsAssumption DEF DraftFromTask, Text, Signals, Weight, Drafted

(* The steps of the job and of the engine.                                  *)
LEMMA PhaseKeeps ==
  ASSUME ApprovalInv, NEW j \in TaskJobs,
         \/ Reach(j) \/ Lock(j) \/ AssessDraft(j) \/ CompleteLocking(j)
         \/ Recover(j) \/ FailTask(j) \/ RetryTask(j)
  PROVE  ApprovalInv'
<1> USE DEF ApprovalInv, Free
<1>1. CASE Reach(j)
  BY <1>1 DEF Reach, Rows, States, PhaseDefined, PhaseInPlace, ApprovedIsImplemented, closed, exists
<1>2. CASE Lock(j)
  <2>1. contracts' \in [TaskJobs -> Written \union {NoContract}]
        /\ \A k \in TaskJobs : closed(k) => contracts'[k] = contracts[k]
    <3>1. DraftFromTask(j) \in Text /\ Clerk \in Contributors \union {Clerk}
      BY Texts
    <3> QED
      BY <1>2, <3>1, EnsureKeeps DEF Lock
  <2> QED
    BY <1>2, <2>1 DEF Lock, Rows, States, PhaseDefined, PhaseInPlace, ApprovedIsImplemented, closed, exists
<1>3. CASE AssessDraft(j)
  <2>1. phase[j] # Free
    BY <1>3 DEF AssessDraft
  <2>2. taskState[j] = "locking_acceptance_criteria"
    BY <2>1 DEF PhaseInPlace
  <2> QED
    BY <1>3, <2>2 DEF AssessDraft, Rows, States, PhaseDefined, PhaseInPlace, ApprovedIsImplemented, closed, exists
<1>4. CASE CompleteLocking(j)
  BY <1>4 DEF CompleteLocking, Rows, States, PhaseDefined, PhaseInPlace, ApprovedIsImplemented, closed, exists
<1>5. CASE Recover(j)
  BY <1>5 DEF Recover, failing, Rows, States, PhaseDefined, PhaseInPlace, ApprovedIsImplemented, closed, exists
<1>6. CASE FailTask(j)
  BY <1>6 DEF FailTask, failing, Rows, States, PhaseDefined, PhaseInPlace, ApprovedIsImplemented, closed, exists
<1>7. CASE RetryTask(j)
  BY <1>7 DEF RetryTask, Rows, States, PhaseDefined, PhaseInPlace, ApprovedIsImplemented, closed, exists
<1> QED
  BY <1>1, <1>2, <1>3, <1>4, <1>5, <1>6, <1>7

(* An edit writes the draft, or nothing; an approval closes it.             *)
LEMMA PeopleKeep ==
  ASSUME ApprovalInv, NEW j \in TaskJobs, NEW p \in Contributors, Edit(p, j) \/ Approve(p, j)
  PROVE  ApprovalInv'
<1> USE DEF ApprovalInv
<1>1. CASE Edit(p, j)
  <2>1. PICK text \in [criteria : Criteria, signals : Wordings] : EnsureTaskContract(j, text, p)
    BY <1>1 DEF Edit
  <2>2. contracts' \in [TaskJobs -> Written \union {NoContract}]
        /\ \A k \in TaskJobs : closed(k) => contracts'[k] = contracts[k]
    <3>1. text \in Text
      BY Texts
    <3> QED
      BY <2>1, <3>1, EnsureKeeps
  <2> QED
    BY <1>1, <2>2 DEF Edit, Rows, States, PhaseDefined, PhaseInPlace, ApprovedIsImplemented, closed, exists
<1>2. CASE Approve(p, j)
  <2>1. contracts[j] \in Written
    BY <1>2 DEF Approve, exists, Rows
  <2>2. LET c == [contracts[j] EXCEPT !.approved = TRUE] IN
        c \in Written /\ c.approved /\ c.text = contracts[j].text
    BY <2>1 DEF Written
  <2>3. contracts' = [contracts EXCEPT ![j] = [contracts[j] EXCEPT !.approved = TRUE]]
    BY <1>2 DEF Approve
  <2>4. contracts'[j] \in Written /\ contracts'[j].approved /\ contracts'[j].text = contracts[j].text
        /\ contracts' \in [TaskJobs -> Written \union {NoContract}]
        /\ \A k \in TaskJobs \ {j} : contracts'[k] = contracts[k]
    BY <2>2, <2>3 DEF Rows
  <2>5. contracts'[j] # NoContract
    BY <2>4, WrittenExists
  <2> QED
    BY <1>2, <2>4, <2>5 DEF Approve, Rows, States, PhaseDefined, PhaseInPlace, ApprovedIsImplemented, closed, exists
<1> QED
  BY <1>1, <1>2

(* Assessments and waivers leave the approved contract alone.                *)
LEMMA ApprovalStep ==
  ASSUME ApprovalInv, [ContractsNext]_contractsVars
  PROVE  ApprovalInv'
<1>1. ASSUME UNCHANGED <<contracts, taskState, criteria, phase>> PROVE ApprovalInv'
  BY <1>1 DEF ApprovalInv, Rows, States, PhaseDefined, PhaseInPlace, ApprovedIsImplemented, closed, exists
<1>2. ASSUME NEW j \in TaskJobs, NEW p \in Contributors, ReadForWaiver(p, j) PROVE ApprovalInv'
  BY <1>1, <1>2 DEF ReadForWaiver
<1>3. ASSUME NEW p \in Contributors, AssessEdit(p) \/ AssessApproved(p) \/ CreateRiskWaiver(p)
      PROVE  ApprovalInv'
  BY <1>1, <1>3 DEF AssessEdit, AssessApproved, CreateRiskWaiver
<1>4. CASE UNCHANGED contractsVars
  BY <1>1, <1>4 DEF contractsVars
<1> QED
  BY <1>2, <1>3, <1>4, PhaseKeeps, PeopleKeep DEF ContractsNext

(* What is implemented is what a person approved, for any jobs, edits,      *)
(* retries and waivers (task_contracts.go, EnsureTaskContract and           *)
(* ApproveTaskContract; coordinator.go, the locking phase).                 *)
THEOREM ApprovedForAll == ContractsSpec => []ApprovedIsImplemented
<1>1. ApprovalInv => ApprovedIsImplemented
  BY DEF ApprovalInv
<1> QED
  BY <1>1, ApprovalInitially, ApprovalStep, PTL DEF ContractsSpec

(* The types.  What the phase and the people hold is a contract that was     *)
(* written and an assessment that was made.                                 *)
Assessments == [version : Nat \ {0}, level : Levels]

PhaseHolds ==
  \A j \in TaskJobs :
    /\ phase[j].step \in {"free", "drafted", "assessed"}
    /\ phase[j].step = "drafted" => phase[j].contract \in Written

DeskHolds ==
  /\ desk = [p \in Contributors |-> desk[p]]
  /\ \A p \in Contributors :
       /\ desk[p].step \in {"free", "edited", "approved", "lowering"}
       /\ desk[p].step # "free" => desk[p].job \in TaskJobs
       /\ desk[p].step \in {"edited", "approved"} => desk[p].contract \in Written
       /\ desk[p].step = "lowering" =>
            p \in Reviewers /\ desk[p].of \in Assessments /\ desk[p].level \in Levels

HistoryHolds ==
  /\ assessed \in [TaskJobs -> Seq(Assessments)]
  /\ \A w \in waivers : w.by \in Reviewers /\ w.job \in TaskJobs
  /\ criteria \in [TaskJobs -> Criteria \union {Drafted, "none"}]

(* A contract has a version for each edit and each failure at most, and one  *)
(* for a locking phase that has not failed since.                           *)
locked(j) ==
  IF phase[j] # Free \/ taskState[j] \in {"awaiting_task_approval", "loading_implementation_model"}
  THEN 1 ELSE 0

Tallies ==
  /\ tally \in [edits : 0..MaxEdits, waivers : 0..MaxWaivers, failures : 0..MaxFailures]
  /\ \A j \in TaskJobs : contracts[j].version <= tally.edits + tally.failures + locked(j)

(* A contract is written once, by its author, one version higher.           *)
LEMMA EnsureWrites ==
  ASSUME Rows, NEW j \in TaskJobs, NEW text \in Text, NEW author \in Contributors \union {Clerk},
         EnsureTaskContract(j, text, author)
  PROVE  /\ contracts'[j] \in Written
         /\ \A k \in TaskJobs : contracts[k].version \in Nat
         /\ \A k \in TaskJobs \ {j} : contracts'[k] = contracts[k]
         /\ contracts'[j].version <= contracts[j].version + 1
<1>1. \A k \in TaskJobs : contracts[k].version \in Nat
  BY WrittenExists DEF Rows, NoContract
<1>2. CASE closed(j)
  BY <1>1, <1>2 DEF EnsureTaskContract, closed, exists, Rows
<1>3. CASE ~closed(j)
  <2>1. Normalize(j, text, author) \in Written
        /\ Normalize(j, text, author).version = contracts[j].version + 1
    BY <1>1 DEF Normalize, Written
  <2> QED
    BY <1>1, <1>3, <2>1 DEF EnsureTaskContract, Rows
<1> QED
  BY <1>1, <1>2, <1>3

(* An assessment is added to those there are.                               *)
LEMMA AssessmentAdds ==
  ASSUME assessed \in [TaskJobs -> Seq(Assessments)], NEW j \in TaskJobs, NEW x \in Assessments
  PROVE  [assessed EXCEPT ![j] = Append(@, x)] \in [TaskJobs -> Seq(Assessments)]
<1> DEFINE old == assessed[j]
<1>1. old \in Seq(Assessments)
  OBVIOUS
<1> HIDE DEF old
<1>2. Append(old, x) \in Seq(Assessments)
  BY <1>1, AppendProperties
<1> QED
  BY <1>2 DEF old

LEMMA AssessmentIsMade ==
  ASSUME NEW c \in Written
  PROVE  Assess(c) \in Assessments
<1>1. levelOf(c.text) \in Levels
  BY DEF levelOf, Levels
<1> QED
  BY <1>1 DEF Assess, Assessments, Written

LEMMA HoldingKeeps ==
  ASSUME ApprovalInv, PhaseHolds, DeskHolds, HistoryHolds, [ContractsNext]_contractsVars
  PROVE  PhaseHolds' /\ DeskHolds' /\ HistoryHolds'
<1> USE DEF ApprovalInv, Free
<1>1. ASSUME NEW j \in TaskJobs, NEW x, phase' = [phase EXCEPT ![j] = x],
             x.step \in {"free", "drafted", "assessed"}, x.step = "drafted" => x.contract \in Written
      PROVE  PhaseHolds'
  BY <1>1 DEF PhaseHolds, PhaseDefined
<1>2. ASSUME NEW p \in Contributors, NEW x, desk' = [desk EXCEPT ![p] = x],
             /\ x.step \in {"free", "edited", "approved", "lowering"}
             /\ x.step # "free" => x.job \in TaskJobs
             /\ x.step \in {"edited", "approved"} => x.contract \in Written
             /\ x.step = "lowering" => p \in Reviewers /\ x.of \in Assessments /\ x.level \in Levels
      PROVE  DeskHolds'
  BY <1>2 DEF DeskHolds
<1>3. ASSUME NEW j \in TaskJobs,
             Reach(j) \/ CompleteLocking(j) \/ Recover(j) \/ FailTask(j) \/ RetryTask(j)
      PROVE  PhaseHolds' /\ DeskHolds' /\ HistoryHolds'
  <2>1. UNCHANGED <<assessed, waivers, criteria, desk>>
        /\ (UNCHANGED phase \/ phase' = [phase EXCEPT ![j] = Free])
    BY <1>3 DEF Reach, CompleteLocking, Recover, FailTask, RetryTask
  <2>2. PhaseHolds'
    <3>1. CASE UNCHANGED phase
      BY <3>1 DEF PhaseHolds
    <3>2. CASE phase' = [phase EXCEPT ![j] = Free]
      BY <1>1, <3>2
    <3> QED
      BY <2>1, <3>1, <3>2
  <2> QED
    BY <2>1, <2>2 DEF DeskHolds, HistoryHolds
<1>4. ASSUME NEW j \in TaskJobs, Lock(j) PROVE PhaseHolds' /\ DeskHolds' /\ HistoryHolds'
  <2>1. contracts'[j] \in Written
    <3>1. DraftFromTask(j) \in Text /\ Clerk \in Contributors \union {Clerk}
      BY Texts
    <3> QED
      BY <1>4, <3>1, EnsureWrites DEF Lock
  <2> DEFINE x == [step |-> "drafted", contract |-> contracts'[j]]
  <2>2. phase' = [phase EXCEPT ![j] = x] /\ UNCHANGED <<assessed, waivers, criteria, desk>>
    BY <1>4 DEF Lock
  <2>3. x.step = "drafted" /\ x.contract \in Written
    BY <2>1
  <2> HIDE DEF x
  <2>4. PhaseHolds'
    BY <1>1, <2>2, <2>3
  <2> QED
    BY <2>2, <2>4 DEF DeskHolds, HistoryHolds
<1>5. ASSUME NEW j \in TaskJobs, AssessDraft(j) PROVE PhaseHolds' /\ DeskHolds' /\ HistoryHolds'
  <2>1. Assess(phase[j].contract) \in Assessments
    BY <1>5, AssessmentIsMade DEF AssessDraft, PhaseHolds
  <2>2. assessed' \in [TaskJobs -> Seq(Assessments)]
    BY <1>5, <2>1, AssessmentAdds DEF AssessDraft, SaveRiskAssessment, HistoryHolds
  <2>3. PhaseHolds'
    BY <1>1, <1>5 DEF AssessDraft
  <2> QED
    BY <1>5, <2>2, <2>3 DEF AssessDraft, DeskHolds, HistoryHolds
<1>6. ASSUME NEW j \in TaskJobs, NEW p \in Contributors, Edit(p, j)
      PROVE  PhaseHolds' /\ DeskHolds' /\ HistoryHolds'
  <2>1. PICK text \in [criteria : Criteria, signals : Wordings] : EnsureTaskContract(j, text, p)
    BY <1>6 DEF Edit
  <2>2. contracts'[j] \in Written
    <3>1. text \in Text
      BY Texts
    <3> QED
      BY <2>1, <3>1, EnsureWrites
  <2> DEFINE x == [step |-> "edited", job |-> j, contract |-> contracts'[j]]
  <2>3. desk' = [desk EXCEPT ![p] = x] /\ UNCHANGED <<assessed, waivers, criteria, phase>>
    BY <1>6 DEF Edit
  <2>4. x.step = "edited" /\ x.job = j /\ x.contract \in Written
    BY <2>2
  <2> HIDE DEF x
  <2>5. DeskHolds'
    BY <1>2, <2>3, <2>4
  <2> QED
    BY <2>3, <2>5 DEF PhaseHolds, HistoryHolds
<1>7. ASSUME NEW j \in TaskJobs, NEW p \in Contributors, Approve(p, j)
      PROVE  PhaseHolds' /\ DeskHolds' /\ HistoryHolds'
  <2>1. contracts[j] \in Written
    BY <1>7 DEF Approve, exists, Rows
  <2>2. contracts'[j] \in Written /\ contracts[j].text.criteria \in Criteria \union {Drafted}
    <3>1. contracts' = [contracts EXCEPT ![j] = [contracts[j] EXCEPT !.approved = TRUE]]
      BY <1>7 DEF Approve
    <3>2. [contracts[j] EXCEPT !.approved = TRUE] \in Written
      BY <2>1 DEF Written
    <3> QED
      BY <2>1, <3>1, <3>2 DEF Rows, Written, Text
  <2> DEFINE x == [step |-> "approved", job |-> j, contract |-> contracts'[j]]
  <2>3. /\ desk' = [desk EXCEPT ![p] = x] /\ UNCHANGED <<assessed, waivers, phase>>
        /\ criteria' = [criteria EXCEPT ![j] = contracts[j].text.criteria]
    BY <1>7 DEF Approve
  <2>4. x.step = "approved" /\ x.job = j /\ x.contract \in Written
    BY <2>2
  <2> HIDE DEF x
  <2>5. DeskHolds'
    BY <1>2, <2>3, <2>4
  <2> QED
    BY <2>2, <2>3, <2>5 DEF PhaseHolds, HistoryHolds
<1>8. ASSUME NEW j \in TaskJobs, NEW p \in Contributors, ReadForWaiver(p, j)
      PROVE  PhaseHolds' /\ DeskHolds' /\ HistoryHolds'
  <2>1. PICK level \in Levels :
          desk' = [desk EXCEPT ![p] = [step |-> "lowering", job |-> j, of |-> latest(j), level |-> level]]
    BY <1>8 DEF ReadForWaiver
  <2>2. latest(j) \in Assessments
    <3>1. assessed[j] \in Seq(Assessments) /\ assessed[j] # <<>>
      BY <1>8 DEF ReadForWaiver, HistoryHolds
    <3>2. Len(assessed[j]) \in 1..Len(assessed[j])
      BY <3>1, LenProperties, EmptySeq
    <3> QED
      BY <3>1, <3>2, ElementOfSeq DEF latest
  <2> DEFINE x == [step |-> "lowering", job |-> j, of |-> latest(j), level |-> level]
  <2>3. x.step = "lowering" /\ x.job = j /\ x.of \in Assessments /\ x.level \in Levels
    BY <2>2
  <2>4. desk' = [desk EXCEPT ![p] = x] /\ p \in Reviewers
    BY <1>8, <2>1 DEF ReadForWaiver
  <2> HIDE DEF x
  <2>5. DeskHolds'
    BY <1>2, <2>3, <2>4
  <2> QED
    BY <1>8, <2>5 DEF ReadForWaiver, PhaseHolds, HistoryHolds
<1>9. ASSUME NEW p \in Contributors, AssessEdit(p) \/ AssessApproved(p)
      PROVE  PhaseHolds' /\ DeskHolds' /\ HistoryHolds'
  <2>1. /\ UNCHANGED <<waivers, criteria, phase>> /\ desk' = [desk EXCEPT ![p] = Free]
        /\ desk[p].step \in {"edited", "approved"}
        /\ UNCHANGED assessed \/ SaveRiskAssessment(desk[p].job, desk[p].contract)
    BY <1>9 DEF AssessEdit, AssessApproved
  <2>2. Assess(desk[p].contract) \in Assessments /\ desk[p].job \in TaskJobs
    BY <2>1, AssessmentIsMade DEF DeskHolds
  <2>3. assessed' \in [TaskJobs -> Seq(Assessments)]
    <3>1. CASE UNCHANGED assessed
      BY <3>1 DEF HistoryHolds
    <3>2. CASE SaveRiskAssessment(desk[p].job, desk[p].contract)
      BY <2>2, <3>2, AssessmentAdds DEF SaveRiskAssessment, HistoryHolds
    <3> QED
      BY <2>1, <3>1, <3>2
  <2>4. DeskHolds'
    BY <1>2, <2>1
  <2> QED
    BY <2>1, <2>3, <2>4 DEF PhaseHolds, HistoryHolds
<1>10. ASSUME NEW p \in Contributors, CreateRiskWaiver(p)
       PROVE  PhaseHolds' /\ DeskHolds' /\ HistoryHolds'
  <2> DEFINE x == [desk[p].of EXCEPT !.level = desk[p].level]
  <2>1. /\ UNCHANGED <<criteria, phase>> /\ desk' = [desk EXCEPT ![p] = Free]
        /\ desk[p].step = "lowering"
        /\ waivers' = waivers \union {[job |-> desk[p].job, by |-> p, from |-> desk[p].of,
                                       to |-> desk[p].level]}
        /\ assessed' = [assessed EXCEPT ![desk[p].job] = Append(@, x)]
    BY <1>10 DEF CreateRiskWaiver
  <2>2. /\ p \in Reviewers /\ desk[p].job \in TaskJobs /\ desk[p].of \in Assessments
        /\ desk[p].level \in Levels
    BY <2>1 DEF DeskHolds
  <2>3. x \in Assessments
    BY <2>2 DEF Assessments
  <2> HIDE DEF x
  <2>4. assessed' \in [TaskJobs -> Seq(Assessments)]
    BY <2>1, <2>2, <2>3, AssessmentAdds DEF HistoryHolds
  <2>5. \A w \in waivers' : w.by \in Reviewers /\ w.job \in TaskJobs
    BY <2>1, <2>2 DEF HistoryHolds
  <2>6. DeskHolds'
    BY <1>2, <2>1
  <2> QED
    BY <2>1, <2>4, <2>5, <2>6 DEF PhaseHolds, HistoryHolds
<1>11. CASE UNCHANGED contractsVars
  BY <1>11 DEF contractsVars, PhaseHolds, DeskHolds, HistoryHolds
<1> QED
  BY <1>3, <1>4, <1>5, <1>6, <1>7, <1>8, <1>9, <1>10, <1>11 DEF ContractsNext

LEMMA TalliesKeep ==
  ASSUME ApprovalInv, PhaseHolds, Tallies, [ContractsNext]_contractsVars
  PROVE  Tallies'
<1> USE DEF ApprovalInv, Free
<1>0. /\ \A j \in TaskJobs : contracts[j].version \in Nat
      /\ tally.edits \in 0..MaxEdits /\ tally.failures \in 0..MaxFailures /\ tally.waivers \in 0..MaxWaivers
      /\ tally = [edits |-> tally.edits, waivers |-> tally.waivers, failures |-> tally.failures]
      /\ MaxEdits \in Nat /\ MaxFailures \in Nat /\ MaxWaivers \in Nat
  <2>1. tally \in [edits : 0..MaxEdits, waivers : 0..MaxWaivers, failures : 0..MaxFailures]
    BY DEF Tallies
  <2> QED
    BY <2>1, WrittenExists, TaskContractsAssumption DEF Rows, NoContract
<1>1. \A j \in TaskJobs : locked(j) \in {0, 1}
  BY DEF locked
<1>2. ASSUME UNCHANGED <<contracts, taskState, phase>>, UNCHANGED <<tally>> PROVE Tallies'
  BY <1>2 DEF Tallies, locked
<1>3. ASSUME NEW j \in TaskJobs, Reach(j) \/ RetryTask(j) PROVE Tallies'
  <2>1. /\ UNCHANGED <<contracts, phase, tally>>
        /\ \A k \in TaskJobs : locked(k)' = locked(k)
    BY <1>3 DEF Reach, RetryTask, locked, States
  <2> QED
    BY <2>1 DEF Tallies
<1>4. ASSUME NEW j \in TaskJobs, AssessDraft(j) \/ CompleteLocking(j) PROVE Tallies'
  <2>1. UNCHANGED <<contracts, tally>>
    BY <1>4 DEF AssessDraft, CompleteLocking
  <2>2. \A k \in TaskJobs : locked(k)' = locked(k)
    <3>1. CASE AssessDraft(j)
      <4> DEFINE x == [step |-> "assessed"]
      <4>1. phase[j] # Free /\ x # Free /\ phase' = [phase EXCEPT ![j] = x] /\ UNCHANGED taskState
        BY <3>1 DEF AssessDraft
      <4> HIDE DEF x
      <4> QED
        BY <4>1 DEF locked, PhaseDefined
    <3>2. CASE CompleteLocking(j)
      BY <3>2 DEF CompleteLocking, locked, PhaseDefined, States
    <3> QED
      BY <1>4, <3>1, <3>2
  <2> QED
    BY <2>1, <2>2 DEF Tallies
<1>5. ASSUME NEW j \in TaskJobs, Lock(j) PROVE Tallies'
  <2>1. EnsureTaskContract(j, DraftFromTask(j), Clerk) /\ UNCHANGED <<tally, taskState>>
        /\ phase[j] = Free /\ taskState[j] = "locking_acceptance_criteria"
    BY <1>5 DEF Lock
  <2>2. /\ contracts'[j] \in Written /\ \A k \in TaskJobs \ {j} : contracts'[k] = contracts[k]
        /\ contracts'[j].version <= contracts[j].version + 1
    <3>1. DraftFromTask(j) \in Text /\ Clerk \in Contributors \union {Clerk}
      BY Texts
    <3> QED
      BY <2>1, <3>1, EnsureWrites
  <2>3. locked(j) = 0 /\ locked(j)' = 1 /\ \A k \in TaskJobs \ {j} : locked(k)' = locked(k)
    <3> DEFINE x == [step |-> "drafted", contract |-> contracts'[j]]
    <3>1. phase' = [phase EXCEPT ![j] = x] /\ x # Free
      BY <1>5 DEF Lock
    <3> HIDE DEF x
    <3> QED
      BY <2>1, <3>1 DEF locked, PhaseDefined
  <2>4. contracts[j].version <= tally.edits + tally.failures + 0 /\ contracts'[j].version \in Nat
    BY <2>2, <2>3, WrittenExists DEF Tallies
  <2>5. contracts'[j].version <= tally.edits + tally.failures + 1
    BY <1>0, <2>2, <2>4
  <2> QED
    BY <2>1, <2>2, <2>3, <2>5 DEF Tallies
<1>6. ASSUME NEW j \in TaskJobs, Recover(j) \/ FailTask(j) PROVE Tallies'
  <2>1. UNCHANGED contracts /\ failing
    BY <1>6 DEF Recover, FailTask
  <2>2. /\ tally'.edits = tally.edits /\ tally'.failures = tally.failures + 1
        /\ tally' \in [edits : 0..MaxEdits, waivers : 0..MaxWaivers, failures : 0..MaxFailures]
    BY <1>0, <2>1 DEF failing
  <2>3. \A k \in TaskJobs \ {j} : locked(k)' = locked(k)
    BY <1>6 DEF Recover, FailTask, locked, PhaseDefined, States
  <2>4. locked(j)' \in {0, 1}
    BY DEF locked
  <2>5. \A k \in TaskJobs : contracts'[k].version <= tally'.edits + tally'.failures + locked(k)'
    <3> SUFFICES ASSUME NEW k \in TaskJobs
                 PROVE  contracts'[k].version <= tally'.edits + tally'.failures + locked(k)'
      OBVIOUS
    <3>1. contracts[k].version <= tally.edits + tally.failures + locked(k)
      BY DEF Tallies
    <3> QED
      BY <1>0, <1>1, <2>1, <2>2, <2>3, <2>4, <3>1
  <2> QED
    BY <2>2, <2>5 DEF Tallies
<1>7. ASSUME NEW j \in TaskJobs, NEW p \in Contributors, Edit(p, j) PROVE Tallies'
  <2>1. PICK text \in [criteria : Criteria, signals : Wordings] : EnsureTaskContract(j, text, p)
    BY <1>7 DEF Edit
  <2>2. /\ contracts'[j] \in Written /\ \A k \in TaskJobs \ {j} : contracts'[k] = contracts[k]
        /\ contracts'[j].version <= contracts[j].version + 1
    <3>1. text \in Text
      BY Texts
    <3> QED
      BY <2>1, <3>1, EnsureWrites
  <2>3. tally.edits < MaxEdits /\ tally' = [tally EXCEPT !.edits = @ + 1]
        /\ UNCHANGED <<taskState, phase>>
    BY <1>7 DEF Edit
  <2>4. /\ tally'.edits = tally.edits + 1 /\ tally'.failures = tally.failures
        /\ tally' \in [edits : 0..MaxEdits, waivers : 0..MaxWaivers, failures : 0..MaxFailures]
    BY <1>0, <2>3
  <2>5. \A k \in TaskJobs : contracts'[k].version <= tally'.edits + tally'.failures + locked(k)'
    <3> SUFFICES ASSUME NEW k \in TaskJobs
                 PROVE  contracts'[k].version <= tally'.edits + tally'.failures + locked(k)'
      OBVIOUS
    <3>1. contracts[k].version <= tally.edits + tally.failures + locked(k)
      BY DEF Tallies
    <3>2. locked(k)' = locked(k) /\ contracts'[j].version \in Nat
      BY <2>2, <2>3, WrittenExists DEF locked
    <3>3. contracts'[k].version <= contracts[k].version + 1
      BY <1>0, <2>2
    <3>4. contracts'[k].version \in Nat
      BY <1>0, <2>2, <3>2
    <3> QED
      BY <1>0, <1>1, <2>4, <3>1, <3>2, <3>3, <3>4
  <2> QED
    BY <2>4, <2>5 DEF Tallies
<1>8. ASSUME NEW j \in TaskJobs, NEW p \in Contributors, Approve(p, j) PROVE Tallies'
  <2>1. /\ contracts' = [contracts EXCEPT ![j] = [contracts[j] EXCEPT !.approved = TRUE]]
        /\ UNCHANGED <<phase, tally>> /\ contracts[j] \in Written
        /\ taskState[j] = "awaiting_task_approval"
        /\ taskState' = [taskState EXCEPT ![j] = "loading_implementation_model"]
    BY <1>8 DEF Approve, exists, Rows
  <2>2. [contracts[j] EXCEPT !.approved = TRUE].version = contracts[j].version
    BY <2>1 DEF Written
  <2>3. \A k \in TaskJobs : contracts'[k].version = contracts[k].version /\ locked(k)' = locked(k)
    BY <2>1, <2>2 DEF Rows, locked, States
  <2> QED
    BY <2>1, <2>3 DEF Tallies
<1>9. ASSUME NEW j \in TaskJobs, NEW p \in Contributors, ReadForWaiver(p, j) PROVE Tallies'
  <2>1. UNCHANGED <<contracts, taskState, phase>> /\ tally.waivers < MaxWaivers
        /\ tally' = [tally EXCEPT !.waivers = @ + 1]
    BY <1>9 DEF ReadForWaiver
  <2>2. /\ tally'.edits = tally.edits /\ tally'.failures = tally.failures
        /\ tally' \in [edits : 0..MaxEdits, waivers : 0..MaxWaivers, failures : 0..MaxFailures]
    BY <1>0, <2>1
  <2> QED
    BY <2>1, <2>2 DEF Tallies, locked
<1>10. ASSUME NEW p \in Contributors, AssessEdit(p) \/ AssessApproved(p) \/ CreateRiskWaiver(p)
       PROVE  Tallies'
  BY <1>2, <1>10 DEF AssessEdit, AssessApproved, CreateRiskWaiver
<1>11. CASE UNCHANGED contractsVars
  BY <1>2, <1>11 DEF contractsVars
<1> QED
  BY <1>3, <1>4, <1>5, <1>6, <1>7, <1>8, <1>9, <1>10, <1>11 DEF ContractsNext

(* The tables hold what they can, and a contract has no more versions than   *)
(* edits, failures and one locking phase make.                              *)
THEOREM ContractsTypesForAll == ContractsSpec => []ContractsTypeOK
<1> DEFINE Inv == ApprovalInv /\ PhaseHolds /\ DeskHolds /\ HistoryHolds /\ Tallies
<1>1. ContractsInit => Inv
  <2> SUFFICES ASSUME ContractsInit PROVE Inv
    OBVIOUS
  <2>1. ApprovalInv
    BY ApprovalInitially
  <2>2. <<>> \in Seq(Assessments)
    OBVIOUS
  <2>3. PhaseHolds /\ DeskHolds /\ HistoryHolds
    BY <2>2 DEF ContractsInit, Free, PhaseHolds, DeskHolds, HistoryHolds
  <2>4. Tallies
    BY TaskContractsAssumption DEF ContractsInit, Tallies, locked, Free, NoContract
  <2> QED
    BY <2>1, <2>3, <2>4
<1>2. Inv /\ [ContractsNext]_contractsVars => Inv'
  <2> SUFFICES ASSUME Inv, [ContractsNext]_contractsVars PROVE Inv'
    OBVIOUS
  <2> QED
    BY ApprovalStep, HoldingKeeps, TalliesKeep
<1>3. Inv => ContractsTypeOK
  <2> SUFFICES ASSUME Inv PROVE ContractsTypeOK
    OBVIOUS
  <2>1. contracts \in [TaskJobs -> Contract]
    <3> SUFFICES ASSUME NEW j \in TaskJobs, contracts[j] # NoContract PROVE contracts[j] \in Contract
      BY DEF ApprovalInv, Rows, Contract
    <3>1. contracts[j] \in Written
      BY DEF ApprovalInv, Rows
    <3>2. contracts[j].version <= tally.edits + tally.failures + locked(j) /\ locked(j) \in {0, 1}
      BY DEF Tallies, locked
    <3>3. tally.edits \in 0..MaxEdits /\ tally.failures \in 0..MaxFailures
      BY DEF Tallies
    <3>4. contracts[j].version \in 1 .. MaxEdits + MaxFailures + 1
      BY <3>1, <3>2, <3>3, TaskContractsAssumption DEF Written
    <3> QED
      BY <3>1, <3>4 DEF Written, Contract
  <2>2. \A j \in TaskJobs : \A n \in 1 .. Len(assessed[j]) :
          assessed[j][n].level \in Levels /\ assessed[j][n].version >= 1
    <3> SUFFICES ASSUME NEW j \in TaskJobs, NEW n \in 1 .. Len(assessed[j])
                 PROVE  assessed[j][n].level \in Levels /\ assessed[j][n].version >= 1
      OBVIOUS
    <3>1. assessed[j] \in Seq(Assessments)
      BY DEF HistoryHolds
    <3>2. assessed[j][n] \in Assessments
      BY <3>1, ElementOfSeq
    <3> QED
      BY <3>2 DEF Assessments
  <2> QED
    BY <2>1, <2>2 DEF ApprovalInv, States, DeskHolds, HistoryHolds, ContractsTypeOK
<1> QED
  BY <1>1, <1>2, <1>3, PTL DEF ContractsSpec

-----------------------------------------------------------------------------
(* Artifacts, archives and restores, for any artifacts, backups and mishaps. *)

(* What the disk and a backup in the making are made of.                   *)
Making ==
  [step : {"walking"}, todo : {walkOrder, Tail(walkOrder), Tail(Tail(walkOrder)), <<>>},
   present : SUBSET Artifacts, bundle : Archive]

Kinds ==
  /\ objects \subseteq Artifacts /\ archives \subseteq Archive /\ lacking \subseteq Artifacts
  /\ marker \in Archive \union {NoArchive} /\ maker \in Making \union {Nobody}

(* What a backup names it holds, but for what it is known to lack.          *)
Holds(bundle) == bundle.records \subseteq bundle.objects \union bundle.lacking

MarkerComplete == marker # NoArchive => marker.intact /\ Holds(marker)

(* A backup in the making: its records were stored when the snapshot was   *)
(* taken, or lacking already, and are in the bundle once the objects have  *)
(* been walked.                                                            *)
Walked ==
  maker # Nobody =>
    IF maker.todo \in {walkOrder, Tail(walkOrder)}
    THEN /\ maker.bundle.records \subseteq maker.present \union maker.bundle.lacking
         /\ maker.present \subseteq objects
    ELSE Holds(maker.bundle)

(* Only the running controller stores or backs up, and what it indexes it   *)
(* has linked before.                                                      *)
Putting ==
  /\ running => \A a \in DOMAIN putting : putting[a] # "written" => a \in objects
  /\ ~running => DOMAIN putting = {} /\ maker = Nobody

(* The files of a start: with a marker, what is restored so far; without    *)
(* one, a database whose artifacts are stored, or none.                    *)
Restoring ==
  /\ process \in {"running", "down", "moving", "clearing", "writing", "copying"}
  /\ process \notin {"running", "down"} =>
       marker # NoArchive /\ marker.objects \ left \subseteq objects
  /\ process \in {"writing", "copying"} => log = NoFile
  /\ process = "copying" => database = marker.records
  /\ process = "down" /\ marker = NoArchive =>
       committed = NoFile \/ committed \subseteq objects \union lacking

BackupsInv ==
  Kinds /\ BackupHoldsItsRecords /\ MarkerComplete /\ Walked /\ Putting /\ Restoring /\ IndexedIsStored

(* A new controller has nothing stored, indexed or backed up.              *)
LEMMA BackupsInitially == BackupsInit => BackupsInv
  BY DEF BackupsInit, BackupsInv, Kinds, BackupHoldsItsRecords, MarkerComplete, Walked, Putting, Restoring,
         IndexedIsStored, running, committed

(* The steps of storing an artifact.                                       *)
LEMMA PutKeeps ==
  ASSUME BackupsInv, NEW a \in Artifacts,
         WriteTemporary(a) \/ LinkObject(a) \/ IndexArtifact(a) \/ RemoveTemporary(a)
  PROVE  BackupsInv'
<1>1. a # "no file"
  BY BackupsAssumption
<1> USE DEF BackupsInv, running, reach, gone
<1>2. CASE WriteTemporary(a)
  BY <1>2 DEF WriteTemporary, Kinds, BackupHoldsItsRecords, MarkerComplete, Walked, Putting, Restoring, IndexedIsStored, committed, Holds
<1>3. CASE LinkObject(a)
  BY <1>3 DEF LinkObject, Kinds, BackupHoldsItsRecords, MarkerComplete, Walked, Putting, Restoring, IndexedIsStored, committed, Holds
<1>4. CASE IndexArtifact(a)
  <2>1. log' # NoFile /\ log' = committed \union {a} /\ a \in objects
    BY <1>1, <1>4 DEF IndexArtifact, NoFile, Putting
  <2> QED
    BY <1>4, <2>1 DEF IndexArtifact, Kinds, BackupHoldsItsRecords, MarkerComplete, Walked, Putting, Restoring, IndexedIsStored, committed, Holds
<1>5. CASE RemoveTemporary(a)
  BY <1>5 DEF RemoveTemporary, Kinds, BackupHoldsItsRecords, MarkerComplete, Walked, Putting, Restoring, IndexedIsStored, committed, Holds
<1> QED
  BY <1>2, <1>3, <1>4, <1>5

(* The walk reads what workers write, then objects/, then tmp/.             *)
LEMMA WalkOrder ==
  /\ Head(walkOrder) = "workers" /\ Head(Tail(walkOrder)) = "objects"
  /\ Head(Tail(Tail(walkOrder))) = "tmp" /\ Tail(Tail(Tail(walkOrder))) = <<>>
  /\ <<>> \notin {walkOrder, Tail(walkOrder), Tail(Tail(walkOrder))}
  /\ Tail(Tail(walkOrder)) \notin {walkOrder, Tail(walkOrder)} /\ Tail(walkOrder) # walkOrder
  BY DEF walkOrder

Walks == {walkOrder, Tail(walkOrder), Tail(Tail(walkOrder)), <<>>}

(* A backup in the making stays one.                                       *)
LEMMA MakingGoesOn ==
  ASSUME NEW m \in Making, NEW todo \in Walks
  PROVE  LET n == [m EXCEPT !.todo = todo] IN
         n \in Making /\ n.todo = todo /\ n.present = m.present /\ n.bundle = m.bundle
  BY DEF Making, Walks

(* What it collects or lacks goes into its bundle.                         *)
Collecting(m, todo, o, l) == [m EXCEPT !.todo = todo, !.bundle.objects = o, !.bundle.lacking = l]

LEMMA MakingCollects ==
  ASSUME NEW m \in Making, NEW todo \in Walks, NEW o \in SUBSET Artifacts, NEW l \in SUBSET Artifacts
  PROVE  LET n == Collecting(m, todo, o, l) IN
         /\ n \in Making /\ n.todo = todo
         /\ n.bundle.objects = o /\ n.bundle.lacking = l /\ n.bundle.records = m.bundle.records
<1>1. m.bundle \in Archive
  BY DEF Making
<1> DEFINE b == [m.bundle EXCEPT !.objects = o, !.lacking = l]
           k == [m EXCEPT !.todo = todo]
           n == [k EXCEPT !.bundle = b]
<1>2. b \in Archive /\ b.objects = o /\ b.lacking = l /\ b.records = m.bundle.records
  BY <1>1 DEF Archive
<1>3. k \in Making /\ k.bundle = m.bundle /\ k.todo = todo
  BY MakingGoesOn
<1>4. n \in Making /\ n.todo = todo /\ n.bundle = b
  <2> HIDE DEF k, b
  <2> QED
    BY <1>2, <1>3 DEF Making
<1>5. Collecting(m, todo, o, l) = n
  BY <1>1, <1>3 DEF Collecting, Making, Archive
<1> HIDE DEF n, b
<1> QED
  BY <1>2, <1>4, <1>5

(* The steps of a backup: the snapshot comes before the walk, so that what *)
(* it names is there when its directory is read.                           *)
LEMMA MakerKeeps ==
  ASSUME BackupsInv,
         \/ Checkpoint \/ Snapshot \/ WalkWorkers \/ WalkObjects \/ WalkTemporaries
         \/ Publish \/ CreateFails
  PROVE  BackupsInv'
<1> USE DEF BackupsInv, running
<1>m. maker # Nobody => maker \in Making
  BY DEF Kinds
<1>n. ASSUME NEW m \in Making PROVE m # Nobody
  BY DEF Making, Nobody
<1>1. CASE Checkpoint
  BY <1>1 DEF Checkpoint, Kinds, BackupHoldsItsRecords, MarkerComplete, Walked, Putting, Restoring, IndexedIsStored, committed, Holds
<1>2. CASE Snapshot
  <2> DEFINE m == [step |-> "walking", todo |-> walkOrder, present |-> objects,
                   bundle |-> [records |-> committed, objects |-> {}, lacking |-> lacking,
                               intact |-> TRUE]]
  <2>1. /\ maker' = m /\ committed \subseteq objects \union lacking
        /\ objects \subseteq Artifacts /\ lacking \subseteq Artifacts
    BY <1>2 DEF Snapshot, Kinds, IndexedIsStored
  <2>2. m.bundle \in Archive
    BY <2>1 DEF Archive
  <2>3. /\ m \in Making /\ m.todo = walkOrder /\ m.present = objects
        /\ m.bundle.records = committed /\ m.bundle.lacking = lacking
    BY <2>1, <2>2 DEF Making
  <2> HIDE DEF m
  <2> QED
    BY <1>2, <2>1, <2>3 DEF Snapshot, diskUnchanged, Kinds, BackupHoldsItsRecords, MarkerComplete, Walked, Putting, Restoring, IndexedIsStored, committed, Holds
<1>w. ASSUME maker # Nobody PROVE maker.bundle \in Archive /\ maker.bundle.lacking \subseteq Artifacts
                                  /\ maker.bundle.records \subseteq Artifacts
                                  /\ maker.bundle.objects \subseteq Artifacts
  BY <1>m, <1>w DEF Making, Archive
<1>v. CASE WalkWorkers
  <2>1. maker \in Making /\ maker # Nobody /\ maker.todo = walkOrder
    BY <1>v, <1>m, WalkOrder DEF WalkWorkers, walking, Making
  <2>2. CASE maker' = [maker EXCEPT !.todo = Tail(@)]
    <3>1. maker' = [maker EXCEPT !.todo = Tail(walkOrder)]
      BY <2>1, <2>2
    <3>2. /\ maker' \in Making /\ maker'.todo = Tail(walkOrder) /\ maker'.bundle = maker.bundle
          /\ maker'.present = maker.present
      BY <2>1, <3>1, MakingGoesOn DEF Walks
    <3> QED
      BY <1>v, <2>1, <3>2 DEF WalkWorkers, walking, diskUnchanged, Kinds, BackupHoldsItsRecords, MarkerComplete, Walked, Putting, Restoring, IndexedIsStored, committed, Holds
  <2>3. CASE maker' = [maker EXCEPT !.todo = <<>>, !.bundle.lacking = maker.bundle.records]
    <3> DEFINE k == Collecting(maker, <<>>, maker.bundle.objects, maker.bundle.records)
    <3>1. maker' = k
      BY <2>1, <2>3 DEF Collecting, Making, Archive
    <3>2. /\ maker' \in Making /\ maker'.todo = <<>> /\ maker'.bundle.lacking = maker.bundle.records
          /\ maker'.bundle.records = maker.bundle.records
      <4>1. /\ <<>> \in Walks
            /\ maker.bundle.objects \in SUBSET Artifacts /\ maker.bundle.records \in SUBSET Artifacts
        BY <1>w, <2>1 DEF Walks
      <4>2. /\ k \in Making /\ k.todo = <<>> /\ k.bundle.lacking = maker.bundle.records
            /\ k.bundle.records = maker.bundle.records
        <5> HIDE DEF BackupsInv, running
        <5> QED
          BY ONLY <2>1, <4>1, MakingCollects
      <4> HIDE DEF k
      <4> QED
        BY ONLY <3>1, <4>2
    <3> QED
      BY <1>v, <2>1, <3>2, WalkOrder DEF WalkWorkers, walking, diskUnchanged, Kinds, BackupHoldsItsRecords, MarkerComplete, Walked, Putting, Restoring, IndexedIsStored, committed, Holds
  <2> QED
    BY <1>v, <2>2, <2>3 DEF WalkWorkers
<1>3. CASE WalkObjects
  <2>1. maker \in Making /\ maker # Nobody /\ maker.todo = Tail(walkOrder)
    BY <1>3, <1>m, WalkOrder DEF WalkObjects, walking, Making
  <2>2. PICK missed \in SUBSET (objects \ maker.present) :
          maker' = [maker EXCEPT !.todo = Tail(@),
                                 !.bundle.objects = (objects \ missed) \ Large,
                                 !.bundle.lacking = @ \union (Large \intersect maker.bundle.records)]
    BY <1>3 DEF WalkObjects
  <2> DEFINE o == (objects \ missed) \ Large
             l == maker.bundle.lacking \union (Large \intersect maker.bundle.records)
  <2>3. o \in SUBSET Artifacts /\ l \in SUBSET Artifacts
    BY <1>w, <2>1 DEF Kinds
  <2>4. /\ maker' \in Making /\ maker'.todo = Tail(Tail(walkOrder)) /\ maker'.bundle.objects = o
        /\ maker'.bundle.lacking = l /\ maker'.bundle.records = maker.bundle.records
    <3> DEFINE t == Tail(Tail(walkOrder))
               k == Collecting(maker, t, o, l)
    <3>1. maker' = k
      BY <2>1, <2>2 DEF Collecting, Making, Archive
    <3>2. t \in Walks
      BY DEF Walks
    <3>3. /\ k \in Making /\ k.todo = t /\ k.bundle.objects = o
          /\ k.bundle.lacking = l /\ k.bundle.records = maker.bundle.records
      <4> HIDE DEF BackupsInv, running, o, l, t
      <4> QED
        BY ONLY <2>1, <2>3, <3>2, MakingCollects
    <3> HIDE DEF k, o, l
    <3> QED
      BY ONLY <3>1, <3>3
  <2>5. maker.bundle.records \subseteq o \union l
    BY <1>3, <2>1, <2>2 DEF WalkObjects, Walked
  <2> HIDE DEF o, l
  <2> QED
    BY <1>3, <2>4, <2>5, WalkOrder DEF WalkObjects, walking, diskUnchanged, Kinds, BackupHoldsItsRecords, MarkerComplete, Walked, Putting, Restoring, IndexedIsStored, committed, Holds
<1>4. CASE WalkTemporaries
  <2>1. maker \in Making /\ maker # Nobody /\ maker.todo = Tail(Tail(walkOrder))
    BY <1>4, <1>m, WalkOrder DEF WalkTemporaries, walking, Making
  <2>2. maker' = [maker EXCEPT !.todo = <<>>]
    BY <1>4, <2>1, WalkOrder DEF WalkTemporaries
  <2>3. maker' \in Making /\ maker'.todo = <<>> /\ maker'.bundle = maker.bundle
    BY <2>1, <2>2, MakingGoesOn DEF Walks
  <2>4. Holds(maker.bundle)
    BY <2>1, WalkOrder DEF Walked
  <2> QED
    BY <1>4, <2>3, <2>4, WalkOrder DEF WalkTemporaries, walking, diskUnchanged, Kinds, BackupHoldsItsRecords, MarkerComplete, Walked, Putting, Restoring, IndexedIsStored, committed, Holds
<1>5. CASE Publish
  <2>1. maker \in Making /\ maker # Nobody /\ maker.bundle \in Archive
    BY <1>5, <1>m DEF Publish, Making
  <2>2. Holds(maker.bundle)
    BY <1>5, <2>1, WalkOrder DEF Publish, Walked, Holds
  <2> QED
    BY <1>5, <2>1, <2>2 DEF Publish, Kinds, BackupHoldsItsRecords, MarkerComplete, Walked, Putting, Restoring, IndexedIsStored, committed, Holds
<1>6. CASE CreateFails
  BY <1>6 DEF CreateFails, diskUnchanged, Kinds, BackupHoldsItsRecords, MarkerComplete, Walked, Putting, Restoring, IndexedIsStored, committed, Holds
<1> QED
  BY <1>1, <1>2, <1>v, <1>3, <1>4, <1>5, <1>6

(* The steps of a restore, from the marker to the database that is opened.  *)
LEMMA RestoreKeeps ==
  ASSUME BackupsInv,
         \/ \E bundle \in archives : StageRestore(bundle) \/ DamageArchive(bundle)
         \/ \E a \in Artifacts : WriteObject(a)
         \/ OpenDatabase \/ BeginApply \/ MoveDatabase \/ RemoveLog \/ WriteDatabase \/ RemoveMarker
  PROVE  BackupsInv'
<1> USE DEF BackupsInv, running
<1>1. ASSUME NEW bundle \in archives, StageRestore(bundle) PROVE BackupsInv'
  BY <1>1 DEF StageRestore, validBundle, NoArchive, Kinds, BackupHoldsItsRecords, MarkerComplete, Walked, Putting, Restoring, IndexedIsStored, committed, Holds
<1>2. ASSUME NEW bundle \in archives, DamageArchive(bundle) PROVE BackupsInv'
  <2> DEFINE damaged == [bundle EXCEPT !.intact = FALSE, !.objects = {}]
  <2>1. damaged \in Archive /\ ~damaged.intact
    BY DEF Kinds, Archive
  <2>2. archives' = (archives \ {bundle}) \union {damaged}
    BY <1>2 DEF DamageArchive
  <2> HIDE DEF damaged
  <2> QED
    BY <1>2, <2>1, <2>2 DEF DamageArchive, mishap, Kinds, BackupHoldsItsRecords, MarkerComplete, Walked, Putting, Restoring, IndexedIsStored, committed, Holds
<1>3. ASSUME NEW a \in Artifacts, WriteObject(a) PROVE BackupsInv'
  BY <1>3 DEF WriteObject, Kinds, BackupHoldsItsRecords, MarkerComplete, Walked, Putting, Restoring, IndexedIsStored, committed, Holds
<1>4. CASE OpenDatabase
  BY <1>4 DEF OpenDatabase, Kinds, BackupHoldsItsRecords, MarkerComplete, Walked, Putting, Restoring, IndexedIsStored, committed, Holds, diskUnchanged, validBundle
<1>5. CASE BeginApply
  BY <1>5 DEF BeginApply, Kinds, BackupHoldsItsRecords, MarkerComplete, Walked, Putting, Restoring, IndexedIsStored, committed, Holds, diskUnchanged, validBundle
<1>6. CASE MoveDatabase
  BY <1>6 DEF MoveDatabase, Kinds, BackupHoldsItsRecords, MarkerComplete, Walked, Putting, Restoring, IndexedIsStored, committed, Holds, diskUnchanged, validBundle
<1>7. CASE RemoveLog
  BY <1>7 DEF RemoveLog, Kinds, BackupHoldsItsRecords, MarkerComplete, Walked, Putting, Restoring, IndexedIsStored, committed, Holds, diskUnchanged, validBundle
<1>8. CASE WriteDatabase
  BY <1>8 DEF WriteDatabase, Kinds, BackupHoldsItsRecords, MarkerComplete, Walked, Putting, Restoring, IndexedIsStored, committed, Holds, diskUnchanged, validBundle
<1>9. CASE RemoveMarker
  <2>1. /\ marker \in Archive /\ Holds(marker) /\ marker.objects \subseteq objects
        /\ log = NoFile /\ database = marker.records
    BY <1>9 DEF RemoveMarker, Kinds, MarkerComplete, Restoring
  <2>2. lacking' \subseteq Artifacts /\ marker.records \subseteq objects \union lacking'
    BY <1>9, <2>1 DEF RemoveMarker, Archive, Holds
  <2>3. committed' = marker.records
    BY <1>9, <2>1 DEF RemoveMarker, committed
  <2> QED
    BY <1>9, <2>1, <2>2, <2>3 DEF RemoveMarker, Kinds, BackupHoldsItsRecords, MarkerComplete, Walked, Putting, Restoring, IndexedIsStored, committed, Holds, diskUnchanged, validBundle
<1> QED
  BY <1>1, <1>2, <1>3, <1>4, <1>5, <1>6, <1>7, <1>8, <1>9

(* Stops, crashes at any step and a lost disk.                             *)
LEMMA MachineKeeps ==
  ASSUME BackupsInv, StopController \/ CrashController \/ LoseDisk
  PROVE  BackupsInv'
<1> USE DEF BackupsInv, running
<1>1. CASE StopController
  BY <1>1 DEF StopController, Kinds, BackupHoldsItsRecords, MarkerComplete, Walked, Putting, Restoring, IndexedIsStored, committed, Holds, diskUnchanged, forgotten, mishap
<1>2. CASE CrashController
  BY <1>2 DEF CrashController, Kinds, BackupHoldsItsRecords, MarkerComplete, Walked, Putting, Restoring, IndexedIsStored, committed, Holds, diskUnchanged, forgotten, mishap
<1>3. CASE LoseDisk
  BY <1>3 DEF LoseDisk, Kinds, BackupHoldsItsRecords, MarkerComplete, Walked, Putting, Restoring, IndexedIsStored, committed, Holds, diskUnchanged, forgotten, mishap
<1> QED
  BY <1>1, <1>2, <1>3

LEMMA BackupsStep ==
  ASSUME BackupsInv, [BackupsNext]_backupsVars
  PROVE  BackupsInv'
<1>1. CASE UNCHANGED backupsVars
  BY <1>1 DEF backupsVars, BackupsInv, running, Kinds, BackupHoldsItsRecords, MarkerComplete, Walked, Putting, Restoring, IndexedIsStored, committed, Holds
<1>2. CASE BackupsNext
  BY <1>2, PutKeeps, MakerKeeps, RestoreKeeps, MachineKeeps DEF BackupsNext
<1> QED
  BY <1>1, <1>2

(* Every undamaged backup holds what its database names, but for what it is *)
(* known to lack (manager.go, Create).                                     *)
THEOREM BackupsHoldForAll == BackupsSpec => []BackupHoldsItsRecords
<1>1. BackupsInv => BackupHoldsItsRecords
  BY DEF BackupsInv
<1> QED
  BY <1>1, BackupsInitially, BackupsStep, PTL DEF BackupsSpec

(* What the database has indexed is stored, but for what the backup that    *)
(* was restored last lacks, for any number of artifacts, backups, crashes,  *)
(* lost disks and interrupted restores (store.go, Put; manager.go, Create   *)
(* and ApplyPending).                                                      *)
THEOREM StoredForAll == BackupsSpec => []IndexedIsStored
<1>1. BackupsInv => IndexedIsStored
  BY DEF BackupsInv
<1> QED
  BY <1>1, BackupsInitially, BackupsStep, PTL DEF BackupsSpec

(* The types: what the files hold, and how many archives there are, with     *)
(* the one in the making, which found room when it was begun.               *)
Files ==
  /\ {database, log} \subseteq (SUBSET Artifacts) \union {NoFile}
  /\ temps \subseteq Artifacts /\ left \subseteq Artifacts /\ DOMAIN putting \subseteq Artifacts
  /\ mishaps \in 0 .. MaxMishaps

Room ==
  /\ IsFiniteSet(archives) /\ Cardinality(archives) <= MaxArchives
  /\ maker # Nobody => Cardinality(archives) < MaxArchives

LEMMA FilesKeep ==
  ASSUME BackupsInv, Files, [BackupsNext]_backupsVars
  PROVE  Files'
<1>1. committed \in (SUBSET Artifacts) \union {NoFile}
  BY DEF Files, committed
<1>2. ASSUME running PROVE committed \in SUBSET Artifacts
  BY <1>2 DEF BackupsInv, IndexedIsStored, Kinds
<1>3. marker # NoArchive => marker.objects \subseteq Artifacts /\ marker.records \subseteq Artifacts
  BY DEF BackupsInv, Kinds, Archive
<1>m. mishap => mishaps' \in 0 .. MaxMishaps
  <2>1. MaxMishaps \in Nat
    BY BackupsAssumption
  <2> QED
    BY <2>1 DEF mishap, Files
<1>4. ASSUME NEW a \in Artifacts,
             WriteTemporary(a) \/ LinkObject(a) \/ IndexArtifact(a) \/ RemoveTemporary(a) \/ WriteObject(a)
      PROVE  Files'
  <2>1. CASE WriteTemporary(a) \/ LinkObject(a) \/ RemoveTemporary(a) \/ WriteObject(a)
    BY <2>1 DEF WriteTemporary, LinkObject, RemoveTemporary, WriteObject, reach, gone, Files
  <2>2. CASE IndexArtifact(a)
    BY <1>2, <2>2 DEF IndexArtifact, reach, Files
  <2> QED
    BY <1>4, <2>1, <2>2
<1>5. CASE Snapshot \/ WalkWorkers \/ WalkObjects \/ WalkTemporaries \/ CreateFails
  BY <1>5 DEF Snapshot, WalkWorkers, WalkObjects, WalkTemporaries, CreateFails, diskUnchanged, Files
<1>6. CASE Publish \/ Checkpoint \/ OpenDatabase \/ MoveDatabase \/ RemoveLog \/ RemoveMarker
  BY <1>6 DEF Publish, Checkpoint, OpenDatabase, MoveDatabase, RemoveLog, RemoveMarker, Files
<1>7. CASE BeginApply
  BY <1>3, <1>7 DEF BeginApply, diskUnchanged, Files
<1>8. CASE WriteDatabase
  <2>1. marker # NoArchive
    BY <1>8 DEF WriteDatabase, BackupsInv, Restoring
  <2> QED
    BY <1>3, <1>8, <2>1 DEF WriteDatabase, Files
<1>9. ASSUME NEW bundle \in archives, StageRestore(bundle) \/ DamageArchive(bundle) PROVE Files'
  BY <1>m, <1>9 DEF StageRestore, DamageArchive, Files
<1>10. CASE StopController
  BY <1>1, <1>10 DEF StopController, forgotten, Files
<1>11. CASE CrashController \/ LoseDisk
  BY <1>m, <1>11 DEF CrashController, LoseDisk, forgotten, diskUnchanged, Files
<1>12. CASE UNCHANGED backupsVars
  BY <1>12 DEF backupsVars, Files
<1> QED
  BY <1>4, <1>5, <1>6, <1>7, <1>8, <1>9, <1>10, <1>11, <1>12 DEF BackupsNext

LEMMA RoomKeeps ==
  ASSUME Room, [BackupsNext]_backupsVars
  PROVE  Room'
<1>1. IsFiniteSet(archives) /\ Cardinality(archives) \in Nat /\ MaxArchives \in Nat
  BY FS_CardinalityType, BackupsAssumption DEF Room
<1>2. ASSUME UNCHANGED archives, maker' # Nobody => maker # Nobody PROVE Room'
  BY <1>2 DEF Room
<1>3. CASE Publish
  <2>1. archives' = archives \union {maker.bundle} /\ maker' = Nobody /\ maker # Nobody
    BY <1>3 DEF Publish
  <2>2. IsFiniteSet(archives') /\ Cardinality(archives') <= Cardinality(archives) + 1
        /\ Cardinality(archives') \in Nat
    <3>1. Cardinality(archives') = IF maker.bundle \in archives THEN Cardinality(archives)
                                   ELSE Cardinality(archives) + 1
      BY <1>1, <2>1, FS_AddElement
    <3>2. IsFiniteSet(archives')
      BY <1>1, <2>1, FS_AddElement
    <3> QED
      BY <1>1, <3>1, <3>2
  <2> QED
    BY <1>1, <2>1, <2>2 DEF Room
<1>4. ASSUME NEW bundle \in archives, DamageArchive(bundle) PROVE Room'
  <2> DEFINE damaged == [bundle EXCEPT !.intact = FALSE, !.objects = {}]
             rest == archives \ {bundle}
  <2>1. archives' = rest \union {damaged} /\ UNCHANGED maker
    BY <1>4 DEF DamageArchive
  <2>2. IsFiniteSet(rest) /\ Cardinality(rest) = Cardinality(archives) - 1
    BY <1>1, FS_RemoveElement
  <2> HIDE DEF damaged, rest
  <2>3. IsFiniteSet(archives') /\ Cardinality(archives') <= Cardinality(rest) + 1
        /\ Cardinality(archives') \in Nat
    <3>1. Cardinality(rest) \in Nat
      BY <2>2, FS_CardinalityType
    <3>2. Cardinality(archives') = IF damaged \in rest THEN Cardinality(rest) ELSE Cardinality(rest) + 1
      BY <2>1, <2>2, FS_AddElement
    <3>3. IsFiniteSet(archives')
      BY <2>1, <2>2, FS_AddElement
    <3> QED
      BY <3>1, <3>2, <3>3
  <2>4. Cardinality(archives') <= Cardinality(archives)
    BY <1>1, <2>2, <2>3
  <2> QED
    BY <1>1, <2>1, <2>3, <2>4 DEF Room
<1>5. CASE Snapshot
  BY <1>1, <1>5 DEF Snapshot, diskUnchanged, Room
<1>6. ASSUME NEW a \in Artifacts,
             WriteTemporary(a) \/ LinkObject(a) \/ IndexArtifact(a) \/ RemoveTemporary(a) \/ WriteObject(a)
      PROVE  Room'
  BY <1>2, <1>6 DEF WriteTemporary, LinkObject, IndexArtifact, RemoveTemporary, WriteObject
<1>7. CASE Checkpoint \/ WalkWorkers \/ WalkObjects \/ WalkTemporaries \/ CreateFails
  BY <1>2, <1>7 DEF Checkpoint, WalkWorkers, walking, WalkObjects, WalkTemporaries, CreateFails, diskUnchanged
<1>8. ASSUME NEW bundle \in archives, StageRestore(bundle) PROVE Room'
  BY <1>2, <1>8 DEF StageRestore
<1>9. CASE OpenDatabase \/ BeginApply \/ MoveDatabase \/ RemoveLog \/ WriteDatabase \/ RemoveMarker
  BY <1>2, <1>9 DEF OpenDatabase, BeginApply, MoveDatabase, RemoveLog, WriteDatabase, RemoveMarker,
                    diskUnchanged
<1>10. CASE StopController \/ CrashController \/ LoseDisk
  BY <1>2, <1>10 DEF StopController, CrashController, LoseDisk, forgotten, diskUnchanged
<1>11. CASE UNCHANGED backupsVars
  BY <1>2, <1>11 DEF backupsVars
<1> QED
  BY <1>3, <1>4, <1>5, <1>6, <1>7, <1>8, <1>9, <1>10, <1>11 DEF BackupsNext

(* Files and archives keep their types, and a backup in the making has room. *)
THEOREM BackupsTypesForAll == BackupsSpec => []BackupsTypeOK
<1> DEFINE Inv == BackupsInv /\ Files /\ Room
<1>1. BackupsInit => Inv
  <2> SUFFICES ASSUME BackupsInit PROVE Inv
    OBVIOUS
  <2>0. MaxMishaps \in Nat /\ MaxArchives \in Nat
    BY BackupsAssumption
  <2>1. Files
    BY <2>0 DEF BackupsInit, Files
  <2>2. Room
    BY <2>0, FS_EmptySet DEF BackupsInit, Room
  <2> QED
    BY <2>1, <2>2, BackupsInitially
<1>2. Inv /\ [BackupsNext]_backupsVars => Inv'
  <2> SUFFICES ASSUME Inv, [BackupsNext]_backupsVars PROVE Inv'
    OBVIOUS
  <2> QED
    BY BackupsStep, FilesKeep, RoomKeeps
<1>3. Inv => BackupsTypeOK
  BY DEF BackupsInv, Kinds, Restoring, Making, Nobody, Files, Room, BackupsTypeOK
<1> QED
  BY <1>1, <1>2, <1>3, PTL DEF BackupsSpec

-----------------------------------------------------------------------------
(* The inventory of a forge, for any families, limits and requests.         *)
(*                                                                          *)
(* The objects a promise still owes after as many deletions: none           *)
(* once it is void or an object was deleted since it was made.              *)
owed(promise, undone) ==
  {x \in promise.since : ~promise.void /\ promise.deletions = undone}

(* An object of the forge that a collection which goes on at a page of a    *)
(* family comes to.                                                         *)
isAhead(there, x, f, p) ==
  \E g \in DOMAIN there : \E i \in DOMAIN there[g] :
    /\ there[g][i] = x
    /\ f < g \/ (g = f /\ (p - 1) * PageCap < i)

Covers(there, due, f, p, S) == \A x \in due \ S : isAhead(there, x, f, p)

Positive == Nat \ {0}

Promises(undone) == [since : SUBSET Objects, deletions : 0 .. undone, void : BOOLEAN]

(* What a cursor and the objects that are stored with it come to: nothing   *)
(* that is owed lies behind the cursor, and a cursor that is no page owes   *)
(* nothing.                                                                 *)
Kept(next, promise, there, undone, S) ==
  /\ promise \in Promises(undone)
  /\ next.kind = "page" =>
       /\ next.family \in DOMAIN there /\ next.page \in Positive
       /\ Covers(there, owed(promise, undone), next.family, next.page, S)
  /\ next.kind # "page" => owed(promise, undone) \subseteq S

RunOK(run, there, undone, S) ==
  /\ Kept(run.next, run.promise, there, undone, S)
  /\ run.partial <=> run.next.kind = "page"
  /\ ~run.partial /\ ~run.promise.void => run.promise.since \subseteq S

CollectingType(there, undone) ==
  [step : {"collecting"}, key : SyncKeys, base : Nat, fromMirror : Nat, room : Nat \ {0},
   family : DOMAIN there, page : Positive, next : (Nat \ {0}) \X Positive,
   got : SUBSET Objects, promise : Promises(undone)]

(* A request that collects covers its page, and the page it would leave as   *)
(* its cursor, which stays behind families that are passed over.            *)
CollectingOK(q, there, undone, S) ==
  /\ q \in CollectingType(there, undone)
  /\ IsFiniteSet(q.got)
  /\ Covers(there, owed(q.promise, undone), q.family, q.page, S \union q.got)
  /\ Covers(there, owed(q.promise, undone), q.next[1], q.next[2], S \union q.got)

RequestOK(q, there, undone, S) ==
  /\ q.step \in {"idle", "collecting", "saving"}
  /\ q.step = "collecting" => CollectingOK(q, there, undone, S)
  /\ q.step = "saving" => q.key \in SyncKeys /\ Kept(q.next, q.promise, there, undone, S \union q.got)

ForgeInv ==
  /\ forge \in Seq(Seq(Objects)) /\ forge # <<>>
  /\ deletions \in Nat /\ forgeEvents \in Nat /\ refs \in Nat /\ base \in Nat
  /\ syncing = [r \in Requesters |-> syncing[r]]
  /\ \A k \in DOMAIN syncRuns : RunOK(syncRuns[k], forge, deletions, collected)
  /\ \A r \in Requesters : RequestOK(syncing[r], forge, deletions, collected)

-----------------------------------------------------------------------------
(* Time is on the side of every promise: what is stored only grows, and     *)
(* what was ahead stays ahead unless something is deleted.                  *)
LEMMA PromisesLast ==
  ASSUME NEW there, NEW there2, NEW undone \in Nat, NEW undone2 \in Nat, NEW S, NEW S2,
         DOMAIN there2 = DOMAIN there, undone <= undone2, S \subseteq S2,
         undone2 = undone => \A x, f : \A p \in Positive : isAhead(there, x, f, p) => isAhead(there2, x, f, p)
  PROVE  /\ Promises(undone) \subseteq Promises(undone2)
         /\ \A next, promise : Kept(next, promise, there, undone, S) => Kept(next, promise, there2, undone2, S2)
         /\ \A run : RunOK(run, there, undone, S) => RunOK(run, there2, undone2, S2)
         /\ \A q : RequestOK(q, there, undone, S) => RequestOK(q, there2, undone2, S2)
<1>1. Promises(undone) \subseteq Promises(undone2)
  BY DEF Promises
<1>2. ASSUME NEW promise \in Promises(undone), undone2 # undone PROVE owed(promise, undone2) = {}
  BY <1>2 DEF owed, Promises
<1>3. ASSUME NEW promise \in Promises(undone), NEW f, NEW p \in Positive, NEW T, NEW T2, T \subseteq T2,
             Covers(there, owed(promise, undone), f, p, T)
      PROVE  Covers(there2, owed(promise, undone2), f, p, T2)
  <2>1. CASE undone2 = undone
    BY <1>3, <2>1 DEF Covers
  <2>2. CASE undone2 # undone
    BY <1>2, <2>2 DEF Covers
  <2> QED
    BY <2>1, <2>2
<1>4. ASSUME NEW next, NEW promise, NEW T, NEW T2, T \subseteq T2, Kept(next, promise, there, undone, T)
      PROVE  Kept(next, promise, there2, undone2, T2)
  <2>1. promise \in Promises(undone2) /\ promise \in Promises(undone)
    BY <1>1, <1>4 DEF Kept
  <2>2. ASSUME next.kind = "page"
        PROVE  /\ next.family \in DOMAIN there2 /\ next.page \in Positive
               /\ Covers(there2, owed(promise, undone2), next.family, next.page, T2)
    BY <1>3, <1>4, <2>1, <2>2 DEF Kept
  <2>3. ASSUME next.kind # "page" PROVE owed(promise, undone2) \subseteq T2
    <3>1. CASE undone2 = undone
      BY <1>4, <2>3, <3>1 DEF Kept
    <3>2. CASE undone2 # undone
      BY <1>2, <2>1, <3>2
    <3> QED
      BY <3>1, <3>2
  <2> QED
    BY <2>1, <2>2, <2>3 DEF Kept
<1>5. ASSUME NEW run, RunOK(run, there, undone, S) PROVE RunOK(run, there2, undone2, S2)
  BY <1>4, <1>5 DEF RunOK
<1>6. ASSUME NEW q, RequestOK(q, there, undone, S) PROVE RequestOK(q, there2, undone2, S2)
  <2>1. ASSUME q.step = "collecting" PROVE CollectingOK(q, there2, undone2, S2)
    <3>1. CollectingOK(q, there, undone, S)
      BY <1>6, <2>1 DEF RequestOK
    <3>2. /\ q \in CollectingType(there2, undone2) /\ q.promise \in Promises(undone)
          /\ q.page \in Positive /\ q.next[2] \in Positive
      BY <1>1, <3>1 DEF CollectingOK, CollectingType
    <3>3. S \union q.got \subseteq S2 \union q.got
      OBVIOUS
    <3> QED
      BY <1>3, <3>1, <3>2, <3>3 DEF CollectingOK
  <2>2. ASSUME q.step = "saving"
        PROVE  q.key \in SyncKeys /\ Kept(q.next, q.promise, there2, undone2, S2 \union q.got)
    <3>1. S \union q.got \subseteq S2 \union q.got
      OBVIOUS
    <3> QED
      BY <1>4, <1>6, <2>2, <3>1 DEF RequestOK
  <2> QED
    BY <1>6, <2>1, <2>2 DEF RequestOK
<1> QED
  BY <1>1, <1>4, <1>5, <1>6

-----------------------------------------------------------------------------
(* The forge changes.                                                       *)
LEMMA AddedStaysAhead ==
  ASSUME forge \in Seq(Seq(Objects)), NEW f \in DOMAIN forge, NEW object \in Objects,
         forge' = [forge EXCEPT ![f] = <<object>> \o @]
  PROVE  /\ forge' \in Seq(Seq(Objects)) /\ DOMAIN forge' = DOMAIN forge
         /\ \A x, g : \A p \in Positive : isAhead(forge, x, g, p) => isAhead(forge', x, g, p)
<1>1. f \in 1 .. Len(forge) /\ forge[f] \in Seq(Objects) /\ DOMAIN forge = 1 .. Len(forge)
  BY LenProperties, ElementOfSeq
<1>2. <<object>> \in Seq(Objects) /\ Len(<<object>>) = 1
  OBVIOUS
<1>3. /\ <<object>> \o forge[f] \in Seq(Objects)
      /\ Len(<<object>> \o forge[f]) = Len(forge[f]) + 1
      /\ \A i \in DOMAIN forge[f] :
           i + 1 \in DOMAIN (<<object>> \o forge[f]) /\ (<<object>> \o forge[f])[i + 1] = forge[f][i]
  <2>1. Len(forge[f]) \in Nat /\ DOMAIN forge[f] = 1 .. Len(forge[f])
    BY <1>1, LenProperties
  <2> QED
    BY <1>1, <1>2, <2>1, ConcatProperties, LenProperties
<1>4. forge' \in Seq(Seq(Objects)) /\ DOMAIN forge' = DOMAIN forge
  BY <1>1, <1>3, ExceptSeq
<1>5. ASSUME NEW x, NEW g, NEW p \in Positive, isAhead(forge, x, g, p) PROVE isAhead(forge', x, g, p)
  <2>1. PICK h \in DOMAIN forge : \E i \in DOMAIN forge[h] :
          forge[h][i] = x /\ (g < h \/ (h = g /\ (p - 1) * PageCap < i))
    BY <1>5 DEF isAhead
  <2>2. PICK i \in DOMAIN forge[h] : forge[h][i] = x /\ (g < h \/ (h = g /\ (p - 1) * PageCap < i))
    BY <2>1
  <2>3. CASE h = f
    <3>1. forge'[h] = <<object>> \o forge[f] /\ h \in DOMAIN forge'
      BY <1>1, <1>4, <2>3
    <3>2. i + 1 \in DOMAIN forge'[h] /\ forge'[h][i + 1] = x
      BY <1>3, <2>2, <2>3, <3>1
    <3>3. i \in Nat
      BY <1>1, <2>2, <2>3, LenProperties
    <3>4. g < h \/ (h = g /\ (p - 1) * PageCap < i + 1)
      <4>1. CASE g < h
        BY <4>1
      <4>2. CASE h = g /\ (p - 1) * PageCap < i
        <5> DEFINE n == (p - 1) * PageCap
        <5>1. n < i /\ n \in Int
          BY <4>2, ForgeAssumption DEF Positive
        <5>2. n < i + 1
          BY <3>3, <5>1
        <5> QED
          BY <4>2, <5>2
      <4> QED
        BY <2>2, <4>1, <4>2
    <3> QED
      BY <3>1, <3>2, <3>4 DEF isAhead
  <2>4. CASE h # f
    <3>1. forge'[h] = forge[h] /\ h \in DOMAIN forge'
      BY <1>1, <1>4, <2>4
    <3> QED
      BY <2>2, <3>1 DEF isAhead
  <2> QED
    BY <2>3, <2>4
<1> QED
  BY <1>4, <1>5

LEMMA DeletedIsASequence ==
  ASSUME NEW there \in Seq(Seq(Objects)), NEW f \in DOMAIN there, NEW i \in DOMAIN there[f],
         NEW there2,
         there2 = [there EXCEPT ![f] = SubSeq(@, 1, i - 1) \o SubSeq(@, i + 1, Len(@))]
  PROVE  there2 \in Seq(Seq(Objects)) /\ DOMAIN there2 = DOMAIN there
<1> DEFINE s == there[f]
<1>1. f \in 1 .. Len(there) /\ s \in Seq(Objects) /\ DOMAIN there = 1 .. Len(there)
  BY LenProperties, ElementOfSeq
<1>2. Len(s) \in Nat /\ i \in 1 .. Len(s) /\ \A j \in 1 .. Len(s) : s[j] \in Objects
  BY <1>1, LenProperties, ElementOfSeq
<1>3. SubSeq(s, 1, i - 1) \in Seq(Objects)
  BY <1>2, SubSeqProperties
<1>4. SubSeq(s, i + 1, Len(s)) \in Seq(Objects)
  BY <1>2, SubSeqProperties
<1>5. SubSeq(s, 1, i - 1) \o SubSeq(s, i + 1, Len(s)) \in Seq(Objects)
  BY <1>3, <1>4, ConcatProperties
<1> QED
  BY <1>1, <1>5, ExceptSeq

(* Whatever changes the forge, the profile or the default branch.           *)
LEMMA ForgeChanges ==
  ASSUME ForgeInv,
         MoveBase \/ SaveForgeProfile
         \/ \E f \in FamiliesOf : AddObject(f) \/ DeleteObject(f) \/ ChangeAccess(f)
  PROVE  ForgeInv'
<1> DEFINE Else == /\ UNCHANGED <<syncRuns, collected, syncing, refs>>
                   /\ forgeEvents' = forgeEvents + 1 /\ (base' = base \/ base' = base + 1)
           Grown == /\ forge' \in Seq(Seq(Objects)) /\ DOMAIN forge' = DOMAIN forge
                    /\ deletions' \in Nat /\ deletions <= deletions'
                    /\ deletions' = deletions =>
                         \A x, f : \A p \in Positive : isAhead(forge, x, f, p) => isAhead(forge', x, f, p)
<1>0. /\ forge \in Seq(Seq(Objects)) /\ forge # <<>>
      /\ deletions \in Nat /\ forgeEvents \in Nat /\ refs \in Nat /\ base \in Nat
  BY DEF ForgeInv
<1>1. Else
  <2>1. ASSUME NEW f \in FamiliesOf, AddObject(f) \/ DeleteObject(f) \/ ChangeAccess(f) PROVE Else
    BY <2>1 DEF AddObject, DeleteObject, ChangeAccess, forgeEvent
  <2>2. CASE MoveBase \/ SaveForgeProfile
    BY <2>2 DEF MoveBase, SaveForgeProfile, forgeEvent
  <2> QED
    BY <2>1, <2>2
<1>2. Grown
  <2>1. CASE MoveBase \/ SaveForgeProfile \/ \E f \in FamiliesOf : ChangeAccess(f)
    <3>1. forge' = forge /\ deletions' = deletions
      BY <2>1 DEF MoveBase, SaveForgeProfile, ChangeAccess
    <3> QED
      BY <1>0, <3>1
  <2>2. ASSUME NEW f \in FamiliesOf, AddObject(f) PROVE Grown
    <3>1. [family |-> f, number |-> forgeEvents] \in Objects
      BY <1>0, LenProperties DEF FamiliesOf, Objects
    <3>2. forge' = [forge EXCEPT ![f] = <<[family |-> f, number |-> forgeEvents]>> \o @]
          /\ deletions' = deletions
      BY <2>2 DEF AddObject
    <3> QED
      <4>1. /\ forge' \in Seq(Seq(Objects)) /\ DOMAIN forge' = DOMAIN forge
            /\ \A x, g : \A p \in Positive : isAhead(forge, x, g, p) => isAhead(forge', x, g, p)
        <5>1. PICK object \in Objects : forge' = [forge EXCEPT ![f] = <<object>> \o @]
          BY <3>1, <3>2
        <5>2. f \in DOMAIN forge
          BY DEF FamiliesOf
        <5> QED
          BY <1>0, <5>1, <5>2, AddedStaysAhead
      <4>2. deletions' \in Nat /\ deletions <= deletions'
        BY <1>0, <3>2
      <4> QED
        BY <4>1, <4>2
  <2>3. ASSUME NEW f \in FamiliesOf, DeleteObject(f) PROVE Grown
    <3>1. PICK i \in DOMAIN forge[f] :
            forge' = [forge EXCEPT ![f] = SubSeq(@, 1, i - 1) \o SubSeq(@, i + 1, Len(@))]
      BY <2>3 DEF DeleteObject
    <3>2. deletions' = deletions + 1
      BY <2>3 DEF DeleteObject
    <3> QED
      <4>1. forge' \in Seq(Seq(Objects)) /\ DOMAIN forge' = DOMAIN forge
        BY <1>0, <3>1, DeletedIsASequence, Zenon DEF FamiliesOf
      <4>2. deletions' \in Nat /\ deletions <= deletions' /\ deletions' # deletions
        BY <1>0, <3>2
      <4> QED
        BY <4>1, <4>2
  <2> QED
    BY <2>1, <2>2, <2>3
<1>3. forge' # <<>>
  BY <1>0, <1>2, LenProperties, EmptySeq
<1>4. /\ \A run : RunOK(run, forge, deletions, collected) => RunOK(run, forge', deletions', collected)
      /\ \A q : RequestOK(q, forge, deletions, collected) => RequestOK(q, forge', deletions', collected)
  BY <1>0, <1>2, PromisesLast
<1> QED
  BY <1>0, <1>1, <1>2, <1>3, <1>4 DEF ForgeInv

-----------------------------------------------------------------------------
(* Pages.                                                                   *)
LEMMA LeastOfTwo ==
  ASSUME NEW a \in Int, NEW b \in Int
  PROVE  Min({a, b}) \in {a, b} /\ Min({a, b}) <= a /\ Min({a, b}) <= b
<1>1. \E x \in {a, b} : \A y \in {a, b} : x <= y
  <2>1. CASE a <= b
    BY <2>1
  <2>2. CASE ~(a <= b)
    BY <2>2
  <2> QED
    BY <2>1, <2>2
<1>2. Min({a, b}) \in {a, b} /\ \A y \in {a, b} : Min({a, b}) <= y
  BY <1>1, Zenon DEF Min
<1> QED
  BY <1>2

LEMMA RangeIsFinite ==
  ASSUME NEW s \in Seq(Objects)
  PROVE  IsFiniteSet(Range(s)) /\ Range(s) \subseteq Objects
<1>1. Len(s) \in Nat /\ DOMAIN s = 1 .. Len(s) /\ s \in [1 .. Len(s) -> Objects]
  BY LenProperties
<1>2. Range(s) \subseteq Objects
  BY <1>1 DEF Range
<1>3. s \in Surjection(1 .. Len(s), Range(s))
  BY <1>1 DEF Range, Surjection
<1>4. IsFiniteSet(1 .. Len(s))
  BY <1>1, FS_Interval
<1> QED
  BY <1>2, <1>3, <1>4, FS_Surjection

LEMMA PageOfObjects ==
  ASSUME forge \in Seq(Seq(Objects)), NEW f \in DOMAIN forge, NEW p \in Positive,
         NEW size \in Positive
  PROVE  /\ onPage(f, p, size) \subseteq Objects /\ IsFiniteSet(onPage(f, p, size))
         /\ \A i \in DOMAIN forge[f] :
              (p - 1) * size < i /\ i <= p * size => forge[f][i] \in onPage(f, p, size)
<1> DEFINE s == forge[f]
           k == p * size
           past == (p - 1) * size
           m == past + 1
           n == Min({k, Len(s)})
           t == SubSeq(s, m, n)
<1>1. s \in Seq(Objects) /\ Len(s) \in Nat /\ DOMAIN s = 1 .. Len(s)
  BY LenProperties, ElementOfSeq
<1>8. p - 1 \in Nat /\ size \in Nat /\ p \in Nat
  BY DEF Positive
<1>9. \A a, b \in Nat : a * b \in Nat
  OBVIOUS
<1>10. past \in Nat /\ k \in Nat
  BY <1>8, <1>9
<1>2. m \in Positive /\ k \in Int /\ Len(s) \in Int
  <2> HIDE DEF past, k
  <2> QED
    BY <1>1, <1>10 DEF Positive
<1>3. n \in Int /\ n <= k /\ n <= Len(s) /\ n \in {k, Len(s)}
  <2> HIDE DEF k, s
  <2>1. n \in {k, Len(s)} /\ n <= k /\ n <= Len(s)
    BY <1>2, LeastOfTwo, Zenon
  <2> QED
    BY <1>2, <2>1
<1>4. \A i \in m .. n : s[i] \in Objects
  BY <1>1, <1>2, <1>3, ElementOfSeq DEF Positive
<1>5. /\ t \in Seq(Objects) /\ Len(t) = IF m <= n THEN n - m + 1 ELSE 0
      /\ \A i \in 1 .. n - m + 1 : t[i] = s[m + i - 1]
  <2> HIDE DEF m, n
  <2> QED
    BY <1>2, <1>3, <1>4, SubSeqProperties DEF Positive
<1>6. onPage(f, p, size) = Range(t)
  BY DEF onPage
<1>7. ASSUME NEW i \in DOMAIN s, (p - 1) * size < i, i <= p * size
      PROVE  s[i] \in Range(t)
  <2>1. m <= i /\ i \in Nat
    BY <1>1, <1>10, <1>7
  <2>0. i <= k
    BY <1>7
  <2> HIDE DEF m, n, t, k
  <2>5. i <= n
    <3>1. i <= Len(s)
      BY <1>1, <2>1
    <3> QED
      BY <1>3, <2>0, <3>1
  <2>2. i - m + 1 \in 1 .. n - m + 1 /\ m + (i - m + 1) - 1 = i
    BY <1>2, <1>3, <2>1, <2>5 DEF Positive
  <2>3. i - m + 1 \in DOMAIN t
    BY <1>2, <1>3, <1>5, <2>1, <2>2, <2>5, LenProperties DEF Positive
  <2>4. t[i - m + 1] = s[i]
    BY <1>5, <2>2
  <2> QED
    BY <2>3, <2>4 DEF Range
<1> QED
  BY <1>5, <1>6, <1>7, RangeIsFinite

LEMMA EverythingIsAhead ==
  ASSUME forge \in Seq(Seq(Objects))
  PROVE  There \subseteq Objects /\ \A x \in There : isAhead(forge, x, 1, 1)
<1> SUFFICES ASSUME NEW x \in There PROVE x \in Objects /\ isAhead(forge, x, 1, 1)
  OBVIOUS
<1>1. PICK g \in DOMAIN forge : x \in Range(forge[g])
  BY DEF There, FamiliesOf
<1>2. PICK i \in DOMAIN forge[g] : forge[g][i] = x
  BY <1>1 DEF Range
<1>3. g \in 1 .. Len(forge) /\ forge[g] \in Seq(Objects)
  BY LenProperties, ElementOfSeq
<1>4. i \in 1 .. Len(forge[g]) /\ x \in Objects
  BY <1>2, <1>3, LenProperties, ElementOfSeq
<1>5. (1 - 1) * PageCap = 0
  BY ForgeAssumption
<1>6. 1 < g \/ (g = 1 /\ (1 - 1) * PageCap < i)
  BY <1>3, <1>4, <1>5, LenProperties
<1> QED
  BY <1>2, <1>4, <1>6 DEF isAhead

-----------------------------------------------------------------------------
(* Requests.                                                                *)
Here(q) == RequestOK(q, forge, deletions, collected)

ForgeTypes ==
  /\ forge \in Seq(Seq(Objects)) /\ forge # <<>>
  /\ deletions \in Nat /\ refs \in Nat /\ base \in Nat

LEMMA Numbers ==
  ASSUME ForgeTypes
  PROVE  /\ Len(forge) \in Nat \ {0} /\ DOMAIN forge = 1 .. Len(forge)
         /\ \A f \in DOMAIN forge : forge[f] \in Seq(Objects) /\ Len(forge[f]) \in Nat
                                    /\ DOMAIN forge[f] = 1 .. Len(forge[f])
         /\ PageCap \in Nat \ {0} /\ Limit \in Nat \ {0}
         /\ 1 \in DOMAIN forge
<1>1. Len(forge) \in Nat \ {0} /\ DOMAIN forge = 1 .. Len(forge)
  BY LenProperties, EmptySeq DEF ForgeTypes
<1>2. \A f \in DOMAIN forge : forge[f] \in Seq(Objects)
  BY <1>1, ElementOfSeq DEF ForgeTypes
<1> QED
  BY <1>1, <1>2, LenProperties, ForgeAssumption

LEMMA GoesOn ==
  ASSUME ForgeTypes, NEW q \in CollectingType(forge, deletions), IsFiniteSet(q.got),
         NEW got \in SUBSET Objects, IsFiniteSet(got),
         NEW next \in (Nat \ {0}) \X Positive, NEW promise \in Promises(deletions),
         Covers(forge, owed(promise, deletions), q.family + 1, 1, collected \union got),
         Covers(forge, owed(promise, deletions), next[1], next[2], collected \union got)
  PROVE  Here(goOn(q, next, got, promise))
<1> DEFINE room == q.room - Cardinality(got \ q.got)
           on == [q EXCEPT !.family = @ + 1, !.page = 1, !.room = room, !.next = next,
                           !.got = got, !.promise = promise]
           done == pageOf(q, result(q, next, FALSE), got, promise)
<1>1. room \in Int
  <2>1. IsFiniteSet(got \ q.got)
    BY FS_Difference
  <2>2. Cardinality(got \ q.got) \in Nat
    BY <2>1, FS_CardinalityType
  <2> QED
    BY <2>2 DEF CollectingType
<1>2. ASSUME q.family < Len(forge), room > 0 PROVE Here(on)
  <2>1. q.family + 1 \in DOMAIN forge /\ 1 \in Positive
    BY <1>2, Numbers DEF CollectingType, Positive
  <2>2. room \in Nat \ {0}
    BY <1>1, <1>2
  <2> HIDE DEF room
  <2>3. on \in CollectingType(forge, deletions)
    BY <2>1, <2>2 DEF CollectingType
  <2>4. /\ on.family = q.family + 1 /\ on.page = 1 /\ on.next = next /\ on.got = got
        /\ on.promise = promise /\ on.step = "collecting"
    BY DEF CollectingType
  <2> HIDE DEF on
  <2>5. CollectingOK(on, forge, deletions, collected)
    BY <2>3, <2>4 DEF CollectingOK
  <2> QED
    BY <2>4, <2>5 DEF Here, RequestOK
<1>3. Here(done)
  <2>1. /\ done.step = "saving" /\ done.key = q.key /\ done.got = got /\ done.promise = promise
        /\ done.next = result(q, next, FALSE) /\ q.key \in SyncKeys
    BY DEF pageOf, CollectingType
  <2> HIDE DEF done
  <2>2. CASE next[1] > Len(forge)
    <3>1. done.next = AtBase(q.base) /\ done.next.kind = "base"
      BY <2>1, <2>2 DEF result, AtBase
    <3>2. owed(promise, deletions) \subseteq collected \union got
      BY <2>2, Numbers DEF Covers, isAhead
    <3> QED
      BY <2>1, <3>1, <3>2 DEF Here, RequestOK, Kept
  <2>3. CASE ~(next[1] > Len(forge))
    <3>1. done.next = AtPage(q.base, next[1], next[2])
      BY <2>1, <2>3 DEF result
    <3>2. done.next.kind = "page" /\ done.next.family = next[1] /\ done.next.page = next[2]
      BY <3>1 DEF AtPage
    <3>3. next[1] \in DOMAIN forge /\ next[2] \in Positive
      BY <2>3, Numbers
    <3> QED
      BY <2>1, <3>2, <3>3 DEF Here, RequestOK, Kept
  <2> QED
    BY <2>2, <2>3
<1> QED
  BY <1>2, <1>3 DEF goOn

(* A page is collected.                                                     *)
LEMMA PageIsCollected ==
  ASSUME ForgeTypes, NEW r \in Requesters, Here(syncing[r]), CollectPage(r),
         syncing = [s \in Requesters |-> syncing[s]]
  PROVE  Here(syncing[r])'
<1> DEFINE q == syncing[r]
           size == sizeOf(q)
           page == onPage(q.family, q.page, size)
           got == q.got \union page
           shown == forge[q.family]
<1>1. CollectingOK(q, forge, deletions, collected)
  BY DEF Here, RequestOK, CollectPage
<1>2. /\ q \in CollectingType(forge, deletions) /\ q.family \in DOMAIN forge /\ q.page \in Positive
      /\ q.room \in Nat \ {0} /\ q.got \subseteq Objects /\ q.promise \in Promises(deletions)
      /\ q.base \in Nat /\ q.key \in SyncKeys
  BY <1>1 DEF CollectingOK, CollectingType
<1>3. size \in Positive /\ size <= PageCap
  <2>0. q.room \in Int /\ PageCap \in Int
    BY <1>2, Numbers
  <2>1. Min({q.room, PageCap}) \in {q.room, PageCap} /\ Min({q.room, PageCap}) <= PageCap
    BY <2>0, LeastOfTwo, Zenon
  <2> QED
    BY <1>2, <2>1, Numbers DEF sizeOf, Positive
<1> HIDE DEF size
<1>4. /\ page \subseteq Objects /\ IsFiniteSet(page)
      /\ \A i \in DOMAIN shown : (q.page - 1) * size < i /\ i <= q.page * size => shown[i] \in page
  BY <1>2, <1>3, PageOfObjects DEF ForgeTypes
<1> HIDE DEF page
<1>5. got \subseteq Objects /\ IsFiniteSet(got)
  BY <1>1, <1>2, <1>4, FS_Union DEF CollectingOK
<1>6. ASSUME NEW x \in owed(q.promise, deletions), x \notin collected \union got
      PROVE  \E g \in DOMAIN forge : \E i \in DOMAIN forge[g] :
               /\ forge[g][i] = x
               /\ q.family < g \/ (g = q.family /\ (q.page - 1) * PageCap < i)
  BY <1>1, <1>6 DEF CollectingOK, Covers, isAhead
<1>7. (q.page - 1) * size <= (q.page - 1) * PageCap
      /\ (q.page - 1) * size \in Int /\ (q.page - 1) * PageCap \in Int
      /\ q.page * size \in Int
  <2>1. \A a, b, c \in Nat : b <= c => a * b <= a * c /\ a * b \in Int /\ a * c \in Int
    OBVIOUS
  <2>2. q.page - 1 \in Nat /\ q.page \in Nat /\ size \in Nat /\ PageCap \in Nat
    BY <1>2, <1>3, Numbers DEF Positive
  <2> QED
    BY <1>3, <2>1, <2>2
<1>8. ASSUME Len(shown) > q.page * size
      PROVE  Here(pageOf(q, AtPage(q.base, q.family, q.page + 1), got,
                         [q.promise EXCEPT !.void = @ \/ size # PageCap]))
  <2> DEFINE promise == [q.promise EXCEPT !.void = @ \/ size # PageCap]
             done == pageOf(q, AtPage(q.base, q.family, q.page + 1), got, promise)
  <2>1. promise \in Promises(deletions)
    BY <1>2 DEF Promises
  <2>2. owed(promise, deletions) = IF size = PageCap THEN owed(q.promise, deletions) ELSE {}
    BY <1>2 DEF Promises, owed
  <2> HIDE DEF promise
  <2>3. Covers(forge, owed(promise, deletions), q.family, q.page + 1, collected \union got)
    <3> SUFFICES ASSUME NEW x \in owed(promise, deletions), x \notin collected \union got
                 PROVE  isAhead(forge, x, q.family, q.page + 1)
      BY DEF Covers
    <3>1. size = PageCap /\ x \in owed(q.promise, deletions)
      BY <2>2
    <3>2. PICK g \in DOMAIN forge : \E i \in DOMAIN forge[g] :
               /\ forge[g][i] = x
               /\ q.family < g \/ (g = q.family /\ (q.page - 1) * PageCap < i)
      BY <1>6, <3>1
    <3>3. PICK i \in DOMAIN forge[g] :
               /\ forge[g][i] = x
               /\ q.family < g \/ (g = q.family /\ (q.page - 1) * PageCap < i)
      BY <3>2
    <3>4. ASSUME ~(q.family < g) PROVE q.page * PageCap < i
      <4>1. ~(i <= q.page * size)
        BY <1>4, <3>1, <3>3, <3>4
      <4>2. i \in Nat
        BY <3>3, Numbers
      <4> QED
        BY <1>7, <3>1, <4>1, <4>2
    <3> DEFINE p == q.page + 1
    <3>5. p - 1 = q.page
      BY <1>2 DEF Positive
    <3> HIDE DEF p
    <3>6. q.family < g \/ (g = q.family /\ (p - 1) * PageCap < i)
      BY <3>3, <3>4, <3>5
    <3>7. isAhead(forge, x, q.family, p)
      BY <3>3, <3>6 DEF isAhead
    <3> QED
      BY <3>7 DEF p
  <2>4. /\ done.step = "saving" /\ done.key = q.key /\ done.got = got /\ done.promise = promise
        /\ done.next = AtPage(q.base, q.family, q.page + 1)
    BY DEF pageOf
  <2>5. /\ done.next.kind = "page" /\ done.next.family = q.family
        /\ done.next.page = q.page + 1 /\ q.page + 1 \in Positive
    BY <1>2, <2>4 DEF AtPage, Positive
  <2> HIDE DEF done
  <2>6. Here(done)
    BY <1>2, <2>1, <2>3, <2>4, <2>5 DEF Here, RequestOK, Kept
  <2> QED
    BY <2>6 DEF done, promise
<1>9. ASSUME ~(Len(shown) > q.page * size)
      PROVE  Here(goOn(q, <<q.family + 1, 1>>, got, q.promise))
  <2>1. Covers(forge, owed(q.promise, deletions), q.family + 1, 1, collected \union got)
    <3> SUFFICES ASSUME NEW x \in owed(q.promise, deletions), x \notin collected \union got
                 PROVE  isAhead(forge, x, q.family + 1, 1)
      BY DEF Covers
    <3>1. PICK g \in DOMAIN forge : \E i \in DOMAIN forge[g] :
               /\ forge[g][i] = x
               /\ q.family < g \/ (g = q.family /\ (q.page - 1) * PageCap < i)
      BY <1>6
    <3>2. PICK i \in DOMAIN forge[g] :
               /\ forge[g][i] = x
               /\ q.family < g \/ (g = q.family /\ (q.page - 1) * PageCap < i)
      BY <3>1
    <3>3. i \in Nat \ {0} /\ g \in Nat /\ q.family \in Nat
      BY <1>2, <3>2, Numbers
    <3>4. q.family < g
      <4> SUFFICES ASSUME ~(q.family < g) PROVE FALSE
        OBVIOUS
      <4>1. g = q.family /\ (q.page - 1) * size < i
        BY <1>7, <3>2, <3>3
      <4>2. i <= q.page * size
        BY <1>2, <1>7, <1>9, <3>2, <4>1, Numbers
      <4> QED
        BY <1>4, <3>2, <4>1, <4>2
    <3>5. (1 - 1) * PageCap = 0
      BY Numbers
    <3>6. q.family + 1 < g \/ (g = q.family + 1 /\ (1 - 1) * PageCap < i)
      BY <3>3, <3>4, <3>5
    <3> QED
      BY <3>2, <3>6 DEF isAhead
  <2>2. <<q.family + 1, 1>> \in (Nat \ {0}) \X Positive
    BY <1>2, Numbers DEF Positive
  <2>3. <<q.family + 1, 1>>[1] = q.family + 1 /\ <<q.family + 1, 1>>[2] = 1
    OBVIOUS
  <2> DEFINE next == <<q.family + 1, 1>>
  <2> HIDE DEF next
  <2>4. Here(goOn(q, next, got, q.promise))
    BY <1>1, <1>2, <1>5, <2>1, <2>2, <2>3, GoesOn DEF CollectingOK, next
  <2> QED
    BY <2>4 DEF next
<1>10. UNCHANGED <<forge, deletions, collected>>
  BY DEF CollectPage, onlySyncing
<1>11. syncing'[r] = IF Len(shown) > q.page * size
                     THEN pageOf(q, AtPage(q.base, q.family, q.page + 1), got,
                                 [q.promise EXCEPT !.void = @ \/ size # PageCap])
                     ELSE goOn(q, <<q.family + 1, 1>>, got, q.promise)
  BY DEF CollectPage, holds, size, page
<1>12. Here(syncing'[r])
  BY <1>8, <1>9, <1>11
<1> QED
  BY <1>10, <1>12 DEF Here

(* A family is passed over, and owes nothing any more.                      *)
LEMMA FamilyIsPassedOver ==
  ASSUME ForgeTypes, NEW r \in Requesters, Here(syncing[r]), PassOver(r),
         syncing = [s \in Requesters |-> syncing[s]]
  PROVE  Here(syncing[r])'
<1> DEFINE q == syncing[r]
           promise == [q.promise EXCEPT !.since = @ \ Range(forge[q.family])]
<1>1. CollectingOK(q, forge, deletions, collected)
  BY DEF Here, RequestOK, PassOver
<1>2. /\ q \in CollectingType(forge, deletions) /\ q.family \in DOMAIN forge
      /\ q.next \in (Nat \ {0}) \X Positive /\ q.got \in SUBSET Objects
      /\ q.promise \in Promises(deletions)
  BY <1>1 DEF CollectingOK, CollectingType
<1>3. promise \in Promises(deletions)
  BY <1>2 DEF Promises
<1>4. owed(promise, deletions) = owed(q.promise, deletions) \ Range(forge[q.family])
  BY <1>2 DEF Promises, owed
<1> HIDE DEF promise
<1>5. Covers(forge, owed(promise, deletions), q.next[1], q.next[2], collected \union q.got)
  BY <1>1, <1>4 DEF CollectingOK, Covers
<1>6. Covers(forge, owed(promise, deletions), q.family + 1, 1, collected \union q.got)
  <2> SUFFICES ASSUME NEW x \in owed(promise, deletions), x \notin collected \union q.got
               PROVE  isAhead(forge, x, q.family + 1, 1)
    BY DEF Covers
  <2>1. isAhead(forge, x, q.family, q.page) /\ x \notin Range(forge[q.family])
    BY <1>1, <1>4 DEF CollectingOK, Covers
  <2>2. PICK g \in DOMAIN forge : \E i \in DOMAIN forge[g] :
             /\ forge[g][i] = x
             /\ q.family < g \/ (g = q.family /\ (q.page - 1) * PageCap < i)
    BY <2>1 DEF isAhead
  <2>3. PICK i \in DOMAIN forge[g] :
             /\ forge[g][i] = x
             /\ q.family < g \/ (g = q.family /\ (q.page - 1) * PageCap < i)
    BY <2>2
  <2>4. g # q.family
    BY <2>1, <2>3 DEF Range
  <2>5. i \in Nat \ {0} /\ g \in Nat /\ q.family \in Nat /\ (1 - 1) * PageCap = 0
    BY <1>2, <2>3, Numbers
  <2>6. q.family + 1 < g \/ (g = q.family + 1 /\ (1 - 1) * PageCap < i)
    BY <2>3, <2>4, <2>5
  <2> QED
    BY <2>3, <2>6 DEF isAhead
<1>7. IsFiniteSet(q.got)
  BY <1>1 DEF CollectingOK
<1>8. Here(goOn(q, q.next, q.got, promise))
  BY <1>2, <1>3, <1>5, <1>6, <1>7, GoesOn
<1>9. UNCHANGED <<forge, deletions, collected>> /\ syncing'[r] = goOn(q, q.next, q.got, promise)
  BY DEF PassOver, holds, onlySyncing, promise
<1> QED
  BY <1>8, <1>9 DEF Here

(* A page is refused, and the cursor stays at it.                           *)
LEMMA PageIsRefused ==
  ASSUME ForgeTypes, NEW r \in Requesters, Here(syncing[r]), RateLimited(r),
         syncing = [s \in Requesters |-> syncing[s]]
  PROVE  Here(syncing[r])'
<1> DEFINE q == syncing[r]
           done == pageOf(q, result(q, limitedAt(q), TRUE), q.got, q.promise)
<1>1. CollectingOK(q, forge, deletions, collected)
  BY DEF Here, RequestOK, RateLimited
<1>2. /\ q.family \in DOMAIN forge /\ q.page \in Positive /\ q.key \in SyncKeys
      /\ q.promise \in Promises(deletions)
  BY <1>1 DEF CollectingOK, CollectingType
<1>3. /\ done.step = "saving" /\ done.key = q.key /\ done.got = q.got /\ done.promise = q.promise
      /\ done.next = AtPage(q.base, q.family, q.page)
  BY DEF pageOf, result, limitedAt
<1>5. UNCHANGED <<forge, deletions, collected>> /\ syncing'[r] = done
  BY DEF RateLimited, holds, onlySyncing
<1> HIDE DEF done
<1>4. done.next.kind = "page" /\ done.next.family = q.family /\ done.next.page = q.page
  BY <1>3 DEF AtPage
<1>6. Here(done)
  BY <1>1, <1>2, <1>3, <1>4 DEF CollectingOK, Here, RequestOK, Kept
<1> QED
  BY <1>5, <1>6 DEF Here

(* A request begins, anew or where a run left off.                          *)
LEMMA RequestBegins ==
  ASSUME ForgeTypes, NEW r \in Requesters, NEW key \in SyncKeys, NEW cursor, NEW promise,
         syncing = [s \in Requesters |-> syncing[s]],
         cursor.kind = "page" => Kept(cursor, promise, forge, deletions, collected),
         SyncForge(r, cursor, promise, key)
  PROVE  Here(syncing[r])'
<1> DEFINE goesOn == resuming(cursor)
           mirrored == IF goesOn THEN 0 ELSE fromMirror
           room == Limit - mirrored
           family == IF goesOn THEN cursor.family ELSE 1
           page == IF goesOn THEN cursor.page ELSE 1
           next == IF goesOn THEN <<cursor.family, cursor.page>> ELSE <<1, 1>>
           promised == IF goesOn THEN promise
                       ELSE [since |-> There, deletions |-> deletions, void |-> FALSE]
           q == [step |-> "collecting", key |-> key, base |-> base, fromMirror |-> mirrored,
                 room |-> room, family |-> family, page |-> page, next |-> next,
                 got |-> {}, promise |-> promised]
           still == pageOf([q EXCEPT !.fromMirror = 0], cursor, {}, NoPromise)
           full == pageOf(q, AtPage(base, q.next[1], q.next[2]), {}, q.promise)
<1>1. /\ family \in DOMAIN forge /\ page \in Positive
      /\ next = <<family, page>> /\ promised \in Promises(deletions)
      /\ Covers(forge, owed(promised, deletions), family, page, collected)
  <2>1. CASE goesOn
    BY <2>1 DEF Kept, resuming
  <2>2. CASE ~goesOn
    <3>1. There \subseteq Objects /\ \A x \in There : isAhead(forge, x, 1, 1)
      BY EverythingIsAhead DEF ForgeTypes
    <3>2. promised = [since |-> There, deletions |-> deletions, void |-> FALSE]
      BY <2>2
    <3>6. deletions \in 0 .. deletions
      BY DEF ForgeTypes
    <3>3. promised \in Promises(deletions) /\ owed(promised, deletions) \subseteq There
      <4> HIDE DEF promised
      <4> QED
        BY <3>1, <3>2, <3>6 DEF Promises, owed
    <3>4. family = 1 /\ page = 1 /\ next = <<1, 1>>
      BY <2>2
    <3>5. Covers(forge, owed(promised, deletions), family, page, collected)
      BY <3>1, <3>3, <3>4 DEF Covers
    <3> QED
      BY <3>3, <3>4, <3>5, Numbers DEF Positive
  <2> QED
    BY <2>1, <2>2
<1>2. mirrored \in Nat /\ room \in Int
  <2>1. 1 + refs \in Int /\ Limit \in Int
    BY Numbers DEF ForgeTypes
  <2>2. Min({1 + refs, Limit}) \in {1 + refs, Limit}
    BY <2>1, LeastOfTwo, Zenon
  <2>3. fromMirror \in Nat
    BY <2>2, Numbers DEF fromMirror, ForgeTypes
  <2> QED
    BY <2>1, <2>3
<1>3. /\ syncing'[r] = IF cursor = AtBase(base) THEN still ELSE IF q.room < 1 THEN full ELSE q
      /\ UNCHANGED <<forge, deletions, collected>>
  <2> DEFINE what == IF cursor = AtBase(base) THEN still ELSE IF q.room < 1 THEN full ELSE q
  <2>1. syncing' = [syncing EXCEPT ![r] = what] /\ UNCHANGED <<forge, deletions, collected>>
    BY Zenon DEF SyncForge, holds, onlySyncing
  <2> HIDE DEF what
  <2>2. syncing'[r] = what
    BY <2>1
  <2> QED
    BY <2>1, <2>2 DEF what
<1> HIDE DEF family, page, promised, mirrored, room
<1>10. q.room = room /\ q.next = next /\ q.promise = promised
  OBVIOUS
<1>4. next[1] = family /\ next[2] = page
  BY <1>1
<1>5. collected \union {} = collected
  OBVIOUS
<1>6. ASSUME cursor = AtBase(base) PROVE Here(still)
  <2>1. /\ still.step = "saving" /\ still.key = key /\ still.got = {} /\ still.promise = NoPromise
        /\ still.next.kind = "base"
    BY <1>6 DEF pageOf, AtBase
  <2>2. NoPromise \in Promises(deletions) /\ owed(NoPromise, deletions) = {}
    BY DEF NoPromise, Promises, owed, ForgeTypes
  <2> HIDE DEF still
  <2> QED
    BY <2>1, <2>2 DEF Here, RequestOK, Kept
<1>7. Here(full)
  <2>1. /\ full.step = "saving" /\ full.key = key /\ full.got = {} /\ full.promise = promised
        /\ full.next = AtPage(base, next[1], next[2])
    BY <1>10 DEF pageOf
  <2>2. full.next.kind = "page" /\ full.next.family = family /\ full.next.page = page
    BY <1>4, <2>1 DEF AtPage
  <2> HIDE DEF full
  <2> QED
    BY <1>1, <1>5, <2>1, <2>2 DEF Here, RequestOK, Kept
<1>8. ASSUME ~(room < 1) PROVE Here(q)
  <2>1. room \in Nat \ {0} /\ base \in Nat
    BY <1>2, <1>8 DEF ForgeTypes
  <2>2. next \in (Nat \ {0}) \X Positive
    BY <1>1, Numbers
  <2> HIDE DEF next
  <2>3. q \in CollectingType(forge, deletions)
    BY <1>1, <1>2, <2>1, <2>2 DEF CollectingType
  <2>4. IsFiniteSet({})
    BY FS_EmptySet
  <2>5. /\ q.step = "collecting" /\ q.got = {} /\ q.promise = promised
        /\ q.family = family /\ q.page = page /\ q.next = next
    OBVIOUS
  <2> HIDE DEF q
  <2>6. CollectingOK(q, forge, deletions, collected)
    BY <1>1, <1>4, <1>5, <2>3, <2>4, <2>5 DEF CollectingOK
  <2> QED
    BY <2>5, <2>6 DEF Here, RequestOK
<1> HIDE DEF q, still, full
<1>9. Here(syncing'[r])
  BY <1>3, <1>6, <1>7, <1>8, <1>10
<1> QED
  BY <1>3, <1>9 DEF Here

(* A run is kept, unless its key has one.                                   *)
LEMMA RunIsKept ==
  ASSUME ForgeInv, NEW r \in Requesters, SaveForgeSync(r)
  PROVE  /\ \A k \in DOMAIN syncRuns' : RunOK(syncRuns'[k], forge, deletions, collected')
         /\ UNCHANGED <<forge, deletions>> /\ collected \subseteq collected'
         /\ Here(syncing[r])'
<1> DEFINE q == syncing[r]
           promise == [q.promise EXCEPT !.void = @ \/ q.promise.deletions # deletions]
           run == [next |-> q.next, objects |-> q.objects, partial |-> q.next.kind = "page",
                   promise |-> promise]
<1>1. /\ Kept(q.next, q.promise, forge, deletions, collected \union q.got)
      /\ deletions \in Nat /\ syncing = [s \in Requesters |-> syncing[s]]
      /\ \A k \in DOMAIN syncRuns : RunOK(syncRuns[k], forge, deletions, collected)
  BY DEF ForgeInv, RequestOK, SaveForgeSync
<1>2. /\ promise \in Promises(deletions)
      /\ owed(promise, deletions) = owed(q.promise, deletions)
      /\ ~promise.void => promise.since = owed(promise, deletions)
  BY <1>1 DEF Kept, Promises, owed
<1>3. /\ run.next = q.next /\ run.promise = promise
      /\ run.partial <=> q.next.kind = "page"
  OBVIOUS
<1>4. /\ UNCHANGED <<forge, deletions>> /\ syncing'[r] = NoSync
      /\ \/ q.key \in DOMAIN syncRuns /\ UNCHANGED <<syncRuns, collected>>
         \/ /\ syncRuns' = [k \in DOMAIN syncRuns \union {q.key} |->
                              IF k = q.key THEN run ELSE syncRuns[k]]
            /\ collected' = collected \union q.got
  BY <1>1 DEF SaveForgeSync, holds
<1> HIDE DEF run, promise
<1>5. RunOK(run, forge, deletions, collected \union q.got)
  <2>1. Kept(run.next, run.promise, forge, deletions, collected \union q.got)
    BY <1>1, <1>2, <1>3 DEF Kept
  <2>2. ASSUME ~run.partial, ~run.promise.void
        PROVE  run.promise.since \subseteq collected \union q.got
    BY <1>2, <1>3, <2>1, <2>2 DEF Kept
  <2> QED
    BY <1>3, <2>1, <2>2 DEF RunOK
<1>6. \A other : RunOK(other, forge, deletions, collected)
                   => RunOK(other, forge, deletions, collected \union q.got)
  BY <1>1, PromisesLast
<1>7. \A k \in DOMAIN syncRuns' : RunOK(syncRuns'[k], forge, deletions, collected')
  BY <1>1, <1>4, <1>5, <1>6
<1>8. Here(syncing[r])'
  BY <1>4 DEF Here, RequestOK, NoSync
<1> QED
  BY <1>4, <1>7, <1>8

(* Other requests do not mind.                                              *)
LEMMA ForgeStep ==
  ASSUME ForgeInv, [ForgeNext]_forgeVars
  PROVE  ForgeInv'
<1> USE DEF Here
<1>1. ForgeTypes /\ syncing = [s \in Requesters |-> syncing[s]] /\ forgeEvents \in Nat
      /\ \A s \in Requesters : Here(syncing[s])
  BY DEF ForgeInv, ForgeTypes
<1>2. CASE UNCHANGED forgeVars
  BY <1>2 DEF ForgeInv, forgeVars
<1>3. ASSUME NEW r \in Requesters, onlySyncing, NEW what, holds(r, what), Here(syncing[r])'
      PROVE  ForgeInv'
  <2>1. UNCHANGED <<forge, refs, base, syncRuns, collected, deletions, forgeEvents>>
        /\ syncing' = [syncing EXCEPT ![r] = what]
    BY <1>3 DEF onlySyncing, holds
  <2>2. syncing' = [s \in Requesters |-> syncing'[s]]
        /\ \A s \in Requesters \ {r} : syncing'[s] = syncing[s]
    BY <1>1, <2>1
  <2> QED
    BY <1>3, <2>1, <2>2 DEF ForgeInv
<1>4. ASSUME NEW r \in Requesters, CollectPage(r) PROVE ForgeInv'
  <2>1. Here(syncing[r])'
    BY <1>1, <1>4, PageIsCollected
  <2> QED
    BY <1>3, <1>4, <2>1 DEF CollectPage
<1>5. ASSUME NEW r \in Requesters, PassOver(r) PROVE ForgeInv'
  <2>1. Here(syncing[r])'
    BY <1>1, <1>5, FamilyIsPassedOver
  <2> QED
    BY <1>3, <1>5, <2>1 DEF PassOver
<1>6. ASSUME NEW r \in Requesters, RateLimited(r) PROVE ForgeInv'
  <2>1. Here(syncing[r])'
    BY <1>1, <1>6, PageIsRefused
  <2> QED
    BY <1>3, <1>6, <2>1 DEF RateLimited
<1>7. ASSUME NEW r \in Requesters, SyncFails(r) PROVE ForgeInv'
  <2>1. Here(syncing[r])'
    BY <1>1, <1>7 DEF SyncFails, holds, NoSync, RequestOK
  <2> QED
    BY <1>3, <1>7, <2>1 DEF SyncFails
<1>8. ASSUME NEW r \in Requesters, NEW key \in SyncKeys, Sync(r, key) PROVE ForgeInv'
  <2>1. ASSUME NEW cursor, NEW promise, SyncForge(r, cursor, promise, key),
               cursor.kind = "page" => Kept(cursor, promise, forge, deletions, collected)
        PROVE  ForgeInv'
    <3>1. Here(syncing[r])'
      BY <1>1, <2>1, RequestBegins
    <3> QED
      BY <1>3, <2>1, <3>1 DEF SyncForge
  <2>2. CASE SyncForge(r, Start, NoPromise, key)
    BY <2>1, <2>2 DEF Start
  <2>3. ASSUME NEW k \in DOMAIN syncRuns, SyncForge(r, syncRuns[k].next, syncRuns[k].promise, key)
        PROVE  ForgeInv'
    BY <2>1, <2>3 DEF ForgeInv, RunOK
  <2> QED
    BY <1>8, <2>2, <2>3 DEF Sync
<1>9. ASSUME NEW r \in Requesters, SaveForgeSync(r) PROVE ForgeInv'
  <2>1. /\ \A k \in DOMAIN syncRuns' : RunOK(syncRuns'[k], forge, deletions, collected')
        /\ UNCHANGED <<forge, deletions>> /\ collected \subseteq collected'
        /\ Here(syncing[r])'
    BY <1>9, RunIsKept
  <2>2. UNCHANGED <<refs, base, forgeEvents>> /\ syncing' = [syncing EXCEPT ![r] = NoSync]
    BY <1>9 DEF SaveForgeSync, holds
  <2>3. \A s \in Requesters : RequestOK(syncing[s], forge, deletions, collected')
    <3>1. ASSUME NEW S, collected \subseteq S
          PROVE  \A q : RequestOK(q, forge, deletions, collected) => RequestOK(q, forge, deletions, S)
      <4>1. deletions \in Nat /\ deletions <= deletions
        BY <1>1 DEF ForgeTypes
      <4> QED
        BY <3>1, <4>1, PromisesLast, Zenon
    <3>2. \A q : RequestOK(q, forge, deletions, collected) => RequestOK(q, forge, deletions, collected')
      BY <2>1, <3>1
    <3> QED
      BY <1>1, <3>2
  <2>4. syncing' = [s \in Requesters |-> syncing'[s]]
        /\ \A s \in Requesters \ {r} : syncing'[s] = syncing[s]
    BY <1>1, <2>2
  <2> QED
    BY <1>1, <2>1, <2>2, <2>3, <2>4 DEF ForgeInv, ForgeTypes
<1>10. CASE \/ MoveBase \/ SaveForgeProfile
            \/ \E f \in FamiliesOf : AddObject(f) \/ DeleteObject(f) \/ ChangeAccess(f)
  BY <1>10, ForgeChanges
<1> QED
  BY <1>2, <1>4, <1>5, <1>6, <1>7, <1>8, <1>9, <1>10 DEF ForgeNext

(* Nothing is collected at first.                                           *)
LEMMA ForgeInitially == ForgeInit => ForgeInv
<1> SUFFICES ASSUME ForgeInit PROVE ForgeInv
  OBVIOUS
<1>1. forge \in Seq(Seq(Objects)) /\ forge # <<>> /\ refs \in Nat
  BY ForgeAssumption DEF ForgeInit
<1>2. DOMAIN syncRuns = {} /\ \A r \in Requesters : syncing[r] = NoSync
  BY DEF ForgeInit
<1>3. \A r \in Requesters : RequestOK(syncing[r], forge, deletions, collected)
  BY <1>2 DEF RequestOK, NoSync
<1> QED
  BY <1>1, <1>2, <1>3 DEF ForgeInit, ForgeInv

(* Whatever else happens on the forge and in other requests, a complete run  *)
(* has stored what was there when its collection began (collectInventory,   *)
(* SyncForge and SaveForgeSync).                                            *)
THEOREM CollectedForAll == ForgeSpec => []CollectedIsComplete
<1>1. ForgeInv => CollectedIsComplete
  BY DEF ForgeInv, RunOK, CollectedIsComplete
<1> QED
  BY <1>1, ForgeInitially, ForgeStep, PTL DEF ForgeSpec

(* The types: an object is listed once, events bound what they change, and   *)
(* a request has room for what it still collects.                           *)
Identities ==
  \A f \in FamiliesOf :
    /\ IsInjective(forge[f])
    /\ \A i \in DOMAIN forge[f] : forge[f][i].number < forgeEvents \/ forge[f][i].number >= MaxForgeEvents

EventsBound ==
  /\ unavailable \subseteq FamiliesOf
  /\ base <= forgeEvents /\ forgeEvents <= MaxForgeEvents

fits(q) ==
  /\ q.step = "collecting" => q.fromMirror + Cardinality(q.got) + q.room <= Limit
  /\ q.step = "saving" => q.objects <= Limit

LimitsHold ==
  /\ DOMAIN syncRuns \subseteq SyncKeys
  /\ \A k \in DOMAIN syncRuns : syncRuns[k].objects <= Limit
  /\ \A r \in Requesters : fits(syncing[r])

-----------------------------------------------------------------------------
LEMMA AddedIsNew ==
  ASSUME NEW s \in Seq(Objects), NEW x \in Objects, IsInjective(s), \A i \in DOMAIN s : s[i] # x
  PROVE  /\ IsInjective(<<x>> \o s)
         /\ \A i \in DOMAIN (<<x>> \o s) : (<<x>> \o s)[i] = x \/ \E k \in DOMAIN s : (<<x>> \o s)[i] = s[k]
<1> DEFINE t == <<x>> \o s
<1>1. <<x>> \in Seq(Objects) /\ Len(<<x>>) = 1 /\ <<x>>[1] = x /\ Len(s) \in Nat /\ DOMAIN s = 1 .. Len(s)
  BY LenProperties
<1>2. t \in Seq(Objects) /\ Len(t) = 1 + Len(s) /\ DOMAIN t = 1 .. 1 + Len(s)
  BY <1>1, ConcatProperties, LenProperties
<1>3. t[1] = x /\ \A j \in DOMAIN t : j # 1 => j \in Int /\ j - 1 \in DOMAIN s /\ t[j] = s[j - 1]
  <2>1. t[1] = x
    BY <1>1, ConcatProperties
  <2>2. ASSUME NEW j \in DOMAIN t, j # 1
        PROVE  j \in Int /\ j - 1 \in DOMAIN s /\ t[j] = s[j - 1]
    <3> DEFINE n == Len(s)
    <3>1. n \in Nat /\ j \in 1 .. 1 + n /\ DOMAIN s = 1 .. n
      BY <1>1, <1>2, <2>2
    <3>2. t[j] = IF j <= 1 THEN <<x>>[j] ELSE s[j - 1]
      BY <1>1, <3>1, ConcatProperties
    <3> HIDE DEF n, t
    <3>3. j \in Int /\ j - 1 \in 1 .. n /\ ~(j <= 1)
      BY <2>2, <3>1
    <3> QED
      BY <3>1, <3>2, <3>3
  <2> QED
    BY <2>1, <2>2
<1> HIDE DEF t
<1>4. ASSUME NEW a \in DOMAIN t, NEW b \in DOMAIN t, t[a] = t[b] PROVE a = b
  <2>1. CASE a = 1 \/ b = 1
    BY <1>3, <1>4, <2>1
  <2>2. CASE a # 1 /\ b # 1
    <3>1. /\ a - 1 \in DOMAIN s /\ b - 1 \in DOMAIN s /\ a \in Int /\ b \in Int
          /\ s[a - 1] = s[b - 1]
      BY <1>3, <1>4, <2>2
    <3>2. a - 1 = b - 1
      BY <3>1 DEF IsInjective
    <3> QED
      BY <3>1, <3>2
  <2> QED
    BY <2>1, <2>2
<1>5. \A i \in DOMAIN t : t[i] = x \/ \E k \in DOMAIN s : t[i] = s[k]
  BY <1>3
<1> QED
  BY <1>4, <1>5 DEF IsInjective, t

LEMMA DeletedIsGone ==
  ASSUME NEW s \in Seq(Objects), IsInjective(s), NEW i \in DOMAIN s
  PROVE  LET t == SubSeq(s, 1, i - 1) \o SubSeq(s, i + 1, Len(s))
         IN  IsInjective(t) /\ \A j \in DOMAIN t : \E k \in DOMAIN s : t[j] = s[k]
<1> SUFFICES ASSUME NEW t, t = SubSeq(s, 1, i - 1) \o SubSeq(s, i + 1, Len(s))
             PROVE  IsInjective(t) /\ \A j \in DOMAIN t : \E k \in DOMAIN s : t[j] = s[k]
  OBVIOUS
<1> DEFINE a == SubSeq(s, 1, i - 1)
           b == SubSeq(s, i + 1, Len(s))
           n == Len(s)
<1>1. n \in Nat /\ DOMAIN s = 1 .. n /\ i \in 1 .. n /\ \A j \in 1 .. n : s[j] \in Objects
  BY LenProperties, ElementOfSeq
<1>2. a \in Seq(Objects) /\ Len(a) = i - 1 /\ \A j \in 1 .. i - 1 : a[j] = s[j]
  <2> DEFINE m == i - 1
  <2>1. m \in Nat /\ \A j \in 1 .. m : s[j] \in Objects
    BY <1>1
  <2>2. /\ SubSeq(s, 1, m) \in Seq(Objects)
        /\ Len(SubSeq(s, 1, m)) = IF 1 <= m THEN m - 1 + 1 ELSE 0
        /\ \A j \in 1 .. m - 1 + 1 : SubSeq(s, 1, m)[j] = s[1 + j - 1]
    <3> HIDE DEF m
    <3> QED
      BY <2>1, SubSeqProperties
  <2> QED
    BY <1>1, <2>1, <2>2
<1>3. b \in Seq(Objects) /\ Len(b) = n - i /\ \A j \in 1 .. n - i : b[j] = s[i + j]
  <2> DEFINE m == i + 1
  <2>1. m \in Nat /\ n \in Nat /\ \A j \in m .. n : s[j] \in Objects
    BY <1>1
  <2>2. /\ SubSeq(s, m, n) \in Seq(Objects)
        /\ Len(SubSeq(s, m, n)) = IF m <= n THEN n - m + 1 ELSE 0
        /\ \A j \in 1 .. n - m + 1 : SubSeq(s, m, n)[j] = s[m + j - 1]
    <3> HIDE DEF m, n
    <3> QED
      BY <2>1, SubSeqProperties
  <2> QED
    BY <1>1, <2>1, <2>2
<1> HIDE DEF a, b, n
<1> DEFINE c == i - 1
           m == n - i
<1>4. /\ t \in Seq(Objects) /\ Len(t) = n - 1 /\ DOMAIN t = 1 .. n - 1
      /\ \A j \in 1 .. n - 1 : t[j] = IF j <= c THEN a[j] ELSE b[j - c]
  <2>0. c \in Nat /\ m \in Nat /\ c + m = n - 1
    BY <1>1
  <2>1. t = a \o b
    BY DEF a, b, n
  <2>2. Len(a) = c /\ Len(b) = m
    BY <1>2, <1>3
  <2> HIDE DEF c, m
  <2>3. Len(t) = c + m /\ t \in Seq(Objects)
        /\ \A j \in 1 .. c + m : t[j] = IF j <= c THEN a[j] ELSE b[j - c]
    <3>1. /\ t \in Seq(Objects) /\ Len(t) = Len(a) + Len(b)
          /\ \A j \in 1 .. Len(a) + Len(b) : t[j] = IF j <= Len(a) THEN a[j] ELSE b[j - Len(a)]
      BY ONLY <1>2, <1>3, <2>1, ConcatProperties
    <3> QED
      BY ONLY <2>2, <3>1
  <2>4. DOMAIN t = 1 .. Len(t)
    BY <2>3, LenProperties
  <2> QED
    BY <2>0, <2>3, <2>4
<1> DEFINE at(l) == IF l <= c THEN l ELSE l + 1
<1>5. ASSUME NEW j \in 1 .. n - 1
      PROVE  at(j) \in DOMAIN s /\ t[j] = s[at(j)]
  <2>1. CASE j <= c
    BY <1>1, <1>2, <1>4, <2>1
  <2>2. CASE ~(j <= c)
    <3>0. at(j) = j + 1 /\ j \in Int
      BY <2>2
    <3>1. j - c \in 1 .. n - i /\ i + (j - c) = j + 1 /\ j + 1 \in 1 .. n
      <4>1. n \in Nat /\ i \in 1 .. n /\ j \in 1 .. n - 1 /\ ~(j <= i - 1)
        BY <1>1, <2>2
      <4> QED
        BY ONLY <4>1
    <3>2. t[j] = b[j - c]
      BY <1>4, <2>2
    <3>3. b[j - c] = s[i + (j - c)]
      BY <1>3, <3>1
    <3> QED
      BY <1>1, <3>0, <3>1, <3>2, <3>3
  <2> QED
    BY <2>1, <2>2
<1>6. ASSUME NEW j \in 1 .. n - 1, NEW k \in 1 .. n - 1, t[j] = t[k] PROVE j = k
  <2>1. at(j) \in DOMAIN s /\ at(k) \in DOMAIN s /\ s[at(j)] = s[at(k)]
    <3> HIDE DEF at
    <3> QED
      BY <1>5, <1>6
  <2>2. at(j) = at(k)
    <3> HIDE DEF at
    <3> QED
      BY <2>1 DEF IsInjective
  <2>3. c \in Int /\ n \in Int
    BY <1>1
  <2> QED
    <3> HIDE DEF c
    <3> QED
      BY <2>2, <2>3
<1>7. \A j \in 1 .. n - 1 : \E k \in DOMAIN s : t[j] = s[k]
  <2> HIDE DEF at
  <2> QED
    BY <1>5
<1> QED
  BY <1>4, <1>6, <1>7 DEF IsInjective

(* Whatever happens on the forge, an object is listed once.                 *)
LEMMA IdentitiesStay ==
  ASSUME ForgeInv, Identities, EventsBound, [ForgeNext]_forgeVars
  PROVE  Identities' /\ EventsBound'
<1>0. /\ forge \in Seq(Seq(Objects)) /\ forgeEvents \in Nat /\ base \in Nat /\ MaxForgeEvents \in Nat
      /\ DOMAIN forge = 1 .. Len(forge) /\ \A f \in DOMAIN forge : forge[f] \in Seq(Objects)
  BY ForgeAssumption, LenProperties, ElementOfSeq DEF ForgeInv
<1>1. ASSUME UNCHANGED <<forge, unavailable, base, forgeEvents>> PROVE Identities' /\ EventsBound'
  BY <1>1 DEF Identities, EventsBound, FamiliesOf
<1>2. ASSUME UNCHANGED forge, forgeEvent, unavailable' \subseteq FamiliesOf,
             base' = base \/ base' = base + 1
      PROVE  Identities' /\ EventsBound'
  <2>1. forgeEvents' = forgeEvents + 1 /\ forgeEvents < MaxForgeEvents
    BY <1>2 DEF forgeEvent
  <2>2. \A f \in FamiliesOf : \A i \in DOMAIN forge[f] : forge[f][i].number \in Nat
    <3> SUFFICES ASSUME NEW f \in FamiliesOf, NEW i \in DOMAIN forge[f] PROVE forge[f][i].number \in Nat
      OBVIOUS
    <3>1. forge[f] \in Seq(Objects)
      BY <1>0 DEF FamiliesOf
    <3>2. forge[f][i] \in Objects
      BY <3>1, LenProperties, ElementOfSeq
    <3> QED
      BY <3>2 DEF Objects
  <2>3. Identities'
    BY <1>0, <1>2, <2>1, <2>2 DEF Identities, FamiliesOf
  <2> QED
    BY <1>0, <1>2, <2>1, <2>3 DEF EventsBound, FamiliesOf
<1>3. ASSUME NEW f \in FamiliesOf, forgeEvent, UNCHANGED <<unavailable, base>>, NEW l \in Seq(Objects),
             forge' = [forge EXCEPT ![f] = l], IsInjective(l),
             \A i \in DOMAIN l :
               l[i].number = forgeEvents \/ \E k \in DOMAIN forge[f] : l[i] = forge[f][k]
      PROVE  Identities' /\ EventsBound'
  <2>1. forgeEvents' = forgeEvents + 1 /\ forgeEvents < MaxForgeEvents
    BY <1>3 DEF forgeEvent
  <2>2. DOMAIN forge' = DOMAIN forge /\ \A g \in DOMAIN forge : forge'[g] = IF g = f THEN l ELSE forge[g]
    BY <1>0, <1>3 DEF FamiliesOf
  <2>3. ASSUME NEW g \in FamiliesOf, NEW i \in DOMAIN forge[g]
        PROVE  forge[g][i].number < forgeEvents' \/ forge[g][i].number >= MaxForgeEvents
    <3>1. forge[g] \in Seq(Objects)
      BY <1>0 DEF FamiliesOf
    <3>2. forge[g][i].number \in Nat
      <4>1. forge[g][i] \in Objects
        BY <3>1, LenProperties, ElementOfSeq
      <4> QED
        BY <4>1 DEF Objects
    <3>3. forge[g][i].number < forgeEvents \/ forge[g][i].number >= MaxForgeEvents
      BY DEF Identities
    <3> QED
      BY <1>0, <2>1, <3>2, <3>3
  <2>4. ASSUME NEW i \in DOMAIN l
        PROVE  l[i].number < forgeEvents' \/ l[i].number >= MaxForgeEvents
    <3>1. CASE l[i].number = forgeEvents
      BY <1>0, <2>1, <3>1
    <3>2. ASSUME NEW k \in DOMAIN forge[f], l[i] = forge[f][k]
          PROVE  l[i].number < forgeEvents' \/ l[i].number >= MaxForgeEvents
      BY <2>3, <3>2
    <3> QED
      BY <1>3, <3>1, <3>2
  <2>5. Identities'
    BY <1>3, <2>2, <2>3, <2>4 DEF Identities, FamiliesOf
  <2> QED
    BY <1>0, <1>3, <2>1, <2>2, <2>5 DEF EventsBound, FamiliesOf
<1>4. ASSUME NEW f \in FamiliesOf, AddObject(f) PROVE Identities' /\ EventsBound'
  <2> DEFINE x == [family |-> f, number |-> forgeEvents]
  <2>1. x \in Objects /\ x.number = forgeEvents /\ forge[f] \in Seq(Objects)
    BY <1>0 DEF Objects, FamiliesOf
  <2>2. forgeEvent /\ UNCHANGED <<unavailable, base>> /\ forge' = [forge EXCEPT ![f] = <<x>> \o forge[f]]
    BY <1>4 DEF AddObject
  <2> HIDE DEF x
  <2>3. \A i \in DOMAIN forge[f] : forge[f][i] # x
    <3>1. forgeEvents < MaxForgeEvents
      BY <2>2 DEF forgeEvent
    <3>2. \A i \in DOMAIN forge[f] :
            forge[f][i].number < forgeEvents \/ forge[f][i].number >= MaxForgeEvents
      BY DEF Identities
    <3> SUFFICES ASSUME NEW i \in DOMAIN forge[f], forge[f][i].number = forgeEvents PROVE FALSE
      BY <2>1
    <3> QED
      BY <1>0, <3>1, <3>2
  <2> DEFINE l == <<x>> \o forge[f]
  <2>4. l \in Seq(Objects)
    <3>1. <<x>> \in Seq(Objects)
      BY <2>1
    <3> QED
      BY <2>1, <3>1, ConcatProperties
  <2>5. /\ IsInjective(l)
        /\ \A i \in DOMAIN l : l[i] = x \/ \E k \in DOMAIN forge[f] : l[i] = forge[f][k]
    BY <2>1, <2>3, AddedIsNew DEF Identities
  <2> HIDE DEF l
  <2>6. forge' = [forge EXCEPT ![f] = l]
    BY <2>2 DEF l
  <2>7. \A i \in DOMAIN l : l[i].number = forgeEvents \/ \E k \in DOMAIN forge[f] : l[i] = forge[f][k]
    BY <2>1, <2>5
  <2>8. forgeEvent /\ UNCHANGED <<unavailable, base>> /\ IsInjective(l)
    BY <2>2, <2>5
  <2> QED
    BY <1>3, <2>4, <2>6, <2>7, <2>8
<1>5. ASSUME NEW f \in FamiliesOf, DeleteObject(f) PROVE Identities' /\ EventsBound'
  <2>1. PICK i \in DOMAIN forge[f] :
          forge' = [forge EXCEPT ![f] = SubSeq(@, 1, i - 1) \o SubSeq(@, i + 1, Len(@))]
    BY <1>5 DEF DeleteObject
  <2> DEFINE s == forge[f]
             l == SubSeq(s, 1, i - 1) \o SubSeq(s, i + 1, Len(s))
  <2>2. forgeEvent /\ UNCHANGED <<unavailable, base>> /\ forge' = [forge EXCEPT ![f] = l]
    BY <1>5, <2>1 DEF DeleteObject
  <2>3. s \in Seq(Objects) /\ IsInjective(s)
    BY <1>0 DEF FamiliesOf, Identities
  <2>4. IsInjective(l) /\ \A j \in DOMAIN l : \E k \in DOMAIN s : l[j] = s[k]
    <3>1. i \in DOMAIN s
      OBVIOUS
    <3> HIDE DEF s
    <3> QED
      BY <2>3, <3>1, DeletedIsGone
  <2>5. l \in Seq(Objects)
    <3>1. Len(s) \in Nat /\ i \in 1 .. Len(s) /\ \A j \in 1 .. Len(s) : s[j] \in Objects
      BY <2>3, LenProperties, ElementOfSeq
    <3> HIDE DEF s
    <3>2. SubSeq(s, 1, i - 1) \in Seq(Objects)
      BY <3>1, SubSeqProperties
    <3>3. SubSeq(s, i + 1, Len(s)) \in Seq(Objects)
      BY <3>1, SubSeqProperties
    <3> QED
      BY <3>2, <3>3, ConcatProperties
  <2> HIDE DEF l
  <2> QED
    BY <1>3, <2>2, <2>4, <2>5
<1>6. CASE MoveBase \/ SaveForgeProfile \/ \E f \in FamiliesOf : ChangeAccess(f)
  <2>1. unavailable' \subseteq FamiliesOf
    BY <1>6 DEF MoveBase, SaveForgeProfile, ChangeAccess, EventsBound
  <2> QED
    BY <1>2, <1>6, <2>1 DEF MoveBase, SaveForgeProfile, ChangeAccess
<1>7. ASSUME NEW r \in Requesters,
             \/ CollectPage(r) \/ PassOver(r) \/ RateLimited(r) \/ SyncFails(r) \/ SaveForgeSync(r)
             \/ \E key \in SyncKeys : Sync(r, key)
      PROVE  Identities' /\ EventsBound'
  <2>1. UNCHANGED <<forge, unavailable, base, forgeEvents>>
    BY <1>7, ZenonT(60) DEF CollectPage, PassOver, RateLimited, SyncFails, SaveForgeSync, Sync, SyncForge, onlySyncing
  <2> QED
    BY <1>1, <2>1
<1>8. CASE UNCHANGED forgeVars
  BY <1>1, <1>8 DEF forgeVars
<1> QED
  BY <1>4, <1>5, <1>6, <1>7, <1>8 DEF ForgeNext

-----------------------------------------------------------------------------
(* A page holds no more than was asked for.                                 *)
LEMMA PageIsSmall ==
  ASSUME forge \in Seq(Seq(Objects)), NEW f \in DOMAIN forge, NEW p \in Positive, NEW size \in Positive
  PROVE  Cardinality(onPage(f, p, size)) <= size /\ Cardinality(onPage(f, p, size)) \in Nat
<1> DEFINE s == forge[f]
           k == p * size
           past == (p - 1) * size
           m == past + 1
           n == Min({k, Len(s)})
           t == SubSeq(s, m, n)
<1>1. s \in Seq(Objects) /\ Len(s) \in Nat
  BY LenProperties, ElementOfSeq
<1>2. past \in Nat /\ k = past + size /\ size \in Nat
  <2>1. \A a, b \in Nat : a * b \in Nat /\ (a + 1) * b = (a * b) + b
    OBVIOUS
  <2>2. p - 1 \in Nat /\ size \in Nat /\ (p - 1) + 1 = p
    BY DEF Positive
  <2> QED
    BY <2>1, <2>2
<1> HIDE DEF past, k
<1>3. n \in Int /\ n <= k /\ n <= Len(s)
  <2> HIDE DEF s
  <2>0. k \in Int /\ Len(s) \in Int
    BY <1>1, <1>2
  <2>1. n \in {k, Len(s)} /\ n <= k /\ n <= Len(s)
    BY <2>0, LeastOfTwo, Zenon
  <2> QED
    BY <1>1, <1>2, <2>1
<1> HIDE DEF n
<1>4. t \in Seq(Objects) /\ Len(t) <= size /\ Len(t) \in Nat
  <2>1. \A i \in m .. n : s[i] \in Objects
    BY <1>1, <1>2, <1>3, ElementOfSeq
  <2>2. m \in Int /\ 1 <= m /\ n - m + 1 <= size
    BY <1>2, <1>3
  <2> HIDE DEF m
  <2>3. t \in Seq(Objects) /\ Len(t) = IF m <= n THEN n - m + 1 ELSE 0
    BY <1>3, <2>1, <2>2, SubSeqProperties
  <2> QED
    BY <1>2, <1>3, <2>2, <2>3
<1>5. onPage(f, p, size) = Range(t)
  BY DEF onPage, past, k, n
<1> HIDE DEF t
<1>6. Cardinality(Range(t)) <= Len(t) /\ Cardinality(Range(t)) \in Nat
  <2>1. t \in Surjection(1 .. Len(t), Range(t)) /\ IsFiniteSet(1 .. Len(t)) /\ Cardinality(1 .. Len(t)) = Len(t)
    <3>1. t \in [1 .. Len(t) -> Range(t)]
      BY <1>4, LenProperties DEF Range
    <3>2. t \in Surjection(1 .. Len(t), Range(t))
      BY <1>4, <3>1, LenProperties DEF Surjection, Range
    <3>3. IsFiniteSet(1 .. Len(t)) /\ Cardinality(1 .. Len(t)) = IF 1 > Len(t) THEN 0 ELSE Len(t) - 1 + 1
      <4>1. 1 \in Int /\ Len(t) \in Int
        BY <1>4
      <4> QED
        BY ONLY <4>1, FS_Interval
    <3> QED
      BY <1>4, <3>2, <3>3
  <2>2. IsFiniteSet(Range(t)) /\ Cardinality(Range(t)) <= Cardinality(1 .. Len(t))
    BY <2>1, FS_Surjection
  <2> QED
    BY <2>1, <2>2, FS_CardinalityType
<1> QED
  BY <1>2, <1>4, <1>5, <1>6

LEMMA GotGrows ==
  ASSUME NEW a, NEW b, IsFiniteSet(a), IsFiniteSet(b), a \subseteq b
  PROVE  /\ Cardinality(b) = Cardinality(a) + Cardinality(b \ a)
         /\ Cardinality(a) \in Nat /\ Cardinality(b \ a) \in Nat
<1>1. IsFiniteSet(b \ a) /\ Cardinality(b \ a) = Cardinality(b) - Cardinality(b \cap a)
  BY FS_Difference
<1>2. b \cap a = a
  OBVIOUS
<1>3. Cardinality(a) \in Nat /\ Cardinality(b) \in Nat /\ Cardinality(b \ a) \in Nat
  BY <1>1, FS_CardinalityType
<1> QED
  BY <1>1, <1>2, <1>3

LEMMA GoOnFits ==
  ASSUME NEW q \in CollectingType(forge, deletions), fits(q), IsFiniteSet(q.got),
         NEW got \in SUBSET Objects, IsFiniteSet(got), q.got \subseteq got,
         Cardinality(got \ q.got) <= q.room, NEW next, NEW promise
  PROVE  fits(goOn(q, next, got, promise))
<1> DEFINE room == q.room - Cardinality(got \ q.got)
           on == [q EXCEPT !.family = @ + 1, !.page = 1, !.room = room, !.next = next,
                           !.got = got, !.promise = promise]
           done == pageOf(q, result(q, next, FALSE), got, promise)
<1>1. /\ Cardinality(got) = Cardinality(q.got) + Cardinality(got \ q.got)
      /\ Cardinality(q.got) \in Nat /\ Cardinality(got \ q.got) \in Nat
  BY GotGrows
<1>2. q.fromMirror \in Nat /\ q.room \in Nat /\ Limit \in Nat
      /\ q.fromMirror + Cardinality(q.got) + q.room <= Limit
  BY ForgeAssumption DEF CollectingType, fits
<1>3. q.fromMirror + Cardinality(got) + room <= Limit /\ Cardinality(got) + q.fromMirror <= Limit
  BY <1>1, <1>2
<1> HIDE DEF room
<1>4. on.step = "collecting" /\ on.fromMirror = q.fromMirror /\ on.got = got /\ on.room = room
  BY DEF CollectingType
<1>5. done.step = "saving" /\ done.objects = Cardinality(got) + q.fromMirror
  BY DEF pageOf
<1> HIDE DEF on, done
<1>6. fits(on) /\ fits(done)
  BY <1>3, <1>4, <1>5 DEF fits
<1> QED
  BY <1>6 DEF goOn, on, done, room

LEMMA CollectingFits ==
  ASSUME ForgeInv, NEW r \in Requesters, fits(syncing[r]),
         CollectPage(r) \/ PassOver(r) \/ RateLimited(r)
  PROVE  fits(syncing'[r])
<1> DEFINE q == syncing[r]
<1>0. ForgeTypes
  BY DEF ForgeInv, ForgeTypes
<1>1. q.step = "collecting" /\ syncing = [s \in Requesters |-> syncing[s]]
  BY DEF CollectPage, PassOver, RateLimited, ForgeInv
<1>2. /\ q \in CollectingType(forge, deletions) /\ IsFiniteSet(q.got) /\ q.got \in SUBSET Objects
      /\ q.family \in DOMAIN forge /\ q.page \in Positive /\ q.room \in Nat \ {0} /\ q.fromMirror \in Nat
  BY <1>1 DEF ForgeInv, RequestOK, CollectingOK, CollectingType
<1>3. Cardinality(q.got) \in Nat /\ Limit \in Nat /\ PageCap \in Nat
      /\ q.fromMirror + Cardinality(q.got) + q.room <= Limit
  BY <1>1, <1>2, FS_CardinalityType, ForgeAssumption DEF fits
<1>4. ASSUME NEW next, NEW promise PROVE fits(pageOf(q, next, q.got, promise))
  BY <1>2, <1>3 DEF fits, pageOf
<1>5. CASE RateLimited(r)
  <2>1. syncing'[r] = pageOf(q, result(q, limitedAt(q), TRUE), q.got, q.promise)
    BY <1>1, <1>5 DEF RateLimited, holds
  <2> QED
    BY <1>4, <2>1
<1>6. CASE PassOver(r)
  <2> DEFINE promise == [q.promise EXCEPT !.since = @ \ Range(forge[q.family])]
  <2>1. syncing'[r] = goOn(q, q.next, q.got, promise)
    BY <1>1, <1>6 DEF PassOver, holds
  <2>2. q.got \ q.got = {} /\ Cardinality({}) = 0
    BY FS_EmptySet
  <2>3. Cardinality(q.got \ q.got) <= q.room
    BY <1>2, <2>2
  <2> HIDE DEF promise, q
  <2>4. fits(goOn(q, q.next, q.got, promise))
    BY <1>2, <2>3, GoOnFits DEF q
  <2> QED
    BY <2>1, <2>4
<1>7. CASE CollectPage(r)
  <2> DEFINE size == sizeOf(q)
             page == onPage(q.family, q.page, size)
             got == q.got \union page
  <2>1. size \in Positive /\ size <= q.room
    <3>1. q.room \in Int /\ PageCap \in Int
      BY <1>2, <1>3
    <3>2. Min({q.room, PageCap}) \in {q.room, PageCap} /\ Min({q.room, PageCap}) <= q.room
      BY <3>1, LeastOfTwo, Zenon
    <3> QED
      BY <1>0, <1>2, <3>2, Numbers DEF sizeOf, Positive
  <2> HIDE DEF size
  <2>2. /\ page \subseteq Objects /\ IsFiniteSet(page)
        /\ Cardinality(page) <= size /\ Cardinality(page) \in Nat
    BY <1>0, <1>2, <2>1, PageOfObjects, PageIsSmall DEF ForgeTypes
  <2> HIDE DEF page
  <2>3. got \in SUBSET Objects /\ IsFiniteSet(got) /\ q.got \subseteq got
    BY <1>2, <2>2, FS_Union
  <2>4. Cardinality(got \ q.got) <= q.room
    <3>1. got \ q.got \subseteq page
      OBVIOUS
    <3>2. Cardinality(got \ q.got) <= Cardinality(page) /\ IsFiniteSet(got \ q.got)
      BY <2>2, <3>1, FS_Subset
    <3>3. Cardinality(got \ q.got) \in Nat
      BY <3>2, FS_CardinalityType
    <3> QED
      BY <1>2, <2>1, <2>2, <3>2, <3>3 DEF Positive
  <2>5. \/ \E next, promise : syncing'[r] = pageOf(q, next, got, promise)
        \/ \E next, promise : syncing'[r] = goOn(q, next, got, promise)
    BY <1>1, <1>7, Zenon DEF CollectPage, holds, size, page
  <2> HIDE DEF got, q
  <2>6. ASSUME NEW next, NEW promise PROVE fits(goOn(q, next, got, promise))
    BY <1>2, <2>3, <2>4, GoOnFits DEF q
  <2>7. ASSUME NEW next, NEW promise PROVE fits(pageOf(q, next, got, promise))
    <3>1. /\ Cardinality(got) = Cardinality(q.got) + Cardinality(got \ q.got)
          /\ Cardinality(q.got) \in Nat /\ Cardinality(got \ q.got) \in Nat
      BY <1>2, <2>3, GotGrows
    <3>2. Cardinality(got) + q.fromMirror <= Limit
      BY <1>2, <1>3, <2>4, <3>1
    <3> QED
      BY <3>2 DEF fits, pageOf
  <2> QED
    BY <2>5, <2>6, <2>7
<1> QED
  BY <1>5, <1>6, <1>7

LEMMA BeginningFits ==
  ASSUME ForgeInv, NEW r \in Requesters, NEW cursor, NEW promise, NEW key, SyncForge(r, cursor, promise, key)
  PROVE  fits(syncing'[r])
<1> DEFINE goesOn == resuming(cursor)
           mirrored == IF goesOn THEN 0 ELSE fromMirror
           room == Limit - mirrored
           family == IF goesOn THEN cursor.family ELSE 1
           page == IF goesOn THEN cursor.page ELSE 1
           next == IF goesOn THEN <<cursor.family, cursor.page>> ELSE <<1, 1>>
           promised == IF goesOn THEN promise
                       ELSE [since |-> There, deletions |-> deletions, void |-> FALSE]
           q == [step |-> "collecting", key |-> key, base |-> base, fromMirror |-> mirrored,
                 room |-> room, family |-> family, page |-> page, next |-> next,
                 got |-> {}, promise |-> promised]
           still == pageOf([q EXCEPT !.fromMirror = 0], cursor, {}, NoPromise)
           full == pageOf(q, AtPage(base, q.next[1], q.next[2]), {}, q.promise)
<1>1. mirrored \in 0 .. Limit /\ Limit \in Nat
  <2>1. 1 + refs \in Nat /\ Limit \in Nat
    BY ForgeAssumption DEF ForgeInv
  <2>2. Min({1 + refs, Limit}) \in {1 + refs, Limit} /\ Min({1 + refs, Limit}) <= Limit
    <3>1. 1 + refs \in Int /\ Limit \in Int
      BY <2>1
    <3> QED
      BY <3>1, LeastOfTwo, Zenon
  <2> QED
    BY <2>1, <2>2 DEF fromMirror
<1>2. syncing'[r] \in {still, full, q}
  <2> DEFINE what == IF cursor = AtBase(base) THEN still ELSE IF q.room < 1 THEN full ELSE q
  <2>1. syncing' = [syncing EXCEPT ![r] = what]
    BY Zenon DEF SyncForge, holds
  <2>2. what \in {still, full, q}
    OBVIOUS
  <2>3. syncing = [s \in Requesters |-> syncing[s]]
    BY DEF ForgeInv
  <2> HIDE DEF what, still, full, q
  <2> QED
    BY <2>1, <2>2, <2>3
<1> HIDE DEF mirrored, family, page, next, promised
<1>3. Cardinality({}) = 0
  BY FS_EmptySet
<1>4. still.step = "saving" /\ still.objects = 0
  BY <1>3 DEF pageOf
<1>5. full.step = "saving" /\ full.objects = mirrored
  BY <1>1, <1>3 DEF pageOf
<1>6. q.step = "collecting" /\ q.fromMirror + Cardinality(q.got) + q.room = Limit
  BY <1>1, <1>3
<1> HIDE DEF still, full, q
<1>7. fits(still) /\ fits(full) /\ fits(q)
  BY <1>1, <1>4, <1>5, <1>6 DEF fits
<1> QED
  BY <1>2, <1>7

LEMMA LimitsKeep ==
  ASSUME ForgeInv, LimitsHold, [ForgeNext]_forgeVars
  PROVE  LimitsHold'
<1>0. syncing = [s \in Requesters |-> syncing[s]] /\ Limit \in Nat
  BY ForgeAssumption DEF ForgeInv
<1>1. ASSUME NEW r \in Requesters, onlySyncing, NEW what, holds(r, what), fits(syncing'[r])
      PROVE  LimitsHold'
  <2>1. UNCHANGED syncRuns /\ \A s \in Requesters \ {r} : syncing'[s] = syncing[s]
    BY <1>0, <1>1 DEF onlySyncing, holds
  <2> QED
    BY <1>1, <2>1 DEF LimitsHold
<1>2. ASSUME NEW r \in Requesters, CollectPage(r) PROVE LimitsHold'
  <2>1. fits(syncing'[r])
    BY <1>2, CollectingFits DEF LimitsHold
  <2> QED
    BY <1>1, <1>2, <2>1 DEF CollectPage
<1>3. ASSUME NEW r \in Requesters, PassOver(r) PROVE LimitsHold'
  <2>1. fits(syncing'[r])
    BY <1>3, CollectingFits DEF LimitsHold
  <2> QED
    BY <1>1, <1>3, <2>1 DEF PassOver
<1>4. ASSUME NEW r \in Requesters, RateLimited(r) PROVE LimitsHold'
  <2>1. fits(syncing'[r])
    BY <1>4, CollectingFits DEF LimitsHold
  <2> QED
    BY <1>1, <1>4, <2>1 DEF RateLimited
<1>5. ASSUME NEW r \in Requesters, SyncFails(r) PROVE LimitsHold'
  <2>1. fits(syncing'[r])
    BY <1>0, <1>5 DEF SyncFails, holds, NoSync, fits
  <2> QED
    BY <1>1, <1>5, <2>1 DEF SyncFails
<1>6. ASSUME NEW r \in Requesters, NEW key \in SyncKeys, Sync(r, key) PROVE LimitsHold'
  <2>1. ASSUME NEW cursor, NEW promise, SyncForge(r, cursor, promise, key) PROVE LimitsHold'
    <3>1. fits(syncing'[r])
      BY <2>1, BeginningFits
    <3> QED
      BY <1>1, <2>1, <3>1 DEF SyncForge
  <2> QED
    BY <1>6, <2>1 DEF Sync
<1>7. ASSUME NEW r \in Requesters, SaveForgeSync(r) PROVE LimitsHold'
  <2> DEFINE q == syncing[r]
             run == [next |-> q.next, objects |-> q.objects, partial |-> q.next.kind = "page",
                     promise |-> [q.promise EXCEPT !.void = @ \/ q.promise.deletions # deletions]]
  <2>1. q.key \in SyncKeys /\ q.objects <= Limit
    BY <1>7 DEF SaveForgeSync, ForgeInv, RequestOK, LimitsHold, fits
  <2>2. /\ syncing'[r] = NoSync /\ \A s \in Requesters \ {r} : syncing'[s] = syncing[s]
        /\ \/ UNCHANGED syncRuns
           \/ syncRuns' = [k \in DOMAIN syncRuns \union {q.key} |-> IF k = q.key THEN run ELSE syncRuns[k]]
    BY <1>0, <1>7 DEF SaveForgeSync, holds
  <2>3. run.objects <= Limit
    BY <2>1
  <2> HIDE DEF run, q
  <2>4. fits(NoSync)
    BY DEF NoSync, fits
  <2> QED
    BY <2>1, <2>2, <2>3, <2>4 DEF LimitsHold
<1>8. CASE \/ MoveBase \/ SaveForgeProfile \/ UNCHANGED forgeVars
           \/ \E f \in FamiliesOf : AddObject(f) \/ DeleteObject(f) \/ ChangeAccess(f)
  <2>1. UNCHANGED <<syncRuns, syncing>>
    BY <1>8 DEF MoveBase, SaveForgeProfile, AddObject, DeleteObject, ChangeAccess, forgeVars
  <2> QED
    BY <2>1 DEF LimitsHold, fits
<1> QED
  BY <1>2, <1>3, <1>4, <1>5, <1>6, <1>7, <1>8 DEF ForgeNext

(* Runs and requests keep to their limits and types, and an object is listed *)
(* once.                                                                    *)
THEOREM ForgeTypesForAll == ForgeSpec => []ForgeTypeOK
<1> DEFINE Inv == ForgeInv /\ Identities /\ EventsBound /\ LimitsHold
<1>1. ForgeInit => Inv
  <2> SUFFICES ASSUME ForgeInit PROVE Inv
    OBVIOUS
  <2>1. Identities /\ EventsBound
    BY ForgeAssumption DEF ForgeInit, Identities, EventsBound, FamiliesOf
  <2>2. LimitsHold
    BY DEF ForgeInit, LimitsHold, NoSync, fits
  <2> QED
    BY <2>1, <2>2, ForgeInitially
<1>2. Inv /\ [ForgeNext]_forgeVars => Inv'
  <2> SUFFICES ASSUME Inv, [ForgeNext]_forgeVars PROVE Inv'
    OBVIOUS
  <2> QED
    BY ForgeStep, IdentitiesStay, LimitsKeep
<1>3. Inv => ForgeTypeOK
  <2> SUFFICES ASSUME Inv PROVE ForgeTypeOK
    OBVIOUS
  <2>1. base \in 0 .. MaxForgeEvents
    BY ForgeAssumption DEF ForgeInv, EventsBound
  <2>2. ASSUME NEW r \in Requesters, syncing[r].step = "collecting"
        PROVE  syncing[r].room \in 1 .. Limit /\ syncing[r].family \in FamiliesOf
    <3> DEFINE q == syncing[r]
    <3>1. q \in CollectingType(forge, deletions) /\ IsFiniteSet(q.got)
          /\ q.fromMirror + Cardinality(q.got) + q.room <= Limit
      BY <2>2 DEF ForgeInv, RequestOK, CollectingOK, LimitsHold, fits
    <3>2. q.room \in Nat \ {0} /\ q.fromMirror \in Nat /\ Cardinality(q.got) \in Nat /\ Limit \in Nat
          /\ q.family \in FamiliesOf
      BY <3>1, FS_CardinalityType, ForgeAssumption DEF CollectingType, FamiliesOf
    <3> HIDE DEF q
    <3>3. q.room \in 1 .. Limit
      BY <3>1, <3>2
    <3> QED
      BY <3>2, <3>3 DEF q
  <2> QED
    BY <2>1, <2>2 DEF ForgeInv, RunOK, RequestOK, Identities, EventsBound, LimitsHold, ForgeTypeOK
<1> QED
  BY <1>1, <1>2, <1>3, PTL DEF ForgeSpec

=============================================================================
