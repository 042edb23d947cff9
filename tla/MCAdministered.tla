---------------------------- MODULE MCAdministered ----------------------------
(***************************************************************************)
(* The instances of what people administer and decide: settings, sessions,  *)
(* capability packs, task contracts, backups, and the inventory of a forge. *)
(* They share no state, so a behaviour is about one of them, chosen at the  *)
(* start, and the others keep their initial state.                         *)
(***************************************************************************)
EXTENDS ConfigRegistry, Sessions, CapabilityPacks, TaskContracts, Backups, ForgeSync, TLC

CONSTANTS Subjects      \* the components this instance looks at

VARIABLE subject

except(s) ==
  /\ UNCHANGED subject
  /\ s # "settings"  => UNCHANGED configVars
  /\ s # "sessions"  => UNCHANGED sessionsVars
  /\ s # "packs"     => UNCHANGED packsVars
  /\ s # "contracts" => UNCHANGED contractsVars
  /\ s # "backups"   => UNCHANGED backupsVars
  /\ s # "forges"    => UNCHANGED forgeVars

AdministeredInit ==
  /\ subject \in Subjects
  /\ ConfigInit /\ SessionsInit /\ PacksInit /\ ContractsInit /\ BackupsInit /\ ForgeInit
  /\ subject # "forges" =>
       forge = (CHOOSE f \in Inventories : TRUE) /\ refs = (CHOOSE n \in RefCounts : TRUE)

AdministeredNext ==
  \/ subject = "settings"  /\ ConfigNext    /\ except("settings")
  \/ subject = "sessions"  /\ SessionsNext  /\ except("sessions")
  \/ subject = "packs"     /\ PacksNext     /\ except("packs")
  \/ subject = "contracts" /\ ContractsNext /\ except("contracts")
  \/ subject = "backups"   /\ BackupsNext   /\ except("backups")
  \/ subject = "forges"    /\ ForgeNext     /\ except("forges")

administeredVars ==
  <<subject, configVars, sessionsVars, packsVars, contractsVars, backupsVars, forgeVars>>

AdministeredSpec == AdministeredInit /\ [][AdministeredNext]_administeredVars

-----------------------------------------------------------------------------
(* Values of the constants *)

SomeEdits == {[waiver |-> FALSE], [rationale |-> FALSE],
              [waiver |-> Unset, rationale |-> TRUE]}

(* Two versions of a pack, the second with one more field, and the catalogs *)
(* of two releases of the controller: the second has dropped the first.     *)
SomeDeclared == << {"a"}, {"a", "b"} >>
SomeReleases == << {1, 2}, {2} >>
SomeDocuments == { {"a"} }

RiskyTask == [j \in TaskJobs |-> {"auth_secrets_crypto_network"}]
SomeWordings == { {}, {"auth_secrets_crypto_network", "ambiguity"} }

(* Two families of objects: more than a page of the first, and one of the   *)
(* second, for which the first leaves no room.                             *)
Issue(n) == [family |-> 1, number |-> 10 + n]
Pull(n) == [family |-> 2, number |-> 10 + n]
SomeInventories ==
  { << <<Issue(1), Issue(2), Issue(3)>>, <<Pull(1)>> >> }

(* The people, drafts and keys of all components share two model values, so *)
(* that one permutation serves them all.                                   *)
Symmetry == Permutations(Admins)

=============================================================================
