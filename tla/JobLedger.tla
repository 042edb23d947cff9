------------------------------ MODULE JobLedger ------------------------------
(***************************************************************************)
(* What the durable job row promises to everyone who reads it, whoever     *)
(* writes it and in whatever order: it moves along the edges of the state  *)
(* machine, one version at a time; a version is charged at most once, only *)
(* while it is current and only for a phase that calls a model; the charge *)
(* never exceeds the budget; the review cycle never goes back.             *)
(***************************************************************************)
EXTENDS JobStates, Naturals

CONSTANTS
  MaxTokens,      \* the budget of the job, in reservations
  ModelPhases     \* the states that are charged

VARIABLES
  state, version,
  charged,        \* the versions that were charged
  reserved,       \* the amount charged, in reservations
  cycle           \* completed repairs

ledgerVars == <<state, version, charged, reserved, cycle>>

LedgerInit ==
  /\ state = "queued"
  /\ version = 1
  /\ charged = {}
  /\ reserved = 0
  /\ cycle = 0

Move ==
  /\ \E to \in State : CanTransition(state, to) /\ state' = to
  /\ version' = version + 1
  /\ cycle' \in {cycle, cycle + 1}
  /\ cycle' # cycle => state = "repairing"
  /\ UNCHANGED <<charged, reserved>>

Charge ==
  /\ state \in ModelPhases
  /\ version \notin charged
  /\ reserved < MaxTokens
  /\ charged' = charged \union {version}
  /\ reserved' = reserved + 1
  /\ UNCHANGED <<state, version, cycle>>

LedgerNext == Move \/ Charge

LedgerSpec == LedgerInit /\ [][LedgerNext]_ledgerVars

=============================================================================
