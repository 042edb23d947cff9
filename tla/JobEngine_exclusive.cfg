SPECIFICATION FairSpec
CONSTANTS
  Engines = {e1}
  MaxTokens = 3
  MaxAttempts = 1
  MaxFaults = 1
  MaxUpstream = 2
  MaxReviewCycles = 2
  RemoteModels = TRUE
CHECK_DEADLOCK FALSE
INVARIANTS BudgetExact
PROPERTIES ModelPhasesCharged GatesNeedPerson CommitsOwnAttempt LedgerPromise JobsSettle
