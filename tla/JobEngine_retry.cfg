SPECIFICATION Spec
CONSTANTS
  Engines = {e1}
  MaxTokens = 3
  MaxAttempts = 1
  MaxFaults = 1
  MaxUpstream = 1
  MaxReviewCycles = 2
  RemoteModels = FALSE
CHECK_DEADLOCK FALSE
INVARIANTS TaskApprovalPossible
