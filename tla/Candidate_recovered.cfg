SPECIFICATION Spec
CONSTANTS
  Engines = {e1}
  Findings = {1}
  Blocking = {1}
  Late = {1}
  MaxReviewCycles = 2
  RemoteModels = FALSE
  MaxTroubles = 0
  MaxUpstream = 1
CHECK_DEADLOCK FALSE
PROPERTY FixedMeansRepaired
