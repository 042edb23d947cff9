SPECIFICATION CandidatesSpec
CONSTANTS
  Engines = {e1}
  Findings = {1, 2}
  Blocking = {1, 2}
  Late = {2}
  MaxReviewCycles = 2
  RemoteModels = TRUE
  MaxTroubles = 1
  MaxUpstream = 2
CHECK_DEADLOCK FALSE
INVARIANTS CandidateWasVerified PublishedWasApproved FixesVerified
PROPERTIES CyclesHaveCandidates PublicationPromise
