CONSTANTS
  Advanced = {rego}
  BuiltIn = builtin
  Administrators = {admin}
  MaxReviewCycles = 2
  RemoteModels = FALSE
  Proposals = {p1}
  Rehearsals = {r1, r2}
  UpdateRequests = {r1}
  MaxReports = 2
  People = {h1, h2}
  MaxFaults = 1
SPECIFICATION GatesSpec
INVARIANTS
  BundlesTested
  
PROPERTIES
  ProposalsDisposed
SYMMETRY Symmetry
CHECK_DEADLOCK FALSE
