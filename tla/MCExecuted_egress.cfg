SPECIFICATION ExecutedSpec
CONSTANTS
  Subjects = {"routes"}
  Operators = {o1}
  Needed = {c1}
  Capabilities = {"structured"}
  Start <- SomeStart
  Changes <- SomeChanges
  MaxUpdates = 2
  MaxCalls = 2
  Savers = {a1, a2}
  Callers = {u1, u2}
  RunKeys = {k1, k2}
  Settings <- SomeSettings
  Registered <- OwnSettings
  WorkerJobs <- SomeJobs
  MaxSaves = 2
  MaxRuns = 2
  Models <- SomeModels
  RoleOf <- TheirRoles
  FamilyOf <- TheirFamilies
  Patients = {j1}
  Administrators = {adm}
  MaxAttempts = 2
  MaxCycles = 1
  MaxMishaps = 1
  Indexers = {i1, i2}
  Snapshots <- SomeSnapshots
  Bare = {}
  Retentions = {1}
  Quotas = {1}
  MaxDay = 2
  MaxIndexes = 2
  MaxIndexRebuilds = 1
  Works = {g1, g2}
  Admins = {adm}
  Base <- SomeBase
  Patches = {x1}
  Purposes <- SomePurposes
  MaxTries = 1
  MaxCorrections = 2
  QuarterHour = 1
  Hour = 4
  Projects = {p1, p2}
  Profiles = {"implementation_inference", "verification_offline"}
  Priorities = {100, 500}
  Lefts = {1, 4}
  MaxQueued = 3
  MaxActive = 2
  Jobs = {1, 2, 3, 4}
  Workers = {w1, w2, w3}
  OwnerID = "controller-workflow"
  NoOwner = NoOwner
  NoWorker = NoWorker
  Project <- SecondJobShares
  LeaseTTL = 2
  CandidateLimit = 128
  MaxWallTime = 1
  Visited = {"implementing"}
  MaxCancels = 1
  MaxCrashes = 1
  MaxLapses = 1
  MaxTroubles = 1
CHECK_DEADLOCK FALSE
INVARIANTS ExecutedWasApproved
