SPECIFICATION AdministeredSpec
CONSTANTS
  Subjects = {"settings", "sessions", "packs", "contracts", "backups", "forges"}
  Projects = {p1}
  Drafts = {v1, v2}
  Admins = {v1, v2}
  Unset = Unset
  Edits <- SomeEdits
  MaxRevisions = 3
  MaxVersion = 2
  MaxSnapshots = 1
  Names = {v1, v2}
  Roles = {"administrator", "operator"}
  Clients = {v1, v2}
  SessionTTL = 2
  ReauthTTL = 1
  Window = 1
  FailureLimit = 2
  MaxClock = 2
  MaxSessions = 2
  MaxActs = 5
  Declared <- SomeDeclared
  Releases <- SomeReleases
  Documents <- SomeDocuments
  PackUsers = {v1, v2}
  MaxHistory = 3
  MaxProposals = 2
  MaxConfigures = 3
  TaskJobs = {j1}
  Contributors = {w1, w2}
  Reviewers = {w1}
  Criteria = {crit}
  TaskSignals <- RiskyTask
  Wordings <- SomeWordings
  MaxEdits = 2
  MaxWaivers = 1
  MaxFailures = 1
  Artifacts = {d1, d2}
  Large = {d2}
  MaxArchives = 2
  MaxMishaps = 1
  Inventories <- SomeInventories
  RefCounts = {0}
  Limit = 3
  PageCap = 2
  Requesters = {v1, v2}
  SyncKeys = {v1, v2}
  MaxForgeEvents = 1
SYMMETRY Symmetry
CHECK_DEADLOCK FALSE
INVARIANTS
  SystemScopeConsistent
  RevisionsAreTrue
  SomebodyAdministers
  ConfigurationFits
  ApprovedIsImplemented
  BackupHoldsItsRecords
  IndexedIsStored
  CollectedIsComplete
