SPECIFICATION ServingSpec
CONSTANTS
  QuarterHour = 1
  Hour = 4
  Jobs = {1, 2}
  Workers = {w1}
  OwnerID = "controller-workflow"
  NoOwner = NoOwner
  NoWorker = NoWorker
  Project <- EachJobItsOwn
  LeaseTTL = 2
  CandidateLimit = 128
  MaxWallTime = 1
  Visited = {"implementing"}
  MaxCancels = 0
  MaxCrashes = 0
  MaxLapses = 0
  MaxTroubles = 2
CHECK_DEADLOCK FALSE
PROPERTIES ExpiredJobsFail
