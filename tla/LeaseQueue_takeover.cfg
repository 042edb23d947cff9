SPECIFICATION ServingSpec
CONSTANTS
  QuarterHour = 1
  Hour = 4
  Jobs = {1}
  Workers = {w1, w2}
  OwnerID = "controller-workflow"
  NoOwner = NoOwner
  NoWorker = NoWorker
  Project <- EachJobItsOwn
  LeaseTTL = 2
  CandidateLimit = 128
  MaxWallTime = 1
  Visited = {"implementing"}
  MaxCancels = 0
  MaxCrashes = 0
  MaxLapses = 1
  MaxTroubles = 1
CHECK_DEADLOCK FALSE
PROPERTIES TakeoverEndsExecution
