SPECIFICATION ProgressingSpec
CONSTANTS
  Subjects = {"memory", "pulls", "schedules", "runs"}
  Records = {r1}
  Cases = {r1}
  MaxChanges = 3
  MaxFaults = 1
  MaxCloses = 1
  MaxRebuilds = 1
  JobCount = 3
  PageLimit = 2
  Failable = {2}
  MaxUpsets = 1
  Schedules = {"s1", "s2"}
  Owners = {"p1", "p2"}
  Order <- SomeOrder
  Plans <- SomePlans
  Editors = {a1}
  Skills = {k1}
  Day = 4
  MaxMinute = 3
  MaxEdits = 1
  Packets = {x1, x2}
  NoPacket = NoPacket
  MaxVersion = 4
  MaxRunFaults = 2
CHECK_DEADLOCK FALSE
INVARIANTS
  IndexIsTrueOrOwed
  OccurrencesRunOnce
  AnswersThePacket
PROPERTIES
  ForgottenLeavesIndex
  ClosedPullsReconciled
  DueIsDispatched
  WaitingEnds
