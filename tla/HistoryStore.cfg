SPECIFICATION Spec
CONSTANTS
  Series = {"cpu", "gpu"}
  Allowed = {"cpu"}
  FlushInterval = 2
  RetentionDays = 1
  Day = 4
  DurationSpan = 1024
  KeySpan = 1024
  Ranges = {0, 1, 4}
  MaxRange = 1
  MaxPoints = 2
  Start = 1
  Horizon = 9
  MaxIngests = 4
  MaxCrashes = 1
  MaxStepsBack = 1
INVARIANTS TypeOK EverySampleAccountedFor
PROPERTIES PointsStand RetentionIsExact
CHECK_DEADLOCK FALSE
