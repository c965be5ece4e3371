SPECIFICATION Spec
CONSTANTS
  Series = {"cpu", "gpu"}
  Allowed = {"cpu"}
  FlushInterval = 2
  RetentionDays = 1
  Day = 4
  DurationSpan = 1024
  KeySpan = 1024
  Ranges = {0, 1, 4}
  MaxRange = 4
  MaxPoints = 2
  Start = 1
  Horizon = 9
  MaxIngests = 4
  MaxCrashes = 0
  MaxStepsBack = 0
INVARIANT AnswersAreComplete
CHECK_DEADLOCK FALSE
