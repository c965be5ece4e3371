SPECIFICATION Spec
CONSTANTS
  AnyDevice = AnyDevice
  Rules <- MCOneRule
  Devices = {"cpu"}
  Metrics = {"temp", "load"}
  Labels = {"some", "full"}
  Tiers <- MCTiers
  TierOf <- MCTierOf
  Values = {1, 2}
  Times = {1}
  MaxBatch = 2
  MaxSteps = 5
  MaxRuns = 1
INVARIANT SeriesBreachRaisesAlert
CHECK_DEADLOCK FALSE
