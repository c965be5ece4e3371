SPECIFICATION Spec
CONSTANTS
  AnyDevice = AnyDevice
  Rules <- MCOneRule
  Devices = {"sda", "sdb"}
  Metrics = {"temp", "load"}
  Labels = {"none"}
  Tiers <- MCTiers
  TierOf <- MCTierOf
  Values = {1, 2}
  Times = {1, 2}
  MaxBatch = 2
  MaxSteps = 5
  MaxRuns = 2
INVARIANT UniqueIdsAcrossRestarts
CHECK_DEADLOCK FALSE
