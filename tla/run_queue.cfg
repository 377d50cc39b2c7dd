SPECIFICATION FairSpec
CONSTANTS
  RunConfigs <- SomeRunConfigs
  MaxRuns = 3
INVARIANTS
  ManualModeHolds
  NoUnattendedOP
  DoneHasOperated
PROPERTIES
  ImplementsService
  RunReturns
  QueueDrains
