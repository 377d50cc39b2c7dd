SPECIFICATION Spec
CONSTANTS
  NumLanes = 3
  HalfOutputs = 1
  Configs <- MCConfigs
  Failures <- MCFailures
  Applied <- MCApplied
  Unknown = Unknown
INVARIANT SuccessMeansWritten
