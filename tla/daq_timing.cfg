SPECIFICATION FairSpec
CONSTANTS
  HalfBuffer = 3
  MaxSamples = 10
  IsrLatency = 0
INVARIANTS
  StreamsInOrder
  LossIsBounded
  RemainderCompletesRun
  NoHalfForgotten
PROPERTY
  RunIsReported
