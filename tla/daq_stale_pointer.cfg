SPECIFICATION FairSpec
CONSTANTS
  HalfBuffer = 2
  MaxSamples = 7
  IsrLatency = 0
INVARIANT
  FirstHalfIsInTheCount
