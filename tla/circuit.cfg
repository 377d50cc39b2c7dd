SPECIFICATION MCSpec
CONSTANTS
  HalfInputs = 2
  HalfOutputs = 1
  ScaledInputs = {0}
  Lanes <- MCLanes
  UInputs <- MCInputs
  IOutputs <- MCOutputs
  Coefficients <- MCCoefficients
  Constants <- MCConstants
  IntLanes <- MCIntLanes
  MulX = 8
  MulY = 9
  OffsetRange = 2
  Stored <- MCStored
  Initials <- MCInitials
  TimeFactors <- MCTimeFactors
  MaxCalls = 2
INVARIANTS
  MatrixIsSafe
  InputsAreZero
PROPERTIES
  
  CalibrationIsClean
  CalibrationEnds
