SPECIFICATION MCSpec
CONSTANTS
  Requests <- MCRequests
  MaxRequests = 3
  Files <- MCFiles
  OutputBufferSize = 2
  MaxHeaders = 10
  MaxConnections = 2
  EnableWebsockets = TRUE
  Frames <- MCFrames
  MaxFrames = 3
  Window = 3
  MaskingKey <- MCKey
  Garbage = {0, 255}
  BufferSize = 1
INVARIANTS
  
  UpgradesAreSound
  FramesAreHandled
  ConnectionEndsCleanly

  
