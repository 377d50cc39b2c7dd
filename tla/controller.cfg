SPECIFICATION MCSpec
CONSTANTS
  SectorWords = 2
  Sectors = 4
  Data = {1, 2}
  Erased = 255
  Mixed = 256
  Images <- MCImages
  ChunkWords = 2
  NoUpgrade = NoUpgrade
  Block = 2
  Lengths = {0, 1, 3, 4, 5, 9}
  MaxMessage = 14
  NetChoices <- MCNetChoices
  DefaultNet <- MCDefaultNet
  UserCounts = {1, 4}
  WriteCapacity = 7
  ReadCapacity = 6
  MaxSets = 2
  MaxLosses = 2
  PluginCodes <- MCPluginCodes
  Payloads <- MCPayloads
  MemSize = 6
  MaxLoads = 4
  One = 2
  LedValues = {255}
  ConfigItems <- MCConfigItems
  Garbage = {0, 7}
  MaxConfigs = 1
  MaxFaults = 1
  BadType = BadType
  Unknown = Unknown
  NUM_CHANNELS = 3
  MaxNumSamples = 4
  ChannelCounts = {0, 1, 2, 3, 5}
  OpTimes = {0, 1, 3, 7, 8, 11, 12, 15, 19, 22}
  SamplingTimes = {2, 3}
  LongDelay = 11
  Milli = 4
  Raws = {0, 1, 6, 7, 4095, 8191, 8192, 12287, 16371, 16372, 16376, 16377, 16382, 16383}
INVARIANTS
  FirmwareIsSafe
  HashIsRight
  PluginIsAsSent
  
  
  DataIsSent
PROPERTIES
  SettingsAreKept
  ProgramGoesOn
