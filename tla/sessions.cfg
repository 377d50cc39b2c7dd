SPECIFICATION FairSpec
CONSTANTS
  Sockets = {s1, s2}
  Serial = serial
  Sessions = {s1, s2, serial}
  Users = {"admin", "user"}
  Admin = "admin"
  LockDuration = 2
  TimeWrap = 4
  SettingsChoices <- SomeSettings
  max_connections = 1
  ConnectionTimeout = 1
INVARIANTS
  TypeOK
  SessionIsProved
  SerialStaysAdmin
  LockIsExclusive
