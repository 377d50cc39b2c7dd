SPECIFICATION FairSpec
CONSTANTS
  Sockets = {s1, s2}
  Serial = serial
  Sessions = {s1, s2, serial}
  Users = {"admin"}
  Admin = "admin"
  LockDuration = 1
  TimeWrap = 2
  SettingsChoices <- SomeSettings
  max_connections = 2
  ConnectionTimeout = 1
INVARIANT
  BroadcastIsClients
PROPERTIES
  InputIsHandled
  IdleIsErased
