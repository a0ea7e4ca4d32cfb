CONSTANTS
  a = a
  b = b
  c = c
  u = u
  v = v
  Common = "Common"
  Server = {a, b, c}
  Client = {u, v}
  Channel = {"Common"}
  MaxSays = 2
  LongMessage = {}
  Id <- Ids
  Reordering = FALSE
  MaxFaults = 1
  NameOf <- OwnNames
  Adjacent <- Line
  Home <- HomeAC
  Uninit <- Zero
  Draws <- Distinct
  IdListSize = 1
  MaxSweeps = 1
  MaxCopies = 3
  Commands = {"leave", "say", "exit"}
  MaxCommands = 2
  IdleSweeps = TRUE
  Restartable = {b}
SPECIFICATION RestartSpec
INVARIANTS OnlyServersSubscribed 
PROPERTIES RefreshHeals
CHECK_DEADLOCK FALSE
