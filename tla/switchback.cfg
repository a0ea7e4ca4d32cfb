CONSTANTS
  a = a
  b = b
  c = c
  u = u
  v = v
  Common = "Common"
  Server = {a, b}
  Client = {u}
  Channel = {"Common"}
  MaxSays = 1
  LongMessage = {}
  Id <- Ids
  Reordering = FALSE
  MaxFaults = 0
  NameOf <- OwnNames
  Adjacent <- Pair
  Home <- OneHome
  Uninit <- Zero
  Draws <- Distinct
  IdListSize = 1
  MaxSweeps = 0
  MaxCopies = 3
  Commands = {"join", "leave", "switch", "say", "list", "who", "exit"}
  MaxCommands = 3
  IdleSweeps = FALSE
SPECIFICATION Spec
INVARIANTS LeavesToServersOnly
CHECK_DEADLOCK FALSE
