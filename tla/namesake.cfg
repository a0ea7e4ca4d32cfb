CONSTANTS
  a = a
  b = b
  c = c
  u = u
  v = v
  Common = "Common"
  Server = {a, b}
  Client = {u, v}
  Channel = {"Common"}
  MaxSays = 2
  LongMessage = {}
  Id <- Ids
  Reordering = FALSE
  MaxFaults = 0
  NameOf <- SameName
  Adjacent <- Pair
  Home <- HomeAA
  Uninit <- Zero
  Draws <- Distinct
  IdListSize = 1
  MaxSweeps = 0
  MaxCopies = 3
  Commands = {"exit"}
  MaxCommands = 1
  IdleSweeps = FALSE
SPECIFICATION Spec
INVARIANTS OnlyServersSubscribed
CHECK_DEADLOCK FALSE
