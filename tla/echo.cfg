CONSTANTS
  a = a
  b = b
  c = c
  u = u
  v = v
  Common = "Common"
  Server = {a, b, c}
  Client = {u}
  Channel = {"Common"}
  MaxSays = 1
  LongMessage = {}
  Id <- Ids
  Reordering = TRUE
  MaxFaults = 0
  NameOf <- OwnNames
  Adjacent <- Ring
  Home <- OneHome
  Uninit <- Zero
  Draws <- Distinct
  IdListSize = 1
  MaxSweeps = 0
  MaxCopies = 3
  Commands = {"say"}
  MaxCommands = 1
  IdleSweeps = FALSE
SPECIFICATION Spec
INVARIANTS NeverRelayedTwice
CHECK_DEADLOCK FALSE
