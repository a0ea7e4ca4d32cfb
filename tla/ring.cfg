CONSTANTS
  a = a
  b = b
  c = c
  u = u
  v = v
  Common = "Common"
  Server = {a, b, c}
  Client = {u}
  Channel = {"Common"}
  MaxSays = 2
  LongMessage = {}
  Id <- Ids
  Reordering = TRUE
  MaxFaults = 0
  NameOf <- OwnNames
  Adjacent <- Ring
  Home <- OneHome
  Uninit <- Zero
  Draws <- Distinct
  IdListSize = 1
  MaxSweeps = 0
  MaxCopies = 3
  Commands = {"say", "list", "who"}
  MaxCommands = 2
  IdleSweeps = FALSE
SPECIFICATION FairSpec
INVARIANTS IdListSound RelayedAtMostOnce
PROPERTIES StormsEnd
CHECK_DEADLOCK FALSE
