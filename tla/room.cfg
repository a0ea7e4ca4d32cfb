CONSTANTS
  a = a
  b = b
  c = c
  u = u
  v = v
  Common = "Common"
  Server = {a, b, c}
  Client = {u, v}
  Channel = {"Common", "Games"}
  MaxSays = 2
  LongMessage = {1}
  Id <- Ids
  Reordering = TRUE
  MaxFaults = 0
  NameOf <- OwnNames
  Adjacent <- Line
  Home <- HomeAB
  Uninit <- Zero
  Draws <- Distinct
  IdListSize = 1
  MaxSweeps = 0
  MaxCopies = 6
  Commands = {"join", "leave", "switch", "say", "exit"}
  MaxCommands = 2
  IdleSweeps = FALSE
SPECIFICATION Spec
INVARIANTS  WholeAtHome
PROPERTIES ImplementsRoom
CHECK_DEADLOCK FALSE
