CONSTANTS
  a = a
  u = u
  v = v
  Common = "Common"
  Server = {a}
  Client = {u, v}
  Channel = {"Common", "Games"}
  MaxSays = 1
  LongMessage = {}
  Id <- NoIds
  Reordering = FALSE
  MaxFaults = 1
  NameOf <- OwnNames
  Home <- HomeA
  Uninit <- Zero
  Commands = {"join", "leave", "switch", "say", "list", "who", "exit"}
  MaxCommands = 2
SPECIFICATION Spec
INVARIANTS TypeOK   ListComplete
CHECK_DEADLOCK FALSE
