CONSTANTS
  a = a
  b = b
  c = c
  u = u
  v = v
  Common = "Common"
  Server = {a, b, c}
  Client = {u, v}
  Channel = {"Common"}
  MaxSays = 3
  LongMessage = {}
  Id <- Ids
  Reordering = FALSE
  MaxFaults = 0
  NameOf <- OwnNames
  Adjacent <- Line
  Home <- HomeAC
  Uninit <- Zero
  Draws <- Distinct
  IdListSize = 1
  MaxSweeps = 0
  MaxCopies = 3
  Commands = {"join", "leave", "say"}
  MaxCommands = 5
  IdleSweeps = FALSE
SPECIFICATION TurnsSpec
INVARIANTS TypeOK SubscriptionsMutual MembersConnected
PROPERTIES  AudienceHears
CHECK_DEADLOCK FALSE
