CONSTANTS
  Period = 60
  Second = 61
  Handling = 1
  Horizon <- ThreeMinutes
SPECIFICATION Spec
INVARIANTS OncePerMinute NoMinuteMissed IdleMissesNoTwo
CHECK_DEADLOCK FALSE
