CONSTANTS
  Slashed <- Words
  Letter = {"p"}
  USER_INPUT_MAX = 5
  SAY_MAX = 2
  Leftover <- Used
  SendFails = TRUE
SPECIFICATION Spec
INVARIANTS TypeOK InputIntact  ArgumentsTraced 
PROPERTIES RedisplayShowsInput
CHECK_DEADLOCK FALSE
