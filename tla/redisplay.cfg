CONSTANTS
  Slashed <- Words
  Letter = {"p"}
  USER_INPUT_MAX = 5
  SAY_MAX = 2
  Leftover = {"NUL"}
  SendFails = TRUE
SPECIFICATION Spec
INVARIANTS RedisplayFaithful
CHECK_DEADLOCK FALSE
