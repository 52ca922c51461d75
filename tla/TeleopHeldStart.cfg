SPECIFICATION Spec
CONSTANTS
  JoyTimeout = 1
  Trigger = {0, 1}
  Stick = {0, 1}
  MaxTime = 5
PROPERTY StartMustBePressed
CHECK_DEADLOCK FALSE
