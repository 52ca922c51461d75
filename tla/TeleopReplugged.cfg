SPECIFICATION Spec
CONSTANTS
  JoyTimeout = 1
  Trigger = {0, 1}
  Stick = {0, 1}
  MaxTime = 5
PROPERTY EnablingNeedsParked
CHECK_DEADLOCK FALSE
