SPECIFICATION FairSpec
CONSTANTS
  JoyTimeout = 1
  Trigger = {0, 1}
  Stick = {0, 1}
  MaxTime = 5
INVARIANTS
  TypeOK
  UnarmedIsNeutral
PROPERTIES
  CommandsAreFresh
  SilenceDisables
  ImplementsSwitch
