SPECIFICATION FairSpec
CONSTANTS
  Channel <- Channels
  LoRange <- LoRanges
  HiRange <- HiRanges
  Value <- Values
  NonFinite = NonFinite
  Depth <- Depths
  Order <- Kinds
INVARIANTS
  TypeOK
  OrderlyExitIsOff
  DetachedBeforeDestroyed
PROPERTIES
  SwitchedOnUnderWatch
  InterruptStops
