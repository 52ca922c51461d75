SPECIFICATION FairSpec
CONSTANTS
  Channel <- Channels
  LoRange <- LoRanges
  HiRange <- HiRanges
  Value <- Values
  NonFinite = NonFinite
  Depth <- Depths
INVARIANTS
  TypeOK
  BusIsNearestAllowed
  BusWithinLimits
  DisableSettles
PROPERTY DisableTakesEffect
