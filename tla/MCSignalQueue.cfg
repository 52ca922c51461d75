SPECIFICATION FairSpec
CONSTANTS
  N = 3
  Sample = {s1, s2}
  Blank = Blank
  MaxPushes = 6
INVARIANTS
  TypeOK
  NoSlotRace
  FifoIntegrity
  RingInvariant
PROPERTIES
  ImplementsFifo
  EveryAcceptedDelivered
