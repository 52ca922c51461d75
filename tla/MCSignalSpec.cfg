SPECIFICATION Spec
CONSTANT
  Specs <- EverySpec
INVARIANTS
  TypeOK
  ReadableDecodedExactly
  NoReadableFrameRefused
  AtMostABytePart
