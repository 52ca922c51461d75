SPECIFICATION Spec
CONSTANT
  Specs <- EverySpec
INVARIANT FitsMeansReadable
