SPECIFICATION MCSpec
CONSTANTS
  InputSize = 4
  MaxDistortion = 2
  StackSize = 2
  DistortionWeight = 1
  TargetPhrases <- BeamTable
  Paths <- NoSpans
  LMOutcomes <- TwoOutcomes
INVARIANTS
  HypothesesAreSound
  BestHypoExists
PROPERTIES
  SourceFrozen
  Terminates
\* The search ends.
CHECK_DEADLOCK FALSE
