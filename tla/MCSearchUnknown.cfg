SPECIFICATION MCSpec
CONSTANTS
  InputSize = 2
  MaxDistortion = 2
  StackSize = 2
  DistortionWeight = 1
  TargetPhrases <- UnknownTable
  Paths <- NoSpans
  LMOutcomes <- NoLanguageModel
INVARIANTS
  BestHypoExists
\* The search ends.
CHECK_DEADLOCK FALSE
