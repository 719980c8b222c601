SPECIFICATION MCSpec
CONSTANTS
  InputSize = 10
  MaxDistortion = 4
  StackSize = 50
  DistortionWeight <- RewardReordering
  TargetPhrases <- ExactTable
  Paths <- Spans
  LMOutcomes <- NoLanguageModel
INVARIANTS
  Optimal
  CacheExact
  WithinWindow
  NoDeadEnd
\* The search ends.
CHECK_DEADLOCK FALSE
