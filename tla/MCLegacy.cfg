SPECIFICATION Spec
CONSTANTS
  NUMSCORES = 2
  LowestScore <- MCLowestScore
  IniFiles <- MCIniFiles
  TableFiles <- MCTableFiles
  Sentences <- MCSentences
  MaxSentences = 2
  MaxWords = 4
  Threads = {t1, t2}
  StackCapacity = 2
  NumNewHypos = 4
INVARIANTS
  LegacyWeights
  DeviceHasTheTable
  NoWordTwice
  SuccessMeansKnown
PROPERTIES
  LegacyEnds
\* The program ends.
CHECK_DEADLOCK FALSE
