SPECIFICATION ScoresSpec
CONSTANTS
  Lines <- Unigrams
  Order = 3
  Eos = "</s>"
  JunkWords = {"a", "b", "other"}
  Phrases <- MCPhrases
  MaxLines = 3
  MaxWords = 4
  FeatureLines <- MCFeatureLines
  SectionLists <- MCSections
  Junk = {7}
  StateSize <- MCStateSize
  Tables <- MCTables
  Outcomes <- MCOutcomes
  MaxFeatures = 4
  MaxLoads = 1
  MaxHypos = 2
INVARIANTS
  ScoresEachNgram
\* The sentence ends, or loading fails, or the search ends.
CHECK_DEADLOCK FALSE
