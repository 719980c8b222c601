SPECIFICATION ScoresSpec
CONSTANTS
  Lines <- MCLines
  Order = 3
  Eos = "</s>"
  JunkWords = {"a", "b"}
  Phrases <- MCPhrases
  MaxLines = 3
  MaxWords = 4
  FeatureLines <- MCFeatureLines
  SectionLists <- MCSections
  Junk = {7}
  StateSize <- MCStateSize
  Tables <- MCTables
  Outcomes <- MCOutcomes
  MaxFeatures = 4
  MaxLoads = 1
  MaxHypos = 2
INVARIANTS
  ContextIsHistory
  StateIsNgram
  LayoutIsRight
  TotalsAreDotProducts
\* The sentence ends, or loading fails, or the search ends.
CHECK_DEADLOCK FALSE
