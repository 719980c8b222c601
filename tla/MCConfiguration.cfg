SPECIFICATION OptionsSpec
CONSTANTS
  Files <- MCFiles
  CommandLines <- MCCommandLines
  ConfigPath <- MCConfigPath
INVARIANTS
  WeightsPrecedence
  OldWeightsDealt
  OptionsFromSources
  OptionsAgree
\* The configuration is read once.
CHECK_DEADLOCK FALSE
