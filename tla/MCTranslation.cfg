SPECIFICATION TranslationSpec
CONSTANTS
  Words <- MCWords
  SourcePhrases <- MCSourcePhrases
  TargetPhrases <- MCTargetPhrases
  MaxLines = 3
  Sentences <- MCSentences
  Capacity = 5
  NoWord = 99
  SizeT = 16
INVARIANTS
  FindsTheLines
  WordsReadBack
  PrintsTheTranslation
\* The input ends, or a sentence cannot be translated.
CHECK_DEADLOCK FALSE
