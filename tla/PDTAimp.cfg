SPECIFICATION MCSpec
CONSTANTS
  Tables <- MCTables
  Inputs <- MCInputs
  LexTables <- MCLexTables
  MaxLength = 2
  TableLimit = 2
  WordPenalty = 0
INVARIANTS
  DecoderReadsTable
  ReorderingScoresRead
CHECK_DEADLOCK FALSE
