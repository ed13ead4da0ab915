CONSTANTS
  Absent = Absent
  MaxPhraseLength = 2
  Separator = 5
  NullWord = 0
  PartSize = 4
  SmoothNum = 1
  SmoothDen = 2
  Confs <- MCConfs
SPECIFICATION Spec
INVARIANTS
  AlignmentGrown
  TableOfCorpus
CHECK_DEADLOCK FALSE
