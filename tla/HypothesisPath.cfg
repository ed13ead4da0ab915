CONSTANTS
  SourceSize = 5
  MaxPhraseLength = 2
  PatternBits = 3
  DistortionLimits <- MCDistortionLimits
  OptionSpans <- MCOptionSpans
  PunctuationSets <- MCPunctuationSets
  WallSets <- MCWallSets
  ZoneSets <- MCZoneSets
SPECIFICATION Spec
INVARIANTS
  TypeOK
  GapWindow
  IDIdentifiesBitmap
  WallsRespected
  NoDeadEnd
  SearchesAgree
PROPERTIES
  DistortionWithinLimit
  ZoneFinished
CHECK_DEADLOCK FALSE
