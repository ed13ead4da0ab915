CONSTANTS
  Lower <- MCLower
  MinInt <- MCMinInt
  Far <- MCFar
  Beyond <- MCBeyond
  Snap <- MCSnap
  Huge <- MCHuge
  Samples <- MCSamples
  Tries = 2
  RandomStarts <- MCRandomStarts
  Files <- MCFiles
  Binary <- MCBinary
  Translations <- MCTranslations
  Model <- MCModel
  Confs <- MCConfs
  NBestSize = 2
  References <- MCReferences
  MaxRuns = 4

SPECIFICATION Spec
INVARIANTS
  WeightsComeBack
  PoolParallel
  LineScoreTrue
  MertOptimal
CHECK_DEADLOCK FALSE
