CONSTANTS
  SourceSize = 4
  MaxPhraseLength = 2
  ArcListFactor = 1
  Words = {"a", "b", "s", "end"}
  BOS = "s"
  EOS = "end"
  OrientationModel = "directional"
  LexDirection = "Backward"
  NegInf <- MCNegInf
  Bigram <- MCBigram
  Address <- MCAddress
  FutureScore <- MCFutureScore
  Inputs <- MCInputs
  Confs <- MCConfs
SPECIFICATION Spec
INVARIANTS
  HypothesesOwned
  WinnerDominates
  PruningSound
  ExactWithoutPruning
PROPERTIES
  OpenedStackFrozen
  ImplementsDecoder
CHECK_DEADLOCK FALSE
