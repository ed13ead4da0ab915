CONSTANTS
  SourceSize = 4
  MaxPhraseLength = 2
  ArcListFactor = 1
  Words = {"a", "b", "s", "end"}
  BOS = "s"
  EOS = "end"
  OrientationModel = "monotonicity"
  LexDirection = "Backward"
  NegInf <- MCNegInf
  Bigram <- MCBigram
  Address <- MCAddress
  FutureScore <- MCFutureScore
  Inputs <- MCInputs
  Confs <- MCConfs
SPECIFICATION Spec
INVARIANTS
  HypothesesOwned
  GridsExplored
  PruningJustified
  ExactWithoutPruning
PROPERTIES
  ImplementsDecoder
CHECK_DEADLOCK FALSE
