CONSTANTS
  SourceSize = 4
  MaxPhraseLength = 2
  ArcListFactor = 1
  Words = {"a", "b", "s", "end"}
  BOS = "s"
  EOS = "end"
  OrientationModel = "orientation"
  LexDirection = "Bidirectional"
  NegInf <- MCNegInf
  Bigram <- MCBigram
  Address <- MCAddress
  FutureScore <- MCFutureScore
  Inputs <- MCInputs
  Confs <- MCConfs
SPECIFICATION Spec
INVARIANT ProducesConstraint
CHECK_DEADLOCK FALSE
