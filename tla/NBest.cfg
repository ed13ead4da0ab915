CONSTANTS
  SourceSize = 4
  MaxPhraseLength = 2
  ArcListFactor = 1
  Words = {"a", "b", "s", "end"}
  BOS = "s"
  EOS = "end"
  OrientationModel = "directional"
  LexDirection = "Backward"
  NegInf <- MCNegInf
  Bigram <- MCBigram
  Address <- MCAddress
  FutureScore <- MCFutureScore
  Inputs <- MCNBestInputs
  Confs <- MCNBestConfs
  Columns <- MCColumns
  NotFound = 1000
  BleuOrder = 2
  MaxLoss = 2
  Bleu <- MCBleu
  Posterior <- MCPosterior
SPECIFICATION NBestSpec
INVARIANTS
  NBestIsBest
  SearchGraphExact
  OutputTold
CHECK_DEADLOCK FALSE
