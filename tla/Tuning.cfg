CONSTANTS
  SentenceN = 3
  Untranslatable = {1}
  MaxCrashes = 1
  MaxWaits = 2
  MaxInterrupts = 1
  Confs <- MCConfs
  Weights <- MCWeights
  Seed <- MCSeed
  NBestOf <- MCNBestOf
  Optimal <- MCOptimal
SPECIFICATION Spec
INVARIANTS
  PoolFaithful
  TuningOptimal
PROPERTIES
  TrainingEnds
CHECK_DEADLOCK FALSE
