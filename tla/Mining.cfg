SPECIFICATION FairSpec
CONSTANTS
  Miners = {m1, m2, m3}
  Nil = Nil
  ForkBranching = 2
  MaxEpochs = 2
INVARIANTS
  TypeOK
  EpochsApart
  NoEarlierMiner
PROPERTY MiningStops
CHECK_DEADLOCK FALSE
