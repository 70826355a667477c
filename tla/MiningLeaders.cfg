SPECIFICATION Spec
CONSTANTS
  Miners = {m1, m2}
  Nil = Nil
  ForkBranching = 2
  MaxEpochs = 1
INVARIANT LeadersMineOnce
CHECK_DEADLOCK FALSE
