SPECIFICATION FairSpec
CONSTANTS
  Clients = {c1, c2}
  Nil = Nil
  LogBufferSize = 2
  WchCap = 1
  MaxReads = 4
INVARIANTS
  TypeOK
  NothingMissed
PROPERTIES
  RefinesFanout
  NewcomersServed
  LaggardsCatchUp
CHECK_DEADLOCK FALSE
