SPECIFICATION FairSpec
CONSTANT Num = 4
INVARIANTS
  TypeOK
  NoSendOnClosed
PROPERTY Returns
CHECK_DEADLOCK FALSE
