SPECIFICATION Spec
CONSTANTS
  Nodes = {n1}
  Nil = Nil
  Null = Null
  Broken = Broken
  LineBuf = 1
  ReadBuf = 1
  MaxLen = 1
  MaxLines = 1
INVARIANT AddDealShowsData
CHECK_DEADLOCK FALSE
