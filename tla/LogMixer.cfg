SPECIFICATION FairSpec
CONSTANTS
  Nodes = {n1, n2}
  Nil = Nil
  Null = Null
  Broken = Broken
  LineBuf = 1
  ReadBuf = 1
  MaxLen = 2
  MaxLines = 2
INVARIANTS
  TypeOK
  TailIntact
  PairsAgree
  ActorNotLogger
PROPERTIES
  RefinesLineMix
  AcceptedIsShown
  AnnouncementEnds
CHECK_DEADLOCK FALSE
