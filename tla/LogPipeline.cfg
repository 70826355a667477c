SPECIFICATION PipeSpec
CONSTANTS
  Nodes = {n1}
  Nil = Nil
  Null = Null
  Broken = Broken
  LineBuf = 2
  ReadBuf = 1
  MaxLen = 2
  MaxLines = 1
  Clients = {c1, c2}
  LogBufferSize = 2
  WchCap = 1
  MaxReads = 4
INVARIANTS
  ViewersReadLines
  OneLineBeforeViewer
PROPERTIES
  LinesAreTaken
  AnnouncementSeen
CHECK_DEADLOCK FALSE
