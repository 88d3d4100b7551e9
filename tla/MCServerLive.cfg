SPECIFICATION FairSpec
CONSTANTS
  p1 = p1
  p2 = p2
  w1 = w1
  File = File
  Acceptor = Acceptor
  Main = Main
  None = None
  Peers = {p1}
  Players = {w1}
  Fd = {1, 2}
  Script <- LineAndPart
  NL = 0
  SocketSize = 1
  MaxEvents = 2
PROPERTIES ShutdownEnds GoneIsRemoved
CHECK_DEADLOCK FALSE
