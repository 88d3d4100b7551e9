SPECIFICATION Spec
CONSTANTS
  p1 = p1
  p2 = p2
  w1 = w1
  File = File
  Acceptor = Acceptor
  Main = Main
  None = None
  Peers = {p1, p2}
  Players = {w1}
  Fd = {1, 2, 3}
  Script <- LineAndPart
  NL = 0
  SocketSize = 1
  MaxEvents = 2
INVARIANTS TypeOK EventsAgree CommandsAsSent DescriptorsOwned EndsSaved
CHECK_DEADLOCK FALSE
