CONSTANTS
  r1 = r1  p1 = p1  w1 = w1  w2 = w2  us = us  them = them
  Rd = {r1}
  Pipe = {p1}
  NoPipe = NoPipe
  Peer = {w1}
  Process = {us, them}
  Thread <- LoneThreads
  ProcOf <- LoneProc
  addrRead <- OneAddr
  peerPipe <- LonePeer
  Fd = {3, 4}
  Capacity = 1
  MaxLine = 1
  HandlerMoves = TRUE
  Reconnecting = {r1}
  MayUnlink = TRUE
  MaxStarts = 2
  MaxUnits = 3
  MaxVisits = 2
SPECIFICATION Spec
INVARIANTS TypeOK DisconnectAnswersConnect
PROPERTIES EndsOnlyAtEnd
CHECK_DEADLOCK FALSE
