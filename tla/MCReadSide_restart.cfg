CONSTANTS
  r1 = r1  p1 = p1  w1 = w1  w2 = w2  us = us  them = them
  Rd = {r1}
  Pipe = {p1}
  NoPipe = NoPipe
  Peer = {w1, w2}
  Process = {us, them}
  Thread <- OneThreads
  ProcOf <- OneProc
  addrRead <- OneAddr
  peerPipe <- OnePeers
  Fd = {3, 4}
  Capacity = 2
  MaxLine = 2
  HandlerMoves = FALSE
  Reconnecting = {}
  MayUnlink = FALSE
  MaxStarts = 2
  MaxUnits = 0
  MaxVisits = 1
SPECIFICATION FairSpec
PROPERTIES StopReturns
CHECK_DEADLOCK FALSE
