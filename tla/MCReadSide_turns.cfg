CONSTANTS
  r1 = r1  p1 = p1  w1 = w1  w2 = w2  us = us  them = them
  Rd = {r1}
  Pipe = {p1}
  NoPipe = NoPipe
  Peer = {w1, w2}
  Process = {us, them}
  Thread <- OneThreads
  ProcOf <- OneProc
  addrRead <- OneAddr
  peerPipe <- OnePeers
  Fd = {3, 4, 5, 6}
  Capacity = 2
  MaxLine = 2
  HandlerMoves = FALSE
  Reconnecting = {r1}
  MayUnlink = FALSE
  MaxStarts = 1
  MaxUnits = 2
  MaxVisits = 1
SPECIFICATION FairSpec
INVARIANTS CallbacksAgreeWithFlag
PROPERTIES NothingLostWhileRunning StopReturns DataArrives PeerNoticed
CHECK_DEADLOCK FALSE
