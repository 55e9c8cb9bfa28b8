CONSTANTS
  o1 = o1  p1 = p1  w1 = w1  w2 = w2  us = us  them = them
  Wr = {o1}
  Pipe = {p1}
  NoPipe = NoPipe
  Peer = {w1, w2}
  Process = {us, them}
  Thread <- OneThreads
  ProcOf <- OneProc
  addrWrite <- OneAddr
  peerPipe <- OnePeers
  Fd = {3, 4}
  Capacity = 1
  Reconnecting = {}
  MayUnlink = FALSE
  MaxStarts = 1
  MaxPushes = 3
  sizeN <- ThreeSizes
  MaxVisits = 1
SPECIFICATION FairSpec
INVARIANTS CallbacksAgreeWithFlag
PROPERTIES StopReturns MutexReleased PushedGoesOut
CHECK_DEADLOCK FALSE
