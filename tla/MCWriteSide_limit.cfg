CONSTANTS
  o1 = o1  p1 = p1  w1 = w1  w2 = w2  us = us  them = them
  Wr = {o1}
  Pipe = {p1}
  NoPipe = NoPipe
  Peer = {w1}
  Process = {us, them}
  Thread <- LoneThreads
  ProcOf <- LoneProc
  addrWrite <- OneAddr
  peerPipe <- LonePeer
  Fd = {3, 4}
  Capacity = 1
  Reconnecting = {o1}
  MayUnlink = TRUE
  MaxStarts = 2
  MaxPushes = 3
  sizeN <- ThreeSizes
  MaxVisits = 2
SPECIFICATION Spec
INVARIANTS TypeOK WrittenInOrder EveryConnectAnswered
PROPERTIES PoppedWasWritten
CHECK_DEADLOCK FALSE
