CONSTANTS
  o1 = o1  p1 = p1  w1 = w1  w2 = w2  us = us  them = them
  Wd = {o1}
  Pipe = {p1}
  NoPipe = NoPipe
  Peer = {w1}
  Process = {us, them}
  Thread <- Threads
  ProcOf <- Proc
  addrDirect <- Addr
  peerPipe <- Peers
  Fd = {3, 4, 5}
  Capacity = 1
  MaxPushes = 3
  sizeN <- Sizes
  MayUnlink = TRUE
  MaxStarts = 1
  MaxVisits = 2
SPECIFICATION FairSpec
INVARIANTS TypeOK WrittenInOrder EveryConnectAnswered
PROPERTIES ReturnsWhenWritten ReaderLetsStart StopReturns
CHECK_DEADLOCK FALSE
