CONSTANTS
  c1 = c1  direct = direct  reverse = reverse  reader = reader  writer = writer
  us = us  them = them
  Rd = {c1}
  Wr = {c1}
  Pipe = {direct, reverse}
  NoPipe = NoPipe
  Peer = {reader, writer}
  Process = {us, them}
  Thread <- Threads
  ProcOf <- Proc
  addrRead <- AddrRead
  addrWrite <- AddrWrite
  peerPipe <- Peers
  Fd = {3, 4, 5}
  Capacity = 1
  MaxLine = 1
  HandlerMoves = FALSE
  MaxPushes = 1
  sizeN <- Size
  MayStop = FALSE
  MayUnlink = TRUE
  MaxStarts = 1
  MaxUnits = 1
  MaxVisits = 1
SPECIFICATION FairSpec
INVARIANTS TypeOK
PROPERTIES LossNoticed
CHECK_DEADLOCK FALSE
