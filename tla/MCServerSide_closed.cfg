CONSTANTS
  c1 = c1  c2 = c2
  direct = direct  reverse = reverse  direct2 = direct2  reverse2 = reverse2
  reader = reader  writer = writer  reader2 = reader2  writer2 = writer2
  us = us  them = them
  Rd = {c1}
  Wr = {c1}
  Pipe = {direct, reverse}
  NoPipe = NoPipe
  Peer = {reader, writer}
  Process = {us, them}
  Thread <- Threads
  ProcOf <- Proc
  addrRead <- AddrRead
  addrWrite <- AddrWrite
  peerPipe <- Peers
  Fd = {3, 4, 5, 6}
  Capacity = 1
  MaxLine = 1
  HandlerMoves = FALSE
  MaxPushes = 0
  sizeN <- Size
  MayDisconnect = FALSE
  StopsEarly = TRUE
  MaxVisits = 1
SPECIFICATION Spec
INVARIANT ClosedAtStop
CHECK_DEADLOCK FALSE
