CONSTANTS
  writer = writer  reader = reader  pipe = pipe  us = us
  Rd = {reader}
  Wr = {writer}
  Pipe = {pipe}
  NoPipe = NoPipe
  Process = {us}
  Thread <- Threads
  ProcOf <- Proc
  addrRead <- AddrRead
  addrWrite <- AddrWrite
  Fd = {3, 4, 5}
  Capacity = 1
  MaxLine = 1
  HandlerMoves = FALSE
  MaxPushes = 2
  sizeN <- Sizes
  Reconnects = FALSE
  MaxStarts = 1
SPECIFICATION FairSpec
INVARIANTS TypeOK ReceivedInOrder
PROPERTIES ImplementsChannel MessageArrives
CHECK_DEADLOCK FALSE
