------------------------------ MODULE FifoRead ------------------------------
(***************************************************************************)
(* Class FifoRead: the reading half of a channel.                          *)
(*                                                                         *)
(* rd[r] is the object r.  Its fields are plain C++ members: the reading   *)
(* thread readFifo() (pc) and the thread inside stopRead() (ctl) share     *)
(* them without a lock, so every access to a shared field and every system *)
(* call is a step of its own.  The bodies of the three callbacks belong to *)
(* the owner of the object; here a callback is the interval between the    *)
(* step that enters it and the step ...Returns that leaves it.             *)
(***************************************************************************)
EXTENDS FifoBase

CONSTANTS
  Rd,            \* the FifoRead objects
  addrRead,      \* addrRead[r]: the pipe object r reads
  MaxLine,       \* units that fill the buffer of MAXLINE bytes
  HandlerMoves   \* does the message handler move out of the Data&& it gets?

ReadThread(r) == <<r, "readFifo">>

ASSUME FifoReadAssumption ==
  /\ addrRead \in [Rd -> Pipe]
  /\ MaxLine \in Nat \ {0}
  /\ HandlerMoves \in BOOLEAN
  /\ \A r \in Rd : /\ {ReadThread(r), Caller(r)} \subseteq Thread
                   /\ ProcOf[ReadThread(r)] = ProcOf[Caller(r)]

VARIABLE rd

Handlers == {"message", "connect", "disconnect"}

ReadPc == {"none", "connect", "open", "opening", "opened", "check", "connected",
           "connectH", "loop", "read", "reading", "messageH", "disconnectH", "again", "done"}

ReadCtl == {"unborn", "stopped", "started", "unrun", "unreconnect", "release",
            "releasing", "releaseClose", "close", "closing", "join"}

ReadState == [handlers : SUBSET Handlers, reconnect : BOOLEAN, runRead : BOOLEAN,
              waitConnect : BOOLEAN, waitOpen : BOOLEAN, fifoFd : Fd \cup {NoFd},
              moved : BOOLEAN, pc : ReadPc, ctl : ReadCtl, fd : Fd \cup {NoFd}]

FifoReadInit ==
  rd = [r \in Rd |-> [handlers |-> {}, reconnect |-> FALSE, runRead |-> FALSE,
                      waitConnect |-> FALSE, waitOpen |-> FALSE, fifoFd |-> NoFd,
                      moved |-> FALSE, pc |-> "none", ctl |-> "unborn", fd |-> NoFd]]

(* The constructor and the setters, before the thread exists. *)
FifoReadNew(r) ==
  /\ rd[r].ctl = "unborn"
  /\ createFifo(addrRead[r])
  /\ rd' = [rd EXCEPT ![r].ctl = "stopped"]

SetReadHandler(r, h) ==
  /\ rd[r].ctl = "stopped" /\ h \notin rd[r].handlers
  /\ rd' = [rd EXCEPT ![r].handlers = @ \cup {h}]
  /\ UNCHANGED kernel

ReadReconnectTrue(r) ==
  /\ rd[r].ctl = "stopped" /\ ~rd[r].reconnect
  /\ rd' = [rd EXCEPT ![r].reconnect = TRUE]
  /\ UNCHANGED kernel

(* startRead throws, changing nothing, unless the three handlers are set. *)
StartRead(r) ==
  /\ rd[r].ctl = "stopped" /\ rd[r].handlers = Handlers
  /\ rd' = [rd EXCEPT ![r].ctl = "started", ![r].pc = "connect",
                      ![r].runRead = TRUE, ![r].moved = FALSE]
  /\ UNCHANGED kernel

-----------------------------------------------------------------------------
(* connect() *)
ReadConnect(r) ==
  /\ rd[r].pc = "connect"
  /\ rd' = [rd EXCEPT ![r].pc = "open", ![r].waitOpen = FALSE]
  /\ UNCHANGED kernel

(* Mutant: a failing open is recorded as descriptor 0. *)
ReadOpenAsZero(r) ==
  /\ rd[r].pc = "open"
  /\ \/ /\ openFifo(ReadThread(r), addrRead[r], "R")
        /\ rd' = [rd EXCEPT ![r].pc = "opening"]
     \/ /\ openFifoFails(ReadThread(r), addrRead[r])
        /\ rd' = [rd EXCEPT ![r].pc = "opened", ![r].fifoFd = 0]

ReadOpen(r) ==
  /\ rd[r].pc = "open"
  /\ \/ /\ openFifo(ReadThread(r), addrRead[r], "R")
        /\ rd' = [rd EXCEPT ![r].pc = "opening"]
     \/ /\ openFifoFails(ReadThread(r), addrRead[r])
        /\ rd' = [rd EXCEPT ![r].pc = "opened", ![r].fifoFd = NoFd]

ReadOpenReturns(r) ==
  /\ rd[r].pc = "opening"
  /\ openFifoReturns(ReadThread(r))
  /\ rd' = [rd EXCEPT ![r].pc = "opened", ![r].fifoFd = sys[ReadThread(r)].fd]

ReadOpened(r) ==
  /\ rd[r].pc = "opened"
  /\ rd' = [rd EXCEPT ![r].pc = "check", ![r].waitOpen = TRUE]
  /\ UNCHANGED kernel

ReadCheck(r) ==
  /\ rd[r].pc = "check"
  /\ rd' = [rd EXCEPT ![r].pc =
              IF rd[r].runRead /\ rd[r].fifoFd # NoFd THEN "connected" ELSE "loop"]
  /\ UNCHANGED kernel

ReadConnected(r) ==
  /\ rd[r].pc = "connected"
  /\ rd' = [rd EXCEPT ![r].pc = "connectH", ![r].waitConnect = TRUE]
  /\ UNCHANGED kernel

ReadConnectHandlerReturns(r) ==
  /\ rd[r].pc = "connectH"
  /\ rd' = [rd EXCEPT ![r].pc = "loop"]
  /\ UNCHANGED kernel

-----------------------------------------------------------------------------
(* readFifo(): the inner while *)
ReadLoop(r) ==
  /\ rd[r].pc = "loop"
  /\ rd' = [rd EXCEPT ![r].pc =
              IF rd[r].waitConnect /\ rd[r].runRead THEN "read" ELSE "again"]
  /\ UNCHANGED kernel

(* Mutant: waitConnect is not reset. *)
ReadDownStillConnected(r) == rd' = [rd EXCEPT ![r].pc = "disconnectH"]

(* read() returned 0 or -1 *)
ReadDown(r) ==
  rd' = [rd EXCEPT ![r].pc = "disconnectH", ![r].waitConnect = FALSE]

ReadCall(r) ==
  /\ rd[r].pc = "read"
  /\ IF Usable(ReadThread(r), rd[r].fifoFd, "R")
     THEN /\ IoCall(ReadThread(r), "read", rd[r].fifoFd)
          /\ rd' = [rd EXCEPT ![r].pc = "reading"]
     ELSE ReadDown(r) /\ UNCHANGED kernel

(* A full buffer is handed over itself, a shorter read as a copy: a handler *)
(* that moves from a full buffer leaves readFifo with an empty vector.      *)
ReadData(r) ==
  LET t == ReadThread(r) IN
  /\ rd[r].pc = "reading" /\ ~rd[r].moved
  /\ ReadReturn(t, MaxLine)
  /\ rd' = [rd EXCEPT ![r].pc = "messageH",
              ![r].moved = HandlerMoves /\ Len(Chunk(t, MaxLine)) = MaxLine]

(* Mutant: the break also follows a message. *)
ReadMessageBreaks(r) ==
  /\ rd[r].pc = "messageH"
  /\ rd' = [rd EXCEPT ![r].pc = "again"]
  /\ UNCHANGED kernel

ReadMessageHandlerReturns(r) ==
  /\ rd[r].pc = "messageH"
  /\ rd' = [rd EXCEPT ![r].pc = "loop"]
  /\ UNCHANGED kernel

(* Mutant: the break precedes the disconnect callback. *)
ReadEndsSilently(r) ==
  LET t == ReadThread(r) IN
  /\ rd[r].pc = "reading"
  /\ EndOfFile(t)
  /\ IoReturn(t)
  /\ rd' = [rd EXCEPT ![r].pc = "again", ![r].waitConnect = FALSE]

(* End of file, or EFAULT when there is data for the moved-from buffer. *)
ReadEnds(r) ==
  LET t == ReadThread(r) IN
  /\ rd[r].pc = "reading"
  /\ EndOfFile(t) \/ (rd[r].moved /\ Contents(t) # <<>>)
  /\ IoReturn(t)
  /\ ReadDown(r)

(* Mutant: the old descriptor is closed, and its number kept. *)
ReadDisconnectCloses(r) ==
  /\ rd[r].pc = "disconnectH"
  /\ Close(ReadThread(r), rd[r].fifoFd)
  /\ rd' = [rd EXCEPT ![r].pc = "again"]

ReadDisconnectHandlerReturns(r) ==
  /\ rd[r].pc = "disconnectH"
  /\ rd' = [rd EXCEPT ![r].pc = "again"]
  /\ UNCHANGED kernel

(* Mutant: the thread ends with its first connection. *)
ReadAgainOnce(r) ==
  /\ rd[r].pc = "again"
  /\ rd' = [rd EXCEPT ![r].pc = "done"]
  /\ UNCHANGED kernel

(* do ... while(reconnect) *)
ReadAgain(r) ==
  /\ rd[r].pc = "again"
  /\ rd' = [rd EXCEPT ![r].pc = IF rd[r].reconnect THEN "connect" ELSE "done"]
  /\ UNCHANGED kernel

-----------------------------------------------------------------------------
(* stopRead() *)
StopRead(r) ==
  /\ rd[r].ctl = "started"
  /\ rd' = [rd EXCEPT ![r].ctl = "unrun", ![r].runRead = FALSE]
  /\ UNCHANGED kernel

StopReadReconnect(r) ==
  /\ rd[r].ctl = "unrun"
  /\ rd' = [rd EXCEPT ![r].ctl = "unreconnect", ![r].reconnect = FALSE]
  /\ UNCHANGED kernel

(* Mutant: a thread blocked in open is not released. *)
StopReadOnlyCloses(r) ==
  /\ rd[r].ctl = "unreconnect"
  /\ rd' = [rd EXCEPT ![r].ctl = "close"]
  /\ UNCHANGED kernel

StopReadTestOpen(r) ==
  /\ rd[r].ctl = "unreconnect"
  /\ rd' = [rd EXCEPT ![r].ctl = IF rd[r].waitOpen THEN "close" ELSE "release"]
  /\ UNCHANGED kernel

(* The opposite end is opened to let go a thread blocked in open. *)
StopReadRelease(r) ==
  /\ rd[r].ctl = "release"
  /\ \/ /\ openFifo(Caller(r), addrRead[r], "W")
        /\ rd' = [rd EXCEPT ![r].ctl = "releasing"]
     \/ /\ openFifoFails(Caller(r), addrRead[r])
        /\ rd' = [rd EXCEPT ![r].ctl = "releaseClose", ![r].fd = NoFd]

StopReadReleased(r) ==
  /\ rd[r].ctl = "releasing"
  /\ openFifoReturns(Caller(r))
  /\ rd' = [rd EXCEPT ![r].ctl = "releaseClose", ![r].fd = sys[Caller(r)].fd]

StopReadReleaseClose(r) ==
  /\ rd[r].ctl = "releaseClose"
  /\ Close(Caller(r), rd[r].fd)
  /\ rd' = [rd EXCEPT ![r].ctl = "close", ![r].fd = NoFd]

(* The number is read from fifoFd first, and the thread may change fifoFd  *)
(* before it is closed.                                                    *)
StopReadTakes(r) ==
  /\ rd[r].ctl = "close"
  /\ rd' = [rd EXCEPT ![r].ctl = "closing", ![r].fd = rd[r].fifoFd]
  /\ UNCHANGED kernel

StopReadClose(r) ==
  /\ rd[r].ctl = "closing"
  /\ Close(Caller(r), rd[r].fd)
  /\ rd' = [rd EXCEPT ![r].ctl = "join", ![r].fd = NoFd]

(* Mutant: waitConnect is left as the thread has left it. *)
StopReadJoinKeeps(r) ==
  /\ rd[r].ctl = "join" /\ rd[r].pc = "done"
  /\ rd' = [rd EXCEPT ![r].ctl = "stopped", ![r].pc = "none"]
  /\ UNCHANGED kernel

StopReadJoin(r) ==
  /\ rd[r].ctl = "join" /\ rd[r].pc = "done"
  /\ rd' = [rd EXCEPT ![r].ctl = "stopped", ![r].pc = "none",
                      ![r].waitConnect = FALSE]
  /\ UNCHANGED kernel

-----------------------------------------------------------------------------
(* The steps of the reading thread outside its callbacks, and those of the *)
(* call of stopRead() once it has begun.                                   *)
ReadThreadStep(r) ==
  \/ ReadConnect(r) \/ ReadOpen(r) \/ ReadOpenReturns(r) \/ ReadOpened(r)
  \/ ReadCheck(r) \/ ReadConnected(r) \/ ReadLoop(r) \/ ReadCall(r)
  \/ ReadEnds(r) \/ ReadAgain(r)

StopReadStep(r) ==
  \/ StopReadReconnect(r) \/ StopReadTestOpen(r) \/ StopReadRelease(r)
  \/ StopReadReleased(r) \/ StopReadReleaseClose(r) \/ StopReadTakes(r)
  \/ StopReadClose(r) \/ StopReadJoin(r)
=============================================================================
