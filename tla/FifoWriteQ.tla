----------------------------- MODULE FifoWriteQ -----------------------------
(***************************************************************************)
(* Class WriteQImpl: the writing half of a channel, with a queue.          *)
(*                                                                         *)
(* wr[o] is the object o.  The writing thread writeFifo() (pc) takes the   *)
(* mutex once for every turn of its inner loop and keeps it while write()  *)
(* blocks and while the disconnect callback runs; pushData() takes the     *)
(* same mutex.  stopWrite() (ctl) takes none.  The flags are unguarded, so *)
(* every access to one is a step of its own, as in FifoRead.               *)
(*                                                                         *)
(* <<m, i>> is the i-th unit of message m.                                 *)
(***************************************************************************)
EXTENDS IFifoWriter

CONSTANTS
  Wr,         \* the WriteQImpl objects
  addrWrite   \* addrWrite[o]: the pipe object o writes

WriteThread(o) == <<o, "writeFifo">>

ASSUME FifoWriteQAssumption ==
  /\ addrWrite \in [Wr -> Pipe]
  /\ \A o \in Wr : /\ {WriteThread(o), Caller(o)} \subseteq Thread
                   /\ ProcOf[WriteThread(o)] = ProcOf[Caller(o)]

VARIABLE wr

WriteHandlers == {"connect", "disconnect"}

WritePc == {"none", "connect", "open", "opening", "opened", "check", "connected",
            "connectH", "loop", "lock", "write", "writing", "disconnectH", "again", "done"}

WriteCtl == {"unborn", "stopped", "started", "unrun", "disconnectH", "testOpen",
             "release", "releasing", "releaseClose", "close", "closing", "join"}

WriteState == [handlers : SUBSET WriteHandlers, reconnect : BOOLEAN, runWrite : BOOLEAN,
               waitConnect : BOOLEAN, waitOpen : BOOLEAN, fifoFd : Fd \cup {NoFd},
               queue : Seq(1..MaxPushes), written : Nat,
               pc : WritePc, ctl : WriteCtl, fd : Fd \cup {NoFd}]

FifoWriteQInit ==
  wr = [o \in Wr |-> [handlers |-> {}, reconnect |-> FALSE, runWrite |-> FALSE,
                      waitConnect |-> FALSE, waitOpen |-> FALSE, fifoFd |-> NoFd,
                      queue |-> <<>>, written |-> 0,
                      pc |-> "none", ctl |-> "unborn", fd |-> NoFd]]

(* The writing thread owns the mutex from its test of the queue on. *)
MutexHeld(o) == wr[o].pc \in {"write", "writing", "disconnectH"}

(* The constructor and the setters, before the thread exists. *)
WriteQNew(o) ==
  /\ wr[o].ctl = "unborn"
  /\ createFifo(addrWrite[o])
  /\ wr' = [wr EXCEPT ![o].ctl = "stopped"]

SetWriteHandler(o, h) ==
  /\ wr[o].ctl = "stopped" /\ h \notin wr[o].handlers
  /\ wr' = [wr EXCEPT ![o].handlers = @ \cup {h}]
  /\ UNCHANGED kernel

WriteReconnectTrue(o) ==
  /\ wr[o].ctl = "stopped" /\ ~wr[o].reconnect
  /\ wr' = [wr EXCEPT ![o].reconnect = TRUE]
  /\ UNCHANGED kernel

(* startWrite throws, changing nothing, unless the two handlers are set. *)
StartWrite(o) ==
  /\ wr[o].ctl = "stopped" /\ wr[o].handlers = WriteHandlers
  /\ wr' = [wr EXCEPT ![o].ctl = "started", ![o].pc = "connect",
                      ![o].runWrite = TRUE]
  /\ UNCHANGED kernel

(* pushData, from any thread and at any time; a null pointer is ignored. *)
PushData(o, m) ==
  /\ wr[o].ctl # "unborn" /\ ~MutexHeld(o)
  /\ wr' = [wr EXCEPT ![o].queue = Append(@, m)]
  /\ UNCHANGED kernel

-----------------------------------------------------------------------------
(* connect() *)
WriteConnect(o) ==
  /\ wr[o].pc = "connect"
  /\ wr' = [wr EXCEPT ![o].pc = "open", ![o].waitOpen = FALSE]
  /\ UNCHANGED kernel

(* Mutant: a failing open is recorded as descriptor 0. *)
WriteOpenAsZero(o) ==
  /\ wr[o].pc = "open"
  /\ \/ /\ openFifo(WriteThread(o), addrWrite[o], "W")
        /\ wr' = [wr EXCEPT ![o].pc = "opening"]
     \/ /\ openFifoFails(WriteThread(o), addrWrite[o])
        /\ wr' = [wr EXCEPT ![o].pc = "opened", ![o].fifoFd = 0]

WriteOpen(o) ==
  /\ wr[o].pc = "open"
  /\ \/ /\ openFifo(WriteThread(o), addrWrite[o], "W")
        /\ wr' = [wr EXCEPT ![o].pc = "opening"]
     \/ /\ openFifoFails(WriteThread(o), addrWrite[o])
        /\ wr' = [wr EXCEPT ![o].pc = "opened", ![o].fifoFd = NoFd]

WriteOpenReturns(o) ==
  /\ wr[o].pc = "opening"
  /\ openFifoReturns(WriteThread(o))
  /\ wr' = [wr EXCEPT ![o].pc = "opened", ![o].fifoFd = sys[WriteThread(o)].fd]

WriteOpened(o) ==
  /\ wr[o].pc = "opened"
  /\ wr' = [wr EXCEPT ![o].pc = "check", ![o].waitOpen = TRUE]
  /\ UNCHANGED kernel

WriteCheck(o) ==
  /\ wr[o].pc = "check"
  /\ wr' = [wr EXCEPT ![o].pc =
              IF wr[o].runWrite /\ wr[o].fifoFd # NoFd THEN "connected" ELSE "loop"]
  /\ UNCHANGED kernel

WriteConnected(o) ==
  /\ wr[o].pc = "connected"
  /\ wr' = [wr EXCEPT ![o].pc = "connectH", ![o].waitConnect = TRUE]
  /\ UNCHANGED kernel

WriteConnectHandlerReturns(o) ==
  /\ wr[o].pc = "connectH"
  /\ wr' = [wr EXCEPT ![o].pc = "loop"]
  /\ UNCHANGED kernel

-----------------------------------------------------------------------------
(* writeFifo(): the inner while; with an empty queue a turn only takes and *)
(* releases the mutex.                                                     *)
WriteLoop(o) ==
  /\ wr[o].pc = "loop"
  /\ wr' = [wr EXCEPT ![o].pc =
              IF wr[o].waitConnect /\ wr[o].runWrite THEN "lock" ELSE "again"]
  /\ UNCHANGED kernel

(* Mutant: the last message of the queue is not written. *)
WriteLockAllButOne(o) ==
  /\ wr[o].pc = "lock"
  /\ wr' = [wr EXCEPT ![o].pc = IF Len(wr[o].queue) <= 1 THEN "loop" ELSE "write"]
  /\ UNCHANGED kernel

WriteLock(o) ==
  /\ wr[o].pc = "lock"
  /\ wr' = [wr EXCEPT ![o].pc = IF wr[o].queue = <<>> THEN "loop" ELSE "write"]
  /\ UNCHANGED kernel

(* Mutant: waitConnect is not reset. *)
WriteDownStillConnected(o) == wr' = [wr EXCEPT ![o].pc = "disconnectH"]

(* Mutant: a write that failed is repeated on the spot. *)
WriteDownRetries(o) == wr' = [wr EXCEPT ![o].pc = "write"]

(* write() returned -1 *)
WriteDown(o) ==
  wr' = [wr EXCEPT ![o].pc = "disconnectH", ![o].waitConnect = FALSE]

WriteCall(o) ==
  /\ wr[o].pc = "write"
  /\ IF Usable(WriteThread(o), wr[o].fifoFd, "W")
     THEN /\ IoCall(WriteThread(o), "write", wr[o].fifoFd)
          /\ wr' = [wr EXCEPT ![o].pc = "writing", ![o].written = 0]
     ELSE WriteDown(o) /\ UNCHANGED kernel

WriteUnits(o) ==
  LET m == Head(wr[o].queue) IN
  /\ wr[o].pc = "writing" /\ wr[o].written < sizeN[m]
  /\ WriteUnit(WriteThread(o), <<m, wr[o].written + 1>>)
  /\ wr' = [wr EXCEPT ![o].written = @ + 1]

(* Mutant: a message written in part stays in the queue. *)
WritePopIfWhole(o) ==
  /\ wr[o].pc = "writing"
  /\ \/ wr[o].written = sizeN[Head(wr[o].queue)]
     \/ wr[o].written > 0 /\ BrokenPipe(WriteThread(o))
  /\ IoReturn(WriteThread(o))
  /\ wr' = [wr EXCEPT ![o].pc = "loop", ![o].written = 0,
              ![o].queue = IF wr[o].written = sizeN[Head(@)] THEN Tail(@) ELSE @]

(* Mutant: a message that was written is not removed. *)
WriteKeeps(o) ==
  /\ wr[o].pc = "writing"
  /\ \/ wr[o].written = sizeN[Head(wr[o].queue)]
     \/ wr[o].written > 0 /\ BrokenPipe(WriteThread(o))
  /\ IoReturn(WriteThread(o))
  /\ wr' = [wr EXCEPT ![o].pc = "loop", ![o].written = 0]

(* All is written, or the readers left after a part was: write() returns a *)
(* count other than -1, and pop() removes the message.                     *)
WritePop(o) ==
  /\ wr[o].pc = "writing"
  /\ \/ wr[o].written = sizeN[Head(wr[o].queue)]
     \/ wr[o].written > 0 /\ BrokenPipe(WriteThread(o))
  /\ IoReturn(WriteThread(o))
  /\ wr' = [wr EXCEPT ![o].pc = "loop", ![o].queue = Tail(@), ![o].written = 0]

(* Mutant: a message that could not be written is dropped. *)
WriteFailsAndPops(o) ==
  /\ wr[o].pc = "writing"
  /\ wr[o].written = 0 /\ sizeN[Head(wr[o].queue)] > 0
  /\ BrokenPipe(WriteThread(o))
  /\ IoReturn(WriteThread(o))
  /\ wr' = [wr EXCEPT ![o].pc = "disconnectH", ![o].waitConnect = FALSE,
                      ![o].queue = Tail(@)]

(* EPIPE before anything was written: the message stays in the queue. *)
WriteFails(o) ==
  /\ wr[o].pc = "writing"
  /\ wr[o].written = 0 /\ sizeN[Head(wr[o].queue)] > 0
  /\ BrokenPipe(WriteThread(o))
  /\ IoReturn(WriteThread(o))
  /\ WriteDown(o)

WriteDisconnectHandlerReturns(o) ==
  /\ wr[o].pc = "disconnectH"
  /\ wr' = [wr EXCEPT ![o].pc = "again"]
  /\ UNCHANGED kernel

(* do ... while(reconnect) *)
WriteAgain(o) ==
  /\ wr[o].pc = "again"
  /\ wr' = [wr EXCEPT ![o].pc = IF wr[o].reconnect THEN "connect" ELSE "done"]
  /\ UNCHANGED kernel

-----------------------------------------------------------------------------
(* stopWrite() *)
StopWrite(o) ==
  /\ wr[o].ctl = "started"
  /\ wr' = [wr EXCEPT ![o].ctl = "unrun", ![o].runWrite = FALSE]
  /\ UNCHANGED kernel

(* Mutant: stopWrite() does not call the disconnect callback. *)
StopWriteSilently(o) ==
  /\ wr[o].ctl = "unrun"
  /\ wr' = [wr EXCEPT ![o].ctl = "testOpen", ![o].reconnect = FALSE]
  /\ UNCHANGED kernel

StopWriteReconnect(o) ==
  /\ wr[o].ctl = "unrun"
  /\ wr' = [wr EXCEPT ![o].ctl = "disconnectH", ![o].reconnect = FALSE]
  /\ UNCHANGED kernel

(* The disconnect callback, whether or not there is a connection. *)
StopWriteHandlerReturns(o) ==
  /\ wr[o].ctl = "disconnectH"
  /\ wr' = [wr EXCEPT ![o].ctl = "testOpen"]
  /\ UNCHANGED kernel

(* Mutant: a thread blocked in open is not released. *)
StopWriteOnlyCloses(o) ==
  /\ wr[o].ctl = "testOpen"
  /\ wr' = [wr EXCEPT ![o].ctl = "close"]
  /\ UNCHANGED kernel

StopWriteTestOpen(o) ==
  /\ wr[o].ctl = "testOpen"
  /\ wr' = [wr EXCEPT ![o].ctl = IF wr[o].waitOpen THEN "close" ELSE "release"]
  /\ UNCHANGED kernel

(* The opposite end is opened to let go a thread blocked in open. *)
StopWriteRelease(o) ==
  /\ wr[o].ctl = "release"
  /\ \/ /\ openFifo(Caller(o), addrWrite[o], "R")
        /\ wr' = [wr EXCEPT ![o].ctl = "releasing"]
     \/ /\ openFifoFails(Caller(o), addrWrite[o])
        /\ wr' = [wr EXCEPT ![o].ctl = "releaseClose", ![o].fd = NoFd]

StopWriteReleased(o) ==
  /\ wr[o].ctl = "releasing"
  /\ openFifoReturns(Caller(o))
  /\ wr' = [wr EXCEPT ![o].ctl = "releaseClose", ![o].fd = sys[Caller(o)].fd]

StopWriteReleaseClose(o) ==
  /\ wr[o].ctl = "releaseClose"
  /\ Close(Caller(o), wr[o].fd)
  /\ wr' = [wr EXCEPT ![o].ctl = "close", ![o].fd = NoFd]

(* The number is read from fifoFd first, as in stopRead(). *)
StopWriteTakes(o) ==
  /\ wr[o].ctl = "close"
  /\ wr' = [wr EXCEPT ![o].ctl = "closing", ![o].fd = wr[o].fifoFd]
  /\ UNCHANGED kernel

StopWriteClose(o) ==
  /\ wr[o].ctl = "closing"
  /\ Close(Caller(o), wr[o].fd)
  /\ wr' = [wr EXCEPT ![o].ctl = "join", ![o].fd = NoFd]

(* What is left in the queue stays there, for the next startWrite. *)
StopWriteJoin(o) ==
  /\ wr[o].ctl = "join" /\ wr[o].pc = "done"
  /\ wr' = [wr EXCEPT ![o].ctl = "stopped", ![o].pc = "none",
                      ![o].waitConnect = FALSE]
  /\ UNCHANGED kernel

-----------------------------------------------------------------------------
(* The steps of the writing thread outside its callbacks and its write(),  *)
(* and those of the call of stopWrite() outside the callback.              *)
WriteThreadStep(o) ==
  \/ WriteConnect(o) \/ WriteOpen(o) \/ WriteOpenReturns(o) \/ WriteOpened(o)
  \/ WriteCheck(o) \/ WriteConnected(o) \/ WriteLoop(o) \/ WriteLock(o)
  \/ WriteCall(o) \/ WritePop(o) \/ WriteFails(o) \/ WriteAgain(o)

StopWriteStep(o) ==
  \/ StopWriteReconnect(o) \/ StopWriteTestOpen(o) \/ StopWriteRelease(o)
  \/ StopWriteReleased(o) \/ StopWriteReleaseClose(o) \/ StopWriteTakes(o)
  \/ StopWriteClose(o) \/ StopWriteJoin(o)
=============================================================================
