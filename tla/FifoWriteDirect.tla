--------------------------- MODULE FifoWriteDirect ---------------------------
(***************************************************************************)
(* Class WriteDirectImpl: the writing half of a channel without a queue.   *)
(*                                                                         *)
(* wd[o] is the object o.  startWrite() leaves the open to a task of its   *)
(* own (task), waits for it with a timeout, and decides by waitOpen and    *)
(* fifoFd whether it is connected; the future it has waited on is then     *)
(* destroyed, and that waits for the task in any case.  pushData() writes  *)
(* in the thread that calls it (pc).  stopWrite() may be called by another *)
(* thread (stop), as Client::stop() does, also while startWrite() waits.   *)
(***************************************************************************)
EXTENDS IFifoWriter

CONSTANTS
  Wd,         \* the WriteDirectImpl objects
  addrDirect  \* addrDirect[o]: the pipe object o writes

AsyncThread(o) == <<o, "async">>
StopThread(o)  == <<o, "stop">>

ASSUME FifoWriteDirectAssumption ==
  /\ addrDirect \in [Wd -> Pipe]
  /\ \A o \in Wd : /\ {AsyncThread(o), StopThread(o), Caller(o)} \subseteq Thread
                   /\ ProcOf[AsyncThread(o)] = ProcOf[Caller(o)]
                   /\ ProcOf[StopThread(o)] = ProcOf[Caller(o)]

VARIABLE wd

DirectHandlers == {"connect", "disconnect"}

DirectTask == {"none", "begin", "open", "opening", "opened", "done"}

DirectPc == {"unborn", "idle", "wait", "test", "throw", "connected", "connectH",
             "future", "write", "writing", "disconnectH"}

DirectStop == {"none", "release", "releasing", "releaseClose", "close",
               "closing", "down", "disconnectH"}

DirectState == [handlers : SUBSET DirectHandlers, waitOpen : BOOLEAN,
                waitConnect : BOOLEAN, fifoFd : Fd \cup {NoFd}, message : 0..MaxPushes,
                written : Nat, task : DirectTask, pc : DirectPc,
                stop : DirectStop, fd : Fd \cup {NoFd}]

FifoWriteDirectInit ==
  wd = [o \in Wd |-> [handlers |-> {}, waitOpen |-> FALSE, waitConnect |-> FALSE,
                      fifoFd |-> NoFd, message |-> 0, written |-> 0, task |-> "none",
                      pc |-> "unborn", stop |-> "none", fd |-> NoFd]]

(* The constructor (which throws when the time to wait is 0) and setters. *)
DirectNew(o) ==
  /\ wd[o].pc = "unborn"
  /\ createFifo(addrDirect[o])
  /\ wd' = [wd EXCEPT ![o].pc = "idle"]

SetDirectHandler(o, h) ==
  /\ wd[o].pc = "idle" /\ h \notin wd[o].handlers
  /\ wd' = [wd EXCEPT ![o].handlers = @ \cup {h}]
  /\ UNCHANGED kernel

-----------------------------------------------------------------------------
(* startWrite(); it throws, changing nothing, unless the handlers are set. *)
StartDirect(o) ==
  /\ wd[o].pc = "idle" /\ wd[o].handlers = DirectHandlers
  /\ wd' = [wd EXCEPT ![o].pc = "wait", ![o].task = "begin"]
  /\ UNCHANGED kernel

(* The task. *)
DirectBegin(o) ==
  /\ wd[o].task = "begin"
  /\ wd' = [wd EXCEPT ![o].task = "open", ![o].waitOpen = FALSE]
  /\ UNCHANGED kernel

(* Mutant: a failing open is recorded as descriptor 0. *)
DirectOpenAsZero(o) ==
  /\ wd[o].task = "open"
  /\ \/ /\ openFifo(AsyncThread(o), addrDirect[o], "W")
        /\ wd' = [wd EXCEPT ![o].task = "opening"]
     \/ /\ openFifoFails(AsyncThread(o), addrDirect[o])
        /\ wd' = [wd EXCEPT ![o].task = "opened", ![o].fifoFd = 0]

(* Mutant: the task opens the end the peer opens. *)
DirectOpenToRead(o) ==
  /\ wd[o].task = "open"
  /\ \/ /\ openFifo(AsyncThread(o), addrDirect[o], "R")
        /\ wd' = [wd EXCEPT ![o].task = "opening"]
     \/ /\ openFifoFails(AsyncThread(o), addrDirect[o])
        /\ wd' = [wd EXCEPT ![o].task = "opened", ![o].fifoFd = NoFd]

DirectOpen(o) ==
  /\ wd[o].task = "open"
  /\ \/ /\ openFifo(AsyncThread(o), addrDirect[o], "W")
        /\ wd' = [wd EXCEPT ![o].task = "opening"]
     \/ /\ openFifoFails(AsyncThread(o), addrDirect[o])
        /\ wd' = [wd EXCEPT ![o].task = "opened", ![o].fifoFd = NoFd]

DirectOpenReturns(o) ==
  /\ wd[o].task = "opening"
  /\ openFifoReturns(AsyncThread(o))
  /\ wd' = [wd EXCEPT ![o].task = "opened", ![o].fifoFd = sys[AsyncThread(o)].fd]

DirectOpened(o) ==
  /\ wd[o].task = "opened"
  /\ wd' = [wd EXCEPT ![o].task = "done", ![o].waitOpen = TRUE]
  /\ UNCHANGED kernel

(* wait_for: the task is done, or the time is over; the code does not ask. *)
DirectWaited(o) ==
  /\ wd[o].pc = "wait"
  /\ wd' = [wd EXCEPT ![o].pc = "test"]
  /\ UNCHANGED kernel

DirectTest(o) ==
  /\ wd[o].pc = "test"
  /\ wd' = [wd EXCEPT ![o].pc =
              IF ~wd[o].waitOpen /\ wd[o].fifoFd = NoFd THEN "throw" ELSE "connected"]
  /\ UNCHANGED kernel

(* The exception leaves connect() when the future is destroyed. *)
DirectThrow(o) ==
  /\ wd[o].pc = "throw" /\ wd[o].task = "done"
  /\ wd' = [wd EXCEPT ![o].pc = "idle", ![o].task = "none"]
  /\ UNCHANGED kernel

DirectConnected(o) ==
  /\ wd[o].pc = "connected"
  /\ wd' = [wd EXCEPT ![o].pc = "connectH", ![o].waitConnect = TRUE]
  /\ UNCHANGED kernel

DirectConnectHandlerReturns(o) ==
  /\ wd[o].pc = "connectH"
  /\ wd' = [wd EXCEPT ![o].pc = "future"]
  /\ UNCHANGED kernel

DirectStarted(o) ==
  /\ wd[o].pc = "future" /\ wd[o].task = "done"
  /\ wd' = [wd EXCEPT ![o].pc = "idle", ![o].task = "none"]
  /\ UNCHANGED kernel

-----------------------------------------------------------------------------
(* pushData(): it throws, changing nothing, while waitConnect is not set. *)
PushThrows(o) == wd[o].pc = "idle" /\ ~wd[o].waitConnect /\ UNCHANGED <<kernel, wd>>

(* write() returned -1 *)
DirectDown(o) ==
  wd' = [wd EXCEPT ![o].pc = "disconnectH", ![o].waitConnect = FALSE]

PushDirect(o, m) ==
  /\ wd[o].pc = "idle" /\ wd[o].waitConnect
  /\ wd' = [wd EXCEPT ![o].pc = "write", ![o].message = m, ![o].written = 0]
  /\ UNCHANGED kernel

(* stopWrite() may have closed the number since waitConnect was tested. *)
DirectWrite(o) ==
  /\ wd[o].pc = "write"
  /\ IF Usable(Caller(o), wd[o].fifoFd, "W")
     THEN /\ IoCall(Caller(o), "write", wd[o].fifoFd)
          /\ wd' = [wd EXCEPT ![o].pc = "writing"]
     ELSE DirectDown(o) /\ UNCHANGED kernel

DirectUnits(o) ==
  /\ wd[o].pc = "writing" /\ wd[o].written < sizeN[wd[o].message]
  /\ WriteUnit(Caller(o), <<wd[o].message, wd[o].written + 1>>)
  /\ wd' = [wd EXCEPT ![o].written = @ + 1]

(* Mutant: a message written in part is written again. *)
DirectWrittenAgain(o) ==
  /\ wd[o].pc = "writing"
  /\ \/ /\ wd[o].written = sizeN[wd[o].message]
        /\ IoReturn(Caller(o))
        /\ wd' = [wd EXCEPT ![o].pc = "idle", ![o].written = 0, ![o].message = 0]
     \/ /\ wd[o].written > 0 /\ BrokenPipe(Caller(o))
        /\ wd' = [wd EXCEPT ![o].written = 0]
        /\ UNCHANGED kernel

(* Mutant: write() returns when it has written something. *)
DirectWrittenShort(o) ==
  /\ wd[o].pc = "writing"
  /\ wd[o].written > 0 \/ sizeN[wd[o].message] = 0
  /\ IoReturn(Caller(o))
  /\ wd' = [wd EXCEPT ![o].pc = "idle", ![o].written = 0, ![o].message = 0]

(* All is written, or the readers left after a part was; both are success. *)
DirectWritten(o) ==
  /\ wd[o].pc = "writing"
  /\ \/ wd[o].written = sizeN[wd[o].message]
     \/ wd[o].written > 0 /\ BrokenPipe(Caller(o))
  /\ IoReturn(Caller(o))
  /\ wd' = [wd EXCEPT ![o].pc = "idle", ![o].written = 0, ![o].message = 0]

(* EPIPE before anything was written: the message is lost. *)
DirectFails(o) ==
  /\ wd[o].pc = "writing"
  /\ wd[o].written = 0 /\ sizeN[wd[o].message] > 0
  /\ BrokenPipe(Caller(o))
  /\ IoReturn(Caller(o))
  /\ DirectDown(o)

DirectDisconnectHandlerReturns(o) ==
  /\ wd[o].pc = "disconnectH"
  /\ wd' = [wd EXCEPT ![o].pc = "idle", ![o].message = 0]
  /\ UNCHANGED kernel

-----------------------------------------------------------------------------
(* stopWrite() *)
StopDirect(o) ==
  /\ wd[o].stop = "none"
  /\ wd' = [wd EXCEPT ![o].stop = IF wd[o].waitOpen THEN "close" ELSE "release"]
  /\ UNCHANGED kernel

(* Mutant: the end the task opens is opened once more. *)
StopDirectReleaseSame(o) ==
  /\ wd[o].stop = "release"
  /\ \/ /\ openFifo(StopThread(o), addrDirect[o], "W")
        /\ wd' = [wd EXCEPT ![o].stop = "releasing"]
     \/ /\ openFifoFails(StopThread(o), addrDirect[o])
        /\ wd' = [wd EXCEPT ![o].stop = "releaseClose", ![o].fd = NoFd]

StopDirectRelease(o) ==
  /\ wd[o].stop = "release"
  /\ \/ /\ openFifo(StopThread(o), addrDirect[o], "R")
        /\ wd' = [wd EXCEPT ![o].stop = "releasing"]
     \/ /\ openFifoFails(StopThread(o), addrDirect[o])
        /\ wd' = [wd EXCEPT ![o].stop = "releaseClose", ![o].fd = NoFd]

StopDirectReleased(o) ==
  /\ wd[o].stop = "releasing"
  /\ openFifoReturns(StopThread(o))
  /\ wd' = [wd EXCEPT ![o].stop = "releaseClose", ![o].fd = sys[StopThread(o)].fd]

StopDirectReleaseClose(o) ==
  /\ wd[o].stop = "releaseClose"
  /\ Close(StopThread(o), wd[o].fd)
  /\ wd' = [wd EXCEPT ![o].stop = "close", ![o].fd = NoFd]

(* The number is read from fifoFd first, as in stopRead(). *)
StopDirectTakes(o) ==
  /\ wd[o].stop = "close"
  /\ wd' = [wd EXCEPT ![o].stop = "closing", ![o].fd = wd[o].fifoFd]
  /\ UNCHANGED kernel

StopDirectClose(o) ==
  /\ wd[o].stop = "closing"
  /\ Close(StopThread(o), wd[o].fd)
  /\ wd' = [wd EXCEPT ![o].stop = "down", ![o].fd = NoFd]

(* Mutant: stopWrite() does not call the disconnect callback. *)
StopDirectSilently(o) ==
  /\ wd[o].stop = "down"
  /\ wd' = [wd EXCEPT ![o].stop = "none", ![o].waitConnect = FALSE]
  /\ UNCHANGED kernel

StopDirectDown(o) ==
  /\ wd[o].stop = "down"
  /\ wd' = [wd EXCEPT ![o].stop = "disconnectH", ![o].waitConnect = FALSE]
  /\ UNCHANGED kernel

StopDirectHandlerReturns(o) ==
  /\ wd[o].stop = "disconnectH"
  /\ wd' = [wd EXCEPT ![o].stop = "none"]
  /\ UNCHANGED kernel

-----------------------------------------------------------------------------
(* The task; the caller in startWrite() and pushData(), but for callbacks  *)
(* and the writing itself; stopWrite() but for its callback.               *)
DirectTaskStep(o) ==
  \/ DirectBegin(o) \/ DirectOpen(o) \/ DirectOpenReturns(o) \/ DirectOpened(o)

DirectCallStep(o) ==
  \/ DirectWaited(o) \/ DirectTest(o) \/ DirectThrow(o) \/ DirectConnected(o)
  \/ DirectStarted(o) \/ DirectWrite(o) \/ DirectWritten(o) \/ DirectFails(o)

StopDirectStep(o) ==
  \/ StopDirectRelease(o) \/ StopDirectReleased(o) \/ StopDirectReleaseClose(o)
  \/ StopDirectTakes(o) \/ StopDirectClose(o) \/ StopDirectDown(o)
=============================================================================
