-------------------------------- MODULE Fifo --------------------------------
(***************************************************************************)
(* Class Fifo: a reader and a writer with a queue, started and stopped     *)
(* together.  The Fifo f consists of the FifoRead f and the WriteQImpl f;  *)
(* fifo[f] is its state.  number[t] is a local of a thread t that is in    *)
(* closeWrite() or closeRead().  The steps of start() and stop() are steps *)
(* of one thread, Caller(f): the reader is started before the writer and   *)
(* stopped after it.                                                       *)
(***************************************************************************)
EXTENDS FifoRead, FifoWriteQ

ASSUME FifoAssumption == Rd = Wr

VARIABLES
  fifo,      \* fifo[f]: is f started?
  number     \* number[t]: the number thread t has got and is about to close

FifoState == {"start", "stop"}

FifoInit ==
  /\ FifoReadInit /\ FifoWriteQInit
  /\ fifo = [f \in Rd |-> "stop"]
  /\ number = [t \in Thread |-> NoFd]

(* The constructor and the setters, and configReconnect() or not: all that  *)
(* the owner does before there is a thread.                                 *)
FifoNew(f, reconnects) ==
  /\ rd[f].ctl = "unborn"
  /\ linked' = linked \cup {addrRead[f], addrWrite[f]}
  /\ rd' = [rd EXCEPT ![f].ctl = "stopped", ![f].handlers = Handlers,
                      ![f].reconnect = reconnects]
  /\ wr' = [wr EXCEPT ![f].ctl = "stopped", ![f].handlers = WriteHandlers,
                      ![f].reconnect = reconnects]
  /\ UNCHANGED <<fdt, sys, buf, fifo>>

(* start() *)
FifoStart(f) ==
  /\ fifo[f] = "stop" /\ rd[f].ctl = "stopped" /\ wr[f].ctl = "stopped"
  /\ fifo' = [fifo EXCEPT ![f] = "start"]
  /\ UNCHANGED <<kernel, rd, wr>>

FifoStartRead(f) ==
  /\ fifo[f] = "start" /\ wr[f].ctl = "stopped"
  /\ StartRead(f)
  /\ UNCHANGED <<fifo, wr>>

FifoStartWrite(f) ==
  /\ fifo[f] = "start" /\ rd[f].ctl = "started"
  /\ StartWrite(f)
  /\ UNCHANGED <<fifo, rd>>

(* stop() *)
FifoStop(f) ==
  /\ fifo[f] = "start" /\ rd[f].ctl = "started"
  /\ StopWrite(f)
  /\ fifo' = [fifo EXCEPT ![f] = "stop"]
  /\ UNCHANGED rd

FifoStopWrite(f) == StopWriteStep(f) /\ UNCHANGED <<fifo, rd>>

FifoStopRead(f) ==
  /\ \/ fifo[f] = "stop" /\ wr[f].ctl = "stopped" /\ StopRead(f)
     \/ StopReadStep(f)
  /\ UNCHANGED <<fifo, wr>>

(* No call of start() or stop() is in progress. *)
FifoIdle(f) ==
  \/ fifo[f] = "start" /\ rd[f].ctl = "started" /\ wr[f].ctl = "started"
  \/ fifo[f] = "stop" /\ rd[f].ctl = "stopped" /\ wr[f].ctl = "stopped"

FifoWrite(f, m) == PushData(f, m) /\ UNCHANGED <<fifo, rd>>

(* closeWrite() and closeRead(), in thread t: getFifoFd() gives the number,  *)
(* and the half's own thread goes on while it is being closed.              *)
Takes(t, n) ==
  /\ number' = [number EXCEPT ![t] = n]
  /\ UNCHANGED <<kernel, fifo, rd, wr>>

closeWriteTakes(t, f) == Takes(t, wr[f].fifoFd)

closeReadTakes(t, f) == Takes(t, rd[f].fifoFd)

closeTaken(t) ==
  /\ Close(t, number[t])
  /\ number' = [number EXCEPT ![t] = NoFd]
  /\ UNCHANGED <<fifo, rd, wr>>

(* The two threads between their callbacks. *)
FifoReading(f) ==
  /\ ReadThreadStep(f) \/ ReadData(f) \/ ReadMessageHandlerReturns(f)
  /\ UNCHANGED <<fifo, wr>>

FifoWriting(f) ==
  /\ WriteThreadStep(f) \/ WriteUnits(f)
  /\ UNCHANGED <<fifo, rd>>
=============================================================================
