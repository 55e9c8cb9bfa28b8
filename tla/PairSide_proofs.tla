--------------------------- MODULE PairSide_proofs ---------------------------
(***************************************************************************)
(* Theorems about PairSide, for any messages, any length of the pipe and   *)
(* of the reader's buffer, and any number of starts: it is well typed, and *)
(* the pair implements the abstract channel.                               *)
(***************************************************************************)
EXTENDS PairSide, FifoLib_proofs

Unit == (1..MaxPushes) \X Nat
R == ReadThread(reader)
W == WriteThread(writer)

(* A thread waiting in open has reserved a descriptor. *)
OpenHasFd == \A t \in Thread : sys[t].call = "open" => sys[t].fd \in Fd

(* A thread in read() or write() holds the end it uses. *)
ReadHolds  == rd[reader].pc = "reading" => sys[R].call = "read" /\ sys[R].end = EndOf(pipe, "R")
WriteHolds == wr[writer].pc = "writing" => sys[W].call = "write" /\ sys[W].end = EndOf(pipe, "W")

(* A message is written only while it is in the queue, and by the thread. *)
WriteQueued ==
  /\ wr[writer].pc \in {"write", "writing"} => wr[writer].queue # <<>>
  /\ wr[writer].written > 0 => wr[writer].pc = "writing"
  /\ wr[writer].ctl \in {"unborn", "stopped"} => wr[writer].pc = "none"

Inv == TypeOK /\ OpenHasFd /\ ReadHolds /\ WriteHolds /\ WriteQueued

-----------------------------------------------------------------------------
(* The constants *)

LEMMA PairConstants ==
  /\ reader \in Rd /\ writer \in Wr /\ pipe \in Pipe /\ NoPipe # pipe
  /\ addrRead[reader] = pipe /\ addrWrite[writer] = pipe
  /\ R \in Thread /\ Caller(reader) \in Thread
  /\ W \in Thread /\ Caller(writer) \in Thread
  /\ R # W /\ Caller(reader) # R /\ Caller(reader) # W
  /\ Caller(writer) # W /\ Caller(writer) # R
<1>1. reader \in Rd /\ writer \in Wr /\ pipe \in Pipe /\ Pipe = {pipe}
  BY PairSideAssumption
<1>2. addrRead[reader] = pipe /\ addrWrite[writer] = pipe
  BY <1>1, FifoReadAssumption, FifoWriteQAssumption
<1>3. NoPipe # pipe
  BY <1>1, NamedPipeAssumption
<1>4. /\ R \in Thread /\ Caller(reader) \in Thread
      /\ W \in Thread /\ Caller(writer) \in Thread
  BY <1>1, ReadConstants, WriteConstants DEF R, W
<1>5. /\ R # W /\ Caller(reader) # R /\ Caller(reader) # W
      /\ Caller(writer) # W /\ Caller(writer) # R
  BY DEF R, W, ReadThread, WriteThread, Caller
<1> QED
  BY <1>1, <1>2, <1>3, <1>4, <1>5

(* There is one pipe: an end is known by its mode. *)
LEMMA OneEnd ==
  ASSUME NEW e \in End
  PROVE  e = EndOf(pipe, e.mode)
BY PairSideAssumption DEF End, EndOf

-----------------------------------------------------------------------------
(* What a step does to the pipe.  A thread calls, and has a descriptor or  *)
(* reserves one; or it returns or closes; or the pipe is left alone.       *)
Calls(t) ==
  \/ \E m \in {"R", "W"} : OpenCall(t, EndOf(pipe, m))
  \/ OpenReturn(t)
  \/ \E c \in {"read", "write"}, f \in Fd, m \in {"R", "W"} :
       Usable(t, f, m) /\ IoCall(t, c, f)

Leaves(t) == IoReturn(t) \/ \E f : Close(t, f)

Quiet == UNCHANGED <<fdt, sys, buf>>

Turns(t) == Quiet \/ Calls(t) \/ Leaves(t)

(* The pipe is empty once both ends are gone. *)
Emptied(b) == buf'[pipe] = IF ends' = {} THEN <<>> ELSE b

LEMMA LiveEnds == Live(pipe) <=> ends # {}
BY DEF Live, ends

LEMMA RemainingEmptied ==
  ASSUME NEW b, buf' = Remaining(b)
  PROVE  Emptied(b[pipe])
<1>1. Live(pipe)' <=> ends' # {}
  BY DEF Live, ends
<1>2. buf'[pipe] = IF Live(pipe)' THEN b[pipe] ELSE <<>>
  BY PairConstants DEF Remaining
<1> QED
  BY <1>1, <1>2 DEF Emptied

(* A descriptor that holds an end of the pipe keeps it. *)
LEMMA DescriptorHolds ==
  ASSUME NEW q \in Process, NEW f \in Fd, NEW m \in {"R", "W"},
         fdt'[q][f] = EndOf(pipe, m)
  PROVE  ends' # {}
BY DEF ends, Held

LEMMA CallHolds ==
  ASSUME NEW t \in Thread, NEW m \in {"R", "W"}, sys'[t].end = EndOf(pipe, m)
  PROVE  m \in ends'
BY DEF ends, Held

(* What a thread finds usable is an end of the pipe. *)
LEMMA UsableEnd ==
  ASSUME KernelTypeOK(Unit), NEW t \in Thread, NEW f, NEW m \in {"R", "W"},
         Usable(t, f, m)
  PROVE  f \in Fd /\ ProcOf[t] \in Process /\ fdt[ProcOf[t]][f] = EndOf(pipe, m)
<1>1. f \in Fd /\ ProcOf[t] \in Process
  BY NamedPipeAssumption DEF Usable
<1>2. fdt[ProcOf[t]][f] \in End \cup {NoEnd} /\ fdt[ProcOf[t]][f].mode = m
  BY <1>1 DEF KernelTypeOK, Usable
<1>3. fdt[ProcOf[t]][f] \in End
  BY <1>2 DEF NoEnd
<1> QED
  BY <1>1, <1>2, <1>3, OneEnd

(* A step of one thread leaves the calls of the others. *)
Apart(t) ==
  \A u \in Thread \ {t} : sys'[u].call = sys[u].call /\ sys'[u].end = sys[u].end

LEMMA OpenCallEffect ==
  ASSUME KernelTypeOK(Unit), OpenHasFd, NEW t \in Thread, NEW m \in {"R", "W"},
         OpenCall(t, EndOf(pipe, m))
  PROVE  /\ Apart(t) /\ OpenHasFd' /\ m \in ends' /\ buf' = buf
<1>1. PICK f \in FreeFds(ProcOf[t]) :
        sys' = [u \in Thread |->
            IF u = t
            THEN [call |-> "open", end |-> EndOf(pipe, m), fd |-> f,
                  ready |-> Held(Opposite(EndOf(pipe, m)))]
            ELSE IF sys[u].call = "open" /\ sys[u].end = Opposite(EndOf(pipe, m))
                 THEN [sys[u] EXCEPT !.ready = TRUE]
                 ELSE sys[u]]
  BY DEF OpenCall
<1>2. f \in Fd
  BY DEF FreeFds
<1>3. sys'[t].end = EndOf(pipe, m) /\ sys'[t].fd = f
  BY <1>1
<1>4. ASSUME NEW u \in Thread \ {t}
      PROVE  sys'[u].call = sys[u].call /\ sys'[u].end = sys[u].end /\ sys'[u].fd = sys[u].fd
  <2>1. sys'[u] = sys[u] \/ sys'[u] = [sys[u] EXCEPT !.ready = TRUE]
    BY <1>1
  <2>2. sys[u] \in [call  : {"none", "open", "read", "write"}, end : End \cup {NoEnd},
                    fd    : Fd \cup {NoFd}, ready : BOOLEAN]
    BY DEF KernelTypeOK
  <2> QED
    BY <2>1, <2>2
<1>5. OpenHasFd'
  BY <1>2, <1>3, <1>4 DEF OpenHasFd
<1>6. m \in ends'
  BY <1>3, CallHolds
<1> QED
  BY <1>4, <1>5, <1>6 DEF Apart, OpenCall

LEMMA OpenReturnEffect ==
  ASSUME KernelTypeOK(Unit), OpenHasFd, NEW t \in Thread, OpenReturn(t)
  PROVE  /\ Apart(t) /\ OpenHasFd' /\ ends' # {} /\ buf' = buf
<1>1. /\ sys[t].call = "open" /\ sys' = [sys EXCEPT ![t] = Idle] /\ buf' = buf
      /\ fdt' = [fdt EXCEPT ![ProcOf[t]][sys[t].fd] = sys[t].end]
  BY DEF OpenReturn
<1>2. /\ sys[t].fd \in Fd /\ sys[t].end \in End /\ ProcOf[t] \in Process
      /\ fdt \in [Process -> [Fd -> End \cup {NoEnd}]] /\ sys'[t] = Idle
      /\ \A u \in Thread \ {t} : sys'[u] = sys[u]
  BY <1>1, NamedPipeAssumption DEF KernelTypeOK, OpenHasFd
<1>3. fdt'[ProcOf[t]][sys[t].fd] = sys[t].end
  BY <1>1, <1>2
<1>4. sys[t].end.mode \in {"R", "W"}
  BY <1>2 DEF End
<1>5. ends' # {}
  BY <1>2, <1>3, <1>4, OneEnd, DescriptorHolds
<1>6. OpenHasFd'
  BY <1>2 DEF OpenHasFd, Idle
<1> QED
  BY <1>1, <1>2, <1>5, <1>6 DEF Apart

LEMMA IoCallEffect ==
  ASSUME KernelTypeOK(Unit), OpenHasFd, NEW t \in Thread, NEW c \in {"read", "write"},
         NEW f, NEW m \in {"R", "W"}, Usable(t, f, m), IoCall(t, c, f)
  PROVE  /\ Apart(t) /\ OpenHasFd' /\ buf' = buf
         /\ sys'[t].call = c /\ sys'[t].end = EndOf(pipe, m) /\ m \in ends'
<1>1. /\ sys' = [sys EXCEPT ![t] = [call |-> c, end |-> fdt[ProcOf[t]][f],
                                    fd |-> NoFd, ready |-> FALSE]]
      /\ buf' = buf
  BY DEF IoCall
<1>2. /\ sys'[t] = [call |-> c, end |-> EndOf(pipe, m), fd |-> NoFd, ready |-> FALSE]
      /\ \A u \in Thread \ {t} : sys'[u] = sys[u]
  BY <1>1, UsableEnd DEF KernelTypeOK
<1>3. OpenHasFd'
  BY <1>2 DEF OpenHasFd
<1>4. m \in ends'
  BY <1>2, CallHolds
<1> QED
  BY <1>1, <1>2, <1>3, <1>4 DEF Apart

LEMMA LeavesEffect ==
  ASSUME KernelTypeOK(Unit), OpenHasFd, NEW t \in Thread, Leaves(t)
  PROVE  Apart(t) /\ OpenHasFd' /\ Emptied(buf[pipe])
<1>1. CASE IoReturn(t)
  <2>1. sys'[t] = Idle /\ \A u \in Thread \ {t} : sys'[u] = sys[u]
    BY <1>1 DEF IoReturn, KernelTypeOK
  <2>2. Apart(t) /\ OpenHasFd'
    BY <2>1 DEF Apart, OpenHasFd, Idle
  <2> QED
    BY <1>1, <2>2, RemainingEmptied DEF IoReturn
<1>2. CASE \E f : Close(t, f)
  <2>1. sys' = sys /\ buf' = Remaining(buf)
    BY <1>2 DEF Close
  <2> QED
    BY <2>1, RemainingEmptied DEF Apart, OpenHasFd
<1> QED
  BY <1>1, <1>2 DEF Leaves

(* All of these but the quiet ones leave in the pipe what was there, or    *)
(* nothing when both ends are gone.                                        *)
LEMMA TurnsEffect ==
  ASSUME KernelTypeOK(Unit), OpenHasFd, NEW t \in Thread, Turns(t)
  PROVE  /\ Apart(t) /\ OpenHasFd'
         /\ (ends' = ends /\ buf' = buf) \/ Emptied(buf[pipe])
<1>1. CASE Quiet
  BY <1>1 DEF Quiet, Apart, OpenHasFd, ends, Held
<1>2. CASE Calls(t)
  <2>1. CASE \E m \in {"R", "W"} : OpenCall(t, EndOf(pipe, m))
    BY <2>1, OpenCallEffect DEF Emptied
  <2>2. CASE OpenReturn(t)
    BY <2>2, OpenReturnEffect DEF Emptied
  <2>3. CASE \E c \in {"read", "write"}, f \in Fd, m \in {"R", "W"} :
               Usable(t, f, m) /\ IoCall(t, c, f)
    BY <2>3, IoCallEffect DEF Emptied
  <2> QED
    BY <1>2, <2>1, <2>2, <2>3 DEF Calls
<1>3. CASE Leaves(t)
  BY <1>3, LeavesEffect
<1> QED
  BY <1>1, <1>2, <1>3 DEF Turns

-----------------------------------------------------------------------------
(* Type correctness, one lemma per side *)

LEMMA InitType == Init => TypeOK
<1> SUFFICES ASSUME Init PROVE TypeOK
  OBVIOUS
<1>1. KernelTypeOK(Unit)
  BY KernelInitType DEF Init
<1>2. rd \in [Rd -> ReadState] /\ wr \in [Wr -> WriteState]
  BY FifoReadInitType, FifoWriteQInitType DEF Init
<1>3. data \in Seq(Unit) /\ pushed \in 0..MaxPushes /\ starts \in [{"R", "W"} -> 0..MaxStarts]
  BY PairSideAssumption, IFifoWriterAssumption, EmptySeq DEF Init
<1> QED
  BY <1>1, <1>2, <1>3 DEF TypeOK, Unit

LEMMA StartsType ==
  ASSUME TypeOK, NEW m \in {"R", "W"}, Starts(m)
  PROVE  starts' \in [{"R", "W"} -> 0..MaxStarts] /\ data' = data /\ pushed' = pushed
BY PairSideAssumption DEF Starts, TypeOK

LEMMA ReaderType ==
  ASSUME TypeOK, NewReader \/ StartReader \/ StopReader \/ StoppingReader
  PROVE  TypeOK'
<1>1. /\ KernelTypeOK(Unit) /\ rd \in [Rd -> ReadState] /\ wr \in [Wr -> WriteState]
      /\ reader \in Rd
  BY PairConstants DEF TypeOK, Unit
<1>2. CASE NewReader
  <2>1. KernelTypeOK(Unit)'
    BY <1>1, <1>2, PairConstants, PathType DEF NewReader, createFifo
  <2>2. rd' \in [Rd -> ReadState]
    <3>1. Reconnects \in BOOLEAN /\ Handlers \in SUBSET Handlers /\ "stopped" \in ReadCtl
      BY PairSideAssumption DEF ReadCtl
    <3> QED
      BY <1>1, <1>2, <3>1, ReadFields DEF NewReader
  <2> QED
    BY <1>2, <2>1, <2>2 DEF NewReader, TypeOK, Unit, app
<1>3. CASE StartReader
  <2>1. KernelTypeOK(Unit)' /\ rd' \in [Rd -> ReadState]
    BY <1>1, <1>3, ReadOwnerType DEF StartReader
  <2>2. starts' \in [{"R", "W"} -> 0..MaxStarts] /\ data' = data /\ pushed' = pushed
    BY <1>3, StartsType DEF StartReader
  <2> QED
    BY <1>3, <2>1, <2>2 DEF StartReader, TypeOK, Unit
<1>4. CASE StopReader
  <2>1. KernelTypeOK(Unit)' /\ rd' \in [Rd -> ReadState]
    BY <1>1, <1>4, ReadOwnerType DEF StopReader
  <2> QED
    BY <1>4, <2>1 DEF StopReader, TypeOK, Unit, app
<1>5. CASE StoppingReader
  <2>1. KernelTypeOK(Unit)' /\ rd' \in [Rd -> ReadState]
    BY <1>1, <1>5, StopReadType DEF StoppingReader
  <2> QED
    BY <1>5, <2>1 DEF StoppingReader, TypeOK, Unit, app
<1> QED
  BY <1>2, <1>3, <1>4, <1>5

LEMMA ReadingType ==
  ASSUME TypeOK, Reading
  PROVE  TypeOK'
<1>1. /\ KernelTypeOK(Unit) /\ rd \in [Rd -> ReadState] /\ wr \in [Wr -> WriteState]
      /\ reader \in Rd
  BY PairConstants DEF TypeOK, Unit
<1>2. CASE UNCHANGED data /\ (ReadThreadStep(reader) \/ ReadMessageHandlerReturns(reader)
             \/ ReadConnectHandlerReturns(reader) \/ ReadDisconnectHandlerReturns(reader))
  <2>1. KernelTypeOK(Unit)' /\ rd' \in [Rd -> ReadState]
    BY <1>1, <1>2, ReadThreadType, ReadCallbackType
  <2> QED
    BY <1>2, <2>1 DEF Reading, TypeOK, Unit
<1>3. CASE ReadData(reader) /\ Collect
  <2>1. KernelTypeOK(Unit)' /\ rd' \in [Rd -> ReadState]
    BY <1>1, <1>3, ReadCallbackType
  <2>2. Chunk(R, MaxLine) \in Seq(Unit)
    BY <1>1, <1>3, PairConstants, ChunkType, FifoReadAssumption DEF ReadData, ReadReturn, R
  <2>3. data' \in Seq(Unit)
    BY <1>3, <2>2, ConcatProperties DEF Collect, TypeOK, Unit, R
  <2> QED
    BY <1>3, <2>1, <2>3 DEF Reading, TypeOK, Unit
<1> QED
  BY <1>2, <1>3 DEF Reading

LEMMA WriterType ==
  ASSUME TypeOK, NewWriter \/ StartWriter \/ StopWriter \/ StoppingWriter \/ Push
  PROVE  TypeOK'
<1>1. /\ KernelTypeOK(Unit) /\ rd \in [Rd -> ReadState] /\ wr \in [Wr -> WriteState]
      /\ writer \in Wr
  BY PairConstants DEF TypeOK, Unit
<1>2. CASE NewWriter
  <2>1. KernelTypeOK(Unit)'
    BY <1>1, <1>2, PairConstants, PathType DEF NewWriter, createFifo
  <2>2. wr' \in [Wr -> WriteState]
    <3>1. /\ Reconnects \in BOOLEAN /\ WriteHandlers \in SUBSET WriteHandlers
          /\ "stopped" \in WriteCtl
      BY PairSideAssumption DEF WriteCtl
    <3> QED
      BY <1>1, <1>2, <3>1, WriteFields DEF NewWriter
  <2> QED
    BY <1>2, <2>1, <2>2 DEF NewWriter, TypeOK, Unit, app
<1>3. CASE StartWriter
  <2>1. KernelTypeOK(Unit)' /\ wr' \in [Wr -> WriteState]
    BY <1>1, <1>3, WriteOwnerType DEF StartWriter
  <2>2. starts' \in [{"R", "W"} -> 0..MaxStarts] /\ data' = data /\ pushed' = pushed
    BY <1>3, StartsType DEF StartWriter
  <2> QED
    BY <1>3, <2>1, <2>2 DEF StartWriter, TypeOK, Unit
<1>4. CASE StopWriter
  <2>1. KernelTypeOK(Unit)' /\ wr' \in [Wr -> WriteState]
    BY <1>1, <1>4, WriteOwnerType DEF StopWriter
  <2> QED
    BY <1>4, <2>1 DEF StopWriter, TypeOK, Unit, app
<1>5. CASE StoppingWriter
  <2>1. KernelTypeOK(Unit)' /\ wr' \in [Wr -> WriteState]
    BY <1>1, <1>5, StopWriteType, WriteCallbackType DEF StoppingWriter
  <2> QED
    BY <1>5, <2>1 DEF StoppingWriter, TypeOK, Unit, app
<1>6. CASE Push
  <2>1. pushed + 1 \in 1..MaxPushes
    BY <1>6, IFifoWriterAssumption DEF Push, TypeOK
  <2>2. KernelTypeOK(Unit)' /\ wr' \in [Wr -> WriteState]
    BY <1>1, <1>6, <2>1, PushDataType DEF Push
  <2> QED
    BY <1>6, <2>1, <2>2 DEF Push, TypeOK, Unit
<1> QED
  BY <1>2, <1>3, <1>4, <1>5, <1>6

LEMMA WritingType ==
  ASSUME TypeOK, WriteQueued, Writing
  PROVE  TypeOK'
<1>1. /\ KernelTypeOK(Unit) /\ rd \in [Rd -> ReadState] /\ wr \in [Wr -> WriteState]
      /\ writer \in Wr
      /\ wr[writer].pc \in {"write", "writing"} => wr[writer].queue # <<>>
  BY PairConstants DEF TypeOK, Unit, WriteQueued
<1>2. KernelTypeOK(Unit)' /\ wr' \in [Wr -> WriteState]
  <2>1. CASE WriteThreadStep(writer)
    BY <1>1, <2>1, WriteThreadType
  <2>2. CASE WriteUnits(writer)
    BY <1>1, <2>2, WriteUnitsType DEF WriteUnits, Unit
  <2>3. CASE WriteConnectHandlerReturns(writer) \/ WriteDisconnectHandlerReturns(writer)
    BY <1>1, <2>3, WriteCallbackType
  <2> QED
    BY <2>1, <2>2, <2>3 DEF Writing
<1> QED
  BY <1>2 DEF Writing, TypeOK, Unit, app

-----------------------------------------------------------------------------
(* What the steps of the reader do to the pipe.  Only a call of read()     *)
(* brings the thread to where it waits for read().                         *)

LEMMA OpenTurns ==
  ASSUME NEW t \in Thread, NEW m \in {"R", "W"},
         openFifo(t, pipe, m) \/ openFifoFails(t, pipe) \/ openFifoReturns(t)
  PROVE  Turns(t)
BY DEF openFifo, openFifoFails, openFifoReturns, Turns, Calls, Quiet, kernel

LEMMA QuietTurns ==
  ASSUME NEW t, UNCHANGED kernel \/ createFifo(pipe)
  PROVE  Turns(t)
BY DEF Turns, Quiet, kernel, createFifo, Mkfifo

LEMMA CloseTurns ==
  ASSUME NEW t, NEW f, Close(t, f)
  PROVE  Turns(t)
BY DEF Turns, Leaves

LEMMA ReaderTurns ==
  ASSUME TypeOK, NewReader \/ StartReader \/ StopReader \/ StoppingReader
  PROVE  /\ Turns(Caller(reader)) /\ UNCHANGED <<wr, data, pushed>>
         /\ rd'[reader].pc = "reading" => rd[reader].pc = "reading"
<1>1. rd \in [Rd -> ReadState] /\ reader \in Rd
  BY PairConstants DEF TypeOK
<1> USE PairConstants
<1>2. CASE NewReader
  BY <1>1, <1>2, QuietTurns DEF NewReader, app, ReadState
<1>3. CASE StartReader
  BY <1>1, <1>3, QuietTurns DEF StartReader, StartRead, Starts, ReadState
<1>4. CASE StopReader
  BY <1>1, <1>4, QuietTurns DEF StopReader, StopRead, app, ReadState
<1>5. CASE StoppingReader
  <2>0. UNCHANGED <<wr, data, pushed>>
    BY <1>5 DEF StoppingReader, app
  <2>1. CASE StopReadReconnect(reader)
    BY <1>1, <2>0, <2>1, QuietTurns DEF StopReadReconnect, ReadState
  <2>2. CASE StopReadTestOpen(reader)
    BY <1>1, <2>0, <2>2, QuietTurns DEF StopReadTestOpen, ReadState
  <2>3. CASE StopReadRelease(reader)
    BY <1>1, <2>0, <2>3, OpenTurns DEF StopReadRelease, ReadState
  <2>4. CASE StopReadReleased(reader)
    BY <1>1, <2>0, <2>4, OpenTurns DEF StopReadReleased, ReadState
  <2>5. CASE StopReadReleaseClose(reader)
    BY <1>1, <2>0, <2>5, CloseTurns DEF StopReadReleaseClose, ReadState
  <2>6. CASE StopReadClose(reader)
    BY <1>1, <2>0, <2>6, CloseTurns DEF StopReadClose, ReadState
  <2>7. CASE StopReadJoin(reader)
    BY <1>1, <2>0, <2>7, QuietTurns DEF StopReadJoin, ReadState
  <2>8. CASE StopReadTakes(reader)
    BY <1>1, <2>0, <2>8, QuietTurns DEF StopReadTakes, ReadState
  <2> QED
    BY <1>5, <2>1, <2>2, <2>3, <2>4, <2>5, <2>6, <2>7, <2>8 DEF StoppingReader, StopReadStep
<1> QED
  BY <1>2, <1>3, <1>4, <1>5

LEMMA ReadThreadTurns ==
  ASSUME TypeOK, OpenHasFd,
         \/ ReadThreadStep(reader) \/ ReadMessageHandlerReturns(reader)
         \/ ReadConnectHandlerReturns(reader) \/ ReadDisconnectHandlerReturns(reader)
  PROVE  Turns(R) /\ ReadHolds'
<1>1. rd \in [Rd -> ReadState] /\ reader \in Rd /\ KernelTypeOK(Unit)
  BY PairConstants DEF TypeOK, Unit
<1> USE PairConstants DEF R
<1>2. CASE ReadConnect(reader)
  BY <1>1, <1>2, QuietTurns DEF ReadConnect, ReadState, ReadHolds
<1>3. CASE ReadOpen(reader)
  BY <1>1, <1>3, OpenTurns DEF ReadOpen, ReadState, ReadHolds
<1>4. CASE ReadOpenReturns(reader)
  BY <1>1, <1>4, OpenTurns DEF ReadOpenReturns, ReadState, ReadHolds
<1>5. CASE ReadOpened(reader)
  BY <1>1, <1>5, QuietTurns DEF ReadOpened, ReadState, ReadHolds
<1>6. CASE ReadCheck(reader)
  BY <1>1, <1>6, QuietTurns DEF ReadCheck, ReadState, ReadHolds
<1>7. CASE ReadConnected(reader)
  BY <1>1, <1>7, QuietTurns DEF ReadConnected, ReadState, ReadHolds
<1>8. CASE ReadLoop(reader)
  BY <1>1, <1>8, QuietTurns DEF ReadLoop, ReadState, ReadHolds
<1>9. CASE ReadCall(reader)
  <2>1. CASE Usable(R, rd[reader].fifoFd, "R")
    <3>1. IoCall(R, "read", rd[reader].fifoFd) /\ rd[reader].fifoFd \in Fd
      BY <1>9, <2>1 DEF ReadCall, Usable
    <3>2. Turns(R)
      BY <2>1, <3>1 DEF Turns, Calls
    <3>3. sys'[R].call = "read" /\ sys'[R].end = EndOf(pipe, "R")
      BY <1>1, <2>1, <3>1, IoCallEffect
    <3> QED
      BY <3>2, <3>3 DEF ReadHolds
  <2>2. CASE ~Usable(R, rd[reader].fifoFd, "R")
    BY <1>1, <1>9, <2>2, QuietTurns DEF ReadCall, ReadDown, ReadState, ReadHolds
  <2> QED
    BY <2>1, <2>2
<1>10. CASE ReadEnds(reader)
  BY <1>1, <1>10 DEF ReadEnds, ReadDown, ReadState, ReadHolds, Turns, Leaves
<1>11. CASE ReadAgain(reader)
  BY <1>1, <1>11, QuietTurns DEF ReadAgain, ReadState, ReadHolds
<1>12. CASE ReadMessageHandlerReturns(reader)
  BY <1>1, <1>12, QuietTurns DEF ReadMessageHandlerReturns, ReadState, ReadHolds
<1>13. CASE ReadConnectHandlerReturns(reader)
  BY <1>1, <1>13, QuietTurns DEF ReadConnectHandlerReturns, ReadState, ReadHolds
<1>14. CASE ReadDisconnectHandlerReturns(reader)
  BY <1>1, <1>14, QuietTurns DEF ReadDisconnectHandlerReturns, ReadState, ReadHolds
<1> QED
  BY <1>2, <1>3, <1>4, <1>5, <1>6, <1>7, <1>8, <1>9, <1>10, <1>11, <1>12, <1>13, <1>14
     DEF ReadThreadStep

(* What the steps of the writer do, except write() itself and its return   *)
(* with a message written.                                                 *)
Waits == UNCHANGED <<wr[writer].queue, wr[writer].written>>

LEMMA WriterTurns ==
  ASSUME TypeOK, WriteQueued,
         NewWriter \/ StartWriter \/ StopWriter \/ StoppingWriter
  PROVE  /\ Turns(Caller(writer)) /\ UNCHANGED <<rd, data, pushed>> /\ Waits
         /\ wr'[writer].pc = "writing" => wr[writer].pc = "writing"
         /\ WriteQueued'
<1>1. wr \in [Wr -> WriteState] /\ writer \in Wr /\ wr[writer].written \in Nat
  BY PairConstants DEF TypeOK, WriteState
<1> USE PairConstants DEF WriteState, Waits, WriteQueued
<1>2. CASE NewWriter
  BY <1>1, <1>2, QuietTurns DEF NewWriter, app
<1>3. CASE StartWriter
  BY <1>1, <1>3, QuietTurns DEF StartWriter, StartWrite, Starts
<1>4. CASE StopWriter
  BY <1>1, <1>4, QuietTurns DEF StopWriter, StopWrite, app
<1>5. CASE StoppingWriter
  <2>0. UNCHANGED <<rd, data, pushed>>
    BY <1>5 DEF StoppingWriter, app
  <2>1. CASE StopWriteReconnect(writer)
    BY <1>1, <2>0, <2>1, QuietTurns DEF StopWriteReconnect
  <2>2. CASE StopWriteTestOpen(writer)
    BY <1>1, <2>0, <2>2, QuietTurns DEF StopWriteTestOpen
  <2>3. CASE StopWriteRelease(writer)
    BY <1>1, <2>0, <2>3, OpenTurns DEF StopWriteRelease
  <2>4. CASE StopWriteReleased(writer)
    BY <1>1, <2>0, <2>4, OpenTurns DEF StopWriteReleased
  <2>5. CASE StopWriteReleaseClose(writer)
    BY <1>1, <2>0, <2>5, CloseTurns DEF StopWriteReleaseClose
  <2>6. CASE StopWriteClose(writer)
    BY <1>1, <2>0, <2>6, CloseTurns DEF StopWriteClose
  <2>7. CASE StopWriteJoin(writer)
    BY <1>1, <2>0, <2>7, QuietTurns DEF StopWriteJoin
  <2>8. CASE StopWriteHandlerReturns(writer)
    BY <1>1, <2>0, <2>8, QuietTurns DEF StopWriteHandlerReturns
  <2>9. CASE StopWriteTakes(writer)
    BY <1>1, <2>0, <2>9, QuietTurns DEF StopWriteTakes
  <2> QED
    BY <1>5, <2>1, <2>2, <2>3, <2>4, <2>5, <2>6, <2>7, <2>8, <2>9
       DEF StoppingWriter, StopWriteStep
<1> QED
  BY <1>2, <1>3, <1>4, <1>5

LEMMA WriteThreadTurns ==
  ASSUME TypeOK, OpenHasFd, WriteQueued, ~WritePop(writer),
         \/ WriteThreadStep(writer)
         \/ WriteConnectHandlerReturns(writer) \/ WriteDisconnectHandlerReturns(writer)
  PROVE  Turns(W) /\ Waits /\ WriteHolds' /\ WriteQueued'
<1>1. /\ wr \in [Wr -> WriteState] /\ writer \in Wr /\ wr[writer].written \in Nat
      /\ KernelTypeOK(Unit)
  BY PairConstants DEF TypeOK, Unit, WriteState
<1> USE PairConstants DEF W, WriteState, Waits, WriteQueued
<1>2. CASE WriteConnect(writer)
  BY <1>1, <1>2, QuietTurns DEF WriteConnect, WriteHolds
<1>3. CASE WriteOpen(writer)
  BY <1>1, <1>3, OpenTurns DEF WriteOpen, WriteHolds
<1>4. CASE WriteOpenReturns(writer)
  BY <1>1, <1>4, OpenTurns DEF WriteOpenReturns, WriteHolds
<1>5. CASE WriteOpened(writer)
  BY <1>1, <1>5, QuietTurns DEF WriteOpened, WriteHolds
<1>6. CASE WriteCheck(writer)
  BY <1>1, <1>6, QuietTurns DEF WriteCheck, WriteHolds
<1>7. CASE WriteConnected(writer)
  BY <1>1, <1>7, QuietTurns DEF WriteConnected, WriteHolds
<1>8. CASE WriteLoop(writer)
  BY <1>1, <1>8, QuietTurns DEF WriteLoop, WriteHolds
<1>9. CASE WriteLock(writer)
  BY <1>1, <1>9, QuietTurns DEF WriteLock, WriteHolds
<1>10. CASE WriteCall(writer)
  <2>1. CASE Usable(W, wr[writer].fifoFd, "W")
    <3>1. /\ IoCall(W, "write", wr[writer].fifoFd) /\ wr[writer].fifoFd \in Fd
          /\ wr' = [wr EXCEPT ![writer].pc = "writing", ![writer].written = 0]
          /\ wr[writer].pc = "write"
      BY <1>10, <2>1 DEF WriteCall, Usable
    <3>2. Turns(W)
      BY <2>1, <3>1 DEF Turns, Calls
    <3>3. sys'[W].call = "write" /\ sys'[W].end = EndOf(pipe, "W")
      BY <1>1, <2>1, <3>1, IoCallEffect
    <3>4. Waits /\ WriteQueued'
      BY <1>1, <3>1
    <3> QED
      BY <3>2, <3>3, <3>4 DEF WriteHolds
  <2>2. CASE ~Usable(W, wr[writer].fifoFd, "W")
    BY <1>1, <1>10, <2>2, QuietTurns DEF WriteCall, WriteDown, WriteHolds
  <2> QED
    BY <2>1, <2>2
<1>11. CASE WriteFails(writer)
  BY <1>1, <1>11 DEF WriteFails, WriteDown, WriteHolds, Turns, Leaves
<1>12. CASE WriteAgain(writer)
  BY <1>1, <1>12, QuietTurns DEF WriteAgain, WriteHolds
<1>13. CASE WriteConnectHandlerReturns(writer)
  BY <1>1, <1>13, QuietTurns DEF WriteConnectHandlerReturns, WriteHolds
<1>14. CASE WriteDisconnectHandlerReturns(writer)
  BY <1>1, <1>14, QuietTurns DEF WriteDisconnectHandlerReturns, WriteHolds
<1> QED
  BY <1>2, <1>3, <1>4, <1>5, <1>6, <1>7, <1>8, <1>9, <1>10, <1>11, <1>12, <1>13, <1>14
     DEF WriteThreadStep

-----------------------------------------------------------------------------
(* The four steps that move data *)

(* pushData() waits while the thread owns the mutex. *)
LEMMA PushEffect ==
  ASSUME Inv, Push
  PROVE  /\ UNCHANGED <<kernel, rd, data>> /\ pushed < MaxPushes /\ pushed' = pushed + 1
         /\ wr'[writer].queue = Append(wr[writer].queue, pushed + 1)
         /\ wr'[writer].written = wr[writer].written /\ wr'[writer].pc = wr[writer].pc
         /\ WriteQueued'
<1>1. wr \in [Wr -> WriteState] /\ writer \in Wr /\ wr[writer].written \in Nat
  BY PairConstants DEF Inv, TypeOK, WriteState
<1>2. wr' = [wr EXCEPT ![writer].queue = Append(wr[writer].queue, pushed + 1)]
  BY DEF Push, PushData
<1>3. wr[writer].pc \notin {"write", "writing"}
  BY DEF Push, PushData, MutexHeld
<1>4. /\ wr'[writer].queue = Append(wr[writer].queue, pushed + 1)
      /\ wr'[writer].written = wr[writer].written /\ wr'[writer].pc = wr[writer].pc
      /\ wr'[writer].ctl = wr[writer].ctl
  BY <1>1, <1>2 DEF WriteState
<1>5. WriteQueued'
  BY <1>3, <1>4 DEF Inv, WriteQueued
<1> QED
  BY <1>4, <1>5 DEF Push, PushData

(* read() returns data: some of what is in the pipe, from its start. *)
LEMMA ReadDataEffect ==
  ASSUME Inv, ReadData(reader), Collect
  PROVE  /\ Apart(R) /\ OpenHasFd' /\ rd'[reader].pc = "messageH"
         /\ \E n \in 1..Len(buf[pipe]) :
              /\ data' = data \o SubSeq(buf[pipe], 1, n)
              /\ Emptied(SubSeq(buf[pipe], n + 1, Len(buf[pipe])))
<1> DEFINE b == buf[pipe]
           l == Len(b)
           n == IF l <= MaxLine THEN l ELSE MaxLine
           rest == SubSeq(b, n + 1, l)
<1>1. /\ rd \in [Rd -> ReadState] /\ reader \in Rd /\ KernelTypeOK(Unit)
      /\ R \in Thread /\ pipe \in Pipe
  BY PairConstants DEF Inv, TypeOK, Unit
<1>2. /\ rd[reader].pc = "reading" /\ rd'[reader].pc = "messageH"
      /\ ReadReturn(R, MaxLine)
  BY <1>1 DEF ReadData, R, ReadState
<1>3. sys[R].end = EndOf(pipe, "R") /\ sys[R].end.pipe = pipe
  BY <1>2 DEF Inv, ReadHolds, EndOf
<1>4. Contents(R) = b
  BY <1>3 DEF Contents
<1>5. b \in Seq(Unit) /\ b # <<>> /\ buf \in [Pipe -> Seq(Unit)]
  BY <1>1, <1>2, <1>4 DEF ReadReturn, KernelTypeOK
<1>6. l \in Nat /\ l # 0 /\ n \in 1..l
  BY <1>5, EmptySeq, FifoReadAssumption
<1>7. Chunk(R, MaxLine) = SubSeq(b, 1, n)
  <2>1. CASE l <= MaxLine
    BY <1>4, <1>5, <2>1, SubSeqFull DEF Chunk
  <2>2. CASE ~(l <= MaxLine)
    BY <1>4, <2>2 DEF Chunk
  <2> QED
    BY <2>1, <2>2
<1>8. rest = IF l <= MaxLine THEN <<>> ELSE SubSeq(b, MaxLine + 1, l)
  <2>1. CASE l <= MaxLine
    <3>1. n = l /\ rest = SubSeq(b, l + 1, l) /\ l + 1 > l
      BY <1>6, <2>1
    <3>2. SubSeq(b, l + 1, l) = <<>>
      BY <1>5, <1>6, SubSeqEmpty
    <3> QED
      BY <2>1, <3>1, <3>2
  <2>2. CASE ~(l <= MaxLine)
    BY <2>2
  <2> QED
    BY <2>1, <2>2
<1>9. buf' = Remaining([buf EXCEPT ![pipe] = rest])
  BY <1>2, <1>3, <1>4, <1>8 DEF ReadReturn
<1>10. Emptied(rest)
  <2>1. Emptied([buf EXCEPT ![pipe] = rest][pipe])
    BY <1>9, RemainingEmptied
  <2>2. [buf EXCEPT ![pipe] = rest][pipe] = rest
    BY <1>1, <1>5
  <2> QED
    BY <2>1, <2>2
<1>11. data' = data \o SubSeq(b, 1, n)
  BY <1>7 DEF Collect, R
<1>12. sys'[R] = Idle /\ \A u \in Thread \ {R} : sys'[u] = sys[u]
  BY <1>1, <1>2 DEF ReadReturn, KernelTypeOK
<1>13. Apart(R) /\ OpenHasFd'
  BY <1>12 DEF Apart, OpenHasFd, Idle, Inv
<1> QED
  BY <1>2, <1>6, <1>10, <1>11, <1>13

(* write() puts one unit more into the pipe. *)
LEMMA WriteUnitsEffect ==
  ASSUME Inv, WriteUnits(writer)
  PROVE  /\ UNCHANGED <<sys, fdt>> /\ ends' = ends /\ ends = {"R", "W"}
         /\ wr[writer].pc = "writing" /\ wr'[writer].pc = "writing"
         /\ wr[writer].queue # <<>>
         /\ wr[writer].written < sizeN[Head(wr[writer].queue)]
         /\ Len(buf[pipe]) < Capacity
         /\ buf'[pipe] = Append(buf[pipe], <<Head(wr[writer].queue), wr[writer].written + 1>>)
         /\ wr'[writer].queue = wr[writer].queue
         /\ wr'[writer].written = wr[writer].written + 1
         /\ WriteQueued'
<1>1. /\ wr \in [Wr -> WriteState] /\ writer \in Wr /\ wr[writer].written \in Nat
      /\ KernelTypeOK(Unit) /\ W \in Thread /\ pipe \in Pipe
  BY PairConstants DEF Inv, TypeOK, Unit, WriteState
<1> DEFINE u == <<Head(wr[writer].queue), wr[writer].written + 1>>
<1>2. /\ wr[writer].pc = "writing" /\ wr[writer].written < sizeN[Head(wr[writer].queue)]
      /\ WriteUnit(W, u)
      /\ wr' = [wr EXCEPT ![writer].written = wr[writer].written + 1]
  BY DEF WriteUnits, W
<1>3. sys[W].end = EndOf(pipe, "W") /\ wr[writer].queue # <<>>
  BY <1>2 DEF Inv, WriteHolds, WriteQueued
<1>4. Contents(W) = buf[pipe] /\ Opposite(sys[W].end) = EndOf(pipe, "R")
  BY <1>3 DEF Contents, Opposite, EndOf
<1>5. /\ Held(EndOf(pipe, "R")) /\ Len(buf[pipe]) < Capacity
      /\ UNCHANGED <<sys, fdt>>
      /\ buf' = [buf EXCEPT ![pipe] = Append(buf[pipe], u)]
  BY <1>2, <1>3, <1>4 DEF WriteUnit, EndOf
<1>6. buf'[pipe] = Append(buf[pipe], u)
  BY <1>1, <1>5 DEF KernelTypeOK
<1>7. Held(EndOf(pipe, "W"))
  BY <1>1, <1>3 DEF Held
<1>8. ends = {"R", "W"} /\ ends' = ends
  BY <1>5, <1>7 DEF ends, Held
<1>9. /\ wr'[writer].queue = wr[writer].queue /\ wr'[writer].pc = "writing"
      /\ wr'[writer].written = wr[writer].written + 1 /\ wr'[writer].ctl = wr[writer].ctl
  BY <1>1, <1>2 DEF WriteState
<1>10. WriteQueued'
  BY <1>2, <1>3, <1>9 DEF WriteQueued, Inv
<1> QED
  BY <1>2, <1>3, <1>5, <1>6, <1>8, <1>9, <1>10

(* write() returns a count, and the message is popped. *)
LEMMA WritePopEffect ==
  ASSUME Inv, WritePop(writer)
  PROVE  /\ Leaves(W) /\ wr[writer].queue # <<>> /\ wr'[writer].pc = "loop"
         /\ \/ wr[writer].written = sizeN[Head(wr[writer].queue)]
            \/ wr[writer].written > 0 /\ "R" \notin ends
         /\ wr'[writer].queue = Tail(wr[writer].queue) /\ wr'[writer].written = 0
         /\ WriteQueued'
<1>1. /\ wr \in [Wr -> WriteState] /\ writer \in Wr
  BY PairConstants DEF Inv, TypeOK
<1>2. /\ wr[writer].pc = "writing" /\ IoReturn(W)
      /\ \/ wr[writer].written = sizeN[Head(wr[writer].queue)]
         \/ wr[writer].written > 0 /\ BrokenPipe(W)
      /\ wr' = [wr EXCEPT ![writer].pc = "loop", ![writer].queue = Tail(wr[writer].queue),
                          ![writer].written = 0]
  BY DEF WritePop, W
<1>3. sys[W].end = EndOf(pipe, "W") /\ wr[writer].queue # <<>>
      /\ wr[writer].ctl \notin {"unborn", "stopped"}
  BY <1>2 DEF Inv, WriteHolds, WriteQueued
<1>4. BrokenPipe(W) => "R" \notin ends
  BY <1>3 DEF BrokenPipe, Opposite, EndOf, ends
<1>5. /\ wr'[writer].pc = "loop" /\ wr'[writer].queue = Tail(wr[writer].queue)
      /\ wr'[writer].written = 0 /\ wr'[writer].ctl = wr[writer].ctl
  BY <1>1, <1>2 DEF WriteState
<1>6. WriteQueued'
  BY <1>3, <1>5 DEF WriteQueued
<1> QED
  BY <1>2, <1>3, <1>4, <1>5, <1>6 DEF Leaves

-----------------------------------------------------------------------------
(* The invariant *)

LEMMA InvInit == Init => Inv
BY InitType, PairConstants
   DEF Init, Inv, KernelInit, FifoReadInit, FifoWriteQInit, OpenHasFd, Idle,
       ReadHolds, WriteHolds, WriteQueued

(* A step of a thread other than R keeps ReadHolds, and likewise for W. *)
LEMMA ReadHoldsApart ==
  ASSUME ReadHolds, NEW t, t # R, Apart(t),
         rd'[reader].pc = "reading" => rd[reader].pc = "reading"
  PROVE  ReadHolds'
BY PairConstants DEF ReadHolds, Apart

LEMMA WriteHoldsApart ==
  ASSUME WriteHolds, NEW t, t # W, Apart(t),
         wr'[writer].pc = "writing" => wr[writer].pc = "writing"
  PROVE  WriteHolds'
BY PairConstants DEF WriteHolds, Apart

LEMMA InvNext == Inv /\ [Next]_vars => Inv'
<1> SUFFICES ASSUME Inv, [Next]_vars
             PROVE  Inv'
  OBVIOUS
<1>1. TypeOK /\ OpenHasFd /\ ReadHolds /\ WriteHolds /\ WriteQueued /\ KernelTypeOK(Unit)
  BY DEF Inv, TypeOK, Unit
<1>2. CASE UNCHANGED vars
  <2>1. TypeOK'
    <3>1. KernelTypeOK(Unit)'
      BY <1>1, <1>2, KernelStutterType DEF vars
    <3> QED
      BY <1>1, <1>2, <3>1 DEF vars, app, TypeOK, Unit
  <2>2. (OpenHasFd /\ ReadHolds /\ WriteHolds /\ WriteQueued)'
    BY <1>1, <1>2 DEF vars, kernel, OpenHasFd, ReadHolds, WriteHolds, WriteQueued
  <2> QED
    BY <2>1, <2>2 DEF Inv
<1>3. CASE NewReader \/ StartReader \/ StopReader \/ StoppingReader
  <2>1. TypeOK'
    BY <1>1, <1>3, ReaderType
  <2>2. /\ Turns(Caller(reader)) /\ UNCHANGED wr
        /\ rd'[reader].pc = "reading" => rd[reader].pc = "reading"
    BY <1>1, <1>3, ReaderTurns
  <2>3. Apart(Caller(reader)) /\ OpenHasFd'
    BY <1>1, <2>2, PairConstants, TurnsEffect
  <2>4. ReadHolds' /\ WriteHolds' /\ WriteQueued'
    BY <1>1, <2>2, <2>3, PairConstants, ReadHoldsApart, WriteHoldsApart DEF WriteQueued
  <2> QED
    BY <2>1, <2>3, <2>4 DEF Inv
<1>4. CASE Reading
  <2>1. TypeOK' /\ UNCHANGED wr
    BY <1>1, <1>4, ReadingType DEF Reading
  <2>2. Apart(R) /\ OpenHasFd' /\ ReadHolds'
    <3>1. CASE ReadData(reader) /\ Collect
      BY <3>1, ReadDataEffect DEF ReadHolds
    <3>2. CASE ~(ReadData(reader) /\ Collect)
      <4>1. Turns(R) /\ ReadHolds'
        BY <1>1, <1>4, <3>2, ReadThreadTurns DEF Reading
      <4> QED
        BY <1>1, <4>1, PairConstants, TurnsEffect
    <3> QED
      BY <3>1, <3>2
  <2>3. WriteHolds' /\ WriteQueued'
    BY <1>1, <2>1, <2>2, PairConstants, WriteHoldsApart DEF WriteQueued
  <2> QED
    BY <2>1, <2>2, <2>3 DEF Inv
<1>5. CASE NewWriter \/ StartWriter \/ StopWriter \/ StoppingWriter
  <2>1. TypeOK'
    BY <1>1, <1>5, WriterType
  <2>2. /\ Turns(Caller(writer)) /\ UNCHANGED rd /\ WriteQueued'
        /\ wr'[writer].pc = "writing" => wr[writer].pc = "writing"
    BY <1>1, <1>5, WriterTurns
  <2>3. Apart(Caller(writer)) /\ OpenHasFd'
    BY <1>1, <2>2, PairConstants, TurnsEffect
  <2>4. ReadHolds' /\ WriteHolds'
    BY <1>1, <2>2, <2>3, PairConstants, ReadHoldsApart, WriteHoldsApart
  <2> QED
    BY <2>1, <2>2, <2>3, <2>4 DEF Inv
<1>6. CASE Writing
  <2>1. TypeOK' /\ UNCHANGED rd
    BY <1>1, <1>6, WritingType DEF Writing
  <2>2. Apart(W) /\ OpenHasFd' /\ WriteHolds' /\ WriteQueued'
    <3>1. CASE WriteUnits(writer)
      <4>1. UNCHANGED sys /\ WriteQueued' /\ wr[writer].pc = "writing"
        BY <3>1, WriteUnitsEffect
      <4> QED
        BY <1>1, <4>1 DEF Apart, OpenHasFd, WriteHolds
    <3>2. CASE WritePop(writer)
      <4>1. Leaves(W) /\ WriteQueued' /\ wr'[writer].pc = "loop"
        BY <3>2, WritePopEffect
      <4> QED
        BY <1>1, <4>1, PairConstants, LeavesEffect DEF WriteHolds
    <3>3. CASE ~WriteUnits(writer) /\ ~WritePop(writer)
      <4>1. Turns(W) /\ WriteHolds' /\ WriteQueued'
        BY <1>1, <1>6, <3>3, WriteThreadTurns DEF Writing
      <4> QED
        BY <1>1, <4>1, PairConstants, TurnsEffect
    <3> QED
      BY <3>1, <3>2, <3>3
  <2>3. ReadHolds'
    BY <1>1, <2>1, <2>2, PairConstants, ReadHoldsApart
  <2> QED
    BY <2>1, <2>2, <2>3 DEF Inv
<1>7. CASE Push
  <2>1. TypeOK'
    BY <1>1, <1>7, WriterType
  <2>2. UNCHANGED <<kernel, rd>> /\ WriteQueued' /\ wr'[writer].pc = wr[writer].pc
    BY <1>7, PushEffect
  <2>3. OpenHasFd' /\ ReadHolds' /\ WriteHolds'
    BY <1>1, <2>2 DEF kernel, OpenHasFd, ReadHolds, WriteHolds
  <2> QED
    BY <2>1, <2>2, <2>3 DEF Inv
<1> QED
  BY <1>2, <1>3, <1>4, <1>5, <1>6, <1>7 DEF Next

(* The two objects, their threads and their pipe are well formed in every  *)
(* state.                                                                  *)
THEOREM TypeCorrect == Spec => []TypeOK
<1>1. Inv => TypeOK
  BY DEF Inv
<1> QED
  BY <1>1, InvInit, InvNext, PTL DEF Spec

-----------------------------------------------------------------------------
(* The refinement *)

LEMMA RefinesInit == Init => Abstract!Init
BY PairConstants
   DEF Init, KernelInit, FifoWriteQInit, Abstract!Init, ends, Held, EndOf, NoEnd, Idle

(* The writer's end is there while its thread is in the middle of a message. *)
LEMMA EndsMap == Inv' => Abstract!Ends
<1> SUFFICES ASSUME Inv' PROVE Abstract!Ends
  OBVIOUS
<1>1. ASSUME wr'[writer].written > 0 PROVE "W" \in ends'
  <2>1. sys'[W].end = EndOf(pipe, "W")
    BY <1>1 DEF Inv, WriteQueued, WriteHolds
  <2> QED
    BY <2>1, PairConstants, CallHolds
<1>2. ends' \subseteq {"R", "W"}
  BY DEF ends
<1> QED
  BY <1>1, <1>2 DEF Abstract!Ends

LEMMA EmptiedMap ==
  ASSUME NEW b, Emptied(b)
  PROVE  buf'[pipe] = Abstract!Left(b)
BY DEF Emptied, Abstract!Left

(* Everything but the four steps that move data is a turn of the ends. *)
LEMMA TurnsMap ==
  ASSUME Inv, Inv', NEW t \in Thread, Turns(t), Waits, UNCHANGED <<data, pushed>>
  PROVE  [Abstract!Next]_(Abstract!channel)
<1>1. (ends' = ends /\ buf' = buf) \/ Emptied(buf[pipe])
  BY TurnsEffect DEF Inv, TypeOK, Unit
<1>2. CASE ends' = ends /\ buf' = buf
  BY <1>2 DEF Abstract!channel, Waits
<1>3. CASE Emptied(buf[pipe])
  <2>1. Abstract!Turn
    BY <1>3, EndsMap, EmptiedMap DEF Abstract!Turn, Waits
  <2> QED
    BY <2>1 DEF Abstract!Next
<1> QED
  BY <1>1, <1>2, <1>3

LEMMA RefinesNext == Inv /\ Inv' /\ [Next]_vars => [Abstract!Next]_(Abstract!channel)
<1> SUFFICES ASSUME Inv, Inv', [Next]_vars
             PROVE  [Abstract!Next]_(Abstract!channel)
  OBVIOUS
<1>1. TypeOK /\ OpenHasFd /\ WriteQueued /\ KernelTypeOK(Unit)
  BY DEF Inv, TypeOK, Unit
<1>2. CASE UNCHANGED vars
  BY <1>2 DEF vars, kernel, app, Abstract!channel, ends, Held
<1>3. CASE NewReader \/ StartReader \/ StopReader \/ StoppingReader
  <2>1. Turns(Caller(reader)) /\ UNCHANGED <<wr, data, pushed>>
    BY <1>1, <1>3, ReaderTurns
  <2> QED
    BY <2>1, PairConstants, TurnsMap DEF Waits
<1>4. CASE Reading
  <2>0. UNCHANGED <<wr, pushed>>
    BY <1>4 DEF Reading
  <2>1. CASE ReadData(reader) /\ Collect
    <3>1. PICK n \in 1..Len(buf[pipe]) :
              /\ data' = data \o SubSeq(buf[pipe], 1, n)
              /\ Emptied(SubSeq(buf[pipe], n + 1, Len(buf[pipe])))
      BY <2>1, ReadDataEffect
    <3>2. "R" \in ends
      <4>1. sys[R].end = EndOf(pipe, "R")
        BY <2>1 DEF Inv, ReadHolds, ReadData
      <4> QED
        BY <4>1, PairConstants DEF ends, Held
    <3>3. Abstract!Take
      BY <2>0, <3>1, <3>2, EndsMap, EmptiedMap DEF Abstract!Take
    <3> QED
      BY <3>3 DEF Abstract!Next
  <2>2. CASE ~(ReadData(reader) /\ Collect)
    <3>1. Turns(R) /\ UNCHANGED data
      BY <1>1, <1>4, <2>2, ReadThreadTurns DEF Reading
    <3> QED
      BY <2>0, <3>1, PairConstants, TurnsMap DEF Waits
  <2> QED
    BY <2>1, <2>2
<1>5. CASE NewWriter \/ StartWriter \/ StopWriter \/ StoppingWriter
  <2>1. Turns(Caller(writer)) /\ UNCHANGED <<data, pushed>> /\ Waits
    BY <1>1, <1>5, WriterTurns
  <2> QED
    BY <2>1, PairConstants, TurnsMap
<1>6. CASE Writing
  <2>0. UNCHANGED <<data, pushed>>
    BY <1>6 DEF Writing, app
  <2>1. CASE WriteUnits(writer)
    <3>1. Abstract!Put
      BY <2>0, <2>1, WriteUnitsEffect DEF Abstract!Put
    <3> QED
      BY <3>1 DEF Abstract!Next
  <2>2. CASE WritePop(writer)
    <3>1. /\ Leaves(W) /\ wr[writer].queue # <<>>
          /\ \/ wr[writer].written = sizeN[Head(wr[writer].queue)]
             \/ wr[writer].written > 0 /\ "R" \notin ends
          /\ wr'[writer].queue = Tail(wr[writer].queue) /\ wr'[writer].written = 0
      BY <2>2, WritePopEffect
    <3>2. Emptied(buf[pipe])
      BY <1>1, <3>1, PairConstants, LeavesEffect
    <3>3. Abstract!Finish
      BY <2>0, <3>1, <3>2, EndsMap, EmptiedMap DEF Abstract!Finish
    <3> QED
      BY <3>3 DEF Abstract!Next
  <2>3. CASE ~WriteUnits(writer) /\ ~WritePop(writer)
    <3>1. Turns(W) /\ Waits
      BY <1>1, <1>6, <2>3, WriteThreadTurns DEF Writing
    <3> QED
      BY <2>0, <3>1, PairConstants, TurnsMap
  <2> QED
    BY <2>1, <2>2, <2>3
<1>7. CASE Push
  <2>1. /\ UNCHANGED <<kernel, data>> /\ pushed < MaxPushes /\ pushed' = pushed + 1
        /\ wr'[writer].queue = Append(wr[writer].queue, pushed + 1)
        /\ wr'[writer].written = wr[writer].written
    BY <1>7, PushEffect
  <2>2. ends' = ends /\ buf'[pipe] = buf[pipe]
    BY <2>1 DEF kernel, ends, Held
  <2>3. Abstract!Push
    BY <2>1, <2>2 DEF Abstract!Push
  <2> QED
    BY <2>3 DEF Abstract!Next
<1> QED
  BY <1>2, <1>3, <1>4, <1>5, <1>6, <1>7 DEF Next

(* A WriteQImpl and a FifoRead on one pipe are a channel: whatever the two *)
(* threads, their owners and the kernel do, a message is dropped only when *)
(* nobody can read it, and the pipe's contents only between two messages   *)
(* and with both ends gone.                                                *)
THEOREM PairIsChannel == Spec => ImplementsChannel
<1>1. Spec => []Inv
  BY InvInit, InvNext, PTL DEF Spec
<1>2. Init => Abstract!Init
  BY RefinesInit
<1>3. Inv /\ Inv' /\ [Next]_vars => [Abstract!Next]_(Abstract!channel)
  BY RefinesNext
<1> QED
  BY <1>1, <1>2, <1>3, PTL DEF Spec, ImplementsChannel, Abstract!Spec

(* What holds of every channel holds of the pair. *)
Proofs == INSTANCE Channel_proofs WITH
  Messages <- MaxPushes, size <- sizeN, Room <- Capacity,
  queue <- wr[writer].queue, written <- wr[writer].written, wire <- buf[pipe]

(* The application gets the messages in the order of pushData(), none      *)
(* twice, and of each nothing or its first units, over all starts, stops,  *)
(* failures and reconnections of either object.                            *)
THEOREM PairInOrder == Spec => []ReceivedInOrder
<1>1. Abstract!Init => Proofs!Init
  BY DEF Abstract!Init, Proofs!Init
<1>2. [Abstract!Next]_(Abstract!channel) => [Proofs!Next]_(Proofs!channel)
  BY DEF Abstract!Next, Abstract!Push, Abstract!Put, Abstract!Finish, Abstract!Take,
         Abstract!Turn, Abstract!Ends, Abstract!Left, Abstract!channel,
         Proofs!Next, Proofs!Push, Proofs!Put, Proofs!Finish, Proofs!Take,
         Proofs!Turn, Proofs!Ends, Proofs!Left, Proofs!channel
<1>3. Proofs!ReceivedInOrder => ReceivedInOrder
  BY DEF Proofs!ReceivedInOrder, Proofs!InOrder, Proofs!Before,
         ReceivedInOrder, Abstract!ReceivedInOrder, Abstract!InOrder, Abstract!Before
<1>4. Proofs!Spec => []Proofs!ReceivedInOrder
  BY Proofs!ChannelInOrder
<1> QED
  BY <1>1, <1>2, <1>3, <1>4, PairIsChannel, PTL
     DEF ImplementsChannel, Abstract!Spec, Proofs!Spec
=============================================================================
