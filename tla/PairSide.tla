------------------------------ MODULE PairSide ------------------------------
(***************************************************************************)
(* A WriteQImpl and a FifoRead at the two ends of one pipe, under the      *)
(* application of IpcBase/test/Fifo_test_big_data_Q.cpp, which pushes      *)
(* messages to the one and collects what the other hands over: one         *)
(* direction of a connection of a client and a server.                     *)
(***************************************************************************)
EXTENDS FifoRead, FifoWriteQ

CONSTANTS
  writer, reader, pipe,
  Reconnects,    \* do the objects reconnect?
  MaxStarts      \* bound: starts of each object

ASSUME PairSideAssumption ==
  /\ Wr = {writer} /\ Rd = {reader} /\ Pipe = {pipe}
  /\ Reconnects \in BOOLEAN /\ MaxStarts \in Nat

VARIABLES
  data,      \* the units the read handler has collected
  pushed,    \* pushData() calls made
  starts     \* starts["R"], starts["W"]: start calls of the reader, the writer

app  == <<data, pushed, starts>>
vars == <<kernel, rd, wr, app>>

Init ==
  /\ KernelInit /\ FifoReadInit /\ FifoWriteQInit
  /\ data = <<>> /\ pushed = 0 /\ starts = [m \in {"R", "W"} |-> 0]

-----------------------------------------------------------------------------
(* The constructors and the setters, before there is a thread. *)
NewReader ==
  /\ rd[reader].ctl = "unborn"
  /\ createFifo(pipe)
  /\ rd' = [rd EXCEPT ![reader].ctl = "stopped", ![reader].handlers = Handlers,
                      ![reader].reconnect = Reconnects]
  /\ UNCHANGED <<wr, app>>

NewWriter ==
  /\ wr[writer].ctl = "unborn"
  /\ createFifo(pipe)
  /\ wr' = [wr EXCEPT ![writer].ctl = "stopped", ![writer].handlers = WriteHandlers,
                      ![writer].reconnect = Reconnects]
  /\ UNCHANGED <<rd, app>>

Starts(m) ==
  /\ starts[m] < MaxStarts
  /\ starts' = [starts EXCEPT ![m] = @ + 1]
  /\ UNCHANGED <<data, pushed>>

StartReader == StartRead(reader) /\ Starts("R") /\ UNCHANGED wr
StartWriter == StartWrite(writer) /\ Starts("W") /\ UNCHANGED rd

Push ==
  /\ pushed < MaxPushes
  /\ PushData(writer, pushed + 1)
  /\ pushed' = pushed + 1
  /\ UNCHANGED <<rd, data, starts>>

StopReader == StopRead(reader) /\ UNCHANGED <<wr, app>>
StopWriter == StopWrite(writer) /\ UNCHANGED <<rd, app>>

StoppingReader == StopReadStep(reader) /\ UNCHANGED <<wr, app>>

StoppingWriter ==
  /\ StopWriteStep(writer) \/ StopWriteHandlerReturns(writer)
  /\ UNCHANGED <<rd, app>>

(* The read handler. *)
Collect == data' = data \o Chunk(ReadThread(reader), MaxLine)

Reading ==
  /\ \/ /\ UNCHANGED data
        /\ \/ ReadThreadStep(reader) \/ ReadMessageHandlerReturns(reader)
           \/ ReadConnectHandlerReturns(reader) \/ ReadDisconnectHandlerReturns(reader)
     \/ ReadData(reader) /\ Collect
  /\ UNCHANGED <<wr, pushed, starts>>

Writing ==
  /\ \/ WriteThreadStep(writer) \/ WriteUnits(writer)
     \/ WriteConnectHandlerReturns(writer) \/ WriteDisconnectHandlerReturns(writer)
  /\ UNCHANGED <<rd, app>>

Next ==
  \/ NewReader \/ StartReader \/ StopReader \/ StoppingReader \/ Reading
  \/ NewWriter \/ StartWriter \/ StopWriter \/ StoppingWriter \/ Writing
  \/ Push

Spec == Init /\ [][Next]_vars

(* The scheduler runs both threads and the calls of stop. *)
FairSpec ==
  /\ Spec
  /\ WF_vars(Reading) /\ WF_vars(Writing)
  /\ WF_vars(StoppingReader) /\ WF_vars(StoppingWriter)

-----------------------------------------------------------------------------
TypeOK ==
  /\ KernelTypeOK((1..MaxPushes) \X Nat)
  /\ rd \in [Rd -> ReadState] /\ wr \in [Wr -> WriteState]
  /\ data \in Seq((1..MaxPushes) \X Nat)
  /\ pushed \in 0..MaxPushes
  /\ starts \in [{"R", "W"} -> 0..MaxStarts]

ends == {m \in {"R", "W"} : Held(EndOf(pipe, m))}

Abstract == INSTANCE Channel WITH
  Messages <- MaxPushes, size <- sizeN, Room <- Capacity,
  queue <- wr[writer].queue, written <- wr[writer].written, wire <- buf[pipe]

(* The pair is a channel: whatever the two threads and their owners do, a   *)
(* message leaves the queue only when it is written or nobody can read it,  *)
(* what is in the pipe is lost only with both ends, and the handler gets    *)
(* the rest unit by unit.                                                   *)
ImplementsChannel == Abstract!Spec

(* The same seen by the application: the data is the messages in order,     *)
(* each with nothing or its first units, over every start and stop of       *)
(* either object.                                                           *)
ReceivedInOrder == Abstract!ReceivedInOrder

(* While both halves say that they are connected and nobody stops them, a   *)
(* message that was pushed arrives as a whole.                              *)
Up ==
  /\ wr[writer].runWrite /\ wr[writer].waitConnect
  /\ rd[reader].runRead /\ rd[reader].waitConnect

Received(m) == \A i \in 1..sizeN[m] : <<m, i>> \in {data[j] : j \in 1..Len(data)}

MessageArrives ==
  \A m \in 1..MaxPushes : (m <= pushed /\ Up) ~> (Received(m) \/ ~Up)
=============================================================================
