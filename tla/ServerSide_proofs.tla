-------------------------- MODULE ServerSide_proofs --------------------------
(***************************************************************************)
(* Theorems about ServerSide, for any number of connections and clients:   *)
(* the specification is well typed, every change of stateClient is         *)
(* reported once, and a connection that is up is reported.  TLC exhausts   *)
(* one connection; these hold for a server that has several, whose         *)
(* callbacks share the two mutexes.                                        *)
(***************************************************************************)
EXTENDS ServerSide, FifoLib_proofs, FiniteSetTheorems

IInv == TypeOK /\ HalvesInv /\ CallbacksInv /\ ReportInv

-----------------------------------------------------------------------------
(* Type correctness *)

LEMMA InitType == Init => TypeOK
<1> SUFFICES ASSUME Init PROVE TypeOK
  OBVIOUS
<1>1. KernelTypeOK((1..MaxPushes) \X Nat)
  BY KernelInitType DEF Init
<1>2. rd \in [Rd -> ReadState] /\ wr \in [Wr -> WriteState]
  BY FifoReadInitType, FifoWriteQInitType DEF Init, FifoInit
<1>3. peer \in [Peer -> PeerState]
  BY PipePeerAssumption DEF Init, PeerInit, PeerState, NoFd
<1>4. addressee \in Seq(Rd)
  BY EmptySeq DEF Init
<1> QED
  BY <1>1, <1>2, <1>3, <1>4
     DEF Init, TypeOK, FifoInit, FifoState, ServerInit, Position, Runner, Closing, NoFd

(* The parts of the type invariant that the halves change. *)
LEMMA HalvesType ==
  ASSUME TypeOK, KernelTypeOK((1..MaxPushes) \X Nat)', rd' \in [Rd -> ReadState],
         wr' \in [Wr -> WriteState], UNCHANGED <<fifo, server, peer, app>>
  PROVE  TypeOK'
BY DEF TypeOK, server, callbacks, handlers, app

(* A Fifo is set up and started. *)
LEMMA StartType ==
  ASSUME TypeOK, NEW c \in Rd, New(c) \/ Start(c) \/ Starting(c)
  PROVE  TypeOK'
<1>1. /\ KernelTypeOK((1..MaxPushes) \X Nat) /\ rd \in [Rd -> ReadState]
      /\ wr \in [Wr -> WriteState] /\ c \in Wr
  BY FifoAssumption DEF TypeOK
<1>2. CASE New(c)
  <2>1. /\ linked' = linked \cup {addrRead[c], addrWrite[c]} /\ UNCHANGED <<fdt, sys, buf>>
        /\ rd' = [rd EXCEPT ![c].ctl = "stopped", ![c].handlers = Handlers,
                            ![c].reconnect = TRUE]
        /\ wr' = [wr EXCEPT ![c].ctl = "stopped", ![c].handlers = WriteHandlers,
                            ![c].reconnect = TRUE]
        /\ UNCHANGED <<fifo, server, peer, app>>
    BY <1>2 DEF New, ServerNew, FifoNew
  <2>2. KernelTypeOK((1..MaxPushes) \X Nat)'
    BY <1>1, <2>1, ReadConstants, WriteConstants DEF KernelTypeOK
  <2>3. rd' \in [Rd -> ReadState]
    BY <1>1, <2>1, ReadFields DEF ReadCtl
  <2>4. wr' \in [Wr -> WriteState]
    BY <1>1, <2>1, WriteFields DEF WriteCtl
  <2> QED
    BY <2>1, <2>2, <2>3, <2>4, HalvesType
<1>3. CASE Start(c)
  <2>1. KernelTypeOK((1..MaxPushes) \X Nat)'
    BY <1>1, <1>3, KernelStutterType DEF Start, ServerStart, FifoStart
  <2>2. fifo' \in [Rd -> FifoState]
    BY <1>3 DEF Start, ServerStart, FifoStart, TypeOK, FifoState
  <2> QED
    BY <1>3, <2>1, <2>2
       DEF Start, ServerStart, FifoStart, TypeOK, server, callbacks, handlers, app
<1>4. CASE Starting(c)
  <2>1. CASE FifoStartRead(c)
    <3>1. KernelTypeOK((1..MaxPushes) \X Nat)' /\ rd' \in [Rd -> ReadState]
      BY <1>1, <2>1, ReadOwnerType DEF FifoStartRead
    <3> QED
      BY <1>1, <1>4, <2>1, <3>1, HalvesType DEF FifoStartRead, Starting, ServerStarting
  <2>2. CASE FifoStartWrite(c)
    <3>1. KernelTypeOK((1..MaxPushes) \X Nat)' /\ wr' \in [Wr -> WriteState]
      BY <1>1, <2>2, WriteOwnerType DEF FifoStartWrite
    <3> QED
      BY <1>1, <1>4, <2>2, <3>1, HalvesType DEF FifoStartWrite, Starting, ServerStarting
  <2> QED
    BY <1>4, <2>1, <2>2 DEF Starting, ServerStarting
<1> QED
  BY <1>2, <1>3, <1>4

(* What a thread takes to close is a number or none, and it keeps it. *)
LEMMA NumberType ==
  ASSUME TypeOK, NEW c \in Rd
  PROVE  /\ rd[c].fifoFd \in Fd \cup {NoFd} /\ wr[c].fifoFd \in Fd \cup {NoFd}
         /\ \A t \in Thread, n \in Fd \cup {NoFd} :
              [number EXCEPT ![t] = n] \in [Thread -> Fd \cup {NoFd}]
         /\ NoFd \in Fd \cup {NoFd}
<1>1. rd[c] \in ReadState /\ wr[c] \in WriteState
  BY FifoAssumption DEF TypeOK
<1>2. rd[c].fifoFd \in Fd \cup {NoFd} /\ wr[c].fifoFd \in Fd \cup {NoFd}
  BY <1>1, ReadNumberType, WriteNumberType
<1> QED
  BY <1>2 DEF TypeOK

(* The application writes, disconnects and stops. *)
LEMMA OwnerType ==
  ASSUME TypeOK, NEW c \in Rd, Write(c) \/ Disconnect(c) \/ Stop(c) \/ Stopping(c)
  PROVE  TypeOK'
<1>1. /\ KernelTypeOK((1..MaxPushes) \X Nat) /\ rd \in [Rd -> ReadState]
      /\ wr \in [Wr -> WriteState] /\ c \in Wr /\ Caller(c) \in Thread
  BY FifoAssumption, ReadConstants DEF TypeOK
<1>2. CASE Write(c)
  <2>1. addressee \in Seq(Rd) /\ Len(addressee) + 1 \in 1..MaxPushes
    BY <1>2, IFifoWriterAssumption DEF Write, TypeOK
  <2>2. KernelTypeOK((1..MaxPushes) \X Nat)' /\ wr' \in [Wr -> WriteState]
    BY <1>1, <1>2, <2>1, PushDataType DEF Write, ServerWrite, FifoWrite
  <2>3. addressee' \in Seq(Rd)
    BY <1>2, <2>1, AppendProperties DEF Write
  <2> QED
    BY <1>2, <2>2, <2>3
       DEF Write, ServerWrite, FifoWrite, TypeOK, server, callbacks, handlers
<1>3. CASE Disconnect(c)
  <2>1. /\ UNCHANGED <<fifo, rd, wr, callbacks, stopped, peer, addressee>>
        /\ \E x \in Closing : closing' = [closing EXCEPT ![c] = x]
        /\ \/ Takes(Caller(c), wr[c].fifoFd) \/ Takes(Caller(c), rd[c].fifoFd)
           \/ closeTaken(Caller(c))
    BY <1>3 DEF Disconnect, ServerDisconnect, ServerDisconnectRead, ServerDisconnectClose,
       closeWriteTakes, closeReadTakes, Takes, closeTaken, Closing
  <2>2. closing' \in [Rd -> Closing]
    BY <2>1 DEF TypeOK
  <2>3. /\ KernelTypeOK((1..MaxPushes) \X Nat)'
        /\ number' \in [Thread -> Fd \cup {NoFd}]
    <3>1. CASE Takes(Caller(c), wr[c].fifoFd) \/ Takes(Caller(c), rd[c].fifoFd)
      BY <1>1, <3>1, KernelStutterType, NumberType DEF Takes
    <3>2. CASE closeTaken(Caller(c))
      BY <1>1, <3>2, CloseType, NumberType DEF closeTaken
    <3> QED
      BY <2>1, <3>1, <3>2
  <2> QED
    BY <2>1, <2>2, <2>3 DEF TypeOK, callbacks, handlers
<1>4. CASE Stop(c)
  <2>1. KernelTypeOK((1..MaxPushes) \X Nat)' /\ wr' \in [Wr -> WriteState]
    BY <1>1, <1>4, WriteOwnerType DEF Stop, ServerStop, FifoStop
  <2>2. fifo' \in [Rd -> FifoState]
    BY <1>4 DEF Stop, ServerStop, FifoStop, TypeOK, FifoState
  <2> QED
    BY <1>4, <2>1, <2>2
       DEF Stop, ServerStop, FifoStop, TypeOK, callbacks, handlers, app
<1>5. CASE Stopping(c)
  <2>1. CASE FifoStopWrite(c)
    <3>1. KernelTypeOK((1..MaxPushes) \X Nat)' /\ wr' \in [Wr -> WriteState]
      BY <1>1, <2>1, StopWriteType DEF FifoStopWrite
    <3> QED
      BY <1>1, <1>5, <2>1, <3>1, HalvesType DEF FifoStopWrite, Stopping, ServerStopping
  <2>2. CASE FifoStopRead(c)
    <3>1. KernelTypeOK((1..MaxPushes) \X Nat)' /\ rd' \in [Rd -> ReadState]
      BY <1>1, <2>2, StopReadType, ReadOwnerType DEF FifoStopRead
    <3> QED
      BY <1>1, <1>5, <2>2, <3>1, HalvesType DEF FifoStopRead, Stopping, ServerStopping
  <2> QED
    BY <1>5, <2>1, <2>2 DEF Stopping, ServerStopping
<1> QED
  BY <1>2, <1>3, <1>4, <1>5

(* The two threads outside their callbacks. *)
LEMMA ThreadType ==
  ASSUME TypeOK, HalvesInv, NEW c \in Rd, Reading(c) \/ Writing(c)
  PROVE  TypeOK'
<1>1. /\ KernelTypeOK((1..MaxPushes) \X Nat) /\ rd \in [Rd -> ReadState]
      /\ wr \in [Wr -> WriteState] /\ c \in Wr
      /\ wr[c].pc \in {"write", "writing"} => wr[c].queue # <<>>
  BY FifoAssumption DEF TypeOK, HalvesInv, HalvesOf
<1>2. CASE Reading(c)
  <2>1. KernelTypeOK((1..MaxPushes) \X Nat)' /\ rd' \in [Rd -> ReadState]
    BY <1>1, <1>2, ReadThreadType, ReadCallbackType DEF Reading, FifoReading
  <2> QED
    BY <1>1, <1>2, <2>1, HalvesType DEF Reading, FifoReading
<1>3. CASE Writing(c)
  <2>1. CASE WriteThreadStep(c)
    BY <1>1, <1>3, <2>1, WriteThreadType, HalvesType DEF Writing, FifoWriting
  <2>2. CASE WriteUnits(c)
    <3>1. wr[c].queue # <<>>
      BY <1>1, <2>2 DEF WriteUnits
    <3> QED
      BY <1>1, <1>3, <2>2, <3>1, WriteUnitsType, HalvesType DEF Writing, FifoWriting
  <2> QED
    BY <1>3, <2>1, <2>2 DEF Writing, FifoWriting
<1> QED
  BY <1>2, <1>3

(* What a callback does: it goes from position to position, or returns. *)
LEMMA PositionType ==
  ASSUME at \in [Rd -> [Runner -> Position]], NEW c \in Rd, NEW k \in Runner,
         NEW x \in Position, at' = [at EXCEPT ![c][k] = x]
  PROVE  /\ at' \in [Rd -> [Runner -> Position]]
         /\ at'[c][k] = x
         /\ \A d \in Rd, l \in Runner : d # c \/ l # k => at'[d][l] = at[d][l]
OBVIOUS

LEMMA GotoType ==
  ASSUME TypeOK, NEW c \in Rd, NEW k \in Runner, NEW x \in Position, Goto(c, k, x)
  PROVE  /\ KernelTypeOK((1..MaxPushes) \X Nat)'
         /\ rd' \in [Rd -> ReadState] /\ wr' \in [Wr -> WriteState]
         /\ at' \in [Rd -> [Runner -> Position]] /\ UNCHANGED <<fifo, stopped, number>>
BY KernelStutterType, PositionType DEF Goto, TypeOK

LEMMA ReturnType ==
  ASSUME TypeOK, NEW c \in Rd, NEW k \in Runner, Return(c, k)
  PROVE  /\ KernelTypeOK((1..MaxPushes) \X Nat)'
         /\ rd' \in [Rd -> ReadState] /\ wr' \in [Wr -> WriteState]
         /\ at' \in [Rd -> [Runner -> Position]] /\ UNCHANGED <<fifo, stopped, number>>
<1>1. /\ KernelTypeOK((1..MaxPushes) \X Nat) /\ rd \in [Rd -> ReadState]
      /\ wr \in [Wr -> WriteState] /\ c \in Wr
  BY FifoAssumption DEF TypeOK
<1>2. at' \in [Rd -> [Runner -> Position]] /\ UNCHANGED <<fifo, stopped, number>>
  BY PositionType DEF Return, TypeOK, Position
<1>3. KernelTypeOK((1..MaxPushes) \X Nat)' /\ rd' \in [Rd -> ReadState] /\ wr' \in [Wr -> WriteState]
  <2>1. CASE UNCHANGED wr /\ (ReadConnectHandlerReturns(c) \/ ReadDisconnectHandlerReturns(c))
    BY <1>1, <2>1, ReadCallbackType
  <2>2. CASE UNCHANGED rd /\ (WriteConnectHandlerReturns(c) \/ WriteDisconnectHandlerReturns(c))
    BY <1>1, <2>2, WriteCallbackType
  <2>3. CASE UNCHANGED rd /\ StopWriteHandlerReturns(c)
    BY <1>1, <2>3, WriteCallbackType
  <2> QED
    BY <2>1, <2>2, <2>3 DEF Return
<1> QED
  BY <1>2, <1>3

(* A callback that goes or returns keeps the types with the counters. *)
LEMMA MoveType ==
  ASSUME TypeOK, NEW c \in Rd, NEW k \in Runner, UNCHANGED <<peer, app>>,
         Return(c, k) \/ \E x \in Position : Goto(c, k, x),
         stateClient' \in [Rd -> {"disconnect", "connect"}],
         newCalls' \in [Rd -> Nat], closeCalls' \in [Rd -> Nat]
  PROVE  TypeOK'
<1>1. /\ KernelTypeOK((1..MaxPushes) \X Nat)'
      /\ rd' \in [Rd -> ReadState] /\ wr' \in [Wr -> WriteState]
      /\ at' \in [Rd -> [Runner -> Position]] /\ UNCHANGED <<fifo, stopped, number>>
  BY GotoType, ReturnType
<1> QED
  BY <1>1 DEF TypeOK, app

LEMMA CallbackType ==
  ASSUME TypeOK, NEW c \in Rd, NEW k \in Runner, Handling(c, k)
  PROVE  TypeOK'
<1>1. /\ UNCHANGED <<peer, app>> /\ ServerCallback(c, k)
      /\ stateClient \in [Rd -> {"disconnect", "connect"}]
      /\ newCalls \in [Rd -> Nat] /\ closeCalls \in [Rd -> Nat]
  BY DEF Handling, TypeOK
<1>2. CASE ConnectFlagWrite(c, k) \/ ConnectFlagRead(c, k) \/ ConnectState(c, k)
  BY <1>1, <1>2, MoveType
     DEF ConnectFlagWrite, ConnectFlagRead, ConnectState, Position, handlers
<1>3. CASE \/ DisconnectFlagWrite(c, k) \/ DisconnectFlagRead(c, k)
           \/ DisconnectState(c, k)
  BY <1>1, <1>3, MoveType
     DEF DisconnectFlagWrite, DisconnectFlagRead, DisconnectState, Position, handlers
<1>4. CASE ConnectSet(c, k) \/ DisconnectSet(c, k)
  <2>1. stateClient' \in [Rd -> {"disconnect", "connect"}]
    BY <1>1, <1>4 DEF ConnectSet, DisconnectSet
  <2> QED
    BY <1>1, <1>4, <2>1, MoveType DEF ConnectSet, DisconnectSet, Position, handlers
<1>5. CASE ConnectCall(c, k)
  <2>1. newCalls' \in [Rd -> Nat]
    BY <1>1, <1>5 DEF ConnectCall
  <2> QED
    BY <1>1, <1>5, <2>1, MoveType DEF ConnectCall
<1>6. CASE DisconnectCall(c, k)
  <2>1. closeCalls' \in [Rd -> Nat]
    BY <1>1, <1>6 DEF DisconnectCall
  <2> QED
    BY <1>1, <1>6, <2>1, MoveType DEF DisconnectCall
<1>7. CASE k = "read" /\ DisconnectTakes(c)
  <2>1. KernelTypeOK((1..MaxPushes) \X Nat)' /\ UNCHANGED <<fifo, rd, wr>>
    BY <1>7, KernelStutterType DEF DisconnectTakes, closeWriteTakes, Takes, TypeOK
  <2>2. at' \in [Rd -> [Runner -> Position]]
    BY <1>7, PositionType DEF DisconnectTakes, TypeOK, Runner, Position
  <2>3. number' \in [Thread -> Fd \cup {NoFd}]
    BY <1>7, NumberType, ReadConstants DEF DisconnectTakes, closeWriteTakes, Takes
  <2> QED
    BY <1>1, <1>7, <2>1, <2>2, <2>3 DEF DisconnectTakes, TypeOK, handlers, app
<1>8. CASE k = "read" /\ DisconnectClose(c)
  <2>1. KernelTypeOK((1..MaxPushes) \X Nat)' /\ UNCHANGED <<fifo, rd, wr>>
    BY <1>8, CloseType, ReadConstants DEF DisconnectClose, closeTaken, TypeOK
  <2>2. at' \in [Rd -> [Runner -> Position]]
    BY <1>8, PositionType DEF DisconnectClose, TypeOK, Runner, Position
  <2>3. number' \in [Thread -> Fd \cup {NoFd}]
    BY <1>8, NumberType, ReadConstants DEF DisconnectClose, closeTaken
  <2> QED
    BY <1>1, <1>8, <2>1, <2>2, <2>3 DEF DisconnectClose, TypeOK, handlers, app
<1> QED
  BY <1>1, <1>2, <1>3, <1>4, <1>5, <1>6, <1>7, <1>8 DEF ServerCallback

(* The clients, and the removal of a path name. *)
LEMMA OthersType ==
  ASSUME TypeOK,
         \/ \E w \in Peer : Arrive(w) \/ Enter(w) \/ Leave(w) \/ Receive(w)
         \/ \E p \in Pipe : Remove(p)
  PROVE  TypeOK' /\ UNCHANGED <<rd, wr, server>>
<1>1. KernelTypeOK((1..MaxPushes) \X Nat) /\ peer \in [Peer -> PeerState]
  BY DEF TypeOK
<1>2. ASSUME NEW w \in Peer, Arrive(w) \/ Enter(w) \/ Leave(w)
      PROVE  TypeOK' /\ UNCHANGED <<rd, wr, server>>
  <2>1. Mode(w) \in {"R", "W"}
    BY DEF Mode
  <2>2. KernelTypeOK((1..MaxPushes) \X Nat)' /\ peer' \in [Peer -> PeerState]
    BY <1>1, <1>2, <2>1, PeerVisitType DEF Arrive, Enter, Leave
  <2>3. UNCHANGED <<rd, wr, fifo, server, app>>
    BY <1>2 DEF Arrive, Enter, Leave
  <2> QED
    BY <2>2, <2>3 DEF TypeOK, server, callbacks, handlers, app
<1>3. ASSUME NEW w \in Peer, Receive(w)
      PROVE  TypeOK' /\ UNCHANGED <<rd, wr, server>>
  <2>1. KernelTypeOK((1..MaxPushes) \X Nat)' /\ UNCHANGED <<rd, wr, fifo, server, app, peer>>
    BY <1>1, <1>3, PeerReadsType DEF Receive, PeerReads
  <2> QED
    BY <2>1 DEF TypeOK, server, callbacks, handlers, app
<1>4. ASSUME NEW p \in Pipe, Remove(p)
      PROVE  TypeOK' /\ UNCHANGED <<rd, wr, server>>
  <2>1. KernelTypeOK((1..MaxPushes) \X Nat)' /\ UNCHANGED <<rd, wr, fifo, server, app, peer>>
    BY <1>1, <1>4, PathType DEF Remove, ServerUnlink
  <2> QED
    BY <2>1 DEF TypeOK, server, callbacks, handlers, app
<1> QED
  BY <1>2, <1>3, <1>4

LEMMA NextType == TypeOK /\ HalvesInv /\ [Next]_vars => TypeOK'
<1> SUFFICES ASSUME TypeOK, HalvesInv, [Next]_vars
             PROVE  TypeOK'
  OBVIOUS
<1>1. CASE UNCHANGED vars
  <2>1. KernelTypeOK((1..MaxPushes) \X Nat)'
    BY <1>1, KernelStutterType DEF vars, TypeOK
  <2> QED
    BY <1>1, <2>1 DEF vars, TypeOK, server, callbacks, handlers, app
<1>2. CASE Next
  BY <1>2, StartType, OwnerType, ThreadType, CallbackType, OthersType DEF Next
<1> QED
  BY <1>1, <1>2

-----------------------------------------------------------------------------
(* Steps of the halves outside the callbacks *)

Outside(c, k) == ~ConnectCallback(c, k) /\ ~DisconnectCallback(c, k)

Same(c, k) ==
  /\ ConnectCallback(c, k)' <=> ConnectCallback(c, k)
  /\ DisconnectCallback(c, k)' <=> DisconnectCallback(c, k)

(* Which callback a thread is in is a matter of its half alone. *)
LEMMA CallbacksAre ==
  ASSUME NEW c \in Rd
  PROVE  /\ ConnectCallback(c, "read") <=> rd[c].pc = "connectH"
         /\ DisconnectCallback(c, "read") <=> rd[c].pc = "disconnectH"
         /\ ConnectCallback(c, "write") <=> wr[c].pc = "connectH"
         /\ DisconnectCallback(c, "write") <=> wr[c].pc = "disconnectH"
         /\ ~ConnectCallback(c, "stop")
         /\ DisconnectCallback(c, "stop") <=> wr[c].ctl = "disconnectH"
BY DEF ConnectCallback, DisconnectCallback

LEMMA CallbacksAreNext ==
  ASSUME NEW c \in Rd
  PROVE  /\ ConnectCallback(c, "read")' <=> rd'[c].pc = "connectH"
         /\ DisconnectCallback(c, "read")' <=> rd'[c].pc = "disconnectH"
         /\ ConnectCallback(c, "write")' <=> wr'[c].pc = "connectH"
         /\ DisconnectCallback(c, "write")' <=> wr'[c].pc = "disconnectH"
         /\ ~ConnectCallback(c, "stop")'
         /\ DisconnectCallback(c, "stop")' <=> wr'[c].ctl = "disconnectH"
BY DEF ConnectCallback, DisconnectCallback

LEMMA OneCallback ==
  ASSUME NEW c \in Rd, NEW k \in Runner
  PROVE  ~(ConnectCallback(c, k) /\ DisconnectCallback(c, k))
BY CallbacksAre DEF Runner

(* A connection both halves of which are as they were, and one of which one *)
(* half is.                                                                 *)
LEMMA SameHalves ==
  ASSUME NEW c \in Rd
  PROVE  /\ rd'[c] = rd[c] => Same(c, "read")
         /\ wr'[c] = wr[c] => Same(c, "write") /\ Same(c, "stop")
         /\ rd'[c].pc = rd[c].pc => Same(c, "read")
         /\ wr'[c].pc = wr[c].pc => Same(c, "write")
         /\ (wr'[c].ctl = "disconnectH" <=> wr[c].ctl = "disconnectH") => Same(c, "stop")
BY CallbacksAre, CallbacksAreNext DEF Same

(* No thread leaves a callback, a thread that enters one does so at its     *)
(* beginning, and a flag is set by a thread that enters a connect callback. *)
HalfMove ==
  /\ UNCHANGED callbacks /\ (stopped => stopped')
  /\ \A c \in Rd, k \in Runner : Same(c, k) \/ Outside(c, k)
  /\ \A c \in Rd : rd'[c].waitConnect /\ wr'[c].waitConnect =>
       \/ rd[c].waitConnect /\ wr[c].waitConnect
       \/ \E k \in Runner : ConnectCallback(c, k)' /\ Outside(c, k)
  /\ HalvesInv'

(* It is enough to look at the connection whose step it is. *)
LEMMA HalfMoveLocal ==
  ASSUME HalvesInv, UNCHANGED callbacks, stopped => stopped', NEW c \in Rd,
         \A d \in Rd \ {c} : rd'[d] = rd[d] /\ wr'[d] = wr[d],
         stopped' \in BOOLEAN, stopped \in BOOLEAN,
         \A k \in Runner : Same(c, k) \/ Outside(c, k),
         rd'[c].waitConnect /\ wr'[c].waitConnect =>
           \/ rd[c].waitConnect /\ wr[c].waitConnect
           \/ \E k \in Runner : ConnectCallback(c, k)' /\ Outside(c, k),
         HalvesOf(c)'
  PROVE  HalfMove
<1>1. ASSUME NEW d \in Rd, NEW k \in Runner
      PROVE  Same(d, k) \/ Outside(d, k)
  <2>1. CASE d = c
    BY <2>1
  <2>2. CASE d # c
    BY <2>2, SameHalves DEF Runner
  <2> QED
    BY <2>1, <2>2
<1>2. ASSUME NEW d \in Rd, rd'[d].waitConnect, wr'[d].waitConnect
      PROVE  \/ rd[d].waitConnect /\ wr[d].waitConnect
             \/ \E k \in Runner : ConnectCallback(d, k)' /\ Outside(d, k)
  <2>1. CASE d = c
    BY <1>2, <2>1
  <2>2. CASE d # c
    BY <1>2, <2>2
  <2> QED
    BY <2>1, <2>2
<1>3. HalvesInv'
  <2>1. ASSUME NEW d \in Rd PROVE HalvesOf(d)'
    <3>1. CASE d = c
      BY <3>1
    <3>2. CASE d # c
      BY <3>2 DEF HalvesInv, HalvesOf
    <3> QED
      BY <3>1, <3>2
  <2> QED
    BY <2>1 DEF HalvesInv, HalvesOf
<1> QED
  BY <1>1, <1>2, <1>3 DEF HalfMove

LEMMA ReadingMoves ==
  ASSUME TypeOK, HalvesInv, NEW c \in Rd, Reading(c)
  PROVE  HalfMove
<1>1. rd \in [Rd -> ReadState] /\ HalvesOf(c) /\ stopped \in BOOLEAN
  BY DEF TypeOK, HalvesInv, HalvesOf
<1>2. /\ \A d \in Rd \ {c} : rd'[d] = rd[d]
      /\ rd'[c].ctl = rd[c].ctl
      /\ rd[c].pc \notin {"none", "connectH", "disconnectH"} /\ rd'[c].pc # "none"
      /\ \/ /\ rd'[c].pc \notin {"connectH", "disconnectH"}
            /\ rd'[c].waitConnect = rd[c].waitConnect
         \/ rd'[c].pc = "connectH" /\ rd'[c].waitConnect
         \/ rd'[c].pc = "disconnectH" /\ ~rd'[c].waitConnect
  BY <1>1, ReadThreadMoves DEF Reading, FifoReading
<1>3. UNCHANGED <<callbacks, stopped, wr>>
  BY DEF Reading, FifoReading, server
<1>4. Outside(c, "read") /\ Same(c, "write") /\ Same(c, "stop")
  BY <1>2, <1>3, CallbacksAre, SameHalves DEF Outside
<1>5. rd'[c].waitConnect /\ wr'[c].waitConnect =>
        \/ rd[c].waitConnect /\ wr[c].waitConnect
        \/ \E k \in Runner : ConnectCallback(c, k)' /\ Outside(c, k)
  BY <1>2, <1>3, <1>4, CallbacksAreNext DEF Runner
<1>6. HalvesOf(c)'
  BY <1>1, <1>2, <1>3 DEF HalvesOf
<1> QED
  BY <1>1, <1>2, <1>3, <1>4, <1>5, <1>6, HalfMoveLocal DEF Runner

LEMMA WritingMoves ==
  ASSUME TypeOK, HalvesInv, NEW c \in Rd, Writing(c)
  PROVE  HalfMove
<1>1. wr \in [Wr -> WriteState] /\ HalvesOf(c) /\ stopped \in BOOLEAN /\ c \in Wr
  BY FifoAssumption DEF TypeOK, HalvesInv, HalvesOf
<1>2. /\ \A d \in Wr \ {c} : wr'[d] = wr[d]
      /\ wr'[c].ctl = wr[c].ctl
      /\ wr[c].pc \notin {"none", "connectH", "disconnectH"} /\ wr'[c].pc # "none"
      /\ \/ /\ wr'[c].pc \notin {"connectH", "disconnectH"}
            /\ wr'[c].waitConnect = wr[c].waitConnect
         \/ wr'[c].pc = "connectH" /\ wr'[c].waitConnect
         \/ wr'[c].pc = "disconnectH" /\ ~wr'[c].waitConnect
      /\ wr'[c].pc \in {"write", "writing"} => wr'[c].queue # <<>>
  <2>1. wr[c].pc \in {"write", "writing"} => wr[c].queue # <<>>
    BY <1>1 DEF HalvesOf
  <2> QED
    BY <1>1, <2>1, WriteThreadMoves DEF Writing, FifoWriting
<1>3. UNCHANGED <<callbacks, stopped, rd>>
  BY DEF Writing, FifoWriting, server
<1>4. Outside(c, "write") /\ Same(c, "read") /\ Same(c, "stop")
  BY <1>2, <1>3, CallbacksAre, SameHalves DEF Outside
<1>5. rd'[c].waitConnect /\ wr'[c].waitConnect =>
        \/ rd[c].waitConnect /\ wr[c].waitConnect
        \/ \E k \in Runner : ConnectCallback(c, k)' /\ Outside(c, k)
  BY <1>2, <1>3, <1>4, CallbacksAreNext DEF Runner
<1>6. HalvesOf(c)'
  BY <1>1, <1>2, <1>3 DEF HalvesOf
<1> QED
  BY <1>1, <1>2, <1>3, <1>4, <1>5, <1>6, HalfMoveLocal, FifoAssumption DEF Runner

(* The owner's steps: setting up, starting, writing and stopping.           *)
LEMMA StartMoves ==
  ASSUME TypeOK, HalvesInv, NEW c \in Rd, New(c) \/ Start(c) \/ Starting(c)
  PROVE  HalfMove
<1>1. /\ rd \in [Rd -> ReadState] /\ wr \in [Wr -> WriteState]
      /\ HalvesOf(c) /\ stopped \in BOOLEAN /\ c \in Wr /\ Rd = Wr
  BY FifoAssumption DEF TypeOK, HalvesInv
<1>2. UNCHANGED <<callbacks, stopped>>
  BY DEF New, Start, Starting, ServerNew, ServerStart, ServerStarting, server
<1>3. /\ \A d \in Rd \ {c} : rd'[d] = rd[d] /\ wr'[d] = wr[d]
      /\ rd'[c].waitConnect = rd[c].waitConnect /\ wr'[c].waitConnect = wr[c].waitConnect
      /\ wr'[c].queue = wr[c].queue
      /\ \/ /\ rd'[c].pc = rd[c].pc /\ wr'[c].pc = wr[c].pc
            /\ rd'[c].ctl = rd[c].ctl /\ wr'[c].ctl = wr[c].ctl
         \/ /\ rd'[c].pc = rd[c].pc /\ wr'[c].pc = wr[c].pc
            /\ rd[c].ctl = "unborn" /\ rd'[c].ctl = "stopped" /\ wr'[c].ctl = "stopped"
         \/ /\ rd[c].ctl = "stopped" /\ rd'[c].pc = "connect" /\ rd'[c].ctl = "started"
            /\ wr'[c].pc = wr[c].pc /\ wr'[c].ctl = wr[c].ctl
         \/ /\ wr[c].ctl = "stopped" /\ wr'[c].pc = "connect" /\ wr'[c].ctl = "started"
            /\ rd'[c].pc = rd[c].pc /\ rd'[c].ctl = rd[c].ctl /\ rd[c].ctl = "started"
  <2>1. CASE New(c)
    BY <1>1, <2>1 DEF New, ServerNew, FifoNew, ReadState, WriteState
  <2>2. CASE Start(c)
    BY <1>1, <2>2 DEF Start, ServerStart, FifoStart
  <2>3. CASE FifoStartRead(c)
    BY <1>1, <2>3 DEF FifoStartRead, StartRead, ReadState
  <2>4. CASE FifoStartWrite(c)
    BY <1>1, <2>4 DEF FifoStartWrite, StartWrite, WriteState
  <2> QED
    BY <2>1, <2>2, <2>3, <2>4 DEF Starting, ServerStarting
<1>4. HalvesOf(c)'
  BY <1>1, <1>2, <1>3 DEF HalvesOf
<1>5. /\ Same(c, "read") \/ Outside(c, "read")
      /\ Same(c, "write") \/ Outside(c, "write")
      /\ Same(c, "stop")
  BY <1>1, <1>3, CallbacksAre, SameHalves DEF HalvesOf, Outside
<1> QED
  BY <1>1, <1>2, <1>3, <1>4, <1>5, HalfMoveLocal DEF Runner

LEMMA OwnerMoves ==
  ASSUME TypeOK, HalvesInv, NEW c \in Rd, Write(c) \/ Stop(c) \/ Stopping(c)
  PROVE  HalfMove
<1>1. /\ rd \in [Rd -> ReadState] /\ wr \in [Wr -> WriteState]
      /\ HalvesOf(c) /\ stopped \in BOOLEAN /\ c \in Wr /\ Rd = Wr
  BY FifoAssumption DEF TypeOK, HalvesInv
<1>2. UNCHANGED callbacks /\ stopped' \in {stopped, TRUE}
  BY DEF Write, Stop, Stopping, ServerWrite, ServerStop, ServerStopping, server
<1>3. CASE Write(c)
  <2>1. /\ \A d \in Rd \ {c} : rd'[d] = rd[d] /\ wr'[d] = wr[d]
        /\ rd'[c] = rd[c] /\ wr'[c].pc = wr[c].pc /\ wr'[c].ctl = wr[c].ctl
        /\ wr'[c].waitConnect = wr[c].waitConnect
        /\ wr[c].pc \notin {"write", "writing"}
        /\ stopped' = stopped
    BY <1>1, <1>3
       DEF Write, ServerWrite, FifoWrite, PushData, MutexHeld, WriteState, server
  <2>2. HalvesOf(c)'
    BY <1>1, <2>1 DEF HalvesOf
  <2>3. Same(c, "read") /\ Same(c, "write") /\ Same(c, "stop")
    BY <2>1, SameHalves
  <2> QED
    BY <1>1, <1>2, <2>1, <2>2, <2>3, HalfMoveLocal DEF Runner
<1>4. CASE Stop(c) \/ (Stopping(c) /\ FifoStopWrite(c))
  <2>1. /\ \/ StopWrite(c) /\ stopped' = TRUE
           \/ StopWriteStep(c) /\ stopped' = stopped
        /\ rd' = rd
    BY <1>4 DEF Stop, Stopping, ServerStop, ServerStopping, FifoStop, FifoStopWrite, server
  <2>2. /\ \A d \in Wr \ {c} : wr'[d] = wr[d]
        /\ wr[c].ctl \notin {"unborn", "stopped", "disconnectH"}
        /\ wr[c].ctl = "started" <=> StopWrite(c)
        /\ wr'[c].queue = wr[c].queue
        /\ \/ /\ wr'[c].pc = wr[c].pc /\ wr'[c].waitConnect = wr[c].waitConnect
              /\ wr'[c].ctl \notin {"unborn", "stopped", "started"}
           \/ /\ wr[c].pc = "done" /\ wr'[c].pc = "none" /\ ~wr'[c].waitConnect
              /\ wr'[c].ctl = "stopped"
    BY <1>1, <2>1, StopWriteMoves
  <2>3. stopped' = TRUE
    <3>1. CASE StopWrite(c)
      BY <2>1, <3>1, <1>1, <2>2 DEF StopWriteStep, StopWrite, StopWriteReconnect,
         StopWriteTestOpen, StopWriteRelease, StopWriteReleased, StopWriteReleaseClose,
         StopWriteTakes, StopWriteClose, StopWriteJoin
    <3>2. CASE ~StopWrite(c)
      BY <1>1, <2>1, <2>2, <3>2 DEF HalvesOf
    <3> QED
      BY <3>1, <3>2
  <2>4. HalvesOf(c)'
    BY <1>1, <2>1, <2>2, <2>3 DEF HalvesOf
  <2>5. Same(c, "read") /\ (Same(c, "write") \/ Outside(c, "write")) /\ Outside(c, "stop")
    BY <2>1, <2>2, CallbacksAre, SameHalves DEF Outside
  <2> QED
    BY <1>1, <1>2, <2>1, <2>2, <2>3, <2>4, <2>5, HalfMoveLocal DEF Runner
<1>5. CASE Stopping(c) /\ FifoStopRead(c)
  <2>1. (StopRead(c) \/ StopReadStep(c)) /\ stopped' = stopped /\ wr' = wr
    BY <1>5 DEF Stopping, ServerStopping, FifoStopRead, server
  <2>2. /\ \A d \in Rd \ {c} : rd'[d] = rd[d]
        /\ rd[c].ctl \notin {"unborn", "stopped"}
        /\ \/ /\ rd'[c].pc = rd[c].pc /\ rd'[c].waitConnect = rd[c].waitConnect
              /\ rd'[c].ctl \notin {"unborn", "stopped", "started"}
           \/ /\ rd[c].pc = "done" /\ rd'[c].pc = "none" /\ ~rd'[c].waitConnect
              /\ rd'[c].ctl = "stopped"
    BY <1>1, <2>1, StopReadMoves
  <2>3. HalvesOf(c)'
    BY <1>1, <2>1, <2>2 DEF HalvesOf
  <2>4. (Same(c, "read") \/ Outside(c, "read")) /\ Same(c, "write") /\ Same(c, "stop")
    BY <2>1, <2>2, CallbacksAre, SameHalves DEF Outside
  <2> QED
    BY <1>1, <1>2, <2>1, <2>2, <2>3, <2>4, HalfMoveLocal DEF Runner
<1> QED
  BY <1>3, <1>4, <1>5 DEF Stopping, ServerStopping

LEMMA MoveOfHalves ==
  ASSUME TypeOK, HalvesInv, NEW c \in Rd,
         \/ New(c) \/ Start(c) \/ Starting(c) \/ Write(c) \/ Stop(c) \/ Stopping(c)
         \/ Reading(c) \/ Writing(c)
  PROVE  HalfMove
BY StartMoves, OwnerMoves, ReadingMoves, WritingMoves

(* A step of the halves leaves the callbacks where they are.                *)
LEMMA CallbacksKept == TypeOK /\ CallbacksInv /\ HalfMove => CallbacksInv'
<1> SUFFICES ASSUME TypeOK, CallbacksInv, HalfMove PROVE CallbacksInv'
  OBVIOUS
<1>1. /\ UNCHANGED <<stateClient, at, newCalls, closeCalls>>
      /\ \A c \in Rd, k \in Runner : Same(c, k) \/ Outside(c, k)
      /\ \A c \in Rd, k \in Runner : Placed(c, k) /\ StateTested(c, k)
      /\ \A c \in Rd, k \in Runner : Outside(c, k) => at[c][k] = "begin"
  BY DEF HalfMove, callbacks, handlers, CallbacksInv, Placed, Outside
<1>2. ASSUME NEW c \in Rd, NEW k \in Runner
      PROVE  Placed(c, k)' /\ StateTested(c, k)'
  <2>1. CASE Same(c, k)
    BY <1>1, <2>1 DEF Same, Placed, StateTested
  <2>2. CASE Outside(c, k)
    BY <1>1, <2>2 DEF Placed, StateTested
  <2> QED
    BY <1>1, <2>1, <2>2
<1>3. ASSUME NEW c \in Rd, NEW k \in Runner
      PROVE  /\ Connecting(c, k)' => Connecting(c, k)
             /\ Disconnecting(c, k)' => Disconnecting(c, k)
  <2>1. CASE Same(c, k)
    BY <1>1, <2>1 DEF Same, Connecting, Disconnecting
  <2>2. CASE Outside(c, k)
    BY <1>1, <2>2 DEF Connecting, Disconnecting, Inside
  <2> QED
    BY <1>1, <2>1, <2>2
<1>4. MutexInv'
  BY <1>3 DEF CallbacksInv, MutexInv
<1>5. CallsMatchState'
  <2>1. ASSUME NEW c \in Rd
        PROVE  /\ {k \in Runner : ConnectCallback(c, k) /\ at[c][k] = "call"}' =
                    {k \in Runner : ConnectCallback(c, k) /\ at[c][k] = "call"}
               /\ {k \in Runner : DisconnectCallback(c, k) /\ at[c][k] = "call"}' =
                    {k \in Runner : DisconnectCallback(c, k) /\ at[c][k] = "call"}
    <3>1. ASSUME NEW k \in Runner
          PROVE  /\ (ConnectCallback(c, k) /\ at[c][k] = "call")' <=>
                       ConnectCallback(c, k) /\ at[c][k] = "call"
                 /\ (DisconnectCallback(c, k) /\ at[c][k] = "call")' <=>
                       DisconnectCallback(c, k) /\ at[c][k] = "call"
      BY <1>1, <2>1, <3>1 DEF Same
    <3> QED
      BY <3>1 DEF Runner
  <2>2. ASSUME NEW c \in Rd
        PROVE  /\ Due(c, ConnectCallback)' = Due(c, ConnectCallback)
               /\ Due(c, DisconnectCallback)' = Due(c, DisconnectCallback)
    BY <2>1 DEF Due
  <2> QED
    BY <1>1, <2>2 DEF CallbacksInv, CallsMatchState
<1> QED
  BY <1>2, <1>4, <1>5 DEF CallbacksInv

LEMMA ReportKept == TypeOK /\ CallbacksInv /\ ReportInv /\ HalfMove => ReportInv'
<1> SUFFICES ASSUME TypeOK, CallbacksInv, ReportInv, HalfMove,
                    NEW c \in Rd, (~stopped)', rd'[c].waitConnect, wr'[c].waitConnect
             PROVE  (stateClient[c] = "connect")' \/ \E k \in Runner : Reporting(c, k)'
  BY DEF ReportInv
<1>1. /\ UNCHANGED <<stateClient, at>> /\ ~stopped
      /\ \A k \in Runner : Same(c, k) \/ Outside(c, k)
      /\ \A k \in Runner : Outside(c, k) => at[c][k] = "begin"
      /\ \/ rd[c].waitConnect /\ wr[c].waitConnect
         \/ \E k \in Runner : ConnectCallback(c, k)' /\ Outside(c, k)
  BY DEF HalfMove, callbacks, CallbacksInv, Placed, Outside
<1>2. CASE rd[c].waitConnect /\ wr[c].waitConnect
  <2>1. CASE stateClient[c] = "connect"
    BY <1>1, <2>1
  <2>2. CASE stateClient[c] # "connect"
    <3>1. PICK k \in Runner : Reporting(c, k)
      BY <1>1, <1>2, <2>2 DEF ReportInv
    <3>2. Reporting(c, k)'
      BY <1>1, <3>1 DEF Reporting, Same, Outside
    <3> QED
      BY <3>2
  <2> QED
    BY <2>1, <2>2
<1>3. ASSUME NEW k \in Runner, ConnectCallback(c, k)', Outside(c, k)
      PROVE  Reporting(c, k)'
  BY <1>1, <1>3 DEF Reporting
<1> QED
  BY <1>1, <1>2, <1>3

-----------------------------------------------------------------------------
(* Steps of the callbacks *)

(* A thread that goes on in its callback, and one that returns from it: no  *)
(* other thread's callback is touched, nor is any flag.                     *)
Elsewhere(c, k) ==
  \A d \in Rd, l \in Runner : d # c \/ l # k => Same(d, l) /\ at'[d][l] = at[d][l]

FlagsKept ==
  /\ stopped' = stopped
  /\ \A d \in Rd : /\ rd'[d].waitConnect = rd[d].waitConnect
                   /\ wr'[d].waitConnect = wr[d].waitConnect

GoesTo(c, k, x) == Elsewhere(c, k) /\ FlagsKept /\ HalvesInv' /\ Same(c, k) /\ at'[c][k] = x

Returns(c, k) ==
  Elsewhere(c, k) /\ FlagsKept /\ HalvesInv' /\ Outside(c, k)' /\ at'[c][k] = "begin"

LEMMA GotoMoves ==
  ASSUME TypeOK, HalvesInv, NEW c \in Rd, NEW k \in Runner, NEW x \in Position,
         Goto(c, k, x)
  PROVE  GoesTo(c, k, x)
<1>1. UNCHANGED <<rd, wr, stopped>> /\ at' = [at EXCEPT ![c][k] = x]
      /\ at \in [Rd -> [Runner -> Position]]
  BY DEF Goto, TypeOK
<1>2. /\ at'[c][k] = x
      /\ \A d \in Rd, l \in Runner : d # c \/ l # k => at'[d][l] = at[d][l]
  BY <1>1, PositionType
<1>3. \A d \in Rd, l \in Runner : Same(d, l)
  BY <1>1, SameHalves DEF Runner
<1>4. HalvesInv'
  BY <1>1 DEF HalvesInv, HalvesOf
<1> QED
  BY <1>1, <1>2, <1>3, <1>4 DEF GoesTo, Elsewhere, FlagsKept

LEMMA ReturnMoves ==
  ASSUME TypeOK, HalvesInv, NEW c \in Rd, NEW k \in Runner, Return(c, k)
  PROVE  Returns(c, k)
<1>1. /\ rd \in [Rd -> ReadState] /\ wr \in [Wr -> WriteState] /\ Rd = Wr
      /\ at \in [Rd -> [Runner -> Position]] /\ HalvesOf(c)
      /\ at' = [at EXCEPT ![c][k] = "begin"] /\ "begin" \in Position
      /\ stopped' = stopped
  BY FifoAssumption DEF Return, TypeOK, HalvesInv, Position
<1>2. /\ at'[c][k] = "begin"
      /\ \A d \in Rd, l \in Runner : d # c \/ l # k => at'[d][l] = at[d][l]
  BY <1>1, PositionType
<1>3. CASE k = "read"
  <2>1. /\ rd[c].pc \in {"connectH", "disconnectH"} /\ rd'[c].pc \in {"loop", "again"}
        /\ rd'[c].ctl = rd[c].ctl /\ rd'[c].waitConnect = rd[c].waitConnect
        /\ wr' = wr /\ \A d \in Rd \ {c} : rd'[d] = rd[d]
    BY <1>1, <1>3
       DEF Return, ReadConnectHandlerReturns, ReadDisconnectHandlerReturns, ReadState
  <2>2. HalvesOf(c)'
    BY <1>1, <2>1 DEF HalvesOf
  <2>3. Outside(c, "read")' /\ Same(c, "write") /\ Same(c, "stop")
    BY <2>1, CallbacksAreNext, SameHalves DEF Outside
  <2>4. \A d \in Rd \ {c} : HalvesOf(d)' /\ \A l \in Runner : Same(d, l)
    BY <1>1, <2>1, SameHalves DEF HalvesInv, HalvesOf, Runner
  <2> QED
    BY <1>1, <1>2, <1>3, <2>1, <2>2, <2>3, <2>4
       DEF Returns, Elsewhere, FlagsKept, HalvesInv, Runner
<1>4. CASE k # "read"
  <2>1. /\ \/ /\ k = "write" /\ wr[c].pc \in {"connectH", "disconnectH"}
              /\ wr'[c].pc \in {"loop", "again"} /\ wr'[c].ctl = wr[c].ctl
           \/ /\ k = "stop" /\ wr[c].ctl = "disconnectH" /\ wr'[c].ctl = "testOpen"
              /\ wr'[c].pc = wr[c].pc
        /\ wr'[c].waitConnect = wr[c].waitConnect /\ wr'[c].queue = wr[c].queue
        /\ rd' = rd /\ \A d \in Rd \ {c} : wr'[d] = wr[d]
    BY <1>1, <1>4
       DEF Return, WriteConnectHandlerReturns, WriteDisconnectHandlerReturns,
           StopWriteHandlerReturns, WriteState
  <2>2. HalvesOf(c)'
    BY <1>1, <2>1 DEF HalvesOf
  <2>3. /\ Outside(c, k)' /\ Same(c, "read")
        /\ k = "write" => Same(c, "stop")
        /\ k = "stop" => Same(c, "write")
    BY <2>1, CallbacksAreNext, SameHalves DEF Outside
  <2>4. \A d \in Rd \ {c} : HalvesOf(d)' /\ \A l \in Runner : Same(d, l)
    BY <1>1, <2>1, SameHalves DEF HalvesInv, HalvesOf, Runner
  <2> QED
    BY <1>1, <1>2, <1>4, <2>1, <2>2, <2>3, <2>4
       DEF Returns, Elsewhere, FlagsKept, HalvesInv, Runner
<1> QED
  BY <1>3, <1>4

(* The steps of connectH() and of disconnectH().                            *)
ConnectQuiet(c, k) ==
  /\ UNCHANGED <<stateClient, handlers>>
  /\ \/ at[c][k] = "begin" /\ ~mtxConnect /\ GoesTo(c, k, "flag")
     \/ at[c][k] = "flag" /\ GoesTo(c, k, "state")
     \/ at[c][k] = "state" /\ stateClient[c] = "disconnect" /\ GoesTo(c, k, "set")
     \/ /\ \/ at[c][k] = "begin" /\ ~wr[c].waitConnect
           \/ at[c][k] = "flag" /\ ~rd[c].waitConnect
           \/ at[c][k] = "state" /\ stateClient[c] # "disconnect"
        /\ Returns(c, k)

ConnectSets(c, k) ==
  /\ at[c][k] = "set" /\ stateClient' = [stateClient EXCEPT ![c] = "connect"]
  /\ GoesTo(c, k, "call") /\ UNCHANGED handlers

ConnectCalls(c, k) ==
  /\ at[c][k] = "call" /\ newCalls' = [newCalls EXCEPT ![c] = @ + 1]
  /\ Returns(c, k) /\ UNCHANGED <<stateClient, closeCalls>>

DisconnectQuiet(c, k) ==
  /\ UNCHANGED <<stateClient, handlers>>
  /\ \/ at[c][k] = "begin" /\ k = "read" /\ GoesTo(c, k, "close")
     \/ at[c][k] = "close" /\ k = "read" /\ GoesTo(c, k, "closed")
     \/ /\ at[c][k] \in {"begin", "closed"} /\ ~mtxDisconnect
        /\ GoesTo(c, k, "flag") \/ GoesTo(c, k, "state")
     \/ at[c][k] = "flag" /\ GoesTo(c, k, "state")
     \/ at[c][k] = "state" /\ stateClient[c] = "connect" /\ GoesTo(c, k, "set")
     \/ at[c][k] \in {"flag", "state"} /\ Returns(c, k)

DisconnectSets(c, k) ==
  /\ at[c][k] = "set" /\ stateClient' = [stateClient EXCEPT ![c] = "disconnect"]
  /\ GoesTo(c, k, "call") /\ UNCHANGED handlers

DisconnectCalls(c, k) ==
  /\ at[c][k] = "call" /\ closeCalls' = [closeCalls EXCEPT ![c] = @ + 1]
  /\ Returns(c, k) /\ UNCHANGED <<stateClient, newCalls>>

LEMMA ClosingMoves ==
  ASSUME TypeOK, HalvesInv, NEW c \in Rd, DisconnectTakes(c) \/ DisconnectClose(c)
  PROVE  DisconnectQuiet(c, "read")
<1>1. PICK x \in {"close", "closed"} :
        /\ at' = [at EXCEPT ![c]["read"] = x]
        /\ at[c]["read"] = (IF x = "close" THEN "begin" ELSE "close")
  BY DEF DisconnectTakes, DisconnectClose
<1>2. /\ UNCHANGED <<rd, wr, stopped>> /\ UNCHANGED <<stateClient, handlers>>
      /\ at \in [Rd -> [Runner -> Position]] /\ "read" \in Runner /\ x \in Position
  BY DEF DisconnectTakes, DisconnectClose, closeWriteTakes, Takes, closeTaken, TypeOK,
     Runner, Position
<1>3. /\ at'[c]["read"] = x
      /\ \A d \in Rd, l \in Runner : d # c \/ l # "read" => at'[d][l] = at[d][l]
  BY <1>1, <1>2, PositionType
<1>4. \A d \in Rd, l \in Runner : Same(d, l)
  BY <1>2, SameHalves DEF Runner
<1>5. HalvesInv'
  BY <1>2 DEF HalvesInv, HalvesOf
<1>6. GoesTo(c, "read", x)
  BY <1>2, <1>3, <1>4, <1>5 DEF GoesTo, Elsewhere, FlagsKept
<1> QED
  BY <1>1, <1>2, <1>6 DEF DisconnectQuiet

LEMMA HandlingMoves ==
  ASSUME TypeOK, HalvesInv, NEW c \in Rd, NEW k \in Runner, Handling(c, k)
  PROVE  \/ /\ ConnectCallback(c, k)
            /\ ConnectQuiet(c, k) \/ ConnectSets(c, k) \/ ConnectCalls(c, k)
         \/ /\ DisconnectCallback(c, k)
            /\ DisconnectQuiet(c, k) \/ DisconnectSets(c, k) \/ DisconnectCalls(c, k)
<1>1. /\ \A x \in Position : Goto(c, k, x) => GoesTo(c, k, x)
      /\ Return(c, k) => Returns(c, k)
      /\ Position = {"begin", "close", "closed", "flag", "state", "set", "call"}
  BY GotoMoves, ReturnMoves DEF Position
<1>2. ServerCallback(c, k)
  BY DEF Handling
<1>3. CASE ConnectFlagWrite(c, k) \/ ConnectFlagRead(c, k) \/ ConnectState(c, k)
  <2>1. CASE ConnectFlagWrite(c, k)
    BY <1>1, <2>1 DEF ConnectFlagWrite, ConnectQuiet
  <2>2. CASE ConnectFlagRead(c, k)
    BY <1>1, <2>2 DEF ConnectFlagRead, ConnectQuiet
  <2>3. CASE ConnectState(c, k)
    BY <1>1, <2>3 DEF ConnectState, ConnectQuiet
  <2> QED
    BY <1>3, <2>1, <2>2, <2>3
<1>4. CASE ConnectSet(c, k)
  BY <1>1, <1>4 DEF ConnectSet, ConnectSets
<1>5. CASE ConnectCall(c, k)
  BY <1>1, <1>5 DEF ConnectCall, ConnectCalls
<1>6. CASE k = "read" /\ (DisconnectTakes(c) \/ DisconnectClose(c))
  BY <1>6, ClosingMoves DEF DisconnectTakes, DisconnectClose
<1>7. CASE DisconnectFlagWrite(c, k)
  <2>1. /\ DisconnectCallback(c, k) /\ at[c][k] \in {"begin", "closed"} /\ ~mtxDisconnect
        /\ UNCHANGED <<stateClient, handlers>>
        /\ Goto(c, k, "state") \/ Goto(c, k, "flag")
    BY <1>7 DEF DisconnectFlagWrite
  <2> QED
    BY <1>1, <2>1 DEF DisconnectQuiet
<1>8. CASE DisconnectFlagRead(c, k)
  BY <1>1, <1>8 DEF DisconnectFlagRead, DisconnectQuiet
<1>9. CASE DisconnectState(c, k)
  BY <1>1, <1>9 DEF DisconnectState, DisconnectQuiet
<1>10. CASE DisconnectSet(c, k)
  BY <1>1, <1>10 DEF DisconnectSet, DisconnectSets
<1>11. CASE DisconnectCall(c, k)
  BY <1>1, <1>11 DEF DisconnectCall, DisconnectCalls
<1> QED
  BY <1>2, <1>3, <1>4, <1>5, <1>6, <1>7, <1>8, <1>9, <1>10, <1>11 DEF ServerCallback

(* The state is reported by whichever connect callback is to set it; no     *)
(* disconnect callback is in progress at a connection that is up.           *)
LEMMA HandlingReports ==
  ASSUME TypeOK, HalvesInv, CallbacksInv, ReportInv,
         NEW c \in Rd, NEW k \in Runner, Handling(c, k)
  PROVE  ReportInv'
<1> SUFFICES ASSUME NEW d \in Rd, (~stopped)', rd'[d].waitConnect, wr'[d].waitConnect
             PROVE  stateClient'[d] = "connect" \/ \E l \in Runner : Reporting(d, l)'
  BY DEF ReportInv
<1>1. /\ Elsewhere(c, k) /\ FlagsKept
      /\ \A e \in Rd \ {c} : stateClient'[e] = stateClient[e]
      /\ stateClient \in [Rd -> {"disconnect", "connect"}]
  <2>1. stateClient \in [Rd -> {"disconnect", "connect"}]
    BY DEF TypeOK
  <2> QED
    BY <2>1, HandlingMoves DEF ConnectQuiet, ConnectSets, ConnectCalls,
       DisconnectQuiet, DisconnectSets, DisconnectCalls, GoesTo, Returns
<1>2. /\ ~stopped /\ rd[d].waitConnect /\ wr[d].waitConnect
      /\ stateClient[d] = "connect" \/ \E l \in Runner : Reporting(d, l)
  BY <1>1 DEF FlagsKept, ReportInv
<1>3. ASSUME NEW l \in Runner, d # c \/ l # k, Reporting(d, l)
      PROVE  Reporting(d, l)'
  BY <1>1, <1>3 DEF Elsewhere, Same, Reporting
<1>4. CASE d # c
  BY <1>1, <1>2, <1>3, <1>4
<1>5. CASE d = c
  <2>1. ~DisconnectCallback(c, k)
    BY <1>2, <1>5, CallbacksAre DEF HalvesInv, HalvesOf, Runner
  <2>2. CASE ConnectQuiet(c, k)
    <3>1. stateClient' = stateClient
      BY <2>2 DEF ConnectQuiet
    <3>2. CASE stateClient[c] = "connect"
      BY <1>5, <3>1, <3>2
    <3>3. CASE stateClient[c] # "connect"
      <4>1. stateClient[c] = "disconnect"
        BY <1>1, <3>3
      <4>2. ~Reporting(c, k) \/ Reporting(c, k)'
        BY <1>2, <1>5, <2>2, <4>1 DEF ConnectQuiet, GoesTo, Same, Reporting
      <4> QED
        BY <1>2, <1>3, <1>5, <3>3, <4>2
    <3> QED
      BY <3>2, <3>3
  <2>3. CASE ConnectSets(c, k)
    BY <1>1, <1>5, <2>3 DEF ConnectSets
  <2>4. CASE ConnectCalls(c, k)
    <3>1. stateClient' = stateClient /\ ~Reporting(c, k)
      BY <2>4 DEF ConnectCalls, Reporting
    <3> QED
      BY <1>2, <1>3, <1>5, <3>1
  <2> QED
    BY <2>1, <2>2, <2>3, <2>4, HandlingMoves
<1> QED
  BY <1>4, <1>5

(* The mutexes: a callback gets past one only when no other callback of its *)
(* kind is, and what it has read of the state stays true until it sets it.  *)
LEMMA HandlingExcludes ==
  ASSUME TypeOK, HalvesInv, CallbacksInv,
         NEW c \in Rd, NEW k \in Runner, Handling(c, k)
  PROVE  /\ \A d \in Rd, l \in Runner : Placed(d, l)' /\ StateTested(d, l)'
         /\ MutexInv'
<1>1. /\ Elsewhere(c, k)
      /\ ConnectCallback(c, k) \/ DisconnectCallback(c, k)
      /\ stateClient' \in [Rd -> {"disconnect", "connect"}]
      /\ \A e \in Rd \ {c} : stateClient'[e] = stateClient[e]
      /\ stateClient'[c] # stateClient[c] => at[c][k] = "set"
      /\ Same(c, k) \/ (Outside(c, k)' /\ at'[c][k] = "begin")
      /\ at'[c][k] \in {"close", "closed"} => k = "read" /\ DisconnectCallback(c, k)
      /\ at'[c][k] = "set" =>
           /\ stateClient' = stateClient
           /\ stateClient[c] = IF ConnectCallback(c, k) THEN "disconnect" ELSE "connect"
      /\ at'[c][k] \in Inside =>
           \/ at[c][k] \in Inside
           \/ ConnectCallback(c, k) /\ ~mtxConnect
           \/ DisconnectCallback(c, k) /\ ~mtxDisconnect
  <2>1. stateClient \in [Rd -> {"disconnect", "connect"}]
    BY DEF TypeOK
  <2>2. ~(ConnectCallback(c, k) /\ DisconnectCallback(c, k))
    BY OneCallback
  <2>3. CASE ConnectCallback(c, k) /\ ConnectQuiet(c, k)
    BY <2>1, <2>2, <2>3 DEF ConnectQuiet, GoesTo, Returns, Inside
  <2>4. CASE ConnectCallback(c, k) /\ (ConnectSets(c, k) \/ ConnectCalls(c, k))
    BY <2>1, <2>2, <2>4 DEF ConnectSets, ConnectCalls, GoesTo, Returns, Inside
  <2>5. CASE DisconnectCallback(c, k) /\ DisconnectQuiet(c, k)
    BY <2>1, <2>2, <2>5 DEF DisconnectQuiet, GoesTo, Returns, Inside
  <2>6. CASE DisconnectCallback(c, k) /\ (DisconnectSets(c, k) \/ DisconnectCalls(c, k))
    BY <2>1, <2>2, <2>6 DEF DisconnectSets, DisconnectCalls, GoesTo, Returns, Inside
  <2>7. \/ /\ ConnectCallback(c, k)
           /\ ConnectQuiet(c, k) \/ ConnectSets(c, k) \/ ConnectCalls(c, k)
        \/ /\ DisconnectCallback(c, k)
           /\ DisconnectQuiet(c, k) \/ DisconnectSets(c, k) \/ DisconnectCalls(c, k)
    BY HandlingMoves
  <2> QED
    BY <2>3, <2>4, <2>5, <2>6, <2>7
<1>2. \A d \in Rd, l \in Runner : Placed(d, l) /\ StateTested(d, l)
  BY DEF CallbacksInv
<1>3. ASSUME NEW d \in Rd, NEW l \in Runner
      PROVE  Placed(d, l)'
  BY <1>1, <1>2 DEF Elsewhere, Same, Placed, Outside
<1>4. ASSUME NEW d \in Rd, NEW l \in Runner, at'[d][l] = "set"
      PROVE  StateTested(d, l)'
  <2>1. CASE d = c /\ l = k
    BY <1>1, <1>4, <2>1 DEF Same, StateTested
  <2>2. CASE d # c \/ l # k
    <3>1. at[d][l] = "set" /\ Same(d, l)
      BY <1>1, <1>4, <2>2 DEF Elsewhere
    <3>2. ConnectCallback(d, l) \/ DisconnectCallback(d, l)
      BY <1>2, <3>1 DEF Placed
    <3>3. stateClient'[d] = stateClient[d]
      <4> SUFFICES ASSUME d = c, at[c][k] = "set" PROVE FALSE
        BY <1>1
      <4>1. ConnectCallback(c, k) \/ DisconnectCallback(c, k)
        BY <1>2 DEF Placed
      <4>2. /\ ~(ConnectCallback(c, k) /\ ConnectCallback(c, l))
            /\ ~(DisconnectCallback(c, k) /\ DisconnectCallback(c, l))
        BY <2>2, <3>1 DEF CallbacksInv, MutexInv, Connecting, Disconnecting, Inside
      <4>3. /\ stateClient[c] = IF ConnectCallback(c, k) THEN "disconnect" ELSE "connect"
            /\ stateClient[c] = IF ConnectCallback(c, l) THEN "disconnect" ELSE "connect"
        BY <1>2, <3>1 DEF StateTested
      <4> QED
        BY <3>2, <4>1, <4>2, <4>3
    <3> QED
      BY <1>2, <3>1, <3>3 DEF StateTested, Same
  <2> QED
    BY <2>1, <2>2
<1>5. MutexInv'
  <2>1. ASSUME NEW d \in Rd, NEW l \in Runner
        PROVE  /\ Connecting(d, l)' => \/ Connecting(d, l)
                                       \/ d = c /\ l = k /\ ~mtxConnect
               /\ Disconnecting(d, l)' => \/ Disconnecting(d, l)
                                          \/ d = c /\ l = k /\ ~mtxDisconnect
    <3>1. CASE d = c /\ l = k
      <4>1. ~(ConnectCallback(c, k) /\ DisconnectCallback(c, k)) /\ "begin" \notin Inside
        BY OneCallback DEF Inside
      <4> QED
        BY <1>1, <3>1, <4>1 DEF Connecting, Disconnecting, Same, Outside
    <3>2. CASE d # c \/ l # k
      BY <1>1, <3>2 DEF Connecting, Disconnecting, Elsewhere, Same
    <3> QED
      BY <3>1, <3>2
  <2>2. /\ mtxConnect <=> \E d \in Rd, l \in Runner : Connecting(d, l)
        /\ mtxDisconnect <=> \E d \in Rd, l \in Runner : Disconnecting(d, l)
    BY DEF mtxConnect, mtxDisconnect, Connecting, Disconnecting
  <2> QED
    BY <2>1, <2>2 DEF CallbacksInv, MutexInv
<1> QED
  BY <1>3, <1>4, <1>5 DEF StateTested

(* The counters.  The callbacks of one kind that are about to call are at   *)
(* most one at a connection.                                                *)
LEMMA DueType ==
  ASSUME NEW c \in Rd
  PROVE  Due(c, ConnectCallback) \in Nat /\ Due(c, DisconnectCallback) \in Nat
<1>1. IsFiniteSet(Runner)
  <2>1. IsFiniteSet({"read"}) /\ IsFiniteSet({"write"}) /\ IsFiniteSet({"stop"})
    BY FS_Singleton
  <2>2. IsFiniteSet({"read"} \cup {"write"})
    BY <2>1, FS_Union
  <2>3. IsFiniteSet(({"read"} \cup {"write"}) \cup {"stop"})
    BY <2>1, <2>2, FS_Union
  <2>4. Runner = ({"read"} \cup {"write"}) \cup {"stop"}
    BY DEF Runner
  <2> QED
    BY <2>3, <2>4
<1>2. ASSUME NEW S \in SUBSET Runner PROVE Cardinality(S) \in Nat
  BY <1>1, FS_Subset, FS_CardinalityType
<1> QED
  BY <1>2 DEF Due

(* A connection none of whose threads comes to a call or makes one.         *)
LEMMA DueKept ==
  ASSUME NEW d \in Rd,
         \A l \in Runner : \/ Same(d, l) /\ at'[d][l] = at[d][l]
                           \/ at[d][l] # "call" /\ at'[d][l] # "call"
  PROVE  /\ Due(d, ConnectCallback)' = Due(d, ConnectCallback)
         /\ Due(d, DisconnectCallback)' = Due(d, DisconnectCallback)
<1>1. ASSUME NEW l \in Runner
      PROVE  /\ (ConnectCallback(d, l) /\ at[d][l] = "call")' <=>
                   ConnectCallback(d, l) /\ at[d][l] = "call"
             /\ (DisconnectCallback(d, l) /\ at[d][l] = "call")' <=>
                   DisconnectCallback(d, l) /\ at[d][l] = "call"
  BY <1>1 DEF Same
<1>2. /\ {l \in Runner : ConnectCallback(d, l) /\ at[d][l] = "call"}' =
           {l \in Runner : ConnectCallback(d, l) /\ at[d][l] = "call"}
      /\ {l \in Runner : DisconnectCallback(d, l) /\ at[d][l] = "call"}' =
           {l \in Runner : DisconnectCallback(d, l) /\ at[d][l] = "call"}
  BY <1>1 DEF Runner
<1> QED
  BY <1>2 DEF Due

(* Between its test of the state and its return a callback goes from none   *)
(* due to one, and from one to none.                                        *)
LEMMA ConnectDue ==
  ASSUME MutexInv, NEW c \in Rd, NEW k \in Runner, ConnectCallback(c, k),
         \/ at[c][k] = "set" /\ GoesTo(c, k, "call")
         \/ at[c][k] = "call" /\ Returns(c, k)
  PROVE  /\ Due(c, ConnectCallback) = (IF at[c][k] = "set" THEN 0 ELSE 1)
         /\ Due(c, ConnectCallback)' = (IF at[c][k] = "set" THEN 1 ELSE 0)
         /\ Due(c, DisconnectCallback)' = Due(c, DisconnectCallback)
<1>1. /\ at[c][k] = "set" => Same(c, k) /\ at'[c][k] = "call"
      /\ at[c][k] # "set" => at[c][k] = "call" /\ Outside(c, k)' /\ at'[c][k] = "begin"
      /\ \A l \in Runner \ {k} : Same(c, l) /\ at'[c][l] = at[c][l]
  BY DEF GoesTo, Returns, Elsewhere
<1>2. \A l \in Runner \ {k} : ~(ConnectCallback(c, l) /\ at[c][l] = "call")
  BY <1>1 DEF MutexInv, Connecting, Inside
<1>3. {l \in Runner : ConnectCallback(c, l) /\ at[c][l] = "call"}
         = IF at[c][k] = "set" THEN {} ELSE {k}
  BY <1>1, <1>2
<1>4. \A l \in Runner :
        (ConnectCallback(c, l) /\ at[c][l] = "call")' <=> l = k /\ at[c][k] = "set"
  BY <1>1, <1>2 DEF Same, Outside
<1>5. {l \in Runner : ConnectCallback(c, l) /\ at[c][l] = "call"}'
         = IF at[c][k] = "set" THEN {k} ELSE {}
  BY <1>4
<1>6. \A l \in Runner :
        (DisconnectCallback(c, l) /\ at[c][l] = "call")' <=>
          DisconnectCallback(c, l) /\ at[c][l] = "call"
  BY <1>1, OneCallback DEF Same, Outside
<1>7. {l \in Runner : DisconnectCallback(c, l) /\ at[c][l] = "call"}'
         = {l \in Runner : DisconnectCallback(c, l) /\ at[c][l] = "call"}
  BY <1>6
<1>8. Cardinality({}) = 0 /\ Cardinality({k}) = 1
  BY FS_EmptySet, FS_Singleton
<1> QED
  BY <1>3, <1>5, <1>7, <1>8 DEF Due

LEMMA DisconnectDue ==
  ASSUME MutexInv, NEW c \in Rd, NEW k \in Runner, DisconnectCallback(c, k),
         \/ at[c][k] = "set" /\ GoesTo(c, k, "call")
         \/ at[c][k] = "call" /\ Returns(c, k)
  PROVE  /\ Due(c, DisconnectCallback) = (IF at[c][k] = "set" THEN 0 ELSE 1)
         /\ Due(c, DisconnectCallback)' = (IF at[c][k] = "set" THEN 1 ELSE 0)
         /\ Due(c, ConnectCallback)' = Due(c, ConnectCallback)
<1>1. /\ at[c][k] = "set" => Same(c, k) /\ at'[c][k] = "call"
      /\ at[c][k] # "set" => at[c][k] = "call" /\ Outside(c, k)' /\ at'[c][k] = "begin"
      /\ \A l \in Runner \ {k} : Same(c, l) /\ at'[c][l] = at[c][l]
  BY DEF GoesTo, Returns, Elsewhere
<1>2. \A l \in Runner \ {k} : ~(DisconnectCallback(c, l) /\ at[c][l] = "call")
  BY <1>1 DEF MutexInv, Disconnecting, Inside
<1>3. {l \in Runner : DisconnectCallback(c, l) /\ at[c][l] = "call"}
         = IF at[c][k] = "set" THEN {} ELSE {k}
  BY <1>1, <1>2
<1>4. \A l \in Runner :
        (DisconnectCallback(c, l) /\ at[c][l] = "call")' <=> l = k /\ at[c][k] = "set"
  BY <1>1, <1>2 DEF Same, Outside
<1>5. {l \in Runner : DisconnectCallback(c, l) /\ at[c][l] = "call"}'
         = IF at[c][k] = "set" THEN {k} ELSE {}
  BY <1>4
<1>6. \A l \in Runner :
        (ConnectCallback(c, l) /\ at[c][l] = "call")' <=>
          ConnectCallback(c, l) /\ at[c][l] = "call"
  BY <1>1, OneCallback DEF Same, Outside
<1>7. {l \in Runner : ConnectCallback(c, l) /\ at[c][l] = "call"}'
         = {l \in Runner : ConnectCallback(c, l) /\ at[c][l] = "call"}
  BY <1>6
<1>8. Cardinality({}) = 0 /\ Cardinality({k}) = 1
  BY FS_EmptySet, FS_Singleton
<1> QED
  BY <1>3, <1>5, <1>7, <1>8 DEF Due

LEMMA HandlingCounts ==
  ASSUME TypeOK, HalvesInv, CallbacksInv,
         NEW c \in Rd, NEW k \in Runner, Handling(c, k)
  PROVE  CallsMatchState'
<1>1. /\ newCalls \in [Rd -> Nat] /\ closeCalls \in [Rd -> Nat]
      /\ stateClient \in [Rd -> {"disconnect", "connect"}]
  BY DEF TypeOK
<1>2. MutexInv /\ CallsMatchState /\ StateTested(c, k)
  BY DEF CallbacksInv
<1>3. /\ Elsewhere(c, k)
      /\ \A d \in Rd \ {c} : /\ stateClient'[d] = stateClient[d]
                             /\ newCalls'[d] = newCalls[d]
                             /\ closeCalls'[d] = closeCalls[d]
  BY <1>1, HandlingMoves DEF ConnectQuiet, ConnectSets, ConnectCalls,
     DisconnectQuiet, DisconnectSets, DisconnectCalls, GoesTo, Returns, handlers
<1>4. \A d \in Rd \ {c} : /\ Due(d, ConnectCallback)' = Due(d, ConnectCallback)
                          /\ Due(d, DisconnectCallback)' = Due(d, DisconnectCallback)
  BY <1>3, DueKept DEF Elsewhere
<1> DEFINE Matches(d) ==
  (newCalls[d] + Due(d, ConnectCallback)) - (closeCalls[d] + Due(d, DisconnectCallback))
    = (IF stateClient[d] = "connect" THEN 1 ELSE 0)
<1>5. \A d \in Rd : Matches(d)
  BY <1>2 DEF CallsMatchState
<1>6. Due(c, ConnectCallback) \in Nat /\ Due(c, DisconnectCallback) \in Nat
  BY DueType
<1>7. Matches(c)'
  <2>1. CASE ConnectQuiet(c, k) \/ DisconnectQuiet(c, k)
    <3>1. /\ UNCHANGED <<stateClient, newCalls, closeCalls>>
          /\ at[c][k] # "call" /\ at'[c][k] # "call"
      BY <2>1 DEF ConnectQuiet, DisconnectQuiet, GoesTo, Returns, handlers
    <3>2. /\ Due(c, ConnectCallback)' = Due(c, ConnectCallback)
          /\ Due(c, DisconnectCallback)' = Due(c, DisconnectCallback)
      BY <1>3, <3>1, DueKept DEF Elsewhere
    <3> QED
      BY <1>5, <3>1, <3>2
  <2>2. CASE ConnectCallback(c, k) /\ ConnectSets(c, k)
    <3>1. /\ stateClient[c] = "disconnect" /\ stateClient'[c] = "connect"
          /\ UNCHANGED <<newCalls, closeCalls>>
      BY <1>1, <1>2, <2>2 DEF StateTested, ConnectSets, handlers
    <3>2. /\ Due(c, ConnectCallback) = 0 /\ Due(c, ConnectCallback)' = 1
          /\ Due(c, DisconnectCallback)' = Due(c, DisconnectCallback)
      BY <1>2, <2>2, ConnectDue DEF ConnectSets
    <3> QED
      BY <1>1, <1>5, <1>6, <3>1, <3>2
  <2>3. CASE ConnectCallback(c, k) /\ ConnectCalls(c, k)
    <3>1. /\ newCalls'[c] = newCalls[c] + 1 /\ UNCHANGED <<stateClient, closeCalls>>
      BY <1>1, <2>3 DEF ConnectCalls
    <3>2. /\ Due(c, ConnectCallback) = 1 /\ Due(c, ConnectCallback)' = 0
          /\ Due(c, DisconnectCallback)' = Due(c, DisconnectCallback)
      BY <1>2, <2>3, ConnectDue DEF ConnectCalls
    <3> QED
      BY <1>1, <1>5, <1>6, <3>1, <3>2
  <2>4. CASE DisconnectCallback(c, k) /\ DisconnectSets(c, k)
    <3>1. /\ stateClient[c] = "connect" /\ stateClient'[c] = "disconnect"
          /\ UNCHANGED <<newCalls, closeCalls>>
      BY <1>1, <1>2, <2>4, OneCallback DEF StateTested, DisconnectSets, handlers
    <3>2. /\ Due(c, DisconnectCallback) = 0 /\ Due(c, DisconnectCallback)' = 1
          /\ Due(c, ConnectCallback)' = Due(c, ConnectCallback)
      BY <1>2, <2>4, DisconnectDue DEF DisconnectSets
    <3> QED
      BY <1>1, <1>5, <1>6, <3>1, <3>2
  <2>5. CASE DisconnectCallback(c, k) /\ DisconnectCalls(c, k)
    <3>1. /\ closeCalls'[c] = closeCalls[c] + 1 /\ UNCHANGED <<stateClient, newCalls>>
      BY <1>1, <2>5 DEF DisconnectCalls
    <3>2. /\ Due(c, DisconnectCallback) = 1 /\ Due(c, DisconnectCallback)' = 0
          /\ Due(c, ConnectCallback)' = Due(c, ConnectCallback)
      BY <1>2, <2>5, DisconnectDue DEF DisconnectCalls
    <3> QED
      BY <1>1, <1>5, <1>6, <3>1, <3>2
  <2> QED
    BY <2>1, <2>2, <2>3, <2>4, <2>5, HandlingMoves
<1>8. \A d \in Rd \ {c} : Matches(d)'
  BY <1>3, <1>4, <1>5
<1> QED
  BY <1>7, <1>8 DEF CallsMatchState

-----------------------------------------------------------------------------
(* The theorems *)

LEMMA StillMoves ==
  ASSUME HalvesInv, UNCHANGED <<rd, wr, callbacks, stopped>>
  PROVE  HalfMove
<1>1. \A c \in Rd, k \in Runner : Same(c, k)
  BY SameHalves DEF Runner
<1>2. HalvesInv'
  BY DEF HalvesInv, HalvesOf
<1> QED
  BY <1>1, <1>2 DEF HalfMove

LEMMA InitInv == Init => IInv
<1> SUFFICES ASSUME Init PROVE IInv
  OBVIOUS
<1>1. /\ \A c \in Rd : /\ rd[c].pc = "none" /\ rd[c].ctl = "unborn" /\ ~rd[c].waitConnect
                       /\ wr[c].pc = "none" /\ wr[c].ctl = "unborn" /\ ~wr[c].waitConnect
                       /\ newCalls[c] = 0 /\ closeCalls[c] = 0
                       /\ stateClient[c] = "disconnect"
      /\ \A c \in Rd, k \in Runner : at[c][k] = "begin"
  BY FifoAssumption DEF Init, FifoInit, FifoReadInit, FifoWriteQInit, ServerInit
<1>2. HalvesInv
  BY <1>1 DEF HalvesInv, HalvesOf
<1>3. (\A c \in Rd, k \in Runner : Placed(c, k) /\ StateTested(c, k)) /\ MutexInv
  BY <1>1 DEF Placed, StateTested, MutexInv, Connecting, Disconnecting, Inside
<1>4. CallsMatchState
  <2>1. ASSUME NEW c \in Rd
        PROVE  /\ {k \in Runner : ConnectCallback(c, k) /\ at[c][k] = "call"} = {}
               /\ {k \in Runner : DisconnectCallback(c, k) /\ at[c][k] = "call"} = {}
    BY <1>1
  <2>2. \A c \in Rd : Due(c, ConnectCallback) = 0 /\ Due(c, DisconnectCallback) = 0
    BY <2>1, FS_EmptySet DEF Due
  <2> QED
    BY <1>1, <2>2 DEF CallsMatchState
<1>5. ReportInv
  BY <1>1 DEF ReportInv
<1> QED
  BY <1>2, <1>3, <1>4, <1>5, InitType DEF IInv, CallbacksInv

LEMMA NextInv == IInv /\ [Next]_vars => IInv'
<1> SUFFICES ASSUME IInv, [Next]_vars PROVE IInv'
  OBVIOUS
<1>1. /\ TypeOK /\ HalvesInv /\ CallbacksInv /\ ReportInv
      /\ TypeOK'
  BY NextType DEF IInv
<1>2. CASE HalfMove
  BY <1>1, <1>2, CallbacksKept, ReportKept DEF IInv, HalfMove
<1>3. ASSUME NEW c \in Rd, NEW k \in Runner, Handling(c, k)
      PROVE  IInv'
  <2>1. HalvesInv'
    BY <1>1, <1>3, HandlingMoves DEF ConnectQuiet, ConnectSets, ConnectCalls,
       DisconnectQuiet, DisconnectSets, DisconnectCalls, GoesTo, Returns
  <2> QED
    BY <1>1, <1>3, <2>1, HandlingReports, HandlingExcludes, HandlingCounts
       DEF IInv, CallbacksInv
<1>4. CASE UNCHANGED vars
  BY <1>1, <1>2, <1>4, StillMoves DEF vars, server
<1>5. ASSUME NEW c \in Rd, Disconnect(c)
      PROVE  HalfMove
  BY <1>1, <1>5, StillMoves
     DEF Disconnect, ServerDisconnect, ServerDisconnectRead, ServerDisconnectClose,
         closeWriteTakes, closeReadTakes, Takes, closeTaken
<1>6. CASE Next
  BY <1>1, <1>2, <1>3, <1>5, <1>6, MoveOfHalves, OthersType, StillMoves DEF Next, server
<1> QED
  BY <1>4, <1>6

(* The server is well typed whatever its connections, clients and messages  *)
(* are: a disconnect callback, in particular, is at "closed" only in the    *)
(* reading thread, and a counter of calls is a number (Server.h).           *)
THEOREM TypeCorrect == Spec => []TypeOK
<1>1. Init => IInv
  BY InitInv
<1>2. IInv /\ [Next]_vars => IInv'
  BY NextInv
<1>3. IInv => TypeOK
  BY DEF IInv
<1> QED
  BY <1>1, <1>2, <1>3, PTL DEF Spec

(* For any number of connections: every change of stateClient is reported   *)
(* once, although connectH() and disconnectH() run in any thread of any     *)
(* connection and lock different mutexes (Server.cpp:12, 24).               *)
THEOREM CallsMatch == Spec => []CallsMatchState
<1>1. Init => IInv
  BY InitInv
<1>2. IInv /\ [Next]_vars => IInv'
  BY NextInv
<1>3. IInv => CallsMatchState
  BY DEF IInv, CallbacksInv
<1> QED
  BY <1>1, <1>2, <1>3, PTL DEF Spec

(* For any number of connections: until stop(), a connection that is up and *)
(* in no callback has been reported, as the half that came up last has the  *)
(* connect callback that finds both flags set (Server.cpp:13-15).           *)
THEOREM UpReported == Spec => []UpIsReported
<1>1. Init => IInv
  BY InitInv
<1>2. IInv /\ [Next]_vars => IInv'
  BY NextInv
<1>3. IInv => UpIsReported
  BY DEF IInv, ReportInv, UpIsReported, Reporting
<1> QED
  BY <1>1, <1>2, <1>3, PTL DEF Spec
=============================================================================
