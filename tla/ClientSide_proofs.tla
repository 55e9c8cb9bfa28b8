-------------------------- MODULE ClientSide_proofs --------------------------
(***************************************************************************)
(* Theorems about ClientSide, for any number of clients and any bounds:    *)
(* the specification is well typed, and the state of a client settles on   *)
(* what its two halves say, whatever order the unguarded callbacks of its  *)
(* threads come in; and in the first session of a client alone in its      *)
(* process a stop closes no end but its own.                               *)
(***************************************************************************)
EXTENDS ClientSide, FifoLib_proofs

IInv == TypeOK /\ SettlesInv

-----------------------------------------------------------------------------
(* Type correctness *)

LEMMA InitType == Init => TypeOK
<1> SUFFICES ASSUME Init PROVE TypeOK
  OBVIOUS
<1>1. KernelTypeOK(Unit)
  BY KernelInitType DEF Init
<1>2. rd \in [Rd -> ReadState] /\ wr \in [Wr -> WriteState]
  BY FifoReadInitType, FifoWriteQInitType DEF Init, FifoInit
<1>3. peer \in [Peer -> PeerState]
  BY PipePeerAssumption DEF Init, PeerInit, PeerState, NoFd
<1> QED
  BY <1>1, <1>2, <1>3, ClientSideAssumption, IFifoWriterAssumption
     DEF Init, TypeOK, FifoInit, FifoState, ClientInit, Position, Runner, StoppingState,
         NoFd

(* The parts of the type invariant that the halves change. *)
LEMMA HalvesType ==
  ASSUME TypeOK, KernelTypeOK(Unit)', rd' \in [Rd -> ReadState],
         wr' \in [Wr -> WriteState], UNCHANGED <<fifo, client, peer, app>>
  PROVE  TypeOK'
BY DEF TypeOK, client, callbacks, app

(* A client is made and started. *)
LEMMA StartType ==
  ASSUME TypeOK, NEW c \in Rd, New(c) \/ Start(c) \/ Starting(c)
  PROVE  TypeOK'
<1>1. /\ KernelTypeOK(Unit) /\ rd \in [Rd -> ReadState]
      /\ wr \in [Wr -> WriteState] /\ c \in Wr
  BY FifoAssumption DEF TypeOK
<1>2. CASE New(c)
  <2>1. /\ linked' = linked \cup {addrRead[c], addrWrite[c]} /\ UNCHANGED <<fdt, sys, buf>>
        /\ rd' = [rd EXCEPT ![c].ctl = "stopped", ![c].handlers = Handlers,
                            ![c].reconnect = FALSE]
        /\ wr' = [wr EXCEPT ![c].ctl = "stopped", ![c].handlers = WriteHandlers,
                            ![c].reconnect = FALSE]
        /\ UNCHANGED <<fifo, client, peer, app>>
    BY <1>2 DEF New, ClientNew, FifoNew
  <2>2. KernelTypeOK(Unit)'
    BY <1>1, <2>1, ReadConstants, WriteConstants DEF KernelTypeOK
  <2>3. rd' \in [Rd -> ReadState]
    BY <1>1, <2>1, ReadFields DEF ReadCtl
  <2>4. wr' \in [Wr -> WriteState]
    BY <1>1, <2>1, WriteFields DEF WriteCtl
  <2> QED
    BY <2>1, <2>2, <2>3, <2>4, HalvesType
<1>3. CASE Start(c)
  <2>1. KernelTypeOK(Unit)'
    BY <1>1, <1>3, KernelStutterType DEF Start, ClientStart, FifoStart
  <2>2. fifo' \in [Rd -> FifoState]
    BY <1>3 DEF Start, ClientStart, FifoStart, TypeOK, FifoState
  <2>3. starts' \in [Rd -> 0..MaxStarts]
    BY <1>3, ClientSideAssumption DEF Start, TypeOK
  <2> QED
    BY <1>3, <2>1, <2>2, <2>3
       DEF Start, ClientStart, FifoStart, TypeOK, client, callbacks
<1>4. CASE Starting(c)
  <2>1. CASE FifoStartRead(c)
    <3>1. KernelTypeOK(Unit)' /\ rd' \in [Rd -> ReadState]
      BY <1>1, <2>1, ReadOwnerType DEF FifoStartRead
    <3> QED
      BY <1>1, <1>4, <2>1, <3>1, HalvesType DEF FifoStartRead, Starting, ClientStarting
  <2>2. CASE FifoStartWrite(c)
    <3>1. KernelTypeOK(Unit)' /\ wr' \in [Wr -> WriteState]
      BY <1>1, <2>2, WriteOwnerType DEF FifoStartWrite
    <3> QED
      BY <1>1, <1>4, <2>2, <3>1, HalvesType DEF FifoStartWrite, Starting, ClientStarting
  <2> QED
    BY <1>4, <2>1, <2>2 DEF Starting, ClientStarting
<1> QED
  BY <1>2, <1>3, <1>4

(* The application writes and stops; stop() gives up, or returns. *)
LEMMA OwnerType ==
  ASSUME TypeOK, NEW c \in Rd,
         Write(c) \/ Stop(c) \/ Stopping(c) \/ Leaving(c) \/ GivingUp(c)
  PROVE  TypeOK'
<1>1. /\ KernelTypeOK(Unit) /\ rd \in [Rd -> ReadState]
      /\ wr \in [Wr -> WriteState] /\ c \in Wr
  BY FifoAssumption DEF TypeOK
<1>2. CASE Write(c)
  <2>1. pushed[c] + 1 \in 1..MaxPushes /\ pushed[c] + 1 \in 0..MaxPushes
    BY <1>2, IFifoWriterAssumption DEF Write, TypeOK
  <2>2. KernelTypeOK(Unit)' /\ wr' \in [Wr -> WriteState]
    BY <1>1, <1>2, <2>1, PushDataType DEF Write, ClientWrite, FifoWrite
  <2>3. pushed' \in [Rd -> 0..MaxPushes]
    BY <1>2, <2>1 DEF Write, TypeOK
  <2> QED
    BY <1>2, <2>2, <2>3
       DEF Write, ClientWrite, FifoWrite, TypeOK, client, callbacks
<1>3. CASE Stop(c)
  <2>1. KernelTypeOK(Unit)' /\ wr' \in [Wr -> WriteState]
    BY <1>1, <1>3, WriteOwnerType DEF Stop, ClientStop, FifoStop
  <2>2. fifo' \in [Rd -> FifoState] /\ stopping' \in [Rd -> StoppingState]
    BY <1>3 DEF Stop, ClientStop, FifoStop, TypeOK, FifoState, StoppingState
  <2> QED
    BY <1>3, <2>1, <2>2 DEF Stop, ClientStop, FifoStop, TypeOK, callbacks, app
<1>4. CASE Stopping(c)
  <2>1. CASE FifoStopWrite(c)
    <3>1. KernelTypeOK(Unit)' /\ wr' \in [Wr -> WriteState]
      BY <1>1, <2>1, StopWriteType DEF FifoStopWrite
    <3> QED
      BY <1>1, <1>4, <2>1, <3>1, HalvesType DEF FifoStopWrite, Stopping, ClientStopping
  <2>2. CASE FifoStopRead(c)
    <3>1. KernelTypeOK(Unit)' /\ rd' \in [Rd -> ReadState]
      BY <1>1, <2>2, StopReadType, ReadOwnerType DEF FifoStopRead
    <3> QED
      BY <1>1, <1>4, <2>2, <3>1, HalvesType DEF FifoStopRead, Stopping, ClientStopping
  <2> QED
    BY <1>4, <2>1, <2>2 DEF Stopping, ClientStopping
<1>5. CASE Leaving(c) \/ GivingUp(c)
  <2>1. KernelTypeOK(Unit)'
    BY <1>1, <1>5, KernelStutterType
       DEF Leaving, GivingUp, ClientStopReturns, ClientGivesUp
  <2>2. stopping' \in [Rd -> StoppingState]
    BY <1>5 DEF Leaving, GivingUp, ClientStopReturns, ClientGivesUp, TypeOK, StoppingState
  <2> QED
    BY <1>5, <2>1, <2>2
       DEF Leaving, GivingUp, ClientStopReturns, ClientGivesUp, TypeOK, callbacks, app
<1> QED
  BY <1>2, <1>3, <1>4, <1>5

(* The two threads outside their callbacks. *)
LEMMA ThreadType ==
  ASSUME TypeOK, NEW c \in Rd, HalvesOf(c), Reading(c) \/ Writing(c)
  PROVE  TypeOK'
<1>1. /\ KernelTypeOK(Unit) /\ rd \in [Rd -> ReadState]
      /\ wr \in [Wr -> WriteState] /\ c \in Wr
      /\ wr[c].pc \in {"write", "writing"} => wr[c].queue # <<>>
  BY FifoAssumption DEF TypeOK, HalvesOf
<1>2. CASE Reading(c)
  <2>1. KernelTypeOK(Unit)' /\ rd' \in [Rd -> ReadState]
    BY <1>1, <1>2, ReadThreadType, ReadCallbackType DEF Reading, FifoReading
  <2> QED
    BY <1>1, <1>2, <2>1, HalvesType DEF Reading, FifoReading
<1>3. CASE Writing(c)
  <2>1. CASE WriteThreadStep(c)
    BY <1>1, <1>3, <2>1, WriteThreadType, HalvesType DEF Writing, FifoWriting
  <2>2. CASE WriteUnits(c)
    <3>1. wr[c].queue # <<>>
      BY <1>1, <2>2 DEF WriteUnits
    <3>2. (1..MaxPushes) \X Nat \subseteq Unit
      BY IFifoWriterAssumption DEF Unit
    <3>3. KernelTypeOK(Unit)' /\ wr' \in [Wr -> WriteState]
      BY <1>1, <2>2, <3>1, <3>2, WriteUnitsType
    <3> QED
      BY <1>1, <1>3, <3>3, HalvesType DEF Writing, FifoWriting
  <2> QED
    BY <1>3, <2>1, <2>2 DEF Writing, FifoWriting
<1> QED
  BY <1>2, <1>3

(* What a callback does: it goes from position to position, or returns. *)
LEMMA PositionType ==
  ASSUME at \in [Rd -> [Runner -> Position]], NEW c \in Rd, NEW k \in Runner,
         NEW x \in Position, at' = [at EXCEPT ![c][k] = x]
  PROVE  /\ at' \in [Rd -> [Runner -> Position]]
         /\ at'[c][k] = x
         /\ \A d \in Rd, l \in Runner : d # c \/ l # k => at'[d][l] = at[d][l]
OBVIOUS

LEMMA ReturnType ==
  ASSUME TypeOK, NEW c \in Rd, NEW k \in Runner, Return(c, k)
  PROVE  /\ KernelTypeOK(Unit)'
         /\ rd' \in [Rd -> ReadState] /\ wr' \in [Wr -> WriteState]
         /\ at' \in [Rd -> [Runner -> Position]] /\ UNCHANGED <<fifo, stopping, number>>
<1>1. /\ KernelTypeOK(Unit) /\ rd \in [Rd -> ReadState]
      /\ wr \in [Wr -> WriteState] /\ c \in Wr
  BY FifoAssumption DEF TypeOK
<1>2. at' \in [Rd -> [Runner -> Position]] /\ UNCHANGED <<fifo, stopping, number>>
  BY PositionType DEF Return, TypeOK, Position
<1>3. KernelTypeOK(Unit)' /\ rd' \in [Rd -> ReadState] /\ wr' \in [Wr -> WriteState]
  <2>1. CASE UNCHANGED wr /\ (ReadConnectHandlerReturns(c) \/ ReadDisconnectHandlerReturns(c))
    BY <1>1, <2>1, ReadCallbackType
  <2>2. CASE UNCHANGED rd /\ (WriteConnectHandlerReturns(c) \/ WriteDisconnectHandlerReturns(c))
    BY <1>1, <2>2, WriteCallbackType
  <2>3. CASE UNCHANGED rd /\ StopWriteHandlerReturns(c)
    BY <1>1, <2>3, WriteCallbackType
  <2> QED
    BY <2>1, <2>2, <2>3 DEF Return
<1> QED
  BY <1>2, <1>3

(* A callback that goes on or returns keeps the types with the counters. *)
LEMMA MoveType ==
  ASSUME TypeOK, NEW c \in Rd, NEW k \in Runner, UNCHANGED <<peer, app>>,
         Return(c, k) \/ \E x \in Position : Goto(c, k, x),
         state' \in [Rd -> {"disconnect", "connect"}],
         newCalls' \in [Rd -> Nat], closeCalls' \in [Rd -> Nat]
  PROVE  TypeOK'
<1>1. /\ KernelTypeOK(Unit)'
      /\ rd' \in [Rd -> ReadState] /\ wr' \in [Wr -> WriteState]
      /\ at' \in [Rd -> [Runner -> Position]] /\ UNCHANGED <<fifo, stopping, number>>
  BY ReturnType, KernelStutterType, PositionType DEF Goto, TypeOK
<1> QED
  BY <1>1 DEF TypeOK, app

(* The descriptors of a half are such as a thread may hold for closing. *)
LEMMA NumberType ==
  ASSUME TypeOK, NEW c \in Rd
  PROVE  /\ rd[c].fifoFd \in Fd \cup {NoFd} /\ wr[c].fifoFd \in Fd \cup {NoFd}
         /\ \A t \in Thread, n \in Fd \cup {NoFd} :
              [number EXCEPT ![t] = n] \in [Thread -> Fd \cup {NoFd}]
         /\ NoFd \in Fd \cup {NoFd}
<1>1. rd[c] \in ReadState /\ wr[c] \in WriteState
  BY FifoAssumption DEF TypeOK
<1>2. rd[c].fifoFd \in Fd \cup {NoFd} /\ wr[c].fifoFd \in Fd \cup {NoFd}
  BY <1>1, ReadNumberType, WriteNumberType
<1> QED
  BY <1>2 DEF TypeOK

LEMMA CallbackType ==
  ASSUME TypeOK, NEW c \in Rd, NEW k \in Runner, Handling(c, k)
  PROVE  TypeOK'
<1>1. /\ UNCHANGED <<peer, app>> /\ ClientCallback(c, k)
      /\ state \in [Rd -> {"disconnect", "connect"}]
      /\ newCalls \in [Rd -> Nat] /\ closeCalls \in [Rd -> Nat]
  BY DEF Handling, TypeOK
<1>2. CASE ConnectFlags(c, k) \/ ConnectState(c, k)
  BY <1>1, <1>2, MoveType DEF ConnectFlags, ConnectState, Position
<1>3. CASE \/ DisconnectFlagRead(c, k) \/ DisconnectFlagWrite(c, k)
           \/ DisconnectState(c, k)
  BY <1>1, <1>3, MoveType
     DEF DisconnectFlagRead, DisconnectFlagWrite, DisconnectState, Position
<1>4. CASE ConnectSet(c, k) \/ DisconnectSet(c, k)
  <2>1. state' \in [Rd -> {"disconnect", "connect"}]
    BY <1>1, <1>4 DEF ConnectSet, DisconnectSet
  <2> QED
    BY <1>1, <1>4, <2>1, MoveType DEF ConnectSet, DisconnectSet, Position
<1>5. CASE ConnectCall(c, k)
  <2>1. newCalls' \in [Rd -> Nat]
    BY <1>1, <1>5 DEF ConnectCall
  <2> QED
    BY <1>1, <1>5, <2>1, MoveType DEF ConnectCall
<1>6. CASE DisconnectCall(c, k)
  <2>1. closeCalls' \in [Rd -> Nat]
    BY <1>1, <1>6 DEF DisconnectCall
  <2> QED
    BY <1>1, <1>6, <2>1, MoveType DEF DisconnectCall
<1>7. CASE k = "read" /\ DisconnectTakes(c)
  <2>1. KernelTypeOK(Unit)' /\ UNCHANGED <<fifo, rd, wr>>
    BY <1>7, KernelStutterType DEF DisconnectTakes, closeWriteTakes, Takes, TypeOK
  <2>2. at' \in [Rd -> [Runner -> Position]]
    BY <1>7, PositionType DEF DisconnectTakes, TypeOK, Runner, Position
  <2>3. number' \in [Thread -> Fd \cup {NoFd}]
    BY <1>7, NumberType, ReadConstants DEF DisconnectTakes, closeWriteTakes, Takes
  <2> QED
    BY <1>1, <1>7, <2>1, <2>2, <2>3 DEF DisconnectTakes, TypeOK, app
<1>8. CASE k = "read" /\ DisconnectClose(c)
  <2>1. KernelTypeOK(Unit)' /\ UNCHANGED <<fifo, rd, wr>>
    BY <1>8, CloseType, ReadConstants DEF DisconnectClose, closeTaken, TypeOK
  <2>2. at' \in [Rd -> [Runner -> Position]]
    BY <1>8, PositionType DEF DisconnectClose, TypeOK, Runner, Position
  <2>3. number' \in [Thread -> Fd \cup {NoFd}]
    BY <1>8, NumberType, ReadConstants DEF DisconnectClose, closeTaken
  <2> QED
    BY <1>1, <1>8, <2>1, <2>2, <2>3 DEF DisconnectClose, TypeOK, app
<1> QED
  BY <1>1, <1>2, <1>3, <1>4, <1>5, <1>6, <1>7, <1>8 DEF ClientCallback

(* The server, and the removal of a path name. *)
LEMMA OthersType ==
  ASSUME TypeOK,
         \/ \E w \in Peer : Arrive(w) \/ Enter(w) \/ Leave(w) \/ Receive(w) \/ Send(w)
         \/ \E p \in Pipe : Remove(p)
  PROVE  TypeOK' /\ UNCHANGED <<rd, wr, fifo, client, starts>>
<1>1. KernelTypeOK(Unit) /\ peer \in [Peer -> PeerState]
  BY DEF TypeOK
<1>2. ASSUME NEW w \in Peer, Arrive(w) \/ Enter(w) \/ Leave(w)
      PROVE  TypeOK' /\ UNCHANGED <<rd, wr, fifo, client, starts>>
  <2>1. PeerMode(w) \in {"R", "W"}
    BY DEF PeerMode
  <2>2. KernelTypeOK(Unit)' /\ peer' \in [Peer -> PeerState]
    BY <1>1, <1>2, <2>1, PeerVisitType DEF Arrive, Enter, Leave
  <2>3. UNCHANGED <<rd, wr, fifo, client, app>>
    BY <1>2 DEF Arrive, Enter, Leave
  <2> QED
    BY <2>2, <2>3 DEF TypeOK, client, callbacks, app
<1>3. ASSUME NEW w \in Peer, Receive(w)
      PROVE  TypeOK' /\ UNCHANGED <<rd, wr, fifo, client, starts>>
  <2>1. KernelTypeOK(Unit)' /\ UNCHANGED <<rd, wr, fifo, client, app, peer>>
    BY <1>1, <1>3, PeerReadsType DEF Receive, PeerReads
  <2> QED
    BY <2>1 DEF TypeOK, client, callbacks, app
<1>4. ASSUME NEW w \in Peer, Send(w)
      PROVE  TypeOK' /\ UNCHANGED <<rd, wr, fifo, client, starts>>
  <2>1. /\ peerPipe[w] \in Pipe /\ sent[peerPipe[w]] \in Nat
        /\ sent[peerPipe[w]] + 1 \in 0..MaxUnits
    BY <1>4, PipePeerAssumption, ClientSideAssumption DEF Send, TypeOK
  <2>2. <<0, sent[peerPipe[w]] + 1>> \in Unit
    BY <2>1, IFifoWriterAssumption DEF Unit
  <2>3. KernelTypeOK(Unit)' /\ UNCHANGED peer
    BY <1>1, <1>4, <2>2, PeerWritesType DEF Send, PeerWrites
  <2>4. sent' \in [Pipe -> 0..MaxUnits]
    BY <1>4, <2>1 DEF Send, TypeOK
  <2> QED
    BY <1>4, <2>3, <2>4 DEF Send, TypeOK, client, callbacks
<1>5. ASSUME NEW p \in Pipe, Remove(p)
      PROVE  TypeOK' /\ UNCHANGED <<rd, wr, fifo, client, starts>>
  <2>1. KernelTypeOK(Unit)' /\ UNCHANGED <<rd, wr, fifo, client, app, peer>>
    BY <1>1, <1>5, PathType DEF Remove
  <2> QED
    BY <2>1 DEF TypeOK, client, callbacks, app
<1> QED
  BY <1>2, <1>3, <1>4, <1>5

LEMMA NextType == TypeOK /\ SettlesInv /\ [Next]_vars => TypeOK'
<1> SUFFICES ASSUME TypeOK, SettlesInv, [Next]_vars
             PROVE  TypeOK'
  OBVIOUS
<1>1. \A c \in Rd : HalvesOf(c)
  BY DEF SettlesInv, SettlesOf
<1>2. CASE UNCHANGED vars
  <2>1. KernelTypeOK(Unit)'
    BY <1>2, KernelStutterType DEF vars, TypeOK
  <2> QED
    BY <1>2, <2>1 DEF vars, TypeOK, client, callbacks, app
<1>3. CASE Next
  BY <1>1, <1>3, StartType, OwnerType, ThreadType, CallbackType, OthersType DEF Next
<1> QED
  BY <1>2, <1>3

-----------------------------------------------------------------------------
(* Steps of the halves outside the callbacks *)

Outside(c, k) == ~ConnectCallback(c, k) /\ ~DisconnectCallback(c, k)

Same(c, k) ==
  /\ ConnectCallback(c, k)' <=> ConnectCallback(c, k)
  /\ DisconnectCallback(c, k)' <=> DisconnectCallback(c, k)

Up(c)   == fifo[c] = "start" /\ rd[c].waitConnect /\ wr[c].waitConnect
Down(c) == fifo[c] = "start" /\ ~rd[c].waitConnect /\ ~wr[c].waitConnect

(* Which callback a thread is in is a matter of its half alone. *)
LEMMA CallbacksAre ==
  ASSUME NEW c \in Rd
  PROVE  /\ ConnectCallback(c, "read") <=> rd[c].pc = "connectH"
         /\ DisconnectCallback(c, "read") <=> rd[c].pc = "disconnectH"
         /\ ConnectCallback(c, "write") <=> wr[c].pc = "connectH"
         /\ DisconnectCallback(c, "write") <=> wr[c].pc = "disconnectH"
         /\ ~ConnectCallback(c, "stop")
         /\ DisconnectCallback(c, "stop") <=> wr[c].ctl = "disconnectH"
BY DEF ConnectCallback, DisconnectCallback

LEMMA CallbacksAreNext ==
  ASSUME NEW c \in Rd
  PROVE  /\ ConnectCallback(c, "read")' <=> rd'[c].pc = "connectH"
         /\ DisconnectCallback(c, "read")' <=> rd'[c].pc = "disconnectH"
         /\ ConnectCallback(c, "write")' <=> wr'[c].pc = "connectH"
         /\ DisconnectCallback(c, "write")' <=> wr'[c].pc = "disconnectH"
         /\ ~ConnectCallback(c, "stop")'
         /\ DisconnectCallback(c, "stop")' <=> wr'[c].ctl = "disconnectH"
BY DEF ConnectCallback, DisconnectCallback

LEMMA SameHalves ==
  ASSUME NEW c \in Rd
  PROVE  /\ rd'[c].pc = rd[c].pc => Same(c, "read")
         /\ wr'[c].pc = wr[c].pc => Same(c, "write")
         /\ (wr'[c].ctl = "disconnectH" <=> wr[c].ctl = "disconnectH") => Same(c, "stop")
BY CallbacksAre, CallbacksAreNext DEF Same

(* While a connection is up no thread is in a disconnect callback; while it *)
(* is down none is in a connect callback.                                   *)
LEMMA NoOtherCallback ==
  ASSUME NEW c \in Rd, HalvesOf(c), NEW k \in Runner
  PROVE  /\ Up(c) => ~DisconnectCallback(c, k)
         /\ Down(c) => ~ConnectCallback(c, k)
BY CallbacksAre DEF HalvesOf, Up, Down, Runner

LEMMA InitSettles == Init => SettlesInv
BY FifoAssumption
   DEF Init, FifoInit, FifoReadInit, FifoWriteQInit, ClientInit, SettlesInv, SettlesOf,
       HalvesOf, FreshOf, UpOf, DownOf

(* Nothing that is not about client c matters. *)
LEMMA SettlesFrame ==
  ASSUME NEW c \in Rd, SettlesOf(c), rd'[c] = rd[c], wr'[c] = wr[c],
         fifo'[c] = fifo[c], state'[c] = state[c], at'[c] = at[c], starts'[c] = starts[c]
  PROVE  SettlesOf(c)'
<1>1. \A k \in Runner : Same(c, k)
  BY SameHalves DEF Runner
<1>2. HalvesOf(c)' /\ FreshOf(c)'
  BY DEF SettlesOf, HalvesOf, FreshOf
<1>3. UpOf(c)' /\ DownOf(c)'
  BY <1>1 DEF SettlesOf, UpOf, DownOf, Same
<1>4. \A k \in Runner : (~Callback(c, k))' => at'[c][k] = "begin"
  BY <1>1 DEF SettlesOf, Callback, Same
<1> QED
  BY <1>2, <1>3, <1>4 DEF SettlesOf

LEMMA SettlesLocal ==
  ASSUME SettlesInv, NEW c \in Rd, SettlesOf(c)',
         \A d \in Rd \ {c} :
           /\ rd'[d] = rd[d] /\ wr'[d] = wr[d] /\ fifo'[d] = fifo[d]
           /\ state'[d] = state[d] /\ at'[d] = at[d] /\ starts'[d] = starts[d]
  PROVE  SettlesInv'
BY SettlesFrame DEF SettlesInv

(* A step of a half: no thread leaves a callback, one that enters a         *)
(* callback does so at its beginning, and a connection comes up or goes     *)
(* down only when a thread enters a callback.                               *)
LEMMA HalfStep ==
  ASSUME NEW c \in Rd, SettlesOf(c),
         state'[c] = state[c], at'[c] = at[c], starts'[c] = starts[c],
         HalvesOf(c)', FreshOf(c)',
         \A k \in Runner : Same(c, k) \/ Outside(c, k),
         Up(c)' => Up(c) \/ \E k \in Runner : ConnectCallback(c, k)' /\ Outside(c, k),
         Down(c)' => Down(c) \/ \E k \in Runner : DisconnectCallback(c, k)' /\ Outside(c, k)
  PROVE  SettlesOf(c)'
<1>1. /\ UpOf(c) /\ DownOf(c)
      /\ \A k \in Runner : Outside(c, k) => at[c][k] = "begin"
  BY DEF SettlesOf, Callback, Outside
<1>2. UpOf(c)'
  <2> SUFFICES ASSUME Up(c)'
               PROVE  \/ state'[c] = "connect"
                      \/ \E k \in Runner : ConnectCallback(c, k)' /\ at'[c][k] # "call"
    BY DEF UpOf, Up
  <2>1. CASE Up(c)
    <3>1. \/ state[c] = "connect"
          \/ \E k \in Runner : ConnectCallback(c, k) /\ at[c][k] # "call"
      BY <1>1, <2>1 DEF UpOf, Up
    <3> QED
      BY <3>1 DEF Same, Outside
  <2>2. ASSUME NEW k \in Runner, ConnectCallback(c, k)', Outside(c, k)
        PROVE  ConnectCallback(c, k)' /\ at'[c][k] # "call"
    BY <1>1, <2>2
  <2> QED
    BY <2>1, <2>2
<1>3. DownOf(c)'
  <2> SUFFICES ASSUME Down(c)', starts'[c] = 1
               PROVE  \/ state'[c] = "disconnect"
                      \/ \E k \in Runner : DisconnectCallback(c, k)' /\ at'[c][k] # "call"
    BY DEF DownOf, Down
  <2>1. CASE Down(c)
    <3>1. \/ state[c] = "disconnect"
          \/ \E k \in Runner : DisconnectCallback(c, k) /\ at[c][k] # "call"
      BY <1>1, <2>1 DEF DownOf, Down
    <3> QED
      BY <3>1 DEF Same, Outside
  <2>2. ASSUME NEW k \in Runner, DisconnectCallback(c, k)', Outside(c, k)
        PROVE  DisconnectCallback(c, k)' /\ at'[c][k] # "call"
    BY <1>1, <2>2
  <2> QED
    BY <2>1, <2>2
<1>4. \A k \in Runner : (~Callback(c, k))' => at'[c][k] = "begin"
  BY <1>1 DEF SettlesOf, Callback, Same, Outside
<1> QED
  BY <1>2, <1>3, <1>4 DEF SettlesOf

(* Start() begins a session with both flags reset.                          *)
LEMMA StartSettles ==
  ASSUME TypeOK, SettlesInv, NEW c \in Rd, Start(c)
  PROVE  SettlesInv'
<1>1. /\ SettlesOf(c) /\ starts \in [Rd -> 0..MaxStarts] /\ fifo \in [Rd -> FifoState]
      /\ starts[c] \in Nat
  BY ClientSideAssumption DEF SettlesInv, TypeOK
<1>2. /\ UNCHANGED <<rd, wr, state, at>> /\ fifo[c] = "stop" /\ fifo'[c] = "start"
      /\ rd[c].ctl = "stopped" /\ wr[c].ctl = "stopped"
      /\ starts'[c] = starts[c] + 1
      /\ \A d \in Rd \ {c} : fifo'[d] = fifo[d] /\ starts'[d] = starts[d]
  BY <1>1 DEF Start, ClientStart, FifoStart, client, callbacks
<1>3. HalvesOf(c)' /\ ~rd[c].waitConnect /\ ~wr[c].waitConnect
  BY <1>1, <1>2 DEF SettlesOf, HalvesOf
<1>4. FreshOf(c)' /\ (starts'[c] = 1 => state[c] = "disconnect")
  BY <1>1, <1>2 DEF SettlesOf, FreshOf
<1>5. \A k \in Runner : (~Callback(c, k))' => at'[c][k] = "begin"
  BY <1>1, <1>2, SameHalves DEF SettlesOf, Callback, Same, Runner
<1>6. UpOf(c)' /\ DownOf(c)'
  BY <1>2, <1>3, <1>4 DEF UpOf, DownOf
<1>7. SettlesOf(c)'
  BY <1>3, <1>4, <1>5, <1>6 DEF SettlesOf
<1> QED
  BY <1>2, <1>7, SettlesLocal

LEMMA ReadingSettles ==
  ASSUME TypeOK, SettlesInv, NEW c \in Rd, Reading(c)
  PROVE  SettlesInv'
<1>1. rd \in [Rd -> ReadState] /\ SettlesOf(c) /\ HalvesOf(c) /\ FreshOf(c)
  BY DEF TypeOK, SettlesInv, SettlesOf
<1>2. /\ \A d \in Rd \ {c} : rd'[d] = rd[d]
      /\ rd'[c].ctl = rd[c].ctl
      /\ rd[c].pc \notin {"none", "connectH", "disconnectH"} /\ rd'[c].pc # "none"
      /\ \/ /\ rd'[c].pc \notin {"connectH", "disconnectH"}
            /\ rd'[c].waitConnect = rd[c].waitConnect
         \/ rd'[c].pc = "connectH" /\ rd'[c].waitConnect
         \/ rd'[c].pc = "disconnectH" /\ ~rd'[c].waitConnect
  BY <1>1, ReadThreadMoves DEF Reading, FifoReading
<1>3. UNCHANGED <<wr, fifo, state, at, starts>>
  BY DEF Reading, FifoReading, client, callbacks, app
<1>4. Outside(c, "read") /\ Same(c, "write") /\ Same(c, "stop")
  BY <1>2, <1>3, CallbacksAre, SameHalves DEF Outside
<1>5. HalvesOf(c)' /\ FreshOf(c)'
  BY <1>1, <1>2, <1>3 DEF HalvesOf, FreshOf
<1>6. /\ Up(c)' => Up(c) \/ (ConnectCallback(c, "read")' /\ Outside(c, "read"))
      /\ Down(c)' => Down(c) \/ (DisconnectCallback(c, "read")' /\ Outside(c, "read"))
  BY <1>2, <1>3, <1>4, CallbacksAreNext DEF Up, Down
<1>7. SettlesOf(c)'
  BY <1>1, <1>3, <1>4, <1>5, <1>6, HalfStep DEF Runner
<1> QED
  BY <1>2, <1>3, <1>7, SettlesLocal

LEMMA WritingSettles ==
  ASSUME TypeOK, SettlesInv, NEW c \in Rd, Writing(c)
  PROVE  SettlesInv'
<1>1. /\ wr \in [Wr -> WriteState] /\ SettlesOf(c) /\ HalvesOf(c) /\ FreshOf(c)
      /\ c \in Wr /\ Rd = Wr
  BY FifoAssumption DEF TypeOK, SettlesInv, SettlesOf
<1>2. /\ \A d \in Wr \ {c} : wr'[d] = wr[d]
      /\ wr'[c].ctl = wr[c].ctl
      /\ wr[c].pc \notin {"none", "connectH", "disconnectH"} /\ wr'[c].pc # "none"
      /\ \/ /\ wr'[c].pc \notin {"connectH", "disconnectH"}
            /\ wr'[c].waitConnect = wr[c].waitConnect
         \/ wr'[c].pc = "connectH" /\ wr'[c].waitConnect
         \/ wr'[c].pc = "disconnectH" /\ ~wr'[c].waitConnect
      /\ wr'[c].pc \in {"write", "writing"} => wr'[c].queue # <<>>
  <2>1. wr[c].pc \in {"write", "writing"} => wr[c].queue # <<>>
    BY <1>1 DEF HalvesOf
  <2> QED
    BY <1>1, <2>1, WriteThreadMoves DEF Writing, FifoWriting
<1>3. UNCHANGED <<rd, fifo, state, at, starts>>
  BY DEF Writing, FifoWriting, client, callbacks, app
<1>4. Outside(c, "write") /\ Same(c, "read") /\ Same(c, "stop")
  BY <1>2, <1>3, CallbacksAre, SameHalves DEF Outside
<1>5. HalvesOf(c)' /\ FreshOf(c)'
  BY <1>1, <1>2, <1>3 DEF HalvesOf, FreshOf
<1>6. /\ Up(c)' => Up(c) \/ (ConnectCallback(c, "write")' /\ Outside(c, "write"))
      /\ Down(c)' => Down(c) \/ (DisconnectCallback(c, "write")' /\ Outside(c, "write"))
  BY <1>2, <1>3, <1>4, CallbacksAreNext DEF Up, Down
<1>7. SettlesOf(c)'
  BY <1>1, <1>3, <1>4, <1>5, <1>6, HalfStep DEF Runner
<1> QED
  BY <1>1, <1>2, <1>3, <1>7, SettlesLocal

(* The constructor, and the two halves of start(). *)
LEMMA StartingSettles ==
  ASSUME TypeOK, SettlesInv, NEW c \in Rd, New(c) \/ Starting(c)
  PROVE  SettlesInv'
<1>1. /\ rd \in [Rd -> ReadState] /\ wr \in [Wr -> WriteState]
      /\ SettlesOf(c) /\ HalvesOf(c) /\ FreshOf(c) /\ c \in Wr /\ Rd = Wr
  BY FifoAssumption DEF TypeOK, SettlesInv, SettlesOf
<1>2. UNCHANGED <<fifo, state, at, starts>>
  BY DEF New, Starting, ClientNew, ClientStarting, FifoNew, FifoStartRead,
         FifoStartWrite, client, callbacks, app
<1>3. /\ \A d \in Rd \ {c} : rd'[d] = rd[d] /\ wr'[d] = wr[d]
      /\ rd'[c].waitConnect = rd[c].waitConnect /\ wr'[c].waitConnect = wr[c].waitConnect
      /\ wr'[c].queue = wr[c].queue
      /\ \/ /\ rd'[c].pc = rd[c].pc /\ wr'[c].pc = wr[c].pc
            /\ rd[c].ctl = "unborn" /\ rd'[c].ctl = "stopped" /\ wr'[c].ctl = "stopped"
         \/ /\ rd[c].ctl = "stopped" /\ rd'[c].pc = "connect" /\ rd'[c].ctl = "started"
            /\ wr'[c].pc = wr[c].pc /\ wr'[c].ctl = wr[c].ctl /\ fifo[c] = "start"
         \/ /\ wr[c].ctl = "stopped" /\ wr'[c].pc = "connect" /\ wr'[c].ctl = "started"
            /\ rd'[c].pc = rd[c].pc /\ rd'[c].ctl = rd[c].ctl /\ rd[c].ctl = "started"
            /\ fifo[c] = "start"
  <2>1. CASE New(c)
    BY <1>1, <2>1 DEF New, ClientNew, FifoNew, ReadState, WriteState
  <2>2. CASE FifoStartRead(c)
    BY <1>1, <2>2 DEF FifoStartRead, StartRead, ReadState
  <2>3. CASE FifoStartWrite(c)
    BY <1>1, <2>3 DEF FifoStartWrite, StartWrite, WriteState
  <2> QED
    BY <2>1, <2>2, <2>3 DEF Starting, ClientStarting
<1>4. HalvesOf(c)' /\ FreshOf(c)'
  BY <1>1, <1>2, <1>3 DEF HalvesOf, FreshOf
<1>5. /\ Same(c, "read") \/ Outside(c, "read")
      /\ Same(c, "write") \/ Outside(c, "write")
      /\ Same(c, "stop")
  BY <1>1, <1>3, CallbacksAre, SameHalves DEF HalvesOf, Outside
<1>6. (Up(c)' => Up(c)) /\ (Down(c)' => Down(c))
  BY <1>2, <1>3 DEF Up, Down
<1>7. SettlesOf(c)'
  BY <1>1, <1>2, <1>4, <1>5, <1>6, HalfStep DEF Runner
<1> QED
  BY <1>2, <1>3, <1>7, SettlesLocal

(* write(), and stop() with its return: a client that is being stopped is   *)
(* neither up nor down.                                                     *)
LEMMA OwnerSettles ==
  ASSUME TypeOK, SettlesInv, NEW c \in Rd,
         Write(c) \/ Stop(c) \/ Stopping(c) \/ Leaving(c) \/ GivingUp(c)
  PROVE  SettlesInv'
<1>1. /\ rd \in [Rd -> ReadState] /\ wr \in [Wr -> WriteState]
      /\ SettlesOf(c) /\ HalvesOf(c) /\ FreshOf(c) /\ c \in Wr /\ Rd = Wr
      /\ fifo \in [Rd -> FifoState]
  BY FifoAssumption DEF TypeOK, SettlesInv, SettlesOf
<1>2. UNCHANGED <<state, at, starts>>
  BY DEF Write, Stop, Stopping, Leaving, GivingUp, ClientWrite, ClientStop,
         ClientStopping, ClientStopReturns, ClientGivesUp, client, callbacks, app
<1>3. CASE Write(c)
  <2>1. /\ \A d \in Rd \ {c} : rd'[d] = rd[d] /\ wr'[d] = wr[d]
        /\ rd'[c] = rd[c] /\ wr'[c].pc = wr[c].pc /\ wr'[c].ctl = wr[c].ctl
        /\ wr'[c].waitConnect = wr[c].waitConnect
        /\ wr[c].pc \notin {"write", "writing"}
        /\ fifo' = fifo
    BY <1>1, <1>3
       DEF Write, ClientWrite, FifoWrite, PushData, MutexHeld, WriteState
  <2>2. HalvesOf(c)' /\ FreshOf(c)'
    BY <1>1, <1>2, <2>1 DEF HalvesOf, FreshOf
  <2>3. Same(c, "read") /\ Same(c, "write") /\ Same(c, "stop")
    BY <2>1, SameHalves
  <2>4. (Up(c)' => Up(c)) /\ (Down(c)' => Down(c))
    BY <2>1 DEF Up, Down
  <2>5. SettlesOf(c)'
    BY <1>1, <1>2, <2>2, <2>3, <2>4, HalfStep DEF Runner
  <2> QED
    BY <1>2, <2>1, <2>5, SettlesLocal
<1>4. CASE Stop(c) \/ (Stopping(c) /\ FifoStopWrite(c))
  <2>1. /\ StopWrite(c) \/ StopWriteStep(c)
        /\ rd' = rd /\ \A d \in Rd \ {c} : fifo'[d] = fifo[d]
        /\ \/ fifo'[c] = "stop" /\ fifo[c] = "start"
           \/ fifo'[c] = fifo[c] /\ StopWriteStep(c)
    BY <1>1, <1>4 DEF Stop, Stopping, ClientStop, ClientStopping, FifoStop, FifoStopWrite
  <2>2. /\ \A d \in Wr \ {c} : wr'[d] = wr[d]
        /\ wr[c].ctl \notin {"unborn", "stopped", "disconnectH"}
        /\ wr'[c].queue = wr[c].queue
        /\ \/ /\ wr'[c].pc = wr[c].pc /\ wr'[c].waitConnect = wr[c].waitConnect
              /\ wr'[c].ctl \notin {"unborn", "stopped", "started"}
           \/ /\ wr[c].pc = "done" /\ wr'[c].pc = "none" /\ ~wr'[c].waitConnect
              /\ wr'[c].ctl = "stopped"
    BY <1>1, <2>1, StopWriteMoves
  <2>3. fifo'[c] # "start"
    <3>1. ASSUME StopWriteStep(c) PROVE wr[c].ctl # "started"
      BY <3>1 DEF StopWriteStep, StopWriteReconnect, StopWriteTestOpen,
         StopWriteRelease, StopWriteReleased, StopWriteReleaseClose, StopWriteTakes,
         StopWriteClose, StopWriteJoin
    <3> QED
      BY <1>1, <2>1, <2>2, <3>1 DEF HalvesOf
  <2>4. HalvesOf(c)'
    BY <1>1, <2>1, <2>2, <2>3 DEF HalvesOf
  <2>5. FreshOf(c)'
    BY <1>1, <1>2, <2>2 DEF FreshOf
  <2>6. Same(c, "read") /\ (Same(c, "write") \/ Outside(c, "write")) /\ Outside(c, "stop")
    BY <2>1, <2>2, CallbacksAre, SameHalves DEF Outside
  <2>7. ~Up(c)' /\ ~Down(c)'
    BY <2>3 DEF Up, Down
  <2>8. SettlesOf(c)'
    BY <1>1, <1>2, <2>4, <2>5, <2>6, <2>7, HalfStep DEF Runner
  <2> QED
    BY <1>1, <1>2, <2>1, <2>2, <2>8, SettlesLocal
<1>5. CASE Stopping(c) /\ FifoStopRead(c)
  <2>1. /\ StopRead(c) \/ StopReadStep(c)
        /\ wr' = wr /\ fifo' = fifo /\ fifo[c] # "start"
    <3>1. ASSUME StopReadStep(c) PROVE rd[c].ctl \notin {"stopped", "started"}
      BY <3>1 DEF StopReadStep, StopReadReconnect, StopReadTestOpen, StopReadRelease,
         StopReadReleased, StopReadReleaseClose, StopReadTakes, StopReadClose,
         StopReadJoin
    <3> QED
      BY <1>1, <1>5, <3>1 DEF FifoStopRead, HalvesOf
  <2>2. /\ \A d \in Rd \ {c} : rd'[d] = rd[d]
        /\ rd[c].ctl \notin {"unborn", "stopped"}
        /\ \/ /\ rd'[c].pc = rd[c].pc /\ rd'[c].waitConnect = rd[c].waitConnect
              /\ rd'[c].ctl \notin {"unborn", "stopped", "started"}
           \/ /\ rd[c].pc = "done" /\ rd'[c].pc = "none" /\ ~rd'[c].waitConnect
              /\ rd'[c].ctl = "stopped"
    BY <1>1, <2>1, StopReadMoves
  <2>3. HalvesOf(c)' /\ FreshOf(c)'
    BY <1>1, <1>2, <2>1, <2>2 DEF HalvesOf, FreshOf
  <2>4. (Same(c, "read") \/ Outside(c, "read")) /\ Same(c, "write") /\ Same(c, "stop")
    BY <2>1, <2>2, CallbacksAre, SameHalves DEF Outside
  <2>5. (Up(c)' => Up(c)) /\ (Down(c)' => Down(c))
    BY <2>1 DEF Up, Down
  <2>6. SettlesOf(c)'
    BY <1>1, <1>2, <2>3, <2>4, <2>5, HalfStep DEF Runner
  <2> QED
    BY <1>1, <1>2, <2>1, <2>2, <2>6, SettlesLocal
<1>6. CASE Leaving(c) \/ GivingUp(c)
  <2>1. UNCHANGED <<rd, wr, fifo>>
    BY <1>6 DEF Leaving, GivingUp, ClientStopReturns, ClientGivesUp
  <2> QED
    BY <1>1, <1>2, <2>1, SettlesFrame DEF SettlesInv
<1> QED
  BY <1>3, <1>4, <1>5, <1>6 DEF Stopping, ClientStopping

-----------------------------------------------------------------------------
(* Steps of the callbacks *)

(* A thread that goes on in its callback, and one that returns from it: no  *)
(* other callback is touched, nor is any flag.                              *)
FlagsKept(c) ==
  /\ rd'[c].waitConnect = rd[c].waitConnect /\ wr'[c].waitConnect = wr[c].waitConnect
  /\ fifo'[c] = fifo[c] /\ starts'[c] = starts[c]

Alone(c, k) ==
  /\ FlagsKept(c) /\ HalvesOf(c)'
  /\ \A l \in Runner \ {k} : Same(c, l) /\ at'[c][l] = at[c][l]

GoesTo(c, k, x) == Alone(c, k) /\ Same(c, k) /\ at'[c][k] = x
Returns(c, k)   == Alone(c, k) /\ Outside(c, k)' /\ at'[c][k] = "begin"

LEMMA GotoMoves ==
  ASSUME TypeOK, NEW c \in Rd, SettlesOf(c), NEW k \in Runner, NEW x \in Position,
         at' = [at EXCEPT ![c][k] = x], UNCHANGED <<rd, wr, fifo, starts>>
  PROVE  GoesTo(c, k, x)
<1>1. at \in [Rd -> [Runner -> Position]]
  BY DEF TypeOK
<1>2. /\ at'[c][k] = x
      /\ \A l \in Runner \ {k} : at'[c][l] = at[c][l]
  BY <1>1, PositionType
<1>3. \A l \in Runner : Same(c, l)
  BY SameHalves DEF Runner
<1>4. HalvesOf(c)'
  BY DEF SettlesOf, HalvesOf
<1> QED
  BY <1>2, <1>3, <1>4 DEF GoesTo, Alone, FlagsKept

LEMMA ReturnMoves ==
  ASSUME TypeOK, NEW c \in Rd, SettlesOf(c), NEW k \in Runner, Return(c, k),
         UNCHANGED starts
  PROVE  /\ Returns(c, k)
         /\ \A d \in Rd \ {c} : rd'[d] = rd[d] /\ wr'[d] = wr[d]
<1>1. /\ rd \in [Rd -> ReadState] /\ wr \in [Wr -> WriteState] /\ Rd = Wr
      /\ at \in [Rd -> [Runner -> Position]] /\ HalvesOf(c)
      /\ at' = [at EXCEPT ![c][k] = "begin"] /\ "begin" \in Position
      /\ fifo' = fifo
  BY FifoAssumption DEF Return, TypeOK, SettlesOf, Position
<1>2. /\ at'[c][k] = "begin"
      /\ \A l \in Runner \ {k} : at'[c][l] = at[c][l]
  BY <1>1, PositionType
<1>3. CASE k = "read"
  <2>1. /\ rd[c].pc \in {"connectH", "disconnectH"} /\ rd'[c].pc \in {"loop", "again"}
        /\ rd'[c].ctl = rd[c].ctl /\ rd'[c].waitConnect = rd[c].waitConnect
        /\ wr' = wr /\ \A d \in Rd \ {c} : rd'[d] = rd[d]
    BY <1>1, <1>3
       DEF Return, ReadConnectHandlerReturns, ReadDisconnectHandlerReturns, ReadState
  <2>2. HalvesOf(c)'
    BY <1>1, <2>1 DEF HalvesOf
  <2>3. Outside(c, "read")' /\ Same(c, "write") /\ Same(c, "stop")
    BY <2>1, CallbacksAreNext, SameHalves DEF Outside
  <2> QED
    BY <1>1, <1>2, <1>3, <2>1, <2>2, <2>3 DEF Returns, Alone, FlagsKept, Runner
<1>4. CASE k # "read"
  <2>1. /\ \/ /\ k = "write" /\ wr[c].pc \in {"connectH", "disconnectH"}
              /\ wr'[c].pc \in {"loop", "again"} /\ wr'[c].ctl = wr[c].ctl
           \/ /\ k = "stop" /\ wr[c].ctl = "disconnectH" /\ wr'[c].ctl = "testOpen"
              /\ wr'[c].pc = wr[c].pc
        /\ wr'[c].waitConnect = wr[c].waitConnect /\ wr'[c].queue = wr[c].queue
        /\ rd' = rd /\ \A d \in Rd \ {c} : wr'[d] = wr[d]
    BY <1>1, <1>4
       DEF Return, WriteConnectHandlerReturns, WriteDisconnectHandlerReturns,
           StopWriteHandlerReturns, WriteState
  <2>2. HalvesOf(c)'
    BY <1>1, <2>1 DEF HalvesOf
  <2>3. /\ Outside(c, k)' /\ Same(c, "read")
        /\ k = "write" => Same(c, "stop")
        /\ k = "stop" => Same(c, "write")
    BY <2>1, CallbacksAreNext, SameHalves DEF Outside
  <2> QED
    BY <1>1, <1>2, <1>4, <2>1, <2>2, <2>3 DEF Returns, Alone, FlagsKept, Runner
<1> QED
  BY <1>3, <1>4

(* logicConnect() *)
Connects(c, k) ==
  /\ ConnectCallback(c, k)
  /\ \/ state'[c] = state[c] /\ \E x \in Position \ {"call"} : GoesTo(c, k, x)
     \/ state'[c] = "connect" /\ GoesTo(c, k, "call")
     \/ /\ state'[c] = state[c] /\ Returns(c, k)
        /\ state[c] = "connect" \/ at[c][k] = "call"

(* logicDisConnect() *)
Disconnects(c, k) ==
  /\ DisconnectCallback(c, k)
  /\ \/ state'[c] = state[c] /\ \E x \in Position \ {"call"} : GoesTo(c, k, x)
     \/ state'[c] = "disconnect" /\ GoesTo(c, k, "call")
     \/ /\ state'[c] = state[c] /\ Returns(c, k)
        /\ ~Down(c) \/ state[c] = "disconnect" \/ at[c][k] = "call"

(* While a connection is up a disconnect callback would have to come from a *)
(* half that is not connected, and the other way round.                     *)
LEMMA CallbackKeeps ==
  ASSUME TypeOK, NEW c \in Rd, SettlesOf(c), NEW k \in Runner,
         Connects(c, k) \/ Disconnects(c, k)
  PROVE  SettlesOf(c)'
<1>1. /\ UpOf(c) /\ DownOf(c) /\ HalvesOf(c) /\ FreshOf(c)
      /\ \A l \in Runner : ~Callback(c, l) => at[c][l] = "begin"
      /\ Callback(c, k)
  BY DEF SettlesOf, Connects, Disconnects, Callback
<1>2. /\ FlagsKept(c) /\ HalvesOf(c)'
      /\ \A l \in Runner \ {k} : Same(c, l) /\ at'[c][l] = at[c][l]
      /\ Same(c, k) \/ (Outside(c, k)' /\ at'[c][k] = "begin")
  BY DEF Connects, Disconnects, GoesTo, Returns, Alone
<1>3. FreshOf(c)'
  <2>1. starts[c] # 0
    BY <1>1, CallbacksAre DEF FreshOf, HalvesOf, Callback, Runner
  <2> QED
    BY <1>2, <2>1 DEF FreshOf, FlagsKept
<1>4. \A l \in Runner : (~Callback(c, l))' => at'[c][l] = "begin"
  BY <1>1, <1>2 DEF Same, Callback
<1>5. (Up(c)' <=> Up(c)) /\ (Down(c)' <=> Down(c)) /\ starts'[c] = starts[c]
  BY <1>2 DEF Up, Down, FlagsKept
<1>6. UpOf(c)'
  <2> SUFFICES ASSUME Up(c)
               PROVE  \/ state'[c] = "connect"
                      \/ \E l \in Runner : ConnectCallback(c, l)' /\ at'[c][l] # "call"
    BY <1>5 DEF UpOf, Up
  <2>1. Connects(c, k)
    BY <1>1, NoOtherCallback DEF Disconnects
  <2>2. CASE state'[c] = state[c] /\ \E x \in Position \ {"call"} : GoesTo(c, k, x)
    BY <2>1, <2>2 DEF Connects, GoesTo, Same
  <2>3. CASE /\ state'[c] = state[c] /\ Returns(c, k)
             /\ state[c] = "connect" \/ at[c][k] = "call"
    <3>1. CASE state[c] = "connect"
      BY <2>3, <3>1
    <3>2. CASE state[c] # "connect"
      <4>1. PICK l \in Runner : ConnectCallback(c, l) /\ at[c][l] # "call"
        BY <1>1, <3>2 DEF UpOf, Up
      <4> QED
        BY <1>2, <2>3, <3>2, <4>1 DEF Same
    <3> QED
      BY <3>1, <3>2
  <2> QED
    BY <2>1, <2>2, <2>3 DEF Connects
<1>7. DownOf(c)'
  <2> SUFFICES ASSUME Down(c), starts[c] = 1
               PROVE  \/ state'[c] = "disconnect"
                      \/ \E l \in Runner : DisconnectCallback(c, l)' /\ at'[c][l] # "call"
    BY <1>5 DEF DownOf, Down
  <2>1. Disconnects(c, k)
    BY <1>1, NoOtherCallback DEF Connects
  <2>2. CASE state'[c] = state[c] /\ \E x \in Position \ {"call"} : GoesTo(c, k, x)
    BY <2>1, <2>2 DEF Disconnects, GoesTo, Same
  <2>3. CASE /\ state'[c] = state[c] /\ Returns(c, k)
             /\ state[c] = "disconnect" \/ at[c][k] = "call"
    <3>1. CASE state[c] = "disconnect"
      BY <2>3, <3>1
    <3>2. CASE state[c] # "disconnect"
      <4>1. PICK l \in Runner : DisconnectCallback(c, l) /\ at[c][l] # "call"
        BY <1>1, <3>2 DEF DownOf, Down
      <4> QED
        BY <1>2, <2>3, <3>2, <4>1 DEF Same
    <3> QED
      BY <3>1, <3>2
  <2> QED
    BY <2>1, <2>2, <2>3 DEF Disconnects
<1> QED
  BY <1>2, <1>3, <1>4, <1>6, <1>7 DEF SettlesOf

LEMMA CallbackSettles ==
  ASSUME TypeOK, SettlesInv, NEW c \in Rd, NEW k \in Runner, Handling(c, k)
  PROVE  SettlesInv'
<1>1. /\ ClientCallback(c, k) /\ UNCHANGED starts /\ SettlesOf(c)
      /\ state \in [Rd -> {"disconnect", "connect"}] /\ at \in [Rd -> [Runner -> Position]]
  BY DEF Handling, SettlesInv, TypeOK, app
<1>2. /\ fifo' = fifo
      /\ \A d \in Rd \ {c} : at'[d] = at[d] /\ state'[d] = state[d]
  BY <1>1 DEF ClientCallback, ConnectFlags, ConnectState, ConnectSet, ConnectCall,
     DisconnectTakes, DisconnectClose, DisconnectFlagRead, DisconnectFlagWrite,
     DisconnectState, DisconnectSet, DisconnectCall, Goto, Return, closeWriteTakes,
     Takes, closeTaken
<1>3. ASSUME NEW x \in Position, Goto(c, k, x)
      PROVE  GoesTo(c, k, x) /\ UNCHANGED <<rd, wr>>
  BY <1>1, <1>3, GotoMoves DEF Goto
<1>4. ASSUME Return(c, k)
      PROVE  Returns(c, k) /\ \A d \in Rd \ {c} : rd'[d] = rd[d] /\ wr'[d] = wr[d]
  BY <1>1, <1>4, ReturnMoves
<1> DEFINE Moves == /\ Connects(c, k) \/ Disconnects(c, k)
                    /\ \A d \in Rd \ {c} : rd'[d] = rd[d] /\ wr'[d] = wr[d]
<1>5. /\ {"close", "flags", "flagWrite", "state", "set"} \subseteq Position \ {"call"}
      /\ "call" \in Position
  BY DEF Position
<1>6. ASSUME ConnectFlags(c, k) PROVE Moves
  <2>1. ConnectCallback(c, k) /\ state'[c] = state[c] /\ Goto(c, k, "state")
    BY <1>6 DEF ConnectFlags
  <2> QED
    BY <1>3, <1>5, <2>1 DEF Connects
<1>7. ASSUME ConnectState(c, k) PROVE Moves
  <2>1. /\ ConnectCallback(c, k) /\ state'[c] = state[c]
        /\ Goto(c, k, "set") \/ (state[c] = "connect" /\ Return(c, k))
    BY <1>1, <1>7 DEF ConnectState
  <2> QED
    BY <1>3, <1>4, <1>5, <2>1 DEF Connects
<1>8. ASSUME ConnectSet(c, k) PROVE Moves
  <2>1. ConnectCallback(c, k) /\ state'[c] = "connect" /\ Goto(c, k, "call")
    BY <1>1, <1>8 DEF ConnectSet
  <2> QED
    BY <1>3, <1>5, <2>1 DEF Connects
<1>9. ASSUME ConnectCall(c, k) PROVE Moves
  <2>1. /\ ConnectCallback(c, k) /\ at[c][k] = "call"
        /\ state'[c] = state[c] /\ Return(c, k)
    BY <1>9 DEF ConnectCall
  <2> QED
    BY <1>4, <2>1 DEF Connects
<1>10. ASSUME k = "read" /\ (DisconnectTakes(c) \/ DisconnectClose(c)) PROVE Moves
  <2>1. /\ DisconnectCallback(c, k) /\ state'[c] = state[c]
        /\ UNCHANGED <<rd, wr, fifo, starts>>
        /\ \E x \in {"close", "flags"} : at' = [at EXCEPT ![c][k] = x]
    BY <1>1, <1>10
       DEF DisconnectTakes, DisconnectClose, closeWriteTakes, Takes, closeTaken
  <2>2. PICK x \in {"close", "flags"} : at' = [at EXCEPT ![c][k] = x]
    BY <2>1
  <2>3. x \in Position \ {"call"} /\ GoesTo(c, k, x)
    BY <1>1, <1>5, <2>1, <2>2, GotoMoves
  <2> QED
    BY <2>1, <2>3 DEF Disconnects
<1>11. ASSUME DisconnectFlagRead(c, k) PROVE Moves
  <2>1. /\ DisconnectCallback(c, k) /\ state'[c] = state[c]
        /\ Goto(c, k, "state") \/ Goto(c, k, "flagWrite")
    BY <1>11 DEF DisconnectFlagRead
  <2> QED
    BY <1>3, <1>5, <2>1 DEF Disconnects
<1>12. ASSUME DisconnectFlagWrite(c, k) PROVE Moves
  <2>1. /\ DisconnectCallback(c, k) /\ state'[c] = state[c]
        /\ Goto(c, k, "state") \/ (~Down(c) /\ Return(c, k))
    BY <1>12 DEF DisconnectFlagWrite, Down
  <2> QED
    BY <1>3, <1>4, <1>5, <2>1 DEF Disconnects
<1>13. ASSUME DisconnectState(c, k) PROVE Moves
  <2>1. /\ DisconnectCallback(c, k) /\ state'[c] = state[c]
        /\ Goto(c, k, "set") \/ (state[c] = "disconnect" /\ Return(c, k))
    BY <1>1, <1>13 DEF DisconnectState
  <2> QED
    BY <1>3, <1>4, <1>5, <2>1 DEF Disconnects
<1>14. ASSUME DisconnectSet(c, k) PROVE Moves
  <2>1. DisconnectCallback(c, k) /\ state'[c] = "disconnect" /\ Goto(c, k, "call")
    BY <1>1, <1>14 DEF DisconnectSet
  <2> QED
    BY <1>3, <1>5, <2>1 DEF Disconnects
<1>15. ASSUME DisconnectCall(c, k) PROVE Moves
  <2>1. /\ DisconnectCallback(c, k) /\ at[c][k] = "call"
        /\ state'[c] = state[c] /\ Return(c, k)
    BY <1>15 DEF DisconnectCall
  <2> QED
    BY <1>4, <2>1 DEF Disconnects
<1>16. Moves
  BY <1>1, <1>6, <1>7, <1>8, <1>9, <1>10, <1>11, <1>12, <1>13, <1>14, <1>15
     DEF ClientCallback
<1>17. SettlesOf(c)'
  BY <1>1, <1>16, CallbackKeeps
<1> QED
  BY <1>1, <1>2, <1>16, <1>17, SettlesLocal

-----------------------------------------------------------------------------
(* The inductive invariant *)

LEMMA InitInv == Init => IInv
BY InitType, InitSettles DEF IInv

LEMMA NextInv == IInv /\ [Next]_vars => IInv'
<1> SUFFICES ASSUME IInv, [Next]_vars PROVE IInv'
  OBVIOUS
<1>1. TypeOK /\ SettlesInv
  BY DEF IInv
<1>2. TypeOK'
  BY <1>1, NextType
<1>3. ASSUME UNCHANGED <<rd, wr, fifo, client, starts>>
      PROVE  SettlesInv'
  BY <1>1, <1>3, SettlesFrame DEF SettlesInv, client, callbacks
<1>4. ASSUME UNCHANGED vars
      PROVE  SettlesInv'
  BY <1>3, <1>4 DEF vars, app
<1>5. ASSUME NEW c \in Rd,
             \/ New(c) \/ Start(c) \/ Starting(c) \/ Write(c) \/ Stop(c)
             \/ Stopping(c) \/ Reading(c) \/ Writing(c) \/ Leaving(c) \/ GivingUp(c)
      PROVE  SettlesInv'
  BY <1>1, <1>5, StartSettles, StartingSettles, OwnerSettles, ReadingSettles,
     WritingSettles
<1>6. ASSUME NEW c \in Rd, NEW k \in Runner, Handling(c, k)
      PROVE  SettlesInv'
  BY <1>1, <1>6, CallbackSettles
<1>7. ASSUME \/ \E w \in Peer : Arrive(w) \/ Enter(w) \/ Leave(w) \/ Receive(w) \/ Send(w)
             \/ \E p \in Pipe : Remove(p)
      PROVE  SettlesInv'
  BY <1>1, <1>3, <1>7, OthersType
<1> QED
  BY <1>2, <1>4, <1>5, <1>6, <1>7 DEF Next, IInv

(* The invariant of every behaviour. *)
THEOREM Invariance == Spec => []IInv
BY InitInv, NextInv, PTL DEF Spec

(* The fields of both halves, the positions of the three threads in the     *)
(* callbacks and the kernel's state keep their types for any number of      *)
(* clients in a process that starts and stops them again and again.         *)
THEOREM TypeCorrect == Spec => []TypeOK
<1>1. IInv => TypeOK
  BY DEF IInv
<1> QED
  BY <1>1, Invariance, PTL

(* logicConnect() and logicDisConnect() find and set state without a lock,  *)
(* and yet it settles: when no callback is in progress it is connect with   *)
(* both halves connected, in every session, and disconnect with neither, in *)
(* the first one.                                                           *)
THEOREM SettlesState == Spec => []StateSettles
<1>1. IInv => StateSettles
  <2> SUFFICES ASSUME IInv, NEW c \in Rd, Quiet(c), fifo[c] = "start"
               PROVE  /\ rd[c].waitConnect /\ wr[c].waitConnect => state[c] = "connect"
                      /\ starts[c] = 1 /\ ~rd[c].waitConnect /\ ~wr[c].waitConnect
                           => state[c] = "disconnect"
    BY DEF StateSettles
  <2>1. \A k \in Runner : ~ConnectCallback(c, k) /\ ~DisconnectCallback(c, k)
    BY DEF Quiet, Callback
  <2>2. UpOf(c) /\ DownOf(c)
    BY DEF IInv, SettlesInv, SettlesOf
  <2> QED
    BY <2>1, <2>2 DEF UpOf, DownOf
<1> QED
  BY <1>1, Invariance, PTL

-----------------------------------------------------------------------------
(* Why a stop closes an end of its own object.                              *)
(*                                                                          *)
(* A descriptor number that a half keeps may have been closed before, by a  *)
(* disconnect callback, and then given to another open of the process.      *)
(* There are four opens: that of each thread and the two by which the stops *)
(* release them.  The argument follows the numbers of one process, in which *)
(* a client is alone, through its first session.                            *)

Home(c) == ProcOf[Caller(c)]

Single ==
  /\ MaxStarts = 1
  /\ \A c \in Rd : addrRead[c] # addrWrite[c]
  /\ \A c, d \in Rd : c # d => Home(c) # Home(d)
  /\ \A c \in Rd, w \in Peer : ProcOf[PeerThread(w)] # Home(c)

Own(c)     == {ReadThread(c), WriteThread(c), Caller(c)}
Slot(c, f) == fdt[Home(c)][f]

ReadEnd(c)      == EndOf(addrRead[c], "R")
WriteEnd(c)     == EndOf(addrWrite[c], "W")
ReadRelease(c)  == EndOf(addrRead[c], "W")
WriteRelease(c) == EndOf(addrWrite[c], "R")

(* The thread of a half has not opened its end yet. *)
Before(c) == starts[c] = 0 \/ fifo[c] = "start"

Waiting == {"connect", "open", "opening"}

ReadUnopened(c) ==
  \/ rd[c].ctl \in {"unborn", "stopped"} /\ Before(c)
  \/ rd[c].pc \in Waiting

WriteUnopened(c) ==
  \/ wr[c].ctl \in {"unborn", "stopped"} /\ Before(c)
  \/ wr[c].pc \in Waiting

(* A thread makes one connection; the reader is stopped after the writer. *)
OrderOf(c) ==
  /\ ~rd[c].reconnect /\ ~wr[c].reconnect
  /\ wr[c].ctl \notin {"unborn", "stopped"} => rd[c].ctl = "started"

(* Which open a thread is in. *)
CallsOf(c) ==
  /\ sys[ReadThread(c)].call = "open" =>
       rd[c].pc = "opening" /\ sys[ReadThread(c)].end = ReadEnd(c)
  /\ sys[WriteThread(c)].call = "open" =>
       wr[c].pc = "opening" /\ sys[WriteThread(c)].end = WriteEnd(c)
  /\ sys[Caller(c)].call = "open" =>
       \/ wr[c].ctl = "releasing" /\ sys[Caller(c)].end = WriteRelease(c)
       \/ rd[c].ctl = "releasing" /\ sys[Caller(c)].end = ReadRelease(c)

(* The numbers of two opens in progress are free, and not the same. *)
NumbersOf(c) ==
  \A t \in Own(c) : sys[t].call = "open" =>
    /\ sys[t].fd \in Fd /\ Slot(c, sys[t].fd) = NoEnd
    /\ \A u \in Own(c) \ {t} : sys[u].call = "open" => sys[u].fd # sys[t].fd

(* What is in the table, and whose it is. *)
SlotsOf(c) ==
  \A f \in Fd :
    \/ Slot(c, f) = NoEnd
    \/ Slot(c, f) = ReadEnd(c) /\ f = rd[c].fifoFd
    \/ Slot(c, f) = WriteEnd(c) /\ f = wr[c].fifoFd /\ f # rd[c].fifoFd
    \/ Slot(c, f) = ReadRelease(c) /\ f = rd[c].fd /\ rd[c].ctl = "releaseClose"
    \/ Slot(c, f) = WriteRelease(c) /\ f = wr[c].fd /\ wr[c].ctl = "releaseClose"

(* What becomes of the numbers the halves keep.  While a thread has not     *)
(* opened its end nothing has closed that of the other, but for stopWrite() *)
(* itself; so the number the thread gets is not one that the other keeps.   *)
KeptOf(c) ==
  /\ ReadUnopened(c) => rd[c].fifoFd = NoFd
  /\ WriteUnopened(c) => wr[c].fifoFd = NoFd
  /\ WriteUnopened(c) /\ rd[c].fifoFd # NoFd => Slot(c, rd[c].fifoFd) = ReadEnd(c)
  /\ ReadUnopened(c) /\ wr[c].fifoFd # NoFd /\ wr[c].ctl \notin {"join", "stopped"}
       => Slot(c, wr[c].fifoFd) = WriteEnd(c)
  /\ wr[c].fifoFd # NoFd /\ Slot(c, wr[c].fifoFd) = ReadEnd(c)
       => wr[c].ctl \in {"join", "stopped"}

(* Nor is it the one of an end that is open to release a thread. *)
ReleasesOf(c) ==
  /\ rd[c].ctl = "releaseClose" /\ rd[c].fd # NoFd =>
       \/ Slot(c, rd[c].fd) = ReadRelease(c)
       \/ Slot(c, rd[c].fd) = NoEnd /\ ~ReadUnopened(c)
  /\ wr[c].ctl = "releaseClose" /\ wr[c].fd # NoFd =>
       \/ Slot(c, wr[c].fd) = WriteRelease(c)
       \/ Slot(c, wr[c].fd) = NoEnd /\ ~ReadUnopened(c) /\ ~WriteUnopened(c)

(* A number got for closing is still the one that its half keeps. *)
TakenOf(c) ==
  /\ rd[c].ctl = "closing" => rd[c].fd \in {NoFd, rd[c].fifoFd}
  /\ wr[c].ctl = "closing" => wr[c].fd \in {NoFd, wr[c].fifoFd}
  /\ at[c]["read"] = "close" => number[ReadThread(c)] \in {NoFd, wr[c].fifoFd}

TakenInv == \A c \in Rd : TakenOf(c)

OwnOf(c) ==
  OrderOf(c) /\ CallsOf(c) /\ NumbersOf(c) /\ SlotsOf(c) /\ KeptOf(c) /\ ReleasesOf(c)

OwnInv == \A c \in Rd : OwnOf(c)

(* The four ends that a client opens differ. *)
LEMMA EndsDiffer ==
  ASSUME Single, NEW c \in Rd
  PROVE  /\ ReadEnd(c) # WriteEnd(c) /\ ReadEnd(c) # ReadRelease(c)
         /\ ReadEnd(c) # WriteRelease(c) /\ WriteEnd(c) # ReadRelease(c)
         /\ WriteEnd(c) # WriteRelease(c) /\ ReadRelease(c) # WriteRelease(c)
         /\ ReadEnd(c) # NoEnd /\ WriteEnd(c) # NoEnd
         /\ ReadRelease(c) # NoEnd /\ WriteRelease(c) # NoEnd
BY DEF Single, ReadEnd, WriteEnd, ReadRelease, WriteRelease, EndOf, NoEnd

(* The three threads of a client are its own, and run in its process. *)
LEMMA OwnThreads ==
  ASSUME NEW c \in Rd
  PROVE  /\ Own(c) \subseteq Thread /\ Home(c) \in Process
         /\ \A t \in Own(c) : ProcOf[t] = Home(c)
         /\ ReadThread(c) # WriteThread(c) /\ ReadThread(c) # Caller(c)
         /\ WriteThread(c) # Caller(c)
<1>1. c \in Wr
  BY FifoAssumption
<1>2. /\ ReadThread(c) \in Thread /\ Caller(c) \in Thread /\ WriteThread(c) \in Thread
      /\ ProcOf[ReadThread(c)] = Home(c) /\ ProcOf[WriteThread(c)] = Home(c)
      /\ Home(c) \in Process
  BY <1>1, FifoReadAssumption, FifoWriteQAssumption, NamedPipeAssumption DEF Home
<1>3. /\ ReadThread(c) # WriteThread(c) /\ ReadThread(c) # Caller(c)
      /\ WriteThread(c) # Caller(c)
  BY DEF ReadThread, WriteThread, Caller
<1> QED
  BY <1>2, <1>3 DEF Own, Home

(* A client's table holds descriptors, and ends or none. *)
LEMMA SlotTypes ==
  ASSUME TypeOK, NEW c \in Rd
  PROVE  /\ rd[c].fifoFd \in Fd \cup {NoFd} /\ rd[c].fd \in Fd \cup {NoFd}
         /\ wr[c].fifoFd \in Fd \cup {NoFd} /\ wr[c].fd \in Fd \cup {NoFd}
         /\ NoFd \notin Fd
BY FifoAssumption, NamedPipeAssumption DEF TypeOK, ReadState, WriteState, NoFd

-----------------------------------------------------------------------------
(* Steps elsewhere *)

(* Nothing that happens in another process matters to a client. *)
StaysOut(c) ==
  /\ fdt'[Home(c)] = fdt[Home(c)]
  /\ \A t \in Own(c) : /\ sys'[t].call = sys[t].call
                       /\ sys'[t].end = sys[t].end /\ sys'[t].fd = sys[t].fd
  /\ rd'[c] = rd[c] /\ wr'[c] = wr[c] /\ fifo'[c] = fifo[c] /\ starts'[c] = starts[c]

LEMMA OwnFrame ==
  ASSUME NEW c \in Rd, OwnOf(c), StaysOut(c)
  PROVE  OwnOf(c)'
<1>1. /\ ReadUnopened(c)' <=> ReadUnopened(c)
      /\ WriteUnopened(c)' <=> WriteUnopened(c)
      /\ \A f : Slot(c, f)' = Slot(c, f)
  BY DEF StaysOut, ReadUnopened, WriteUnopened, Before, Slot
<1>2. OrderOf(c)' /\ SlotsOf(c)' /\ KeptOf(c)' /\ ReleasesOf(c)'
  BY <1>1 DEF StaysOut, OwnOf, OrderOf, SlotsOf, KeptOf, ReleasesOf, ReadEnd, WriteEnd,
     ReadRelease, WriteRelease
<1>3. CallsOf(c)' /\ NumbersOf(c)'
  BY <1>1 DEF StaysOut, OwnOf, CallsOf, NumbersOf, Own, ReadEnd, WriteEnd,
     ReadRelease, WriteRelease
<1> QED
  BY <1>2, <1>3 DEF OwnOf

(* A step of a thread of a client is one in the client's process. *)
StaysIn(c) ==
  /\ \A q \in Process \ {Home(c)} : fdt'[q] = fdt[q]
  /\ \A t \in Thread \ Own(c) : /\ sys'[t].call = sys[t].call
                                /\ sys'[t].end = sys[t].end /\ sys'[t].fd = sys[t].fd
  /\ \A d \in Rd \ {c} : /\ rd'[d] = rd[d] /\ wr'[d] = wr[d]
                         /\ fifo'[d] = fifo[d] /\ starts'[d] = starts[d]

LEMMA OwnLocal ==
  ASSUME Single, OwnInv, NEW c \in Rd, StaysIn(c), OwnOf(c)'
  PROVE  OwnInv'
<1> SUFFICES ASSUME NEW d \in Rd, d # c
             PROVE  OwnOf(d)'
  BY DEF OwnInv
<1>1. Home(d) \in Process \ {Home(c)}
  BY OwnThreads DEF Single
<1>2. Own(d) \subseteq Thread \ Own(c)
  BY OwnThreads DEF Single
<1> QED
  BY <1>1, <1>2, OwnFrame DEF StaysIn, StaysOut, OwnInv

LEMMA InitOwn ==
  ASSUME Init
  PROVE  OwnInv
<1> SUFFICES ASSUME NEW c \in Rd
             PROVE  OwnOf(c)
  BY DEF OwnInv
<1>1. /\ rd[c].ctl = "unborn" /\ rd[c].pc = "none" /\ ~rd[c].reconnect
      /\ rd[c].fifoFd = NoFd /\ rd[c].fd = NoFd
      /\ wr[c].ctl = "unborn" /\ wr[c].pc = "none" /\ ~wr[c].reconnect
      /\ wr[c].fifoFd = NoFd /\ wr[c].fd = NoFd
  BY FifoAssumption DEF Init, FifoInit, FifoReadInit, FifoWriteQInit
<1>2. /\ \A t \in Own(c) : sys[t].call = "none"
      /\ \A f \in Fd : Slot(c, f) = NoEnd
  BY OwnThreads DEF Init, KernelInit, Idle, Slot
<1>3. OrderOf(c) /\ KeptOf(c) /\ ReleasesOf(c) /\ SlotsOf(c)
  BY <1>1, <1>2 DEF OrderOf, KeptOf, ReleasesOf, SlotsOf
<1>4. CallsOf(c) /\ NumbersOf(c)
  BY <1>2 DEF CallsOf, NumbersOf, Own
<1> QED
  BY <1>3, <1>4 DEF OwnOf

-----------------------------------------------------------------------------
(* Steps of a client that open nothing *)

(* What a thread of a client does with the kernel concerns its process. *)
LEMMA CallsStayIn ==
  ASSUME TypeOK, NEW c \in Rd, NEW t \in Own(c),
         \/ UNCHANGED <<fdt, sys>> \/ OpenReturn(t) \/ IoReturn(t)
         \/ (\E f : Close(t, f)) \/ (\E e : OpenCall(t, e))
         \/ (\E x, f : IoCall(t, x, f)) \/ (\E n : ReadReturn(t, n))
  PROVE  /\ \A q \in Process \ {Home(c)} : fdt'[q] = fdt[q]
         /\ \A u \in Thread \ {t} : /\ sys'[u].call = sys[u].call
                                    /\ sys'[u].end = sys[u].end /\ sys'[u].fd = sys[u].fd
<1>1. t \in Thread /\ ProcOf[t] = Home(c) /\ KernelTypeOK(Unit)
  BY OwnThreads DEF TypeOK
<1>2. LeavesCalls(t)
  BY <1>1, StepsLeaveCalls, OpenCallLeavesCalls DEF LeavesCalls
<1>3. \A q \in Process \ {Home(c)} : fdt'[q] = fdt[q]
  BY <1>1 DEF KernelTypeOK, OpenReturn, IoReturn, Close, OpenCall, IoCall, ReadReturn
<1> QED
  BY <1>2, <1>3 DEF LeavesCalls

(* The table is as before, but for the number f, which is free. *)
Frees(c, f) == \A g \in Fd : Slot(c, g)' = IF g = f THEN NoEnd ELSE Slot(c, g)

LEMMA CloseFrees ==
  ASSUME TypeOK, NEW c \in Rd, NEW t \in Own(c), NEW f \in Fd \cup {NoFd}, Close(t, f)
  PROVE  Frees(c, f) /\ UNCHANGED sys
<1>1. /\ ProcOf[t] = Home(c) /\ Home(c) \in Process
      /\ fdt[Home(c)] \in [Fd -> End \cup {NoEnd}] /\ NoFd \notin Fd
      /\ fdt \in [Process -> [Fd -> End \cup {NoEnd}]]
  BY OwnThreads, SlotTypes DEF TypeOK, KernelTypeOK
<1> QED
  BY <1>1 DEF Close, Frees, Slot

(* Calls in progress go on, or end. *)
CallsGoOn(c) ==
  /\ \A t \in Own(c) : sys'[t].call = "open" =>
       sys[t].call = "open" /\ sys'[t].end = sys[t].end /\ sys'[t].fd = sys[t].fd
  /\ sys'[ReadThread(c)].call = "open" => rd'[c].pc = rd[c].pc
  /\ sys'[WriteThread(c)].call = "open" => wr'[c].pc = wr[c].pc
  /\ sys'[Caller(c)].call = "open" => rd'[c].ctl = rd[c].ctl /\ wr'[c].ctl = wr[c].ctl

(* The halves keep their numbers, and an end opened to release a thread is  *)
(* closed when stop..() goes on.                                            *)
ReadHalfKeeps(c, f) ==
  /\ rd'[c].fifoFd = rd[c].fifoFd
  /\ ReadUnopened(c)' => ReadUnopened(c)
  /\ \/ rd'[c].ctl = rd[c].ctl /\ rd'[c].fd = rd[c].fd
     \/ rd[c].ctl = "releaseClose" /\ rd'[c].ctl # "releaseClose" /\ f = rd[c].fd
     \/ /\ rd[c].ctl # "releaseClose"
        /\ rd'[c].ctl # "releaseClose" \/ rd'[c].fd = NoFd

WriteHalfKeeps(c, f) ==
  /\ wr'[c].fifoFd = wr[c].fifoFd
  /\ WriteUnopened(c)' => WriteUnopened(c)
  /\ wr[c].ctl \in {"join", "stopped"} =>
       wr'[c].ctl \in {"join", "stopped"} \/ wr[c].fifoFd = NoFd
  /\ \/ wr'[c].ctl = wr[c].ctl /\ wr'[c].fd = wr[c].fd
     \/ wr[c].ctl = "releaseClose" /\ wr'[c].ctl # "releaseClose" /\ f = wr[c].fd
     \/ /\ wr[c].ctl # "releaseClose"
        /\ wr'[c].ctl # "releaseClose" \/ wr'[c].fd = NoFd

(* What must not be closed under a thread that has not opened its end. *)
MayFree(c, f) ==
  /\ WriteUnopened(c)' => f # rd[c].fifoFd
  /\ ReadUnopened(c)' /\ wr'[c].ctl \notin {"join", "stopped"} => f # wr[c].fifoFd
  /\ ReadUnopened(c)' => rd'[c].ctl # "releaseClose"
  /\ ReadUnopened(c)' \/ WriteUnopened(c)' => wr'[c].ctl # "releaseClose"

LEMMA StepKeeps ==
  ASSUME Single, TypeOK, NEW c \in Rd, OwnOf(c), OrderOf(c)', CallsGoOn(c),
         NEW f \in Fd \cup {NoFd}, Frees(c, f),
         ReadHalfKeeps(c, f), WriteHalfKeeps(c, f), f = NoFd \/ MayFree(c, f)
  PROVE  OwnOf(c)'
<1> DEFINE S(g) == Slot(c, g)
<1>1. /\ rd[c].fifoFd \in Fd \cup {NoFd} /\ rd[c].fd \in Fd \cup {NoFd}
      /\ wr[c].fifoFd \in Fd \cup {NoFd} /\ wr[c].fd \in Fd \cup {NoFd}
      /\ NoFd \notin Fd
  BY SlotTypes
<1>2. \A g \in Fd : S(g)' = IF g = f THEN NoEnd ELSE S(g)
  BY DEF Frees
<1>3. /\ ReadEnd(c) # NoEnd /\ ReadEnd(c)' = ReadEnd(c) /\ WriteEnd(c)' = WriteEnd(c)
      /\ ReadRelease(c)' = ReadRelease(c) /\ WriteRelease(c)' = WriteRelease(c)
  BY EndsDiffer DEF ReadEnd, WriteEnd, ReadRelease, WriteRelease
<1>4. CallsOf(c)'
  BY <1>3 DEF CallsGoOn, CallsOf, OwnOf, Own
<1>5. NumbersOf(c)'
  BY <1>2 DEF CallsGoOn, NumbersOf, OwnOf, Own
<1>6. SlotsOf(c)'
  <2> SUFFICES ASSUME NEW g \in Fd, S(g)' # NoEnd
               PROVE  \/ S(g)' = ReadEnd(c) /\ g = rd'[c].fifoFd
                      \/ S(g)' = WriteEnd(c) /\ g = wr'[c].fifoFd /\ g # rd'[c].fifoFd
                      \/ /\ S(g)' = ReadRelease(c)
                         /\ g = rd'[c].fd /\ rd'[c].ctl = "releaseClose"
                      \/ /\ S(g)' = WriteRelease(c)
                         /\ g = wr'[c].fd /\ wr'[c].ctl = "releaseClose"
    BY <1>3 DEF SlotsOf
  <2>1. S(g)' = S(g) /\ g # f
    BY <1>2
  <2> HIDE DEF S
  <2>2. \/ S(g) = ReadEnd(c) /\ g = rd[c].fifoFd
        \/ S(g) = WriteEnd(c) /\ g = wr[c].fifoFd /\ g # rd[c].fifoFd
        \/ S(g) = ReadRelease(c) /\ g = rd[c].fd /\ rd[c].ctl = "releaseClose"
        \/ S(g) = WriteRelease(c) /\ g = wr[c].fd /\ wr[c].ctl = "releaseClose"
    BY <2>1 DEF OwnOf, SlotsOf, S
  <2> QED
    BY <2>1, <2>2 DEF ReadHalfKeeps, WriteHalfKeeps
<1>7. KeptOf(c)'
  BY <1>1, <1>2, <1>3 DEF KeptOf, OwnOf, ReadHalfKeeps, WriteHalfKeeps, MayFree
<1>8. ReleasesOf(c)'
  BY <1>1, <1>2, <1>3 DEF ReleasesOf, OwnOf, ReadHalfKeeps, WriteHalfKeeps, MayFree
<1> QED
  BY <1>4, <1>5, <1>6, <1>7, <1>8 DEF OwnOf

-----------------------------------------------------------------------------
(* The four opens *)

(* An open is called: its number is free, and no other open has it. *)
LEMMA OpenKeeps ==
  ASSUME Single, TypeOK, NEW c \in Rd, OwnOf(c), OrderOf(c)', NEW t \in Own(c), NEW e,
         OpenCall(t, e), sys[t].call # "open",
         ReadHalfKeeps(c, NoFd), WriteHalfKeeps(c, NoFd),
         CallsOf(c)'
  PROVE  OwnOf(c)'
<1>1. /\ t \in Thread /\ Own(c) \subseteq Thread /\ NoFd \notin Fd
      /\ \A u \in Own(c) : ProcOf[u] = Home(c)
  BY OwnThreads, SlotTypes
<1>2. PICK f \in FreeFds(Home(c)) : sys'[t].call = "open" /\ sys'[t].fd = f
  BY <1>1 DEF OpenCall
<1>3. f \in Fd /\ Slot(c, f) = NoEnd /\ \A u \in Own(c) : sys[u].fd # f
  BY <1>1, <1>2 DEF FreeFds, Slot
<1>4. \A u \in Own(c) \ {t} : sys'[u].call = sys[u].call /\ sys'[u].fd = sys[u].fd
  BY <1>1, CallsStayIn
<1>5. \A g : Slot(c, g)' = Slot(c, g)
  BY DEF OpenCall, Slot
<1>6. NumbersOf(c)'
  BY <1>2, <1>3, <1>4, <1>5 DEF NumbersOf, OwnOf, Own
<1>7. /\ ReadEnd(c)' = ReadEnd(c) /\ WriteEnd(c)' = WriteEnd(c)
      /\ ReadRelease(c)' = ReadRelease(c) /\ WriteRelease(c)' = WriteRelease(c)
  BY DEF ReadEnd, WriteEnd, ReadRelease, WriteRelease
<1>8. SlotsOf(c)'
  BY <1>1, <1>5, <1>7 DEF SlotsOf, OwnOf, ReadHalfKeeps, WriteHalfKeeps
<1>9. KeptOf(c)' /\ ReleasesOf(c)'
  BY <1>1, <1>5, <1>7 DEF KeptOf, ReleasesOf, OwnOf, ReadHalfKeeps, WriteHalfKeeps
<1> QED
  BY <1>6, <1>8, <1>9 DEF OwnOf

(* An open returns: the number that was free holds the end. *)
Fills(c, f, e) == \A g \in Fd : Slot(c, g)' = IF g = f THEN e ELSE Slot(c, g)

LEMMA ReturnFills ==
  ASSUME TypeOK, NEW c \in Rd, OwnOf(c), NEW t \in Own(c), OpenReturn(t)
  PROVE  /\ sys[t].fd \in Fd /\ Slot(c, sys[t].fd) = NoEnd
         /\ Fills(c, sys[t].fd, sys[t].end)
         /\ sys'[t].call = "none"
         /\ \A u \in Own(c) \ {t} :
              /\ sys'[u] = sys[u]
              /\ sys[u].call = "open" => sys[u].fd # sys[t].fd
<1>1. /\ t \in Thread /\ ProcOf[t] = Home(c) /\ Home(c) \in Process /\ Own(c) \subseteq Thread
      /\ fdt[Home(c)] \in [Fd -> End \cup {NoEnd}]
      /\ fdt \in [Process -> [Fd -> End \cup {NoEnd}]]
  BY OwnThreads DEF TypeOK, KernelTypeOK
<1>2. DOMAIN sys = Thread /\ sys[t].call = "open"
  BY DEF TypeOK, KernelTypeOK, OpenReturn
<1>3. /\ sys[t].fd \in Fd /\ Slot(c, sys[t].fd) = NoEnd
      /\ \A u \in Own(c) \ {t} : sys[u].call = "open" => sys[u].fd # sys[t].fd
  BY <1>2 DEF OwnOf, NumbersOf
<1> QED
  BY <1>1, <1>2, <1>3 DEF OpenReturn, Fills, Slot, Idle

(* The number that one open fills is not that of another in progress. *)
LEMMA ReturnKeepsNumbers ==
  ASSUME TypeOK, NEW c \in Rd, OwnOf(c), NEW t \in Own(c), OpenReturn(t)
  PROVE  NumbersOf(c)'
<1>1. ASSUME NEW u \in Own(c), sys'[u].call = "open"
      PROVE  /\ sys'[u].fd \in Fd /\ fdt'[Home(c)][sys'[u].fd] = NoEnd
             /\ \A v \in Own(c) \ {u} : sys'[v].call = "open" => sys'[v].fd # sys'[u].fd
  <2>1. u # t /\ sys'[u] = sys[u] /\ sys[u].fd # sys[t].fd
    BY <1>1, ReturnFills
  <2>2. /\ sys[u].fd \in Fd /\ Slot(c, sys[u].fd) = NoEnd
        /\ \A v \in Own(c) \ {u} : sys[v].call = "open" => sys[v].fd # sys[u].fd
    BY <1>1, <2>1 DEF OwnOf, NumbersOf
  <2>3. fdt'[Home(c)][sys[u].fd] = NoEnd
    BY <2>1, <2>2, ReturnFills DEF Fills, Slot
  <2> QED
    BY <1>1, <2>1, <2>2, <2>3, ReturnFills
<1> QED
  BY <1>1 DEF NumbersOf, Slot, Own

LEMMA ReadOpenReturnKeeps ==
  ASSUME Single, TypeOK, NEW c \in Rd, HalvesOf(c), OwnOf(c), ReadOpenReturns(c),
         UNCHANGED <<wr, fifo, starts>>
  PROVE  OwnOf(c)'
<1> DEFINE f == sys[ReadThread(c)].fd
<1>1. /\ rd[c].pc = "opening" /\ OpenReturn(ReadThread(c)) /\ ReadThread(c) \in Own(c)
      /\ rd'[c] = [rd[c] EXCEPT !.pc = "opened", !.fifoFd = f]
      /\ rd[c] \in ReadState
  BY DEF ReadOpenReturns, openFifoReturns, TypeOK, Own
<1>2. /\ sys[ReadThread(c)].call = "open" /\ sys[ReadThread(c)].end = ReadEnd(c)
      /\ sys'[ReadThread(c)].call = "none"
      /\ f \in Fd /\ Slot(c, f) = NoEnd /\ Fills(c, f, ReadEnd(c))
      /\ \A u \in Own(c) \ {ReadThread(c)} : sys'[u] = sys[u]
  <2>1. sys[ReadThread(c)].call = "open" /\ sys[ReadThread(c)].end = ReadEnd(c)
    BY <1>1 DEF OpenReturn, OwnOf, CallsOf
  <2> QED
    BY <1>1, <2>1, ReturnFills
<1>3. /\ rd'[c].pc = "opened" /\ rd'[c].fifoFd = f /\ rd'[c].ctl = rd[c].ctl
      /\ rd'[c].fd = rd[c].fd /\ rd'[c].reconnect = rd[c].reconnect /\ wr'[c] = wr[c]
  BY <1>1 DEF ReadState
<1> HIDE DEF f
<1>4. /\ ReadUnopened(c) /\ ~ReadUnopened(c)'
      /\ WriteUnopened(c)' <=> WriteUnopened(c)
  BY <1>1, <1>3 DEF HalvesOf, ReadUnopened, WriteUnopened, Waiting, Before
<1>5. /\ rd[c].fifoFd = NoFd /\ rd[c].fd \in Fd \cup {NoFd}
      /\ wr[c].fifoFd \in Fd \cup {NoFd} /\ wr[c].fd \in Fd \cup {NoFd} /\ NoFd \notin Fd
  BY <1>4, SlotTypes DEF OwnOf, KeptOf
<1>6. \A g \in Fd : Slot(c, g)' = IF g = f THEN ReadEnd(c) ELSE Slot(c, g)
  BY <1>2 DEF Fills
<1>7. /\ ReadEnd(c)' = ReadEnd(c) /\ WriteEnd(c)' = WriteEnd(c)
      /\ ReadRelease(c)' = ReadRelease(c) /\ WriteRelease(c)' = WriteRelease(c)
  BY DEF ReadEnd, WriteEnd, ReadRelease, WriteRelease
<1>8. OrderOf(c)' /\ CallsOf(c)'
  BY <1>2, <1>3, <1>7, OwnThreads DEF OwnOf, OrderOf, CallsOf, Own
<1>9. SlotsOf(c)'
  BY <1>2, <1>3, <1>5, <1>6, <1>7 DEF OwnOf, SlotsOf
<1>10. KeptOf(c)'
  BY <1>2, <1>3, <1>4, <1>5, <1>6, <1>7, EndsDiffer DEF OwnOf, KeptOf
<1>11. ReleasesOf(c)'
  BY <1>2, <1>3, <1>4, <1>5, <1>6, <1>7, EndsDiffer DEF OwnOf, ReleasesOf
<1> QED
  BY <1>1, <1>8, <1>9, <1>10, <1>11, ReturnKeepsNumbers DEF OwnOf

LEMMA WriteOpenReturnKeeps ==
  ASSUME Single, TypeOK, NEW c \in Rd, HalvesOf(c), OwnOf(c), WriteOpenReturns(c),
         UNCHANGED <<rd, fifo, starts>>
  PROVE  OwnOf(c)'
<1> DEFINE f == sys[WriteThread(c)].fd
<1>1. /\ wr[c].pc = "opening" /\ OpenReturn(WriteThread(c)) /\ WriteThread(c) \in Own(c)
      /\ wr'[c] = [wr[c] EXCEPT !.pc = "opened", !.fifoFd = f]
      /\ wr[c] \in WriteState
  BY FifoAssumption DEF WriteOpenReturns, openFifoReturns, TypeOK, Own
<1>2. /\ sys[WriteThread(c)].call = "open" /\ sys[WriteThread(c)].end = WriteEnd(c)
      /\ sys'[WriteThread(c)].call = "none"
      /\ f \in Fd /\ Slot(c, f) = NoEnd /\ Fills(c, f, WriteEnd(c))
      /\ \A u \in Own(c) \ {WriteThread(c)} : sys'[u] = sys[u]
  <2>1. sys[WriteThread(c)].call = "open" /\ sys[WriteThread(c)].end = WriteEnd(c)
    BY <1>1 DEF OpenReturn, OwnOf, CallsOf
  <2> QED
    BY <1>1, <2>1, ReturnFills
<1>3. /\ wr'[c].pc = "opened" /\ wr'[c].fifoFd = f /\ wr'[c].ctl = wr[c].ctl
      /\ wr'[c].fd = wr[c].fd /\ wr'[c].reconnect = wr[c].reconnect /\ rd'[c] = rd[c]
  BY <1>1 DEF WriteState
<1> HIDE DEF f
<1>4. /\ WriteUnopened(c) /\ ~WriteUnopened(c)' /\ rd[c].ctl = "started"
      /\ ReadUnopened(c)' <=> ReadUnopened(c)
  BY <1>1, <1>3 DEF HalvesOf, OwnOf, OrderOf, ReadUnopened, WriteUnopened, Waiting, Before
<1>5. /\ wr[c].fifoFd = NoFd /\ wr[c].fd \in Fd \cup {NoFd}
      /\ rd[c].fifoFd \in Fd \cup {NoFd} /\ rd[c].fd \in Fd \cup {NoFd} /\ NoFd \notin Fd
  BY <1>4, SlotTypes DEF OwnOf, KeptOf
<1>6. \A g \in Fd : Slot(c, g)' = IF g = f THEN WriteEnd(c) ELSE Slot(c, g)
  BY <1>2 DEF Fills
<1>7. /\ ReadEnd(c)' = ReadEnd(c) /\ WriteEnd(c)' = WriteEnd(c)
      /\ ReadRelease(c)' = ReadRelease(c) /\ WriteRelease(c)' = WriteRelease(c)
  BY DEF ReadEnd, WriteEnd, ReadRelease, WriteRelease
<1>8. OrderOf(c)' /\ CallsOf(c)'
  BY <1>2, <1>3, <1>7, OwnThreads DEF OwnOf, OrderOf, CallsOf, Own
<1>9. rd[c].fifoFd # f
  BY <1>2, <1>4, <1>5, EndsDiffer DEF OwnOf, KeptOf
<1>10. SlotsOf(c)'
  BY <1>2, <1>3, <1>5, <1>6, <1>7, <1>9 DEF OwnOf, SlotsOf
<1>11. KeptOf(c)'
  BY <1>2, <1>3, <1>4, <1>5, <1>6, <1>7, <1>9, EndsDiffer DEF OwnOf, KeptOf
<1>12. ReleasesOf(c)'
  BY <1>2, <1>3, <1>4, <1>5, <1>6, <1>7, EndsDiffer DEF OwnOf, ReleasesOf
<1> QED
  BY <1>1, <1>8, <1>10, <1>11, <1>12, ReturnKeepsNumbers DEF OwnOf

LEMMA StopReadReleasedKeeps ==
  ASSUME Single, TypeOK, NEW c \in Rd, HalvesOf(c), OwnOf(c), StopReadReleased(c),
         UNCHANGED <<wr, fifo, starts>>
  PROVE  OwnOf(c)'
<1> DEFINE f == sys[Caller(c)].fd
<1>1. /\ rd[c].ctl = "releasing" /\ OpenReturn(Caller(c)) /\ Caller(c) \in Own(c)
      /\ rd'[c] = [rd[c] EXCEPT !.ctl = "releaseClose", !.fd = f]
      /\ rd[c] \in ReadState
  BY DEF StopReadReleased, openFifoReturns, TypeOK, Own
<1>2. wr[c].ctl \in {"unborn", "stopped"}
  BY <1>1 DEF OwnOf, OrderOf
<1>3. /\ sys[Caller(c)].call = "open" /\ sys[Caller(c)].end = ReadRelease(c)
      /\ sys'[Caller(c)].call = "none"
      /\ f \in Fd /\ Slot(c, f) = NoEnd /\ Fills(c, f, ReadRelease(c))
      /\ \A u \in Own(c) \ {Caller(c)} : sys'[u] = sys[u]
  <2>1. sys[Caller(c)].call = "open" /\ sys[Caller(c)].end = ReadRelease(c)
    BY <1>1, <1>2 DEF OpenReturn, OwnOf, CallsOf
  <2> QED
    BY <1>1, <2>1, ReturnFills
<1>4. /\ rd'[c].ctl = "releaseClose" /\ rd'[c].fd = f /\ rd'[c].pc = rd[c].pc
      /\ rd'[c].fifoFd = rd[c].fifoFd /\ rd'[c].reconnect = rd[c].reconnect
      /\ wr'[c] = wr[c]
  BY <1>1 DEF ReadState
<1> HIDE DEF f
<1>5. /\ ReadUnopened(c)' => ReadUnopened(c)
      /\ WriteUnopened(c)' <=> WriteUnopened(c)
  BY <1>1, <1>4 DEF ReadUnopened, WriteUnopened, Before
<1>6. /\ wr[c].fifoFd \in Fd \cup {NoFd} /\ wr[c].fd \in Fd \cup {NoFd}
      /\ rd[c].fifoFd \in Fd \cup {NoFd} /\ NoFd \notin Fd
  BY SlotTypes
<1>7. \A g \in Fd : Slot(c, g)' = IF g = f THEN ReadRelease(c) ELSE Slot(c, g)
  BY <1>3 DEF Fills
<1>8. /\ ReadEnd(c)' = ReadEnd(c) /\ WriteEnd(c)' = WriteEnd(c)
      /\ ReadRelease(c)' = ReadRelease(c) /\ WriteRelease(c)' = WriteRelease(c)
  BY DEF ReadEnd, WriteEnd, ReadRelease, WriteRelease
<1>9. OrderOf(c)' /\ CallsOf(c)'
  BY <1>2, <1>3, <1>4, <1>8, OwnThreads DEF OwnOf, OrderOf, CallsOf, Own
<1>10. SlotsOf(c)'
  BY <1>1, <1>2, <1>3, <1>4, <1>6, <1>7, <1>8 DEF OwnOf, SlotsOf
<1>11. KeptOf(c)'
  BY <1>2, <1>3, <1>4, <1>5, <1>6, <1>7, <1>8, EndsDiffer DEF OwnOf, KeptOf
<1>12. ReleasesOf(c)'
  BY <1>2, <1>3, <1>4, <1>7, <1>8 DEF OwnOf, ReleasesOf
<1> QED
  BY <1>1, <1>9, <1>10, <1>11, <1>12, ReturnKeepsNumbers DEF OwnOf

LEMMA StopWriteReleasedKeeps ==
  ASSUME Single, TypeOK, NEW c \in Rd, HalvesOf(c), OwnOf(c), StopWriteReleased(c),
         UNCHANGED <<rd, fifo, starts>>
  PROVE  OwnOf(c)'
<1> DEFINE f == sys[Caller(c)].fd
<1>1. /\ wr[c].ctl = "releasing" /\ OpenReturn(Caller(c)) /\ Caller(c) \in Own(c)
      /\ wr'[c] = [wr[c] EXCEPT !.ctl = "releaseClose", !.fd = f]
      /\ wr[c] \in WriteState
  BY FifoAssumption DEF StopWriteReleased, openFifoReturns, TypeOK, Own
<1>2. rd[c].ctl = "started"
  BY <1>1 DEF OwnOf, OrderOf
<1>3. /\ sys[Caller(c)].call = "open" /\ sys[Caller(c)].end = WriteRelease(c)
      /\ sys'[Caller(c)].call = "none"
      /\ f \in Fd /\ Slot(c, f) = NoEnd /\ Fills(c, f, WriteRelease(c))
      /\ \A u \in Own(c) \ {Caller(c)} : sys'[u] = sys[u]
  <2>1. sys[Caller(c)].call = "open" /\ sys[Caller(c)].end = WriteRelease(c)
    BY <1>1, <1>2 DEF OpenReturn, OwnOf, CallsOf
  <2> QED
    BY <1>1, <2>1, ReturnFills
<1>4. /\ wr'[c].ctl = "releaseClose" /\ wr'[c].fd = f /\ wr'[c].pc = wr[c].pc
      /\ wr'[c].fifoFd = wr[c].fifoFd /\ wr'[c].reconnect = wr[c].reconnect
      /\ rd'[c] = rd[c]
  BY <1>1 DEF WriteState
<1> HIDE DEF f
<1>5. /\ ReadUnopened(c)' <=> ReadUnopened(c)
      /\ WriteUnopened(c)' => WriteUnopened(c)
  BY <1>1, <1>4 DEF ReadUnopened, WriteUnopened, Before
<1>6. /\ wr[c].fifoFd \in Fd \cup {NoFd}
      /\ rd[c].fifoFd \in Fd \cup {NoFd} /\ NoFd \notin Fd
  BY SlotTypes
<1>7. \A g \in Fd : Slot(c, g)' = IF g = f THEN WriteRelease(c) ELSE Slot(c, g)
  BY <1>3 DEF Fills
<1>8. /\ ReadEnd(c)' = ReadEnd(c) /\ WriteEnd(c)' = WriteEnd(c)
      /\ ReadRelease(c)' = ReadRelease(c) /\ WriteRelease(c)' = WriteRelease(c)
  BY DEF ReadEnd, WriteEnd, ReadRelease, WriteRelease
<1>9. OrderOf(c)' /\ CallsOf(c)'
  BY <1>2, <1>3, <1>4, <1>8, OwnThreads DEF OwnOf, OrderOf, CallsOf, Own
<1>10. SlotsOf(c)'
  BY <1>1, <1>2, <1>3, <1>4, <1>6, <1>7, <1>8 DEF OwnOf, SlotsOf
<1>11. KeptOf(c)'
  BY <1>1, <1>3, <1>4, <1>5, <1>6, <1>7, <1>8, EndsDiffer DEF OwnOf, KeptOf
<1>12. ReleasesOf(c)'
  BY <1>2, <1>3, <1>4, <1>7, <1>8 DEF OwnOf, ReleasesOf
<1> QED
  BY <1>1, <1>9, <1>10, <1>11, <1>12, ReturnKeepsNumbers DEF OwnOf

-----------------------------------------------------------------------------
(* The steps of the two threads *)

(* A call that is not an open, or none. *)
Talks(t) ==
  \/ UNCHANGED <<fdt, sys>> \/ IoReturn(t)
  \/ \E f : IoCall(t, "read", f) \/ IoCall(t, "write", f)
  \/ \E n : ReadReturn(t, n)

LEMMA TalksOpensNothing ==
  ASSUME TypeOK, NEW c \in Rd, NEW t \in Own(c), Talks(t)
  PROVE  /\ UNCHANGED fdt /\ Frees(c, NoFd)
         /\ \A u \in Own(c) : sys'[u].call = "open" => sys'[u] = sys[u]
<1>1. t \in Thread /\ Own(c) \subseteq Thread /\ NoFd \notin Fd /\ DOMAIN sys = Thread
  BY OwnThreads, SlotTypes DEF TypeOK, KernelTypeOK
<1> DEFINE Ends(s) == s.call # "open" /\ sys' = [sys EXCEPT ![t] = s]
<1>2. UNCHANGED fdt /\ (UNCHANGED sys \/ \E s : Ends(s))
  <2>1. CASE IoReturn(t) \/ \E n : ReadReturn(t, n)
    <3>1. UNCHANGED fdt /\ Ends(Idle)
      BY <2>1 DEF IoReturn, ReadReturn, Idle
    <3> QED
      BY <3>1
  <2>2. ASSUME NEW f, NEW x \in {"read", "write"}, IoCall(t, x, f)
        PROVE  UNCHANGED fdt /\ \E s : Ends(s)
    <3>1. /\ UNCHANGED fdt
          /\ Ends([call |-> x, end |-> fdt[ProcOf[t]][f], fd |-> NoFd, ready |-> FALSE])
      BY <2>2 DEF IoCall
    <3> QED
      BY <3>1
  <2> QED
    BY <2>1, <2>2 DEF Talks
<1>3. \A u \in Own(c) : sys'[u].call = "open" => sys'[u] = sys[u]
  BY <1>1, <1>2
<1> QED
  BY <1>1, <1>2, <1>3 DEF Frees, Slot

(* Nothing is opened, closed or called: what the step must respect. *)
LEMMA QuietKeeps ==
  ASSUME Single, TypeOK, NEW c \in Rd, OwnOf(c), NEW t \in Own(c), Talks(t), OrderOf(c)',
         ReadHalfKeeps(c, NoFd), WriteHalfKeeps(c, NoFd),
         rd[c].pc = "opening" => rd'[c].pc = rd[c].pc,
         wr[c].pc = "opening" => wr'[c].pc = wr[c].pc,
         \/ rd'[c].ctl = rd[c].ctl /\ wr'[c].ctl = wr[c].ctl
         \/ rd[c].ctl # "releasing" /\ wr[c].ctl # "releasing"
  PROVE  OwnOf(c)'
<1>1. /\ Frees(c, NoFd)
      /\ \A u \in Own(c) : sys'[u].call = "open" => sys'[u] = sys[u]
  BY TalksOpensNothing
<1>2. CallsGoOn(c)
  BY <1>1 DEF CallsGoOn, OwnOf, CallsOf, Own
<1> QED
  BY <1>1, <1>2, StepKeeps

(* The reading thread goes on outside connect(), or its open fails. *)
ReadGoes(c) ==
  /\ Talks(ReadThread(c))
  /\ {rd[c].pc, rd'[c].pc} \cap {"none", "opening"} = {}
  /\ rd'[c].pc \in Waiting => rd[c].pc \in Waiting
  /\ rd'[c].fifoFd = rd[c].fifoFd \/ (rd[c].pc = "open" /\ rd'[c].fifoFd = NoFd)
  /\ rd'[c].ctl = rd[c].ctl /\ rd'[c].fd = rd[c].fd /\ rd'[c].reconnect = rd[c].reconnect
  /\ \A d \in Rd \ {c} : rd'[d] = rd[d]

ReadOpens(c) ==
  /\ rd[c].pc = "open" /\ OpenCall(ReadThread(c), ReadEnd(c))
  /\ rd' = [rd EXCEPT ![c].pc = "opening"]

LEMMA ReadGoesKeeps ==
  ASSUME Single, TypeOK, NEW c \in Rd, HalvesOf(c), OwnOf(c), ReadGoes(c),
         UNCHANGED <<wr, fifo, starts>>
  PROVE  OwnOf(c)'
<1>1. rd[c].ctl \notin {"unborn", "stopped"}
  BY DEF HalvesOf, ReadGoes
<1>2. ReadHalfKeeps(c, NoFd)
  BY <1>1 DEF ReadHalfKeeps, ReadGoes, ReadUnopened, Waiting, OwnOf, KeptOf
<1>3. WriteHalfKeeps(c, NoFd)
  BY DEF WriteHalfKeeps, WriteUnopened, Before
<1>4. OrderOf(c)' /\ ReadThread(c) \in Own(c)
  BY DEF OwnOf, OrderOf, ReadGoes, Own
<1> QED
  BY <1>2, <1>3, <1>4, QuietKeeps DEF ReadGoes

LEMMA ReadOpensKeeps ==
  ASSUME Single, TypeOK, NEW c \in Rd, HalvesOf(c), OwnOf(c), ReadOpens(c),
         UNCHANGED <<wr, fifo, starts>>
  PROVE  OwnOf(c)'
<1>1. /\ rd'[c].pc = "opening" /\ rd'[c].fifoFd = rd[c].fifoFd /\ rd'[c].ctl = rd[c].ctl
      /\ rd'[c].fd = rd[c].fd /\ rd'[c].reconnect = rd[c].reconnect
  BY DEF ReadOpens, TypeOK, ReadState
<1>2. ReadHalfKeeps(c, NoFd)
  BY <1>1 DEF ReadHalfKeeps, ReadOpens, ReadUnopened, Waiting
<1>3. WriteHalfKeeps(c, NoFd)
  BY DEF WriteHalfKeeps, WriteUnopened, Before
<1>4. OrderOf(c)' /\ ReadThread(c) \in Own(c)
  BY <1>1 DEF OwnOf, OrderOf, Own
<1>5. sys[ReadThread(c)].call # "open"
  BY DEF OwnOf, CallsOf, ReadOpens
<1>6. CallsOf(c)'
  <2>1. /\ sys'[ReadThread(c)].end = ReadEnd(c)
        /\ \A u \in Own(c) \ {ReadThread(c)} :
             sys'[u].call = sys[u].call /\ sys'[u].end = sys[u].end
    BY <1>4, OwnThreads, CallsStayIn DEF ReadOpens, OpenCall
  <2>2. /\ ReadEnd(c)' = ReadEnd(c) /\ WriteEnd(c)' = WriteEnd(c)
        /\ ReadRelease(c)' = ReadRelease(c) /\ WriteRelease(c)' = WriteRelease(c)
    BY DEF ReadEnd, WriteEnd, ReadRelease, WriteRelease
  <2> QED
    BY <1>1, <2>1, <2>2, OwnThreads DEF CallsOf, OwnOf, Own
<1> QED
  BY <1>2, <1>3, <1>4, <1>5, <1>6, OpenKeeps DEF ReadOpens

LEMMA ReadingDoes ==
  ASSUME TypeOK, NEW c \in Rd, OrderOf(c), Reading(c)
  PROVE  ReadGoes(c) \/ ReadOpens(c) \/ ReadOpenReturns(c)
<1>1. rd \in [Rd -> ReadState] /\ ~rd[c].reconnect
  BY DEF TypeOK, OrderOf
<1> USE <1>1 DEF ReadState, ReadGoes, Waiting
<1>2. CASE ReadOpen(c)
  <2>1. \/ ReadOpens(c)
        \/ /\ rd[c].pc = "open" /\ Talks(ReadThread(c))
           /\ rd' = [rd EXCEPT ![c].pc = "opened", ![c].fifoFd = NoFd]
    BY <1>2 DEF ReadOpen, ReadOpens, openFifo, openFifoFails, kernel, Talks, ReadEnd
  <2> QED
    BY <2>1
<1>3. CASE ReadConnect(c) \/ ReadOpened(c) \/ ReadConnected(c) \/ ReadMessageHandlerReturns(c)
  <2>1. Talks(ReadThread(c))
    BY <1>3 DEF ReadConnect, ReadOpened, ReadConnected, ReadMessageHandlerReturns,
       kernel, Talks
  <2> QED
    BY <1>3, <2>1 DEF ReadConnect, ReadOpened, ReadConnected, ReadMessageHandlerReturns
<1>4. CASE ReadCheck(c) \/ ReadLoop(c) \/ ReadAgain(c)
  <2>1. Talks(ReadThread(c))
    BY <1>4 DEF ReadCheck, ReadLoop, ReadAgain, kernel, Talks
  <2> QED
    BY <1>4, <2>1 DEF ReadCheck, ReadLoop, ReadAgain
<1>5. CASE ReadCall(c)
  <2>1. /\ rd[c].pc = "read" /\ Talks(ReadThread(c))
        /\ \/ rd' = [rd EXCEPT ![c].pc = "reading"]
           \/ rd' = [rd EXCEPT ![c].pc = "disconnectH", ![c].waitConnect = FALSE]
    BY <1>5 DEF ReadCall, ReadDown, kernel, Talks
  <2> QED
    BY <2>1
<1>6. CASE ReadEnds(c)
  <2>1. /\ rd[c].pc = "reading" /\ Talks(ReadThread(c))
        /\ rd' = [rd EXCEPT ![c].pc = "disconnectH", ![c].waitConnect = FALSE]
    BY <1>6 DEF ReadEnds, ReadDown, Talks
  <2> QED
    BY <2>1
<1>7. CASE ReadData(c)
  <2>1. /\ rd[c].pc = "reading" /\ Talks(ReadThread(c))
        /\ rd' = [rd EXCEPT ![c].pc = "messageH",
                    ![c].moved = HandlerMoves /\ Len(Chunk(ReadThread(c), MaxLine)) = MaxLine]
    BY <1>7 DEF ReadData, Talks
  <2> HIDE DEF ReadState
  <2>2. /\ rd'[c] = [rd[c] EXCEPT !.pc = "messageH",
                    !.moved = HandlerMoves /\ Len(Chunk(ReadThread(c), MaxLine)) = MaxLine]
        /\ \A d \in Rd \ {c} : rd'[d] = rd[d]
    BY <2>1
  <2> QED
    BY <2>1, <2>2 DEF ReadState
<1> QED
  BY <1>2, <1>3, <1>4, <1>5, <1>6, <1>7 DEF Reading, FifoReading, ReadThreadStep

(* The writing thread, likewise. *)
WriteGoes(c) ==
  /\ Talks(WriteThread(c))
  /\ {wr[c].pc, wr'[c].pc} \cap {"none", "opening"} = {}
  /\ wr'[c].pc \in Waiting => wr[c].pc \in Waiting
  /\ wr'[c].fifoFd = wr[c].fifoFd \/ (wr[c].pc = "open" /\ wr'[c].fifoFd = NoFd)
  /\ wr'[c].ctl = wr[c].ctl /\ wr'[c].fd = wr[c].fd /\ wr'[c].reconnect = wr[c].reconnect
  /\ \A d \in Rd \ {c} : wr'[d] = wr[d]

WriteOpens(c) ==
  /\ wr[c].pc = "open" /\ OpenCall(WriteThread(c), WriteEnd(c))
  /\ wr' = [wr EXCEPT ![c].pc = "opening"]

LEMMA WriteGoesKeeps ==
  ASSUME Single, TypeOK, NEW c \in Rd, HalvesOf(c), OwnOf(c), WriteGoes(c),
         UNCHANGED <<rd, fifo, starts>>
  PROVE  OwnOf(c)'
<1>1. wr[c].ctl \notin {"unborn", "stopped"}
  BY DEF HalvesOf, WriteGoes
<1>2. WriteHalfKeeps(c, NoFd)
  BY <1>1 DEF WriteHalfKeeps, WriteGoes, WriteUnopened, Waiting, OwnOf, KeptOf
<1>3. ReadHalfKeeps(c, NoFd)
  BY DEF ReadHalfKeeps, ReadUnopened, Before
<1>4. OrderOf(c)' /\ WriteThread(c) \in Own(c)
  BY DEF OwnOf, OrderOf, WriteGoes, Own
<1> QED
  BY <1>2, <1>3, <1>4, QuietKeeps DEF WriteGoes

LEMMA WriteOpensKeeps ==
  ASSUME Single, TypeOK, NEW c \in Rd, HalvesOf(c), OwnOf(c), WriteOpens(c),
         UNCHANGED <<rd, fifo, starts>>
  PROVE  OwnOf(c)'
<1>1. /\ wr'[c].pc = "opening" /\ wr'[c].fifoFd = wr[c].fifoFd /\ wr'[c].ctl = wr[c].ctl
      /\ wr'[c].fd = wr[c].fd /\ wr'[c].reconnect = wr[c].reconnect
  BY FifoAssumption DEF WriteOpens, TypeOK, WriteState
<1>2. WriteHalfKeeps(c, NoFd)
  BY <1>1 DEF WriteHalfKeeps, WriteOpens, WriteUnopened, Waiting
<1>3. ReadHalfKeeps(c, NoFd)
  BY DEF ReadHalfKeeps, ReadUnopened, Before
<1>4. OrderOf(c)' /\ WriteThread(c) \in Own(c)
  BY <1>1 DEF OwnOf, OrderOf, Own
<1>5. sys[WriteThread(c)].call # "open"
  BY DEF OwnOf, CallsOf, WriteOpens
<1>6. CallsOf(c)'
  <2>1. /\ sys'[WriteThread(c)].end = WriteEnd(c)
        /\ \A u \in Own(c) \ {WriteThread(c)} :
             sys'[u].call = sys[u].call /\ sys'[u].end = sys[u].end
    BY <1>4, OwnThreads, CallsStayIn DEF WriteOpens, OpenCall
  <2>2. /\ ReadEnd(c)' = ReadEnd(c) /\ WriteEnd(c)' = WriteEnd(c)
        /\ ReadRelease(c)' = ReadRelease(c) /\ WriteRelease(c)' = WriteRelease(c)
    BY DEF ReadEnd, WriteEnd, ReadRelease, WriteRelease
  <2> QED
    BY <1>1, <2>1, <2>2, OwnThreads DEF CallsOf, OwnOf, Own
<1> QED
  BY <1>2, <1>3, <1>4, <1>5, <1>6, OpenKeeps DEF WriteOpens

LEMMA WritingDoes ==
  ASSUME TypeOK, NEW c \in Rd, OrderOf(c), Writing(c)
  PROVE  WriteGoes(c) \/ WriteOpens(c) \/ WriteOpenReturns(c)
<1>1. wr \in [Rd -> WriteState] /\ ~wr[c].reconnect
  BY FifoAssumption DEF TypeOK, OrderOf
<1> USE <1>1 DEF WriteState, WriteGoes, Waiting
<1>2. CASE WriteOpen(c)
  <2>1. \/ WriteOpens(c)
        \/ /\ wr[c].pc = "open" /\ Talks(WriteThread(c))
           /\ wr' = [wr EXCEPT ![c].pc = "opened", ![c].fifoFd = NoFd]
    BY <1>2 DEF WriteOpen, WriteOpens, openFifo, openFifoFails, kernel, Talks, WriteEnd
  <2> QED
    BY <2>1
<1>3. CASE WriteConnect(c) \/ WriteOpened(c) \/ WriteConnected(c)
  <2>1. Talks(WriteThread(c))
    BY <1>3 DEF WriteConnect, WriteOpened, WriteConnected, kernel, Talks
  <2> QED
    BY <1>3, <2>1 DEF WriteConnect, WriteOpened, WriteConnected
<1>4. CASE WriteCheck(c) \/ WriteLoop(c) \/ WriteAgain(c) \/ WriteLock(c)
  <2>1. Talks(WriteThread(c))
    BY <1>4 DEF WriteCheck, WriteLoop, WriteAgain, WriteLock, kernel, Talks
  <2> QED
    BY <1>4, <2>1 DEF WriteCheck, WriteLoop, WriteAgain, WriteLock
<1>5. CASE WriteCall(c)
  <2>1. /\ wr[c].pc = "write" /\ Talks(WriteThread(c))
        /\ \/ wr' = [wr EXCEPT ![c].pc = "writing", ![c].written = 0]
           \/ wr' = [wr EXCEPT ![c].pc = "disconnectH", ![c].waitConnect = FALSE]
    BY <1>5 DEF WriteCall, WriteDown, kernel, Talks
  <2> QED
    BY <2>1
<1>6. CASE WriteFails(c)
  <2>1. /\ wr[c].pc = "writing" /\ Talks(WriteThread(c))
        /\ wr' = [wr EXCEPT ![c].pc = "disconnectH", ![c].waitConnect = FALSE]
    BY <1>6 DEF WriteFails, WriteDown, Talks
  <2> QED
    BY <2>1
<1>7. CASE WritePop(c)
  <2>1. /\ wr[c].pc = "writing" /\ Talks(WriteThread(c))
        /\ wr' = [wr EXCEPT ![c].pc = "loop", ![c].queue = Tail(@), ![c].written = 0]
    BY <1>7 DEF WritePop, Talks
  <2> QED
    BY <2>1
<1>8. CASE WriteUnits(c)
  <2>1. /\ wr[c].pc = "writing" /\ Talks(WriteThread(c))
        /\ wr' = [wr EXCEPT ![c].written = @ + 1]
    BY <1>8 DEF WriteUnits, WriteUnit, Talks
  <2> QED
    BY <2>1
<1> QED
  BY <1>2, <1>3, <1>4, <1>5, <1>6, <1>7, <1>8 DEF Writing, FifoWriting, WriteThreadStep

LEMMA ThreadOwn ==
  ASSUME Single, TypeOK, OwnInv, NEW c \in Rd, HalvesOf(c), Reading(c) \/ Writing(c)
  PROVE  OwnInv'
<1>1. OwnOf(c) /\ OrderOf(c)
  BY DEF OwnInv, OwnOf
<1>2. {ReadThread(c), WriteThread(c)} \subseteq Own(c) /\ Own(c) \subseteq Thread
  BY OwnThreads DEF Own
<1>3. CASE Reading(c)
  <2>1. UNCHANGED <<wr, fifo, starts>>
    BY <1>3 DEF Reading, FifoReading, app
  <2>2. ReadGoes(c) \/ ReadOpens(c) \/ ReadOpenReturns(c)
    BY <1>1, <1>3, ReadingDoes
  <2>3. OwnOf(c)'
    BY <1>1, <2>1, <2>2, ReadGoesKeeps, ReadOpensKeeps, ReadOpenReturnKeeps
  <2>4. \A d \in Rd \ {c} : rd'[d] = rd[d]
    BY <2>2 DEF ReadGoes, ReadOpens, ReadOpenReturns, TypeOK
  <2>5. /\ \A q \in Process \ {Home(c)} : fdt'[q] = fdt[q]
        /\ \A u \in Thread \ {ReadThread(c)} :
             sys'[u].call = sys[u].call /\ sys'[u].end = sys[u].end /\ sys'[u].fd = sys[u].fd
    BY <1>2, <2>2, CallsStayIn
       DEF ReadGoes, Talks, ReadOpens, ReadOpenReturns, openFifoReturns
  <2> QED
    BY <1>2, <2>1, <2>3, <2>4, <2>5, OwnLocal DEF StaysIn
<1>4. CASE Writing(c)
  <2>1. UNCHANGED <<rd, fifo, starts>>
    BY <1>4 DEF Writing, FifoWriting, app
  <2>2. WriteGoes(c) \/ WriteOpens(c) \/ WriteOpenReturns(c)
    BY <1>1, <1>4, WritingDoes
  <2>3. OwnOf(c)'
    BY <1>1, <2>1, <2>2, WriteGoesKeeps, WriteOpensKeeps, WriteOpenReturnKeeps
  <2>4. \A d \in Rd \ {c} : wr'[d] = wr[d]
    BY <2>2, FifoAssumption DEF WriteGoes, WriteOpens, WriteOpenReturns, TypeOK
  <2>5. /\ \A q \in Process \ {Home(c)} : fdt'[q] = fdt[q]
        /\ \A u \in Thread \ {WriteThread(c)} :
             sys'[u].call = sys[u].call /\ sys'[u].end = sys[u].end /\ sys'[u].fd = sys[u].fd
    BY <1>2, <2>2, CallsStayIn
       DEF WriteGoes, Talks, WriteOpens, WriteOpenReturns, openFifoReturns
  <2> QED
    BY <1>2, <2>1, <2>3, <2>4, <2>5, OwnLocal DEF StaysIn
<1> QED
  BY <1>3, <1>4

-----------------------------------------------------------------------------
(* The steps of the owner *)

(* A stop belongs to the session that it ends: nothing is unopened any more *)
(* of a half that is stopped then.                                          *)
LEMMA StoppingIsAfter ==
  ASSUME NEW c \in Rd, HalvesOf(c), FreshOf(c),
         {rd[c].ctl, wr[c].ctl} \cap {"unrun", "unreconnect", "release", "releasing",
           "releaseClose", "close", "closing", "join", "disconnectH", "testOpen"} # {}
  PROVE  ~Before(c)
BY DEF HalvesOf, FreshOf, Before

LEMMA StartOwn ==
  ASSUME Single, TypeOK, NEW c \in Rd, HalvesOf(c), OwnOf(c),
         New(c) \/ Start(c) \/ Starting(c)
  PROVE  OwnOf(c)' /\ StaysIn(c)
<1>1. /\ rd[c] \in ReadState /\ wr[c] \in WriteState /\ Caller(c) \in Own(c)
      /\ rd \in [Rd -> ReadState] /\ wr \in [Rd -> WriteState]
      /\ fifo \in [Rd -> FifoState] /\ starts \in [Rd -> 0..MaxStarts]
  BY FifoAssumption DEF TypeOK, Own
<1>2. UNCHANGED <<fdt, sys>> /\ Talks(Caller(c))
  BY DEF New, ClientNew, FifoNew, Start, ClientStart, FifoStart, Starting, ClientStarting,
     FifoStartRead, StartRead, FifoStartWrite, StartWrite, kernel, Talks
<1>3. /\ OrderOf(c)' /\ ReadHalfKeeps(c, NoFd) /\ WriteHalfKeeps(c, NoFd)
      /\ rd[c].pc # "opening" \/ rd'[c].pc = rd[c].pc
      /\ wr[c].pc # "opening" \/ wr'[c].pc = wr[c].pc
      /\ \/ rd'[c].ctl = rd[c].ctl /\ wr'[c].ctl = wr[c].ctl
         \/ rd[c].ctl # "releasing" /\ wr[c].ctl # "releasing"
      /\ \A d \in Rd \ {c} : /\ rd'[d] = rd[d] /\ wr'[d] = wr[d]
                             /\ fifo'[d] = fifo[d] /\ starts'[d] = starts[d]
  <2>1. CASE New(c)
    <3>1. /\ rd[c].ctl = "unborn"
          /\ rd' = [rd EXCEPT ![c].ctl = "stopped", ![c].handlers = Handlers,
                              ![c].reconnect = FALSE]
          /\ wr' = [wr EXCEPT ![c].ctl = "stopped", ![c].handlers = WriteHandlers,
                              ![c].reconnect = FALSE]
          /\ UNCHANGED <<fifo, starts>>
      BY <2>1 DEF New, ClientNew, FifoNew, app
    <3>2. wr[c].ctl = "unborn" /\ rd[c].pc = "none" /\ wr[c].pc = "none"
      BY <3>1 DEF HalvesOf
    <3>3. /\ rd'[c].ctl = "stopped" /\ ~rd'[c].reconnect /\ rd'[c].pc = rd[c].pc
          /\ rd'[c].fifoFd = rd[c].fifoFd
          /\ wr'[c].ctl = "stopped" /\ ~wr'[c].reconnect /\ wr'[c].pc = wr[c].pc
          /\ wr'[c].fifoFd = wr[c].fifoFd
          /\ \A d \in Rd \ {c} : rd'[d] = rd[d] /\ wr'[d] = wr[d]
      BY <1>1, <3>1 DEF ReadState, WriteState
    <3> QED
      BY <3>1, <3>2, <3>3 DEF OrderOf, ReadHalfKeeps, WriteHalfKeeps, ReadUnopened,
         WriteUnopened, Before
  <2>2. CASE Start(c)
    <3>1. /\ rd' = rd /\ wr' = wr /\ starts[c] < MaxStarts /\ starts' = [starts EXCEPT ![c] = @ + 1]
          /\ fifo' = [fifo EXCEPT ![c] = "start"]
      BY <2>2 DEF Start, ClientStart, FifoStart
    <3>2. starts[c] = 0
      BY <1>1, <3>1 DEF Single
    <3> QED
      BY <1>1, <3>1, <3>2 DEF OwnOf, OrderOf, ReadHalfKeeps, WriteHalfKeeps, ReadUnopened,
         WriteUnopened, Before
  <2>3. CASE FifoStartRead(c) /\ Starting(c)
    <3>1. /\ fifo[c] = "start" /\ rd[c].ctl = "stopped" /\ wr[c].ctl = "stopped"
          /\ rd' = [rd EXCEPT ![c].ctl = "started", ![c].pc = "connect",
                              ![c].runRead = TRUE, ![c].moved = FALSE]
          /\ UNCHANGED <<wr, fifo, starts>>
      BY <2>3 DEF FifoStartRead, StartRead, Starting, app
    <3>2. /\ rd'[c].ctl = "started" /\ rd'[c].pc = "connect" /\ rd'[c].fifoFd = rd[c].fifoFd
          /\ rd'[c].reconnect = rd[c].reconnect /\ \A d \in Rd \ {c} : rd'[d] = rd[d]
      BY <1>1, <3>1 DEF ReadState
    <3> QED
      BY <3>1, <3>2 DEF HalvesOf, OwnOf, OrderOf, ReadHalfKeeps, WriteHalfKeeps,
         ReadUnopened, WriteUnopened, Before
  <2>4. CASE FifoStartWrite(c) /\ Starting(c)
    <3>1. /\ fifo[c] = "start" /\ rd[c].ctl = "started" /\ wr[c].ctl = "stopped"
          /\ wr' = [wr EXCEPT ![c].ctl = "started", ![c].pc = "connect",
                              ![c].runWrite = TRUE]
          /\ UNCHANGED <<rd, fifo, starts>>
      BY <2>4 DEF FifoStartWrite, StartWrite, Starting, app
    <3>2. /\ wr'[c].ctl = "started" /\ wr'[c].pc = "connect" /\ wr'[c].fifoFd = wr[c].fifoFd
          /\ wr'[c].reconnect = wr[c].reconnect /\ \A d \in Rd \ {c} : wr'[d] = wr[d]
      BY <1>1, <3>1 DEF WriteState
    <3>3. WriteUnopened(c) /\ wr[c].fifoFd = NoFd /\ wr[c].pc = "none"
      BY <3>1 DEF HalvesOf, WriteUnopened, Before, OwnOf, KeptOf
    <3> QED
      BY <3>1, <3>2, <3>3 DEF OwnOf, OrderOf, ReadHalfKeeps, WriteHalfKeeps,
         ReadUnopened, Before
  <2> QED
    BY <2>1, <2>2, <2>3, <2>4 DEF Starting, ClientStarting
<1>4. OwnOf(c)'
  BY <1>1, <1>2, <1>3, QuietKeeps
<1> QED
  BY <1>2, <1>3, <1>4 DEF StaysIn

LEMMA CallOwn ==
  ASSUME Single, TypeOK, NEW c \in Rd, HalvesOf(c), OwnOf(c),
         Write(c) \/ Stop(c) \/ Leaving(c) \/ GivingUp(c)
  PROVE  OwnOf(c)' /\ StaysIn(c)
<1>1. /\ wr[c] \in WriteState /\ wr \in [Rd -> WriteState] /\ Caller(c) \in Own(c)
      /\ fifo \in [Rd -> FifoState]
  BY FifoAssumption DEF TypeOK, Own
<1>2. UNCHANGED <<fdt, sys>> /\ Talks(Caller(c)) /\ UNCHANGED <<rd, starts>>
  BY DEF Write, ClientWrite, FifoWrite, PushData, Stop, ClientStop, FifoStop, StopWrite,
     Leaving, ClientStopReturns, GivingUp, ClientGivesUp, kernel, Talks, app
<1>3. /\ \A d \in Rd \ {c} : wr'[d] = wr[d] /\ fifo'[d] = fifo[d]
      /\ wr'[c].pc = wr[c].pc /\ wr'[c].fifoFd = wr[c].fifoFd /\ wr'[c].fd = wr[c].fd
      /\ wr'[c].reconnect = wr[c].reconnect
      /\ \/ wr'[c].ctl = wr[c].ctl /\ fifo'[c] = fifo[c]
         \/ /\ rd[c].ctl = "started" /\ wr[c].ctl = "started" /\ wr'[c].ctl = "unrun"
            /\ fifo'[c] = "stop"
  <2>1. CASE Write(c)
    <3>1. UNCHANGED fifo /\ wr' = [wr EXCEPT ![c].queue = Append(@, pushed[c] + 1)]
      BY <2>1 DEF Write, ClientWrite, FifoWrite, PushData
    <3> QED
      BY <1>1, <3>1 DEF WriteState
  <2>2. CASE Stop(c)
    <3>1. /\ rd[c].ctl = "started" /\ wr[c].ctl = "started" /\ fifo' = [fifo EXCEPT ![c] = "stop"]
          /\ wr' = [wr EXCEPT ![c].ctl = "unrun", ![c].runWrite = FALSE]
      BY <2>2 DEF Stop, ClientStop, FifoStop, StopWrite
    <3> QED
      BY <1>1, <3>1 DEF WriteState
  <2>3. CASE Leaving(c) \/ GivingUp(c)
    BY <2>3 DEF Leaving, ClientStopReturns, GivingUp, ClientGivesUp
  <2> QED
    BY <2>1, <2>2, <2>3
<1>4. OrderOf(c)' /\ ReadHalfKeeps(c, NoFd) /\ WriteHalfKeeps(c, NoFd)
  BY <1>2, <1>3 DEF OwnOf, OrderOf, ReadHalfKeeps, WriteHalfKeeps, ReadUnopened,
     WriteUnopened, Before
<1>5. OwnOf(c)'
  BY <1>1, <1>2, <1>3, <1>4, QuietKeeps
<1> QED
  BY <1>2, <1>3, <1>5 DEF StaysIn

(* stopWrite(), whose steps come while the reader runs. *)
LEMMA StopWriteOwn ==
  ASSUME Single, TypeOK, NEW c \in Rd, HalvesOf(c), FreshOf(c), OwnOf(c), TakenOf(c),
         StopWriteStep(c) \/ StopWriteHandlerReturns(c), UNCHANGED <<rd, fifo, starts>>
  PROVE  OwnOf(c)' /\ StaysIn(c)
<1>1. /\ wr[c] \in WriteState /\ wr \in [Rd -> WriteState] /\ Caller(c) \in Own(c)
      /\ Own(c) \subseteq Thread
  BY FifoAssumption, OwnThreads DEF TypeOK, Own
<1>2. /\ wr[c].fifoFd \in Fd \cup {NoFd} /\ wr[c].fd \in Fd \cup {NoFd}
      /\ rd[c].fifoFd \in Fd \cup {NoFd} /\ NoFd \notin Fd
  BY SlotTypes
<1>3. ReadHalfKeeps(c, wr[c].fd) /\ ReadHalfKeeps(c, NoFd)
  BY DEF ReadHalfKeeps, ReadUnopened, Before
<1>4. ASSUME wr[c].ctl \notin {"unborn", "stopped", "started"}
      PROVE  ~Before(c) /\ ~Before(c)' /\ rd[c].ctl = "started" /\ rd'[c].ctl = "started"
  BY <1>4, StoppingIsAfter DEF OwnOf, OrderOf, HalvesOf, FreshOf, Before
<1> DEFINE Goes(x) == /\ wr'[c].ctl = x /\ wr'[c].pc = wr[c].pc
                      /\ wr'[c].fifoFd = wr[c].fifoFd
                      /\ ~wr'[c].reconnect
                      /\ \A d \in Rd \ {c} : wr'[d] = wr[d]
<1>5. ~wr[c].reconnect
  BY DEF OwnOf, OrderOf
<1>6. CASE \/ StopWriteReconnect(c) \/ StopWriteHandlerReturns(c) \/ StopWriteTestOpen(c)
           \/ StopWriteTakes(c) \/ StopWriteJoin(c)
  <2>1. Talks(Caller(c))
    BY <1>6 DEF StopWriteReconnect, StopWriteHandlerReturns, StopWriteTestOpen,
       StopWriteTakes, StopWriteJoin, kernel, Talks
  <2>2. /\ wr[c].ctl \in {"unrun", "disconnectH", "testOpen", "close", "join"}
        /\ wr[c].ctl = "join" <=> wr'[c].ctl = "stopped"
        /\ wr'[c].ctl \in {"disconnectH", "testOpen", "close", "closing", "release",
                           "stopped"}
        /\ wr'[c].fifoFd = wr[c].fifoFd /\ ~wr'[c].reconnect
        /\ wr'[c].pc = wr[c].pc \/ (wr[c].pc = "done" /\ wr'[c].pc = "none")
        /\ \A d \in Rd \ {c} : wr'[d] = wr[d]
    <3>1. CASE StopWriteReconnect(c) \/ StopWriteHandlerReturns(c)
      BY <1>1, <1>5, <3>1 DEF StopWriteReconnect, StopWriteHandlerReturns, WriteState
    <3>2. CASE StopWriteTestOpen(c)
      BY <1>1, <1>5, <3>2 DEF StopWriteTestOpen, WriteState
    <3>3. CASE StopWriteJoin(c)
      BY <1>1, <1>5, <3>3 DEF StopWriteJoin, WriteState
    <3>4. CASE StopWriteTakes(c)
      BY <1>1, <1>5, <3>4 DEF StopWriteTakes, WriteState
    <3> QED
      BY <1>6, <3>1, <3>2, <3>3, <3>4
  <2>3. ~Before(c) /\ ~Before(c)' /\ rd[c].ctl = "started" /\ rd'[c].ctl = "started"
    BY <1>4, <2>2
  <2>4. OrderOf(c)' /\ WriteHalfKeeps(c, NoFd)
    BY <2>2, <2>3 DEF OwnOf, OrderOf, WriteHalfKeeps, WriteUnopened, Waiting
  <2>5. OwnOf(c)'
    BY <1>1, <1>3, <2>1, <2>2, <2>3, <2>4, QuietKeeps
  <2> QED
    BY <1>1, <2>1, <2>2, <2>5, CallsStayIn DEF StaysIn, Talks
<1>7. CASE StopWriteRelease(c)
  <2>1. CASE OpenCall(Caller(c), WriteRelease(c)) /\ wr' = [wr EXCEPT ![c].ctl = "releasing"]
    <3>1. /\ wr[c].ctl = "release" /\ Goes("releasing") /\ wr'[c].fd = wr[c].fd
      BY <1>1, <1>5, <1>7, <2>1 DEF StopWriteRelease, WriteState
    <3>2. ~Before(c) /\ ~Before(c)' /\ rd[c].ctl = "started" /\ rd'[c].ctl = "started"
      BY <1>4, <3>1
    <3>3. OrderOf(c)' /\ WriteHalfKeeps(c, NoFd)
      BY <3>1, <3>2 DEF OwnOf, OrderOf, WriteHalfKeeps, WriteUnopened, Waiting
    <3>4. sys[Caller(c)].call # "open"
      BY <3>1, <3>2 DEF OwnOf, CallsOf
    <3>5. CallsOf(c)'
      <4>1. /\ sys'[Caller(c)].end = WriteRelease(c)
            /\ \A u \in Own(c) \ {Caller(c)} :
                 sys'[u].call = sys[u].call /\ sys'[u].end = sys[u].end
        BY <1>1, <2>1, CallsStayIn DEF OpenCall
      <4>2. /\ ReadEnd(c)' = ReadEnd(c) /\ WriteEnd(c)' = WriteEnd(c)
            /\ WriteRelease(c)' = WriteRelease(c)
        BY DEF ReadEnd, WriteEnd, WriteRelease
      <4> QED
        BY <3>1, <4>1, <4>2, OwnThreads DEF CallsOf, OwnOf, Own
    <3>6. OwnOf(c)'
      BY <1>1, <1>3, <2>1, <3>3, <3>4, <3>5, OpenKeeps
    <3> QED
      BY <1>1, <2>1, <3>1, <3>6, CallsStayIn DEF StaysIn
  <2>2. CASE ~(OpenCall(Caller(c), WriteRelease(c)) /\ wr' = [wr EXCEPT ![c].ctl = "releasing"])
    <3>1. /\ Talks(Caller(c)) /\ wr[c].ctl = "release"
          /\ wr' = [wr EXCEPT ![c].ctl = "releaseClose", ![c].fd = NoFd]
      BY <1>7, <2>2
         DEF StopWriteRelease, openFifo, openFifoFails, kernel, Talks, WriteRelease
    <3>2. Goes("releaseClose") /\ wr'[c].fd = NoFd
      BY <1>1, <1>5, <3>1 DEF WriteState
    <3>3. ~Before(c) /\ ~Before(c)' /\ rd[c].ctl = "started" /\ rd'[c].ctl = "started"
      BY <1>4, <3>1
    <3>4. OrderOf(c)' /\ WriteHalfKeeps(c, NoFd)
      BY <3>1, <3>2, <3>3 DEF OwnOf, OrderOf, WriteHalfKeeps, WriteUnopened, Waiting
    <3>5. OwnOf(c)'
      BY <1>1, <1>3, <3>1, <3>2, <3>3, <3>4, QuietKeeps
    <3> QED
      BY <1>1, <3>1, <3>2, <3>5, CallsStayIn DEF StaysIn, Talks
  <2> QED
    BY <2>1, <2>2
<1>8. CASE StopWriteReleased(c)
  <2>1. OwnOf(c)'
    BY <1>8, StopWriteReleasedKeeps
  <2>2. OpenReturn(Caller(c)) /\ \A d \in Rd \ {c} : wr'[d] = wr[d]
    BY <1>1, <1>8 DEF StopWriteReleased, openFifoReturns
  <2> QED
    BY <1>1, <2>1, <2>2, CallsStayIn DEF StaysIn
<1>9. CASE StopWriteReleaseClose(c)
  <2>1. /\ wr[c].ctl = "releaseClose" /\ Close(Caller(c), wr[c].fd)
        /\ Goes("close") /\ wr'[c].fd = NoFd
    BY <1>1, <1>5, <1>9 DEF StopWriteReleaseClose, WriteState
  <2>2. ~Before(c) /\ ~Before(c)' /\ rd[c].ctl = "started" /\ rd'[c].ctl = "started"
    BY <1>4, <2>1
  <2>3. OrderOf(c)' /\ WriteHalfKeeps(c, wr[c].fd) /\ (WriteUnopened(c)' => WriteUnopened(c))
    BY <2>1, <2>2 DEF OwnOf, OrderOf, WriteHalfKeeps, WriteUnopened, Waiting
  <2>4. PICK f \in Fd \cup {NoFd} : f = wr[c].fd
    BY <1>2
  <2>5. Frees(c, f) /\ UNCHANGED sys
    BY <1>1, <2>1, <2>4, CloseFrees
  <2>6. CallsGoOn(c)
    BY <2>1, <2>2, <2>5 DEF CallsGoOn, OwnOf, CallsOf
  <2>7. f = NoFd \/ MayFree(c, f)
    BY <1>2, <1>3, <2>1, <2>2, <2>3, <2>4, EndsDiffer
       DEF MayFree, OwnOf, KeptOf, ReleasesOf, ReadHalfKeeps
  <2>8. OwnOf(c)'
    BY <1>3, <2>3, <2>4, <2>5, <2>6, <2>7, StepKeeps
  <2> QED
    BY <1>1, <2>1, <2>8, CallsStayIn DEF StaysIn
<1>10. CASE StopWriteClose(c)
  <2>1. /\ wr[c].ctl = "closing" /\ Close(Caller(c), wr[c].fd) /\ Goes("join")
        /\ wr[c].fd \in {NoFd, wr[c].fifoFd}
    BY <1>1, <1>5, <1>10 DEF StopWriteClose, WriteState, TakenOf
  <2>2. ~Before(c) /\ ~Before(c)' /\ rd[c].ctl = "started" /\ rd'[c].ctl = "started"
    BY <1>4, <2>1
  <2>3. /\ OrderOf(c)' /\ WriteHalfKeeps(c, wr[c].fd)
        /\ WriteUnopened(c)' => WriteUnopened(c)
    BY <2>1, <2>2 DEF OwnOf, OrderOf, WriteHalfKeeps, WriteUnopened, Waiting
  <2>4. PICK f \in Fd \cup {NoFd} : f = wr[c].fd
    BY <1>2
  <2>5. Frees(c, f) /\ UNCHANGED sys
    BY <1>1, <2>1, <2>4, CloseFrees
  <2>6. CallsGoOn(c)
    BY <2>1, <2>2, <2>5 DEF CallsGoOn, OwnOf, CallsOf
  <2>7. f = NoFd \/ MayFree(c, f)
    BY <2>1, <2>2, <2>3, <2>4 DEF MayFree, OwnOf, KeptOf
  <2>8. OwnOf(c)'
    BY <1>3, <2>3, <2>4, <2>5, <2>6, <2>7, StepKeeps
  <2> QED
    BY <1>1, <2>1, <2>8, CallsStayIn DEF StaysIn
<1> QED
  BY <1>6, <1>7, <1>8, <1>9, <1>10 DEF StopWriteStep

(* stopRead(), whose steps come after those of stopWrite(). *)
LEMMA StopReadOwn ==
  ASSUME Single, TypeOK, NEW c \in Rd, HalvesOf(c), FreshOf(c), OwnOf(c), TakenOf(c),
         FifoStopRead(c), UNCHANGED starts
  PROVE  OwnOf(c)' /\ StaysIn(c)
<1>1. /\ rd[c] \in ReadState /\ rd \in [Rd -> ReadState] /\ Caller(c) \in Own(c)
      /\ Own(c) \subseteq Thread /\ ~rd[c].reconnect /\ UNCHANGED <<wr, fifo>>
  BY OwnThreads DEF TypeOK, Own, OwnOf, OrderOf, FifoStopRead
<1>2. /\ wr[c].fifoFd \in Fd \cup {NoFd} /\ rd[c].fd \in Fd \cup {NoFd}
      /\ rd[c].fifoFd \in Fd \cup {NoFd} /\ NoFd \notin Fd
  BY SlotTypes
<1>3. \A f \in Fd \cup {NoFd} : WriteHalfKeeps(c, f)
  BY <1>1 DEF WriteHalfKeeps, WriteUnopened, Before
<1>4. ASSUME rd[c].ctl \notin {"unborn", "stopped", "started"}
      PROVE  /\ wr[c].ctl \in {"unborn", "stopped"} /\ wr[c].pc = "none"
             /\ ~Before(c) /\ ~Before(c)'
  BY <1>1, <1>4, StoppingIsAfter DEF OwnOf, OrderOf, HalvesOf, FreshOf, Before
<1> DEFINE Goes(x) == /\ rd'[c].ctl = x /\ rd'[c].pc = rd[c].pc
                      /\ rd'[c].fifoFd = rd[c].fifoFd
                      /\ ~rd'[c].reconnect
                      /\ \A d \in Rd \ {c} : rd'[d] = rd[d]
<1>5. CASE fifo[c] = "stop" /\ wr[c].ctl = "stopped" /\ StopRead(c)
  <2>1. Talks(Caller(c)) /\ rd[c].ctl = "started" /\ Goes("unrun")
    BY <1>1, <1>5 DEF StopRead, ReadState, kernel, Talks
  <2>2. OrderOf(c)' /\ ReadHalfKeeps(c, NoFd)
    BY <1>1, <1>5, <2>1 DEF OwnOf, OrderOf, ReadHalfKeeps, ReadUnopened
  <2>3. OwnOf(c)'
    BY <1>1, <1>3, <1>5, <2>1, <2>2, QuietKeeps
  <2> QED
    BY <1>1, <2>1, <2>3, CallsStayIn DEF StaysIn, Talks
<1>6. CASE \/ StopReadReconnect(c) \/ StopReadTestOpen(c) \/ StopReadTakes(c)
           \/ StopReadJoin(c)
  <2>1. Talks(Caller(c))
    BY <1>6 DEF StopReadReconnect, StopReadTestOpen, StopReadTakes, StopReadJoin, kernel,
       Talks
  <2>2. /\ rd[c].ctl \in {"unrun", "unreconnect", "close", "join"}
        /\ rd'[c].ctl \in {"unreconnect", "close", "closing", "release", "stopped"}
        /\ rd'[c].fifoFd = rd[c].fifoFd /\ ~rd'[c].reconnect
        /\ rd'[c].pc = rd[c].pc \/ (rd[c].pc = "done" /\ rd'[c].pc = "none")
        /\ \A d \in Rd \ {c} : rd'[d] = rd[d]
    <3>1. CASE StopReadReconnect(c) \/ StopReadTestOpen(c)
      BY <1>1, <3>1 DEF StopReadReconnect, StopReadTestOpen, ReadState
    <3>2. CASE StopReadTakes(c) \/ StopReadJoin(c)
      BY <1>1, <3>2 DEF StopReadTakes, StopReadJoin, ReadState
    <3> QED
      BY <1>6, <3>1, <3>2
  <2>3. wr[c].ctl \in {"unborn", "stopped"} /\ wr[c].pc = "none" /\ ~Before(c) /\ ~Before(c)'
    BY <1>4, <2>2
  <2>4. OrderOf(c)' /\ ReadHalfKeeps(c, NoFd)
    BY <1>1, <2>2, <2>3 DEF OwnOf, OrderOf, ReadHalfKeeps, ReadUnopened, Waiting
  <2>5. OwnOf(c)'
    BY <1>1, <1>3, <2>1, <2>2, <2>3, <2>4, QuietKeeps
  <2> QED
    BY <1>1, <2>1, <2>2, <2>5, CallsStayIn DEF StaysIn, Talks
<1>7. CASE StopReadRelease(c)
  <2>1. CASE OpenCall(Caller(c), ReadRelease(c)) /\ rd' = [rd EXCEPT ![c].ctl = "releasing"]
    <3>1. /\ rd[c].ctl = "release" /\ Goes("releasing") /\ rd'[c].fd = rd[c].fd
      BY <1>1, <1>7, <2>1 DEF StopReadRelease, ReadState
    <3>2. wr[c].ctl \in {"unborn", "stopped"} /\ wr[c].pc = "none" /\ ~Before(c) /\ ~Before(c)'
      BY <1>4, <3>1
    <3>3. OrderOf(c)' /\ ReadHalfKeeps(c, NoFd)
      BY <1>1, <3>1, <3>2 DEF OwnOf, OrderOf, ReadHalfKeeps, ReadUnopened, Waiting
    <3>4. sys[Caller(c)].call # "open"
      BY <3>1, <3>2 DEF OwnOf, CallsOf
    <3>5. CallsOf(c)'
      <4>1. /\ sys'[Caller(c)].end = ReadRelease(c)
            /\ \A u \in Own(c) \ {Caller(c)} :
                 sys'[u].call = sys[u].call /\ sys'[u].end = sys[u].end
        BY <1>1, <2>1, CallsStayIn DEF OpenCall
      <4>2. /\ ReadEnd(c)' = ReadEnd(c) /\ WriteEnd(c)' = WriteEnd(c)
            /\ ReadRelease(c)' = ReadRelease(c)
        BY DEF ReadEnd, WriteEnd, ReadRelease
      <4> QED
        BY <1>1, <3>1, <4>1, <4>2, OwnThreads DEF CallsOf, OwnOf, Own
    <3>6. OwnOf(c)'
      BY <1>1, <1>3, <2>1, <3>3, <3>4, <3>5, OpenKeeps
    <3> QED
      BY <1>1, <2>1, <3>1, <3>6, CallsStayIn DEF StaysIn
  <2>2. CASE ~(OpenCall(Caller(c), ReadRelease(c)) /\ rd' = [rd EXCEPT ![c].ctl = "releasing"])
    <3>1. /\ Talks(Caller(c)) /\ rd[c].ctl = "release"
          /\ rd' = [rd EXCEPT ![c].ctl = "releaseClose", ![c].fd = NoFd]
      BY <1>7, <2>2
         DEF StopReadRelease, openFifo, openFifoFails, kernel, Talks, ReadRelease
    <3>2. Goes("releaseClose") /\ rd'[c].fd = NoFd
      BY <1>1, <3>1 DEF ReadState
    <3>3. wr[c].ctl \in {"unborn", "stopped"} /\ wr[c].pc = "none" /\ ~Before(c) /\ ~Before(c)'
      BY <1>4, <3>1
    <3>4. OrderOf(c)' /\ ReadHalfKeeps(c, NoFd)
      BY <1>1, <3>1, <3>2, <3>3 DEF OwnOf, OrderOf, ReadHalfKeeps, ReadUnopened, Waiting
    <3>5. OwnOf(c)'
      BY <1>1, <1>3, <3>1, <3>2, <3>3, <3>4, QuietKeeps
    <3> QED
      BY <1>1, <3>1, <3>2, <3>5, CallsStayIn DEF StaysIn, Talks
  <2> QED
    BY <2>1, <2>2
<1>8. CASE StopReadReleased(c)
  <2>1. OwnOf(c)'
    BY <1>1, <1>8, StopReadReleasedKeeps
  <2>2. OpenReturn(Caller(c)) /\ \A d \in Rd \ {c} : rd'[d] = rd[d]
    BY <1>1, <1>8 DEF StopReadReleased, openFifoReturns
  <2> QED
    BY <1>1, <2>1, <2>2, CallsStayIn DEF StaysIn
<1>9. CASE StopReadReleaseClose(c)
  <2>1. /\ rd[c].ctl = "releaseClose" /\ Close(Caller(c), rd[c].fd)
        /\ Goes("close") /\ rd'[c].fd = NoFd
    BY <1>1, <1>9 DEF StopReadReleaseClose, ReadState
  <2>2. wr[c].ctl \in {"unborn", "stopped"} /\ wr[c].pc = "none" /\ ~Before(c) /\ ~Before(c)'
    BY <1>4, <2>1
  <2>3. /\ OrderOf(c)' /\ ReadHalfKeeps(c, rd[c].fd) /\ ~WriteUnopened(c)'
        /\ ReadUnopened(c)' => ReadUnopened(c)
    BY <1>1, <2>1, <2>2
       DEF OwnOf, OrderOf, ReadHalfKeeps, ReadUnopened, WriteUnopened, Waiting
  <2>4. PICK f \in Fd \cup {NoFd} : f = rd[c].fd
    BY <1>2
  <2>5. Frees(c, f) /\ UNCHANGED sys
    BY <1>1, <2>1, <2>4, CloseFrees
  <2>6. CallsGoOn(c)
    BY <1>1, <2>1, <2>2, <2>5 DEF CallsGoOn, OwnOf, CallsOf
  <2>7. f = NoFd \/ MayFree(c, f)
    BY <1>1, <1>2, <2>1, <2>2, <2>3, <2>4, EndsDiffer DEF MayFree, OwnOf, KeptOf, ReleasesOf
  <2>8. OwnOf(c)'
    BY <1>3, <2>3, <2>4, <2>5, <2>6, <2>7, StepKeeps
  <2> QED
    BY <1>1, <2>1, <2>8, CallsStayIn DEF StaysIn
<1>10. CASE StopReadClose(c)
  <2>1. /\ rd[c].ctl = "closing" /\ Close(Caller(c), rd[c].fd) /\ Goes("join")
        /\ rd[c].fd \in {NoFd, rd[c].fifoFd}
    BY <1>1, <1>10 DEF StopReadClose, ReadState, TakenOf
  <2>2. wr[c].ctl \in {"unborn", "stopped"} /\ wr[c].pc = "none" /\ ~Before(c) /\ ~Before(c)'
    BY <1>4, <2>1
  <2>3. /\ OrderOf(c)' /\ ReadHalfKeeps(c, rd[c].fd) /\ ~WriteUnopened(c)'
        /\ ReadUnopened(c)' => ReadUnopened(c)
    BY <1>1, <2>1, <2>2
       DEF OwnOf, OrderOf, ReadHalfKeeps, ReadUnopened, WriteUnopened, Waiting
  <2>4. PICK f \in Fd \cup {NoFd} : f = rd[c].fd
    BY <1>2
  <2>5. Frees(c, f) /\ UNCHANGED sys
    BY <1>1, <2>1, <2>4, CloseFrees
  <2>6. CallsGoOn(c)
    BY <1>1, <2>1, <2>2, <2>5 DEF CallsGoOn, OwnOf, CallsOf
  <2>7. f = NoFd \/ MayFree(c, f)
    BY <1>1, <2>1, <2>2, <2>3, <2>4 DEF MayFree, OwnOf, KeptOf
  <2>8. OwnOf(c)'
    BY <1>3, <2>3, <2>4, <2>5, <2>6, <2>7, StepKeeps
  <2> QED
    BY <1>1, <2>1, <2>8, CallsStayIn DEF StaysIn
<1> QED
  BY <1>5, <1>6, <1>7, <1>8, <1>9, <1>10 DEF FifoStopRead, StopReadStep

-----------------------------------------------------------------------------
(* The steps of the callbacks *)

LEMMA CallbackOwn ==
  ASSUME Single, TypeOK, NEW c \in Rd, HalvesOf(c), FreshOf(c), OwnOf(c), TakenOf(c),
         NEW k \in Runner, Handling(c, k)
  PROVE  OwnOf(c)' /\ StaysIn(c)
<1>1. /\ rd[c] \in ReadState /\ wr[c] \in WriteState /\ Own(c) \subseteq Thread
      /\ rd \in [Rd -> ReadState] /\ wr \in [Rd -> WriteState]
      /\ {ReadThread(c), WriteThread(c), Caller(c)} \subseteq Own(c)
  BY FifoAssumption, OwnThreads DEF TypeOK, Own
<1>2. UNCHANGED <<fifo, starts>> /\ ClientCallback(c, k)
  BY DEF Handling, ClientCallback, ConnectFlags, ConnectState, ConnectSet, ConnectCall,
     DisconnectTakes, DisconnectClose, DisconnectFlagRead, DisconnectFlagWrite,
     DisconnectState, DisconnectSet, DisconnectCall, Goto, Return, closeWriteTakes,
     Takes, closeTaken, app
<1>3. \/ Return(c, k) \/ UNCHANGED <<kernel, rd, wr>>
      \/ k = "read" /\ DisconnectClose(c)
  BY <1>2 DEF ClientCallback, ConnectFlags, ConnectState, ConnectSet, ConnectCall,
     DisconnectTakes, closeWriteTakes, Takes, DisconnectFlagRead, DisconnectFlagWrite,
     DisconnectState, DisconnectSet, DisconnectCall, Goto
<1>4. CASE UNCHANGED <<kernel, rd, wr>>
  <2>1. StaysOut(c) /\ StaysIn(c)
    BY <1>2, <1>4 DEF StaysOut, StaysIn, kernel
  <2> QED
    BY <2>1, OwnFrame
<1>5. CASE Return(c, k)
  <2>1. CASE UNCHANGED wr /\ (ReadConnectHandlerReturns(c) \/ ReadDisconnectHandlerReturns(c))
    <3>1. ReadGoes(c)
      BY <1>1, <2>1 DEF ReadConnectHandlerReturns, ReadDisconnectHandlerReturns, ReadGoes,
         Talks, kernel, ReadState, Waiting
    <3>2. OwnOf(c)'
      BY <1>2, <2>1, <3>1, ReadGoesKeeps
    <3> QED
      BY <1>1, <1>2, <2>1, <3>1, <3>2, CallsStayIn DEF StaysIn, ReadGoes, Talks
  <2>2. CASE UNCHANGED rd /\ (WriteConnectHandlerReturns(c) \/ WriteDisconnectHandlerReturns(c))
    <3>1. WriteGoes(c)
      BY <1>1, <2>2 DEF WriteConnectHandlerReturns, WriteDisconnectHandlerReturns, WriteGoes,
         Talks, kernel, WriteState, Waiting
    <3>2. OwnOf(c)'
      BY <1>2, <2>2, <3>1, WriteGoesKeeps
    <3> QED
      BY <1>1, <1>2, <2>2, <3>1, <3>2, CallsStayIn DEF StaysIn, WriteGoes, Talks
  <2>3. CASE UNCHANGED rd /\ StopWriteHandlerReturns(c)
    BY <1>2, <2>3, StopWriteOwn
  <2> QED
    BY <1>5, <2>1, <2>2, <2>3 DEF Return
<1>6. CASE k = "read" /\ DisconnectClose(c)
  <2>1. /\ rd[c].pc = "disconnectH" /\ Close(ReadThread(c), number[ReadThread(c)])
        /\ number[ReadThread(c)] \in {NoFd, wr[c].fifoFd} /\ UNCHANGED <<rd, wr>>
    BY <1>6 DEF DisconnectClose, DisconnectCallback, closeTaken, TakenOf
  <2>2. PICK f \in Fd \cup {NoFd} : f = number[ReadThread(c)]
    BY <2>1, SlotTypes
  <2>3. Frees(c, f) /\ UNCHANGED sys
    BY <1>1, <2>1, <2>2, CloseFrees
  <2>4. /\ ReadHalfKeeps(c, f) /\ WriteHalfKeeps(c, f) /\ CallsGoOn(c) /\ OrderOf(c)'
        /\ ~ReadUnopened(c)' /\ (WriteUnopened(c)' => WriteUnopened(c))
    BY <1>2, <2>1, <2>3 DEF ReadHalfKeeps, WriteHalfKeeps, CallsGoOn, OwnOf, OrderOf,
       ReadUnopened, WriteUnopened, Before, HalvesOf, Waiting
  <2>5. f = NoFd \/ MayFree(c, f)
    BY <2>1, <2>2, <2>4 DEF MayFree, OwnOf, KeptOf
  <2>6. OwnOf(c)'
    BY <2>3, <2>4, <2>5, StepKeeps
  <2> QED
    BY <1>1, <1>2, <2>1, <2>6, CallsStayIn DEF StaysIn
<1> QED
  BY <1>3, <1>4, <1>5, <1>6

-----------------------------------------------------------------------------
(* The steps of the others *)

LEMMA OthersOwn ==
  ASSUME Single, TypeOK, OwnInv,
         \/ \E w \in Peer : Arrive(w) \/ Enter(w) \/ Leave(w) \/ Receive(w) \/ Send(w)
         \/ \E p \in Pipe : Remove(p)
  PROVE  OwnInv'
<1> SUFFICES ASSUME NEW c \in Rd
             PROVE  OwnOf(c)'
  BY DEF OwnInv
<1>1. UNCHANGED <<rd, wr, fifo, starts>>
  BY OthersType
<1>2. /\ KernelTypeOK(Unit) /\ Own(c) \subseteq Thread /\ Home(c) \in Process
      /\ \A t \in Own(c) : ProcOf[t] = Home(c)
  BY OwnThreads DEF TypeOK
<1> DEFINE Out == /\ fdt'[Home(c)] = fdt[Home(c)]
                  /\ \A t \in Own(c) : /\ sys'[t].call = sys[t].call
                                       /\ sys'[t].end = sys[t].end /\ sys'[t].fd = sys[t].fd
<1>3. ASSUME NEW w \in Peer, Arrive(w) \/ Enter(w) \/ Leave(w)
      PROVE  Out
  <2>1. /\ PeerThread(w) \in Thread /\ ProcOf[PeerThread(w)] # Home(c)
        /\ PeerThread(w) \notin Own(c)
    BY <1>2, PipePeerAssumption DEF Single
  <2>2. \/ \E e : OpenCall(PeerThread(w), e)
        \/ OpenReturn(PeerThread(w)) \/ \E f : Close(PeerThread(w), f)
    BY <1>3 DEF Arrive, PeerOpens, openFifo, Enter, PeerEnters, openFifoReturns, Leave,
       PeerLeaves
  <2>3. LeavesCalls(PeerThread(w))
    BY <1>2, <2>1, <2>2, StepsLeaveCalls, OpenCallLeavesCalls
  <2>4. fdt'[Home(c)] = fdt[Home(c)]
    BY <1>2, <2>1, <2>2 DEF KernelTypeOK, OpenCall, OpenReturn, Close
  <2> QED
    BY <1>2, <2>1, <2>3, <2>4 DEF LeavesCalls
<1>4. ASSUME \/ \E w \in Peer : Receive(w) \/ Send(w)
             \/ \E p \in Pipe : Remove(p)
      PROVE  Out
  BY <1>4 DEF Receive, PeerReads, Send, PeerWrites, Remove, Unlink
<1>5. StaysOut(c)
  BY <1>1, <1>3, <1>4 DEF StaysOut
<1> QED
  BY <1>5, OwnFrame DEF OwnInv

LEMMA NextOwn ==
  ASSUME Single, IInv, OwnInv, TakenInv, [Next]_vars
  PROVE  OwnInv'
<1>1. TypeOK /\ \A c \in Rd : HalvesOf(c) /\ FreshOf(c) /\ OwnOf(c) /\ TakenOf(c)
  BY DEF IInv, SettlesInv, SettlesOf, OwnInv, TakenInv
<1>2. CASE UNCHANGED vars
  <2>1. \A c \in Rd : StaysOut(c)
    BY <1>2 DEF vars, kernel, app, StaysOut
  <2> QED
    BY <1>1, <2>1, OwnFrame DEF OwnInv
<1>3. ASSUME NEW c \in Rd, New(c) \/ Start(c) \/ Starting(c)
      PROVE  OwnInv'
  BY <1>1, <1>3, StartOwn, OwnLocal
<1>4. ASSUME NEW c \in Rd, Write(c) \/ Stop(c) \/ Leaving(c) \/ GivingUp(c)
      PROVE  OwnInv'
  BY <1>1, <1>4, CallOwn, OwnLocal
<1>5. ASSUME NEW c \in Rd, Stopping(c)
      PROVE  OwnInv'
  <2>1. /\ \/ StopWriteStep(c) /\ UNCHANGED <<fifo, rd>>
           \/ FifoStopRead(c)
        /\ UNCHANGED starts
    BY <1>5 DEF Stopping, ClientStopping, FifoStopWrite, app
  <2> QED
    BY <1>1, <2>1, StopWriteOwn, StopReadOwn, OwnLocal
<1>6. ASSUME NEW c \in Rd, Reading(c) \/ Writing(c)
      PROVE  OwnInv'
  BY <1>1, <1>6, ThreadOwn
<1>7. ASSUME NEW c \in Rd, NEW k \in Runner, Handling(c, k)
      PROVE  OwnInv'
  BY <1>1, <1>7, CallbackOwn, OwnLocal
<1>8. ASSUME \/ \E w \in Peer : Arrive(w) \/ Enter(w) \/ Leave(w) \/ Receive(w) \/ Send(w)
             \/ \E p \in Pipe : Remove(p)
      PROVE  OwnInv'
  BY <1>1, <1>8, OthersOwn
<1> QED
  BY <1>2, <1>3, <1>4, <1>5, <1>6, <1>7, <1>8 DEF Next

-----------------------------------------------------------------------------
(* The numbers got for closing *)

(* A half opens its end only while it keeps no number, and what it is going *)
(* to close is what it keeps.                                               *)
ReadTakesOwn(c) ==
  /\ rd'[c].fifoFd = rd[c].fifoFd \/ ReadUnopened(c)
  /\ rd'[c].ctl = "closing" => \/ rd[c].ctl = "closing" /\ rd'[c].fd = rd[c].fd
                               \/ rd'[c].fd = rd'[c].fifoFd

WriteTakesOwn(c) ==
  /\ wr'[c].fifoFd = wr[c].fifoFd \/ WriteUnopened(c)
  /\ wr'[c].ctl = "closing" => \/ wr[c].ctl = "closing" /\ wr'[c].fd = wr[c].fd
                               \/ wr'[c].fd = wr'[c].fifoFd

LEMMA TakenKeeps ==
  ASSUME NEW c \in Rd, OwnOf(c), TakenOf(c), ReadTakesOwn(c), WriteTakesOwn(c),
         at'[c]["read"] = "close" =>
           \/ at[c]["read"] = "close" /\ number'[ReadThread(c)] = number[ReadThread(c)]
           \/ number'[ReadThread(c)] = wr'[c].fifoFd
  PROVE  TakenOf(c)'
<1>1. /\ ReadUnopened(c) => rd[c].fifoFd = NoFd
      /\ WriteUnopened(c) => wr[c].fifoFd = NoFd
  BY DEF OwnOf, KeptOf
<1> QED
  BY <1>1 DEF TakenOf, ReadTakesOwn, WriteTakesOwn

LEMMA InitTaken == Init => TakenInv
BY FifoAssumption
   DEF Init, FifoInit, FifoReadInit, FifoWriteQInit, ClientInit, Runner, TakenInv, TakenOf

LEMMA ThreadTakes ==
  ASSUME TypeOK, NEW c \in Rd, OwnOf(c), Reading(c) \/ Writing(c)
  PROVE  \A d \in Rd : ReadTakesOwn(d) /\ WriteTakesOwn(d)
<1>1. /\ rd \in [Rd -> ReadState] /\ wr \in [Rd -> WriteState] /\ OrderOf(c)
  BY FifoAssumption DEF TypeOK, OwnOf
<1>2. CASE Reading(c)
  <2>1. UNCHANGED wr /\ (ReadGoes(c) \/ ReadOpens(c) \/ ReadOpenReturns(c))
    BY <1>1, <1>2, ReadingDoes DEF Reading, FifoReading
  <2>2. /\ \A d \in Rd \ {c} : rd'[d] = rd[d]
        /\ rd'[c].ctl = rd[c].ctl /\ rd'[c].fd = rd[c].fd
        /\ rd'[c].fifoFd = rd[c].fifoFd \/ rd[c].pc \in Waiting
    BY <1>1, <2>1
       DEF ReadGoes, ReadOpens, ReadOpenReturns, openFifoReturns, ReadState, Waiting
  <2> QED
    BY <2>1, <2>2 DEF ReadTakesOwn, WriteTakesOwn, ReadUnopened
<1>3. CASE Writing(c)
  <2>1. UNCHANGED rd /\ (WriteGoes(c) \/ WriteOpens(c) \/ WriteOpenReturns(c))
    BY <1>1, <1>3, WritingDoes DEF Writing, FifoWriting
  <2>2. /\ \A d \in Rd \ {c} : wr'[d] = wr[d]
        /\ wr'[c].ctl = wr[c].ctl /\ wr'[c].fd = wr[c].fd
        /\ wr'[c].fifoFd = wr[c].fifoFd \/ wr[c].pc \in Waiting
    BY <1>1, <2>1
       DEF WriteGoes, WriteOpens, WriteOpenReturns, openFifoReturns, WriteState, Waiting
  <2> QED
    BY <2>1, <2>2 DEF ReadTakesOwn, WriteTakesOwn, WriteUnopened
<1> QED
  BY <1>2, <1>3

LEMMA OwnerTakes ==
  ASSUME TypeOK, NEW c \in Rd, New(c) \/ Start(c) \/ Starting(c) \/ Write(c) \/ Stop(c)
  PROVE  \A d \in Rd : ReadTakesOwn(d) /\ WriteTakesOwn(d)
<1>1. rd \in [Rd -> ReadState] /\ wr \in [Rd -> WriteState]
  BY FifoAssumption DEF TypeOK
<1>2. CASE New(c)
  <2>1. /\ rd' = [rd EXCEPT ![c].ctl = "stopped", ![c].handlers = Handlers,
                            ![c].reconnect = FALSE]
        /\ wr' = [wr EXCEPT ![c].ctl = "stopped", ![c].handlers = WriteHandlers,
                            ![c].reconnect = FALSE]
    BY <1>2 DEF New, ClientNew, FifoNew
  <2>2. \A d \in Rd : ReadTakesOwn(d)
    BY <1>1, <2>1 DEF ReadTakesOwn, ReadState
  <2>3. \A d \in Rd : WriteTakesOwn(d)
    BY <1>1, <2>1 DEF WriteTakesOwn, WriteState
  <2> QED
    BY <2>2, <2>3
<1>3. CASE Start(c)
  BY <1>3 DEF Start, ClientStart, FifoStart, ReadTakesOwn, WriteTakesOwn
<1>4. CASE Starting(c)
  <2>1. CASE UNCHANGED wr /\ StartRead(c)
    BY <1>1, <2>1 DEF StartRead, ReadTakesOwn, WriteTakesOwn, ReadState
  <2>2. CASE UNCHANGED rd /\ StartWrite(c)
    BY <1>1, <2>2 DEF StartWrite, ReadTakesOwn, WriteTakesOwn, WriteState
  <2> QED
    BY <1>4, <2>1, <2>2 DEF Starting, ClientStarting, FifoStartRead, FifoStartWrite
<1>5. CASE Write(c)
  <2>1. UNCHANGED rd /\ wr' = [wr EXCEPT ![c].queue = Append(@, pushed[c] + 1)]
    BY <1>5 DEF Write, ClientWrite, FifoWrite, PushData
  <2> QED
    BY <1>1, <2>1 DEF ReadTakesOwn, WriteTakesOwn, WriteState
<1>6. CASE Stop(c)
  <2>1. UNCHANGED rd /\ wr' = [wr EXCEPT ![c].ctl = "unrun", ![c].runWrite = FALSE]
    BY <1>6 DEF Stop, ClientStop, FifoStop, StopWrite
  <2> QED
    BY <1>1, <2>1 DEF ReadTakesOwn, WriteTakesOwn, WriteState
<1> QED
  BY <1>2, <1>3, <1>4, <1>5, <1>6

LEMMA StopTakes ==
  ASSUME TypeOK, NEW c \in Rd,
         \/ UNCHANGED rd /\ (StopWriteStep(c) \/ StopWriteHandlerReturns(c))
         \/ UNCHANGED wr /\ (StopRead(c) \/ StopReadStep(c))
  PROVE  \A d \in Rd : ReadTakesOwn(d) /\ WriteTakesOwn(d)
<1>1. rd \in [Rd -> ReadState] /\ wr \in [Rd -> WriteState]
  BY FifoAssumption DEF TypeOK
<1>2. CASE UNCHANGED rd /\ (StopWriteStep(c) \/ StopWriteHandlerReturns(c))
  <2>1. /\ \A d \in Rd \ {c} : wr'[d] = wr[d]
        /\ wr'[c].fifoFd = wr[c].fifoFd
        /\ wr'[c].ctl = "closing" => wr'[c].fd = wr[c].fifoFd
    <3>1. CASE \/ StopWriteReconnect(c) \/ StopWriteHandlerReturns(c)
               \/ StopWriteTestOpen(c) \/ StopWriteJoin(c)
      BY <1>1, <3>1 DEF StopWriteReconnect, StopWriteHandlerReturns, StopWriteTestOpen,
         StopWriteJoin, WriteState
    <3>2. CASE StopWriteRelease(c) \/ StopWriteReleased(c) \/ StopWriteReleaseClose(c)
      BY <1>1, <3>2 DEF StopWriteRelease, StopWriteReleased, StopWriteReleaseClose,
         openFifo, openFifoReturns, WriteState
    <3>3. CASE StopWriteTakes(c) \/ StopWriteClose(c)
      BY <1>1, <3>3 DEF StopWriteTakes, StopWriteClose, WriteState
    <3> QED
      BY <1>2, <3>1, <3>2, <3>3 DEF StopWriteStep
  <2> QED
    BY <1>2, <2>1 DEF ReadTakesOwn, WriteTakesOwn
<1>3. CASE UNCHANGED wr /\ (StopRead(c) \/ StopReadStep(c))
  <2>1. /\ \A d \in Rd \ {c} : rd'[d] = rd[d]
        /\ rd'[c].fifoFd = rd[c].fifoFd
        /\ rd'[c].ctl = "closing" => rd'[c].fd = rd[c].fifoFd
    <3>1. CASE \/ StopRead(c) \/ StopReadReconnect(c) \/ StopReadTestOpen(c)
               \/ StopReadJoin(c)
      BY <1>1, <3>1 DEF StopRead, StopReadReconnect, StopReadTestOpen, StopReadJoin,
         ReadState
    <3>2. CASE StopReadRelease(c) \/ StopReadReleased(c) \/ StopReadReleaseClose(c)
      BY <1>1, <3>2 DEF StopReadRelease, StopReadReleased, StopReadReleaseClose,
         openFifo, openFifoReturns, ReadState
    <3>3. CASE StopReadTakes(c) \/ StopReadClose(c)
      BY <1>1, <3>3 DEF StopReadTakes, StopReadClose, ReadState
    <3> QED
      BY <1>3, <3>1, <3>2, <3>3 DEF StopReadStep
  <2> QED
    BY <1>3, <2>1 DEF ReadTakesOwn, WriteTakesOwn
<1> QED
  BY <1>2, <1>3

(* A callback: the reader's gets the number that the writer keeps. *)
LEMMA CallbackTakes ==
  ASSUME TypeOK, OwnInv, TakenInv, NEW c \in Rd, NEW k \in Runner, Handling(c, k)
  PROVE  TakenInv'
<1> SUFFICES ASSUME NEW d \in Rd
             PROVE  TakenOf(d)'
  BY DEF TakenInv
<1>1. /\ rd \in [Rd -> ReadState] /\ wr \in [Rd -> WriteState]
      /\ at \in [Rd -> [Runner -> Position]]
      /\ number \in [Thread -> Fd \cup {NoFd}] /\ ReadThread(c) \in Thread
      /\ ReadThread(c) = ReadThread(d) => c = d
      /\ OwnOf(d) /\ TakenOf(d) /\ "read" \in Runner
  BY FifoAssumption, ReadConstants DEF TypeOK, OwnInv, TakenInv, ReadThread, Runner
<1>2. CASE k = "read" /\ DisconnectTakes(c)
  <2>1. /\ UNCHANGED <<rd, wr>> /\ number' = [number EXCEPT ![ReadThread(c)] = wr[c].fifoFd]
        /\ at' = [at EXCEPT ![c]["read"] = "close"]
    BY <1>2 DEF DisconnectTakes, closeWriteTakes, Takes
  <2>2. ReadTakesOwn(d) /\ WriteTakesOwn(d)
    BY <2>1 DEF ReadTakesOwn, WriteTakesOwn
  <2> QED
    BY <1>1, <2>1, <2>2, TakenKeeps
<1>3. CASE k = "read" /\ DisconnectClose(c)
  <2>1. /\ UNCHANGED <<rd, wr>> /\ number' = [number EXCEPT ![ReadThread(c)] = NoFd]
        /\ at' = [at EXCEPT ![c]["read"] = "flags"]
    BY <1>3 DEF DisconnectClose, closeTaken
  <2>2. ReadTakesOwn(d) /\ WriteTakesOwn(d)
    BY <2>1 DEF ReadTakesOwn, WriteTakesOwn
  <2> QED
    BY <1>1, <2>1, <2>2, TakenKeeps
<1>4. CASE Return(c, k) \/ \E x \in Position \ {"close"} : Goto(c, k, x)
  <2>1. UNCHANGED number /\ \E x \in Position \ {"close"} : at' = [at EXCEPT ![c][k] = x]
    BY <1>4 DEF Return, Goto, Position
  <2>2. at'[d]["read"] = "close" => at[d]["read"] = "close"
    BY <1>1, <2>1
  <2>3. ReadTakesOwn(d) /\ WriteTakesOwn(d)
    <3>1. CASE UNCHANGED <<rd, wr>>
      BY <3>1 DEF ReadTakesOwn, WriteTakesOwn
    <3>2. CASE UNCHANGED wr /\ (ReadConnectHandlerReturns(c) \/ ReadDisconnectHandlerReturns(c))
      BY <1>1, <3>2 DEF ReadConnectHandlerReturns, ReadDisconnectHandlerReturns,
         ReadTakesOwn, WriteTakesOwn, ReadState
    <3>3. CASE UNCHANGED rd /\ (WriteConnectHandlerReturns(c) \/ WriteDisconnectHandlerReturns(c))
      <4>1. /\ \A e \in Rd \ {c} : wr'[e] = wr[e]
            /\ wr'[c].fifoFd = wr[c].fifoFd /\ wr'[c].ctl = wr[c].ctl
            /\ wr'[c].fd = wr[c].fd
        BY <1>1, <3>3
           DEF WriteConnectHandlerReturns, WriteDisconnectHandlerReturns, WriteState
      <4> QED
        BY <3>3, <4>1 DEF ReadTakesOwn, WriteTakesOwn
    <3>4. CASE UNCHANGED rd /\ StopWriteHandlerReturns(c)
      BY <3>4, StopTakes
    <3> QED
      BY <1>4, <3>1, <3>2, <3>3, <3>4 DEF Return, Goto
  <2> QED
    BY <1>1, <2>1, <2>2, <2>3, TakenKeeps
<1> QED
  BY <1>2, <1>3, <1>4 DEF Handling, ClientCallback, ConnectFlags, ConnectState, ConnectSet,
     ConnectCall, DisconnectFlagRead, DisconnectFlagWrite, DisconnectState, DisconnectSet,
     DisconnectCall, Position

LEMMA NextTaken ==
  ASSUME IInv, OwnInv, TakenInv, [Next]_vars
  PROVE  TakenInv'
<1>1. TypeOK /\ \A c \in Rd : OwnOf(c) /\ TakenOf(c)
  BY DEF IInv, OwnInv, TakenInv
<1>2. ASSUME UNCHANGED <<at, number>>, \A d \in Rd : ReadTakesOwn(d) /\ WriteTakesOwn(d)
      PROVE  TakenInv'
  BY <1>1, <1>2, TakenKeeps DEF TakenInv
<1>3. ASSUME UNCHANGED <<at, number, rd, wr>>
      PROVE  TakenInv'
  BY <1>2, <1>3 DEF ReadTakesOwn, WriteTakesOwn
<1>4. CASE UNCHANGED vars
  BY <1>3, <1>4 DEF vars, client, callbacks
<1>5. ASSUME NEW c \in Rd, New(c) \/ Start(c) \/ Starting(c) \/ Write(c) \/ Stop(c)
      PROVE  TakenInv'
  <2>1. UNCHANGED <<at, number>>
    BY <1>5 DEF New, ClientNew, Start, ClientStart, Starting, ClientStarting, Write,
       ClientWrite, Stop, ClientStop, client, callbacks
  <2> QED
    BY <1>1, <1>2, <1>5, <2>1, OwnerTakes
<1>6. ASSUME NEW c \in Rd, Leaving(c) \/ GivingUp(c)
      PROVE  TakenInv'
  BY <1>3, <1>6 DEF Leaving, ClientStopReturns, GivingUp, ClientGivesUp, callbacks
<1>7. ASSUME NEW c \in Rd, Stopping(c)
      PROVE  TakenInv'
  <2>1. /\ UNCHANGED <<at, number>>
        /\ \/ UNCHANGED rd /\ StopWriteStep(c)
           \/ UNCHANGED wr /\ (StopRead(c) \/ StopReadStep(c))
    BY <1>7 DEF Stopping, ClientStopping, FifoStopWrite, FifoStopRead, client, callbacks
  <2> QED
    BY <1>1, <1>2, <2>1, StopTakes
<1>8. ASSUME NEW c \in Rd, Reading(c) \/ Writing(c)
      PROVE  TakenInv'
  <2>1. UNCHANGED <<at, number>>
    BY <1>8 DEF Reading, Writing, client, callbacks
  <2> QED
    BY <1>1, <1>2, <1>8, <2>1, ThreadTakes
<1>9. ASSUME NEW c \in Rd, NEW k \in Runner, Handling(c, k)
      PROVE  TakenInv'
  BY <1>1, <1>9, CallbackTakes
<1>10. ASSUME \/ \E w \in Peer : Arrive(w) \/ Enter(w) \/ Leave(w) \/ Receive(w) \/ Send(w)
              \/ \E p \in Pipe : Remove(p)
       PROVE  TakenInv'
  BY <1>1, <1>3, <1>10, OthersType DEF client, callbacks
<1> QED
  BY <1>4, <1>5, <1>6, <1>7, <1>8, <1>9, <1>10 DEF Next

(* stopRead() and stopWrite() close the number kept in fifoFd, which a      *)
(* disconnect callback may have closed before.  In the first session of a   *)
(* client alone in its process, whatever its two peers do, the number has   *)
(* not become that of the other half or of an open that releases a thread.  *)
THEOREM ClosesOwnEnd ==
  ASSUME Single
  PROVE  Spec => []StopClosesOwnEnd
<1>1. OwnInv /\ TakenInv /\ TypeOK => StopClosesOwnEnd
  <2> SUFFICES ASSUME OwnInv, TakenInv, TypeOK, NEW c \in Rd
               PROVE  /\ rd[c].ctl = "closing" /\ rd[c].fd # NoFd =>
                           Slot(c, rd[c].fd) \in {ReadEnd(c), NoEnd}
                      /\ wr[c].ctl = "closing" /\ wr[c].fd # NoFd =>
                           Slot(c, wr[c].fd) \in {WriteEnd(c), NoEnd}
    BY DEF StopClosesOwnEnd, Slot, Home, ReadEnd, WriteEnd
  <2>1. /\ OrderOf(c) /\ SlotsOf(c) /\ KeptOf(c) /\ TakenOf(c)
        /\ rd[c].fifoFd \in Fd \cup {NoFd} /\ wr[c].fifoFd \in Fd \cup {NoFd}
    BY SlotTypes DEF OwnInv, OwnOf, TakenInv
  <2> QED
    BY <2>1 DEF OrderOf, SlotsOf, KeptOf, TakenOf
<1>2. Init => OwnInv /\ TakenInv
  BY InitOwn, InitTaken
<1>3. IInv /\ OwnInv /\ TakenInv /\ [Next]_vars => OwnInv' /\ TakenInv'
  BY NextOwn, NextTaken
<1>4. IInv => TypeOK
  BY DEF IInv
<1> QED
  BY <1>1, <1>2, <1>3, <1>4, Invariance, PTL DEF Spec
=============================================================================
