-------------------------- MODULE DirectSide_proofs --------------------------
(***************************************************************************)
(* Theorems about DirectSide, for any number of objects, peers, pipes and  *)
(* descriptors and any bounds: the specification is well typed, messages   *)
(* go out in order, every connect callback is answered, and a pushData()   *)
(* returns when its message is out or nobody reads.                        *)
(***************************************************************************)
EXTENDS DirectSide, FifoLib_proofs

-----------------------------------------------------------------------------
(* FifoWriteDirect *)

(* The threads and the pipe of an object are threads and a pipe. *)
LEMMA DirectConstants ==
  ASSUME NEW o \in Wd
  PROVE  /\ AsyncThread(o) \in Thread /\ StopThread(o) \in Thread /\ Caller(o) \in Thread
         /\ addrDirect[o] \in Pipe
         /\ EndOf(addrDirect[o], "R") \in End /\ EndOf(addrDirect[o], "W") \in End
BY FifoWriteDirectAssumption DEF EndOf, End

(* The fields can be assigned one by one. *)
LEMMA DirectFields ==
  ASSUME NEW s \in DirectState
  PROVE  /\ \A x \in SUBSET DirectHandlers : [s EXCEPT !.handlers = x] \in DirectState
         /\ \A x \in BOOLEAN : [s EXCEPT !.waitOpen = x] \in DirectState
         /\ \A x \in BOOLEAN : [s EXCEPT !.waitConnect = x] \in DirectState
         /\ \A x \in Fd \cup {NoFd} : [s EXCEPT !.fifoFd = x] \in DirectState
         /\ \A x \in Fd \cup {NoFd} : [s EXCEPT !.fd = x] \in DirectState
         /\ \A x \in 0..MaxPushes : [s EXCEPT !.message = x] \in DirectState
         /\ \A x \in Nat : [s EXCEPT !.written = x] \in DirectState
         /\ \A x \in DirectTask : [s EXCEPT !.task = x] \in DirectState
         /\ \A x \in DirectPc : [s EXCEPT !.pc = x] \in DirectState
         /\ \A x \in DirectStop : [s EXCEPT !.stop = x] \in DirectState
BY DEF DirectState

LEMMA DirectFieldTypes ==
  ASSUME NEW s \in DirectState
  PROVE  /\ s.handlers \in SUBSET DirectHandlers
         /\ s.message \in 0..MaxPushes /\ s.written \in Nat
         /\ 0 \in 0..MaxPushes /\ MaxPushes \in Nat
         /\ s.fifoFd \in Fd \cup {NoFd}
BY IFifoWriterAssumption DEF DirectState

(* The constructor, the setters, startWrite() and the entry of stopWrite(). *)
LEMMA DirectOwnerType ==
  ASSUME NEW U, KernelTypeOK(U), wd \in [Wd -> DirectState], NEW o \in Wd,
         \/ DirectNew(o) \/ (\E h \in DirectHandlers : SetDirectHandler(o, h))
         \/ StartDirect(o) \/ StopDirect(o)
  PROVE  KernelTypeOK(U)' /\ wd' \in [Wd -> DirectState]
<1> USE DirectFields DEF DirectPc, DirectTask, DirectStop
<1>1. CASE DirectNew(o)
  BY <1>1, DirectConstants, PathType DEF DirectNew, createFifo
<1>2. CASE \E h \in DirectHandlers : SetDirectHandler(o, h)
  <2>1. PICK h \in DirectHandlers : SetDirectHandler(o, h)
    BY <1>2
  <2>2. wd[o].handlers \cup {h} \in SUBSET DirectHandlers
    BY DirectFieldTypes
  <2>3. wd' \in [Wd -> DirectState]
    BY <2>1, <2>2 DEF SetDirectHandler
  <2> QED
    BY <2>1, <2>3, KernelStutterType DEF SetDirectHandler
<1>3. CASE StartDirect(o)
  BY <1>3, KernelStutterType DEF StartDirect
<1>4. CASE StopDirect(o)
  BY <1>4, KernelStutterType DEF StopDirect
<1> QED
  BY <1>1, <1>2, <1>3, <1>4

(* The task that opens. *)
LEMMA DirectTaskType ==
  ASSUME NEW U, KernelTypeOK(U), wd \in [Wd -> DirectState], NEW o \in Wd,
         DirectTaskStep(o)
  PROVE  KernelTypeOK(U)' /\ wd' \in [Wd -> DirectState]
<1> USE DirectFields DEF DirectTask
<1>1. CASE DirectBegin(o)
  BY <1>1, KernelStutterType DEF DirectBegin
<1>2. CASE DirectOpen(o)
  <2>1. KernelTypeOK(U)'
    BY <1>2, DirectConstants, OpenCallType, KernelStutterType
       DEF DirectOpen, openFifo, openFifoFails
  <2>2. \/ wd' = [wd EXCEPT ![o].task = "opening"]
        \/ wd' = [wd EXCEPT ![o].task = "opened", ![o].fifoFd = NoFd]
    BY <1>2 DEF DirectOpen
  <2>3. CASE wd' = [wd EXCEPT ![o].task = "opening"]
    BY <2>1, <2>3
  <2>4. CASE wd' = [wd EXCEPT ![o].task = "opened", ![o].fifoFd = NoFd]
    BY <2>1, <2>4
  <2> QED
    BY <2>2, <2>3, <2>4
<1>3. CASE DirectOpenReturns(o)
  <2>1. KernelTypeOK(U)'
    BY <1>3, DirectConstants, OpenReturnType DEF DirectOpenReturns, openFifoReturns
  <2>2. sys[AsyncThread(o)].fd \in Fd \cup {NoFd}
    BY DirectConstants DEF KernelTypeOK
  <2> QED
    BY <1>3, <2>1, <2>2 DEF DirectOpenReturns
<1>4. CASE DirectOpened(o)
  BY <1>4, KernelStutterType DEF DirectOpened
<1> QED
  BY <1>1, <1>2, <1>3, <1>4 DEF DirectTaskStep

(* startWrite() and pushData(), their callbacks included. *)
LEMMA DirectCallType ==
  ASSUME NEW U, KernelTypeOK(U), wd \in [Wd -> DirectState], NEW o \in Wd,
         \/ DirectCallStep(o) \/ DirectConnectHandlerReturns(o)
         \/ DirectDisconnectHandlerReturns(o)
  PROVE  KernelTypeOK(U)' /\ wd' \in [Wd -> DirectState]
<1> USE DirectFields DEF DirectTask, DirectPc
<1>0. 0 \in 0..MaxPushes
  BY DirectFieldTypes
<1>1. CASE DirectWaited(o)
  BY <1>1, KernelStutterType DEF DirectWaited
<1>2. CASE DirectTest(o)
  BY <1>2, KernelStutterType DEF DirectTest
<1>3. CASE DirectThrow(o)
  BY <1>3, KernelStutterType DEF DirectThrow
<1>4. CASE DirectConnected(o)
  BY <1>4, KernelStutterType DEF DirectConnected
<1>5. CASE DirectStarted(o)
  BY <1>5, KernelStutterType DEF DirectStarted
<1>6. CASE DirectWritten(o)
  <2>1. KernelTypeOK(U)'
    BY <1>6, DirectConstants, IoReturnType DEF DirectWritten
  <2>2. wd' = [wd EXCEPT ![o].pc = "idle", ![o].written = 0, ![o].message = 0]
    BY <1>6 DEF DirectWritten
  <2> QED
    BY <1>0, <2>1, <2>2
<1>7. CASE DirectFails(o)
  BY <1>7, DirectConstants, IoReturnType DEF DirectFails, DirectDown
<1>10. CASE DirectWrite(o)
  <2>1. KernelTypeOK(U)'
    BY <1>10, DirectConstants, IoCallType, KernelStutterType DEF DirectWrite
  <2>2. \/ wd' = [wd EXCEPT ![o].pc = "writing"]
        \/ wd' = [wd EXCEPT ![o].pc = "disconnectH", ![o].waitConnect = FALSE]
    BY <1>10 DEF DirectWrite, DirectDown
  <2>3. CASE wd' = [wd EXCEPT ![o].pc = "writing"]
    BY <2>1, <2>3
  <2>4. CASE wd' = [wd EXCEPT ![o].pc = "disconnectH", ![o].waitConnect = FALSE]
    BY <2>1, <2>4
  <2> QED
    BY <2>2, <2>3, <2>4
<1>8. CASE DirectConnectHandlerReturns(o)
  BY <1>8, KernelStutterType DEF DirectConnectHandlerReturns
<1>9. CASE DirectDisconnectHandlerReturns(o)
  BY <1>0, <1>9, KernelStutterType DEF DirectDisconnectHandlerReturns
<1> QED
  BY <1>1, <1>2, <1>3, <1>4, <1>5, <1>6, <1>7, <1>8, <1>9, <1>10 DEF DirectCallStep

LEMMA PushDirectType ==
  ASSUME NEW U, KernelTypeOK(U), wd \in [Wd -> DirectState], NEW o \in Wd,
         NEW m \in 1..MaxPushes, PushDirect(o, m)
  PROVE  KernelTypeOK(U)' /\ wd' \in [Wd -> DirectState]
<1> USE DirectFields DEF DirectPc
<1>1. KernelTypeOK(U)'
  BY KernelStutterType DEF PushDirect
<1>2. wd' = [wd EXCEPT ![o].pc = "write", ![o].message = m, ![o].written = 0]
  BY DEF PushDirect
<1>3. m \in 0..MaxPushes
  BY DirectFieldTypes
<1> QED
  BY <1>1, <1>2, <1>3

LEMMA DirectUnitsType ==
  ASSUME NEW U, KernelTypeOK(U), wd \in [Wd -> DirectState], NEW o \in Wd,
         <<wd[o].message, wd[o].written + 1>> \in U, DirectUnits(o)
  PROVE  KernelTypeOK(U)' /\ wd' \in [Wd -> DirectState]
<1>1. KernelTypeOK(U)'
  BY DirectConstants, WriteUnitType DEF DirectUnits
<1>2. wd[o].written + 1 \in Nat
  BY DirectFieldTypes
<1>3. wd' = [wd EXCEPT ![o].written = wd[o].written + 1]
  BY DEF DirectUnits
<1> QED
  BY <1>1, <1>2, <1>3, DirectFields

(* The rest of stopWrite(). *)
LEMMA StopDirectType ==
  ASSUME NEW U, KernelTypeOK(U), wd \in [Wd -> DirectState], NEW o \in Wd,
         StopDirectStep(o) \/ StopDirectHandlerReturns(o)
  PROVE  KernelTypeOK(U)' /\ wd' \in [Wd -> DirectState]
<1> USE DirectFields DEF DirectStop
<1>1. CASE StopDirectRelease(o)
  <2>1. KernelTypeOK(U)'
    BY <1>1, DirectConstants, OpenCallType, KernelStutterType
       DEF StopDirectRelease, openFifo, openFifoFails
  <2>2. \/ wd' = [wd EXCEPT ![o].stop = "releasing"]
        \/ wd' = [wd EXCEPT ![o].stop = "releaseClose", ![o].fd = NoFd]
    BY <1>1 DEF StopDirectRelease
  <2>3. CASE wd' = [wd EXCEPT ![o].stop = "releasing"]
    BY <2>1, <2>3
  <2>4. CASE wd' = [wd EXCEPT ![o].stop = "releaseClose", ![o].fd = NoFd]
    BY <2>1, <2>4
  <2> QED
    BY <2>2, <2>3, <2>4
<1>2. CASE StopDirectReleased(o)
  <2>1. KernelTypeOK(U)'
    BY <1>2, DirectConstants, OpenReturnType DEF StopDirectReleased, openFifoReturns
  <2>2. sys[StopThread(o)].fd \in Fd \cup {NoFd}
    BY DirectConstants DEF KernelTypeOK
  <2> QED
    BY <1>2, <2>1, <2>2 DEF StopDirectReleased
<1>3. CASE StopDirectReleaseClose(o)
  BY <1>3, DirectConstants, CloseType DEF StopDirectReleaseClose
<1>4. CASE StopDirectClose(o)
  BY <1>4, DirectConstants, CloseType DEF StopDirectClose
<1>5. CASE StopDirectDown(o)
  BY <1>5, KernelStutterType DEF StopDirectDown
<1>6. CASE StopDirectHandlerReturns(o)
  BY <1>6, KernelStutterType DEF StopDirectHandlerReturns
<1>7. CASE StopDirectTakes(o)
  <2>1. wd[o].fifoFd \in Fd \cup {NoFd}
    BY DirectFieldTypes
  <2>2. KernelTypeOK(U)'
    BY <1>7, KernelStutterType DEF StopDirectTakes
  <2>3. PICK n \in Fd \cup {NoFd} :
          wd' = [wd EXCEPT ![o].stop = "closing", ![o].fd = n]
    BY <1>7, <2>1 DEF StopDirectTakes
  <2> QED
    BY <2>2, <2>3
<1> QED
  BY <1>1, <1>2, <1>3, <1>4, <1>5, <1>6, <1>7 DEF StopDirectStep

-----------------------------------------------------------------------------
(* Type correctness; a message is written only while one has been pushed.   *)

LEMMA InitType == Init => TypeOK
<1> SUFFICES ASSUME Init PROVE TypeOK
  OBVIOUS
<1>1. KernelTypeOK(Unit)
  BY KernelInitType DEF Init
<1>2. wd \in [Wd -> DirectState]
  BY IFifoWriterAssumption
     DEF Init, FifoWriteDirectInit, DirectState, DirectTask, DirectPc, DirectStop, NoFd
<1>3. peer \in [Peer -> PeerState]
  BY PipePeerAssumption DEF Init, PeerInit, PeerState, NoFd
<1> QED
  BY <1>1, <1>2, <1>3, DirectSideAssumption, IFifoWriterAssumption DEF Init, TypeOK

LEMMA OwnerType ==
  ASSUME TypeOK, NEW o \in Wd, Configure(o) \/ Start(o) \/ Stop(o) \/ Push(o)
  PROVE  TypeOK'
<1>1. KernelTypeOK(Unit) /\ wd \in [Wd -> DirectState]
  BY DEF TypeOK
<1>2. CASE Configure(o)
  <2>1. KernelTypeOK(Unit)' /\ wd' \in [Wd -> DirectState]
    BY <1>1, <1>2, DirectOwnerType DEF Configure
  <2> QED
    BY <1>2, <2>1 DEF Configure, TypeOK, app
<1>3. CASE Start(o)
  <2>1. KernelTypeOK(Unit)' /\ wd' \in [Wd -> DirectState]
    BY <1>1, <1>3, DirectOwnerType DEF Start
  <2>2. starts' \in [Wd -> 0..MaxStarts]
    BY <1>3, DirectSideAssumption DEF Start, TypeOK
  <2> QED
    BY <1>3, <2>1, <2>2 DEF Start, TypeOK
<1>4. CASE Stop(o)
  <2>1. KernelTypeOK(Unit)' /\ wd' \in [Wd -> DirectState]
    BY <1>1, <1>4, DirectOwnerType DEF Stop
  <2>2. stops' \in [Wd -> 0..MaxStarts]
    BY <1>4, DirectSideAssumption DEF Stop, TypeOK
  <2> QED
    BY <1>4, <2>1, <2>2 DEF Stop, TypeOK
<1>5. CASE Push(o)
  <2>1. pushed[o] + 1 \in 1..MaxPushes
    BY <1>5, IFifoWriterAssumption DEF Push, TypeOK
  <2>2. KernelTypeOK(Unit)' /\ wd' \in [Wd -> DirectState]
    <3>1. CASE PushDirect(o, pushed[o] + 1)
      BY <1>1, <2>1, <3>1, PushDirectType
    <3>2. CASE PushThrows(o)
      BY <1>1, <3>2, KernelStutterType DEF PushThrows
    <3> QED
      BY <1>5, <3>1, <3>2 DEF Push
  <2>3. pushed' \in [Wd -> 0..MaxPushes]
    BY <1>5, <2>1 DEF Push, TypeOK
  <2> QED
    BY <1>5, <2>2, <2>3 DEF Push, TypeOK
<1> QED
  BY <1>2, <1>3, <1>4, <1>5

LEMMA CallingType ==
  ASSUME TypeOK, NEW o \in Wd, Pushing(o), Opening(o) \/ Calling(o) \/ Stopping(o)
  PROVE  TypeOK'
<1>1. KernelTypeOK(Unit) /\ wd \in [Wd -> DirectState]
  BY DEF TypeOK
<1>2. CASE /\ DirectTaskStep(o) \/ DirectCallStep(o) \/ StopDirectStep(o)
           /\ UNCHANGED <<peer, app>>
  <2>1. KernelTypeOK(Unit)' /\ wd' \in [Wd -> DirectState]
    BY <1>1, <1>2, DirectTaskType, DirectCallType, StopDirectType
  <2> QED
    BY <1>2, <2>1 DEF TypeOK, app
<1>3. CASE ConnectHandler(o)
  <2>1. KernelTypeOK(Unit)' /\ wd' \in [Wd -> DirectState]
    BY <1>1, <1>3, DirectCallType DEF ConnectHandler
  <2>2. flagConnect' \in [Wd -> Nat]
    BY <1>3 DEF ConnectHandler, TypeOK
  <2> QED
    BY <1>3, <2>1, <2>2 DEF ConnectHandler, TypeOK
<1>4. CASE /\ DirectDisconnectHandlerReturns(o) \/ StopDirectHandlerReturns(o)
           /\ DisconnectHandler(o)
  <2>1. KernelTypeOK(Unit)' /\ wd' \in [Wd -> DirectState]
    BY <1>1, <1>4, DirectCallType, StopDirectType
  <2>2. flagDisconnect' \in [Wd -> Nat]
    BY <1>4 DEF DisconnectHandler, TypeOK
  <2> QED
    BY <1>4, <2>1, <2>2 DEF DisconnectHandler, TypeOK
<1>5. CASE WriteMessage(o)
  <2>1. wd[o].message \in 1..MaxPushes /\ wd[o].written + 1 \in Nat
    BY <1>1, <1>5, DirectFieldTypes DEF WriteMessage, DirectUnits, Pushing, TypeOK
  <2>2. <<wd[o].message, wd[o].written + 1>> \in Unit
    BY <2>1 DEF Unit
  <2>3. KernelTypeOK(Unit)' /\ wd' \in [Wd -> DirectState]
    BY <1>1, <1>5, <2>2, DirectUnitsType DEF WriteMessage
  <2>4. Append(out[o], <<wd[o].message, wd[o].written + 1>>) \in Seq(Unit)
    BY <2>2, AppendProperties DEF TypeOK
  <2>5. out' \in [Wd -> Seq(Unit)]
    BY <1>5, <2>4 DEF WriteMessage, TypeOK
  <2> QED
    BY <1>5, <2>3, <2>5 DEF WriteMessage, TypeOK
<1> QED
  BY <1>2, <1>3, <1>4, <1>5 DEF Opening, Calling, Stopping

(* The peers, and the removal of a path name. *)
LEMMA OthersType ==
  ASSUME TypeOK,
         \/ \E w \in Peer : Arrive(w) \/ Enter(w) \/ Leave(w) \/ Receive(w)
         \/ \E p \in Pipe : Remove(p)
  PROVE  TypeOK' /\ UNCHANGED <<wd, app>>
<1>1. KernelTypeOK(Unit) /\ peer \in [Peer -> PeerState]
  BY DEF TypeOK
<1>2. ASSUME NEW w \in Peer, Arrive(w) \/ Enter(w) \/ Leave(w)
      PROVE  TypeOK' /\ UNCHANGED <<wd, app>>
  <2>1. KernelTypeOK(Unit)' /\ peer' \in [Peer -> PeerState]
    BY <1>1, <1>2, PeerVisitType DEF Arrive, Enter, Leave
  <2> QED
    BY <1>2, <2>1 DEF Arrive, Enter, Leave, TypeOK, app
<1>3. ASSUME NEW w \in Peer, Receive(w)
      PROVE  TypeOK' /\ UNCHANGED <<wd, app>>
  <2>1. KernelTypeOK(Unit)'
    BY <1>1, <1>3, PeerReadsType DEF Receive
  <2> QED
    BY <1>3, <2>1 DEF Receive, PeerReads, TypeOK, app
<1>4. ASSUME NEW p \in Pipe, Remove(p)
      PROVE  TypeOK' /\ UNCHANGED <<wd, app>>
  <2>1. KernelTypeOK(Unit)'
    BY <1>1, <1>4, PathType DEF Remove
  <2> QED
    BY <1>4, <2>1 DEF Remove, TypeOK, app
<1> QED
  BY <1>2, <1>3, <1>4

LEMMA NextType == TypeOK /\ OrderInv /\ [Next]_vars => TypeOK'
<1> SUFFICES ASSUME TypeOK, OrderInv, [Next]_vars
             PROVE  TypeOK'
  OBVIOUS
<1>1. CASE UNCHANGED vars
  <2>1. KernelTypeOK(Unit)'
    BY <1>1, KernelStutterType DEF vars, TypeOK
  <2> QED
    BY <1>1, <2>1 DEF vars, TypeOK, app
<1>2. \A o \in Wd : Pushing(o)
  BY DEF OrderInv
<1>3. CASE Next
  BY <1>2, <1>3, OwnerType, CallingType, OthersType DEF Next
<1> QED
  BY <1>1, <1>3

-----------------------------------------------------------------------------
(* What the steps of an object do to where its threads are, to its message  *)
(* and to waitConnect.                                                      *)

LEMMA TaskMoves ==
  ASSUME wd \in [Wd -> DirectState], NEW o \in Wd, DirectTaskStep(o)
  PROVE  /\ \A q \in Wd \ {o} : wd'[q] = wd[q]
         /\ wd'[o].pc = wd[o].pc /\ wd'[o].stop = wd[o].stop
         /\ wd'[o].waitConnect = wd[o].waitConnect
         /\ wd'[o].message = wd[o].message /\ wd'[o].written = wd[o].written
<1> USE DEF DirectState
<1>1. CASE DirectBegin(o)
  BY <1>1 DEF DirectBegin
<1>2. CASE DirectOpen(o)
  <2>1. \/ wd' = [wd EXCEPT ![o].task = "opening"]
        \/ wd' = [wd EXCEPT ![o].task = "opened", ![o].fifoFd = NoFd]
    BY <1>2 DEF DirectOpen
  <2> QED
    BY <2>1
<1>3. CASE DirectOpenReturns(o)
  BY <1>3 DEF DirectOpenReturns
<1>4. CASE DirectOpened(o)
  BY <1>4 DEF DirectOpened
<1> QED
  BY <1>1, <1>2, <1>3, <1>4 DEF DirectTaskStep

LEMMA CallMoves ==
  ASSUME wd \in [Wd -> DirectState], NEW o \in Wd, DirectCallStep(o)
  PROVE  /\ \A q \in Wd \ {o} : wd'[q] = wd[q]
         /\ wd'[o].stop = wd[o].stop
         /\ \/ /\ wd'[o].waitConnect = wd[o].waitConnect
               /\ \/ wd[o].pc = "wait" /\ wd'[o].pc = "test"
                  \/ wd[o].pc = "test" /\ wd'[o].pc \in {"throw", "connected"}
                  \/ /\ wd[o].pc \in {"throw", "future", "writing"}
                     /\ wd'[o].pc = "idle"
            \/ wd[o].pc = "connected" /\ wd'[o].pc = "connectH" /\ wd'[o].waitConnect
               /\ wd'[o].pc \notin {"write", "writing"}
            \/ /\ wd[o].pc = "write" /\ wd'[o].pc = "writing"
               /\ wd'[o].waitConnect = wd[o].waitConnect
               /\ wd'[o].message = wd[o].message /\ wd'[o].written = wd[o].written
            \/ /\ wd[o].pc \in {"write", "writing"} /\ wd'[o].pc = "disconnectH"
               /\ ~wd'[o].waitConnect
<1> USE DEF DirectState
<1>1. CASE DirectWaited(o)
  BY <1>1 DEF DirectWaited
<1>2. CASE DirectTest(o)
  BY <1>2 DEF DirectTest
<1>3. CASE DirectThrow(o)
  BY <1>3 DEF DirectThrow
<1>4. CASE DirectConnected(o)
  BY <1>4 DEF DirectConnected
<1>5. CASE DirectStarted(o)
  BY <1>5 DEF DirectStarted
<1>6. CASE DirectWritten(o)
  <2>1. /\ wd[o].pc = "writing"
        /\ wd' = [wd EXCEPT ![o].pc = "idle", ![o].written = 0, ![o].message = 0]
    BY <1>6 DEF DirectWritten
  <2> QED
    BY <2>1
<1>7. CASE DirectFails(o)
  <2>1. /\ wd[o].pc = "writing"
        /\ wd' = [wd EXCEPT ![o].pc = "disconnectH", ![o].waitConnect = FALSE]
    BY <1>7 DEF DirectFails, DirectDown
  <2> QED
    BY <2>1
<1>8. CASE DirectWrite(o)
  <2>1. /\ wd[o].pc = "write"
        /\ \/ wd' = [wd EXCEPT ![o].pc = "writing"]
           \/ wd' = [wd EXCEPT ![o].pc = "disconnectH", ![o].waitConnect = FALSE]
    BY <1>8 DEF DirectWrite, DirectDown
  <2> QED
    BY <2>1
<1> QED
  BY <1>1, <1>2, <1>3, <1>4, <1>5, <1>6, <1>7, <1>8 DEF DirectCallStep

LEMMA PushMoves ==
  ASSUME wd \in [Wd -> DirectState], NEW o \in Wd, NEW m,
         PushDirect(o, m) \/ PushThrows(o)
  PROVE  /\ wd[o].pc = "idle"
         /\ \/ wd' = wd
            \/ /\ wd[o].waitConnect = TRUE
               /\ wd' = [wd EXCEPT ![o].pc = "write", ![o].message = m, ![o].written = 0]
<1>1. wd[o].waitConnect \in BOOLEAN
  BY DEF DirectState
<1>2. CASE PushThrows(o)
  BY <1>2 DEF PushThrows
<1>3. CASE PushDirect(o, m)
  BY <1>1, <1>3 DEF PushDirect
<1> QED
  BY <1>2, <1>3

LEMMA StopMoves ==
  ASSUME wd \in [Wd -> DirectState], NEW o \in Wd, StopDirectStep(o)
  PROVE  /\ \A q \in Wd \ {o} : wd'[q] = wd[q]
         /\ wd'[o].pc = wd[o].pc
         /\ wd[o].stop # "none" /\ wd'[o].stop # "none"
         /\ wd'[o].message = wd[o].message /\ wd'[o].written = wd[o].written
         /\ wd'[o].waitConnect => wd[o].waitConnect
<1> USE DEF DirectState
<1>1. CASE StopDirectRelease(o)
  <2>1. /\ wd[o].stop = "release"
        /\ \/ wd' = [wd EXCEPT ![o].stop = "releasing"]
           \/ wd' = [wd EXCEPT ![o].stop = "releaseClose", ![o].fd = NoFd]
    BY <1>1 DEF StopDirectRelease
  <2> QED
    BY <2>1
<1>2. CASE StopDirectReleased(o)
  BY <1>2 DEF StopDirectReleased
<1>3. CASE StopDirectReleaseClose(o)
  BY <1>3 DEF StopDirectReleaseClose
<1>4. CASE StopDirectClose(o)
  BY <1>4 DEF StopDirectClose
<1>5. CASE StopDirectDown(o)
  BY <1>5 DEF StopDirectDown
<1>6. CASE StopDirectTakes(o)
  BY <1>6 DEF StopDirectTakes
<1> QED
  BY <1>1, <1>2, <1>3, <1>4, <1>5, <1>6 DEF StopDirectStep

-----------------------------------------------------------------------------
(* Every connect callback is answered *)

LEMMA InitAnswers == Init => AnswersInv
BY DEF Init, FifoWriteDirectInit, AnswersInv, Answered, ConnectToCome,
       StopInProgress, PushHasFailed, PushMayFail

LEMMA AnswersFrame ==
  ASSUME AnswersInv, UNCHANGED <<wd, flagConnect, flagDisconnect, starts, stops>>
  PROVE  AnswersInv'
BY DEF AnswersInv, Answered, ConnectToCome, StopInProgress,
       PushHasFailed, PushMayFail

(* A step of object o that keeps o's part keeps the invariant. *)
LEMMA AnswersLocal ==
  ASSUME AnswersInv, NEW o \in Wd, Answered(o)',
         \A q \in Wd \ {o} :
           /\ wd'[q] = wd[q] /\ flagConnect'[q] = flagConnect[q]
           /\ flagDisconnect'[q] = flagDisconnect[q]
           /\ starts'[q] = starts[q] /\ stops'[q] = stops[q]
  PROVE  AnswersInv'
<1> SUFFICES ASSUME NEW q \in Wd, q # o PROVE Answered(q)'
  BY DEF AnswersInv
<1> QED
  BY DEF AnswersInv, Answered, ConnectToCome, StopInProgress,
         PushHasFailed, PushMayFail

LEMMA OwnerAnswers ==
  ASSUME TypeOK, AnswersInv, NEW o \in Wd,
         Configure(o) \/ Start(o) \/ Stop(o) \/ Push(o)
  PROVE  AnswersInv'
<1>1. /\ wd \in [Wd -> DirectState] /\ Answered(o)
      /\ flagConnect \in [Wd -> Nat] /\ flagDisconnect \in [Wd -> Nat]
      /\ starts \in [Wd -> 0..MaxStarts] /\ stops \in [Wd -> 0..MaxStarts]
      /\ MaxStarts \in Nat
  BY DirectSideAssumption DEF TypeOK, AnswersInv
<1>2. /\ flagConnect[o] \in Nat /\ flagDisconnect[o] \in Nat
      /\ starts[o] \in Nat /\ stops[o] \in Nat
  BY <1>1
<1> USE DEF Answered, ConnectToCome, StopInProgress,
            PushHasFailed, PushMayFail
<1>3. CASE Configure(o)
  <2>1. /\ \A q \in Wd \ {o} : wd'[q] = wd[q]
        /\ wd'[o].pc = wd[o].pc \/ (wd[o].pc = "unborn" /\ wd'[o].pc = "idle")
        /\ wd'[o].stop = wd[o].stop /\ wd'[o].waitConnect = wd[o].waitConnect
        /\ UNCHANGED <<flagConnect, flagDisconnect, starts, stops>>
    BY <1>1, <1>3 DEF Configure, DirectNew, SetDirectHandler, DirectState, app
  <2>2. Answered(o)'
    BY <1>1, <1>2, <2>1
  <2> QED
    BY <2>1, <2>2, AnswersLocal
<1>4. CASE Start(o)
  <2>1. /\ \A q \in Wd \ {o} : wd'[q] = wd[q] /\ starts'[q] = starts[q]
        /\ wd[o].pc = "idle" /\ wd'[o].pc = "wait" /\ starts'[o] = starts[o] + 1
        /\ wd'[o].stop = wd[o].stop /\ wd'[o].waitConnect = wd[o].waitConnect
        /\ UNCHANGED <<flagConnect, flagDisconnect, stops>>
    BY <1>1, <1>4 DEF Start, StartDirect, DirectState
  <2>2. Answered(o)'
    BY <1>1, <1>2, <2>1
  <2> QED
    BY <2>1, <2>2, AnswersLocal
<1>5. CASE Stop(o)
  <2>1. /\ \A q \in Wd \ {o} : wd'[q] = wd[q] /\ stops'[q] = stops[q]
        /\ wd[o].stop = "none" /\ wd'[o].stop # "none" /\ stops'[o] = stops[o] + 1
        /\ wd'[o].pc = wd[o].pc /\ wd'[o].waitConnect = wd[o].waitConnect
        /\ UNCHANGED <<flagConnect, flagDisconnect, starts>>
    BY <1>1, <1>5 DEF Stop, StopDirect, DirectState
  <2>2. Answered(o)'
    BY <1>1, <1>2, <2>1
  <2> QED
    BY <2>1, <2>2, AnswersLocal
<1>6. CASE Push(o)
  <2>1. UNCHANGED <<flagConnect, flagDisconnect, starts, stops>>
    BY <1>6 DEF Push
  <2>2. CASE wd' = wd
    BY <2>1, <2>2, AnswersFrame
  <2>3. CASE /\ wd[o].pc = "idle" /\ wd[o].waitConnect = TRUE
             /\ wd' = [wd EXCEPT ![o].pc = "write", ![o].message = pushed[o] + 1,
                                 ![o].written = 0]
    <3>1. /\ \A q \in Wd \ {o} : wd'[q] = wd[q]
          /\ wd'[o].pc = "write" /\ wd'[o].stop = wd[o].stop
      BY <1>1, <2>3 DEF DirectState
    <3>2. Answered(o)'
      BY <1>1, <1>2, <2>1, <2>3, <3>1
    <3> QED
      BY <2>1, <3>1, <3>2, AnswersLocal
  <2> QED
    BY <1>1, <1>6, <2>2, <2>3, PushMoves DEF Push
<1> QED
  BY <1>3, <1>4, <1>5, <1>6

LEMMA CallingAnswers ==
  ASSUME TypeOK, AnswersInv, NEW o \in Wd, Opening(o) \/ Calling(o) \/ Stopping(o)
  PROVE  AnswersInv'
<1>1. /\ wd \in [Wd -> DirectState] /\ Answered(o)
      /\ flagConnect \in [Wd -> Nat] /\ flagDisconnect \in [Wd -> Nat]
      /\ starts \in [Wd -> 0..MaxStarts] /\ stops \in [Wd -> 0..MaxStarts]
      /\ MaxStarts \in Nat
  BY DirectSideAssumption DEF TypeOK, AnswersInv
<1>2. /\ flagConnect[o] \in Nat /\ flagDisconnect[o] \in Nat
      /\ starts[o] \in Nat /\ stops[o] \in Nat
  BY <1>1
<1> USE DEF Answered, ConnectToCome, StopInProgress,
            PushHasFailed, PushMayFail
<1>3. CASE (DirectTaskStep(o) \/ StopDirectStep(o)) /\ UNCHANGED <<peer, app>>
  <2>1. /\ \A q \in Wd \ {o} : wd'[q] = wd[q]
        /\ wd'[o].pc = wd[o].pc
        /\ wd'[o].stop = "none" <=> wd[o].stop = "none"
        /\ wd'[o].waitConnect => wd[o].waitConnect
        /\ UNCHANGED <<flagConnect, flagDisconnect, starts, stops>>
    BY <1>1, <1>3, TaskMoves, StopMoves DEF app
  <2>2. Answered(o)'
    BY <1>1, <1>2, <2>1
  <2> QED
    BY <2>1, <2>2, AnswersLocal
<1>4. CASE DirectCallStep(o) /\ UNCHANGED <<peer, app>>
  <2>1. /\ \A q \in Wd \ {o} : wd'[q] = wd[q]
        /\ wd'[o].stop = wd[o].stop
        /\ \/ /\ wd'[o].waitConnect = wd[o].waitConnect
              /\ \/ wd[o].pc = "wait" /\ wd'[o].pc = "test"
                 \/ wd[o].pc = "test" /\ wd'[o].pc \in {"throw", "connected"}
                 \/ /\ wd[o].pc \in {"throw", "future", "writing"}
                    /\ wd'[o].pc = "idle"
           \/ wd[o].pc = "connected" /\ wd'[o].pc = "connectH" /\ wd'[o].waitConnect
              /\ wd'[o].pc \notin {"write", "writing"}
           \/ /\ wd[o].pc = "write" /\ wd'[o].pc = "writing"
              /\ wd'[o].waitConnect = wd[o].waitConnect
           \/ /\ wd[o].pc \in {"write", "writing"} /\ wd'[o].pc = "disconnectH"
              /\ ~wd'[o].waitConnect
        /\ UNCHANGED <<flagConnect, flagDisconnect, starts, stops>>
    BY <1>1, <1>4, CallMoves DEF app
  <2>2. Answered(o)'
    BY <1>1, <1>2, <2>1
  <2> QED
    BY <2>1, <2>2, AnswersLocal
<1>5. CASE ConnectHandler(o)
  <2>1. /\ \A q \in Wd \ {o} : wd'[q] = wd[q] /\ flagConnect'[q] = flagConnect[q]
        /\ wd[o].pc = "connectH" /\ wd'[o].pc = "future"
        /\ wd'[o].stop = wd[o].stop /\ wd'[o].waitConnect = wd[o].waitConnect
        /\ flagConnect'[o] = flagConnect[o] + 1
        /\ UNCHANGED <<flagDisconnect, starts, stops>>
    BY <1>1, <1>5 DEF ConnectHandler, DirectConnectHandlerReturns, DirectState
  <2>2. Answered(o)'
    BY <1>1, <1>2, <2>1
  <2> QED
    BY <2>1, <2>2, AnswersLocal
<1>6. CASE DirectDisconnectHandlerReturns(o) /\ DisconnectHandler(o)
  <2>1. /\ \A q \in Wd \ {o} : wd'[q] = wd[q] /\ flagDisconnect'[q] = flagDisconnect[q]
        /\ wd[o].pc = "disconnectH" /\ wd'[o].pc = "idle"
        /\ wd'[o].stop = wd[o].stop /\ wd'[o].waitConnect = wd[o].waitConnect
        /\ flagDisconnect'[o] = flagDisconnect[o] + 1
        /\ UNCHANGED <<flagConnect, starts, stops>>
    BY <1>1, <1>6 DEF DisconnectHandler, DirectDisconnectHandlerReturns, DirectState
  <2>2. Answered(o)'
    BY <1>1, <1>2, <2>1
  <2> QED
    BY <2>1, <2>2, AnswersLocal
<1>7. CASE StopDirectHandlerReturns(o) /\ DisconnectHandler(o)
  <2>1. /\ \A q \in Wd \ {o} : wd'[q] = wd[q] /\ flagDisconnect'[q] = flagDisconnect[q]
        /\ wd[o].stop = "disconnectH" /\ wd'[o].stop = "none"
        /\ wd'[o].pc = wd[o].pc /\ wd'[o].waitConnect = wd[o].waitConnect
        /\ flagDisconnect'[o] = flagDisconnect[o] + 1
        /\ UNCHANGED <<flagConnect, starts, stops>>
    BY <1>1, <1>7 DEF DisconnectHandler, StopDirectHandlerReturns, DirectState
  <2>2. Answered(o)'
    BY <1>1, <1>2, <2>1
  <2> QED
    BY <2>1, <2>2, AnswersLocal
<1>8. CASE WriteMessage(o)
  <2>1. /\ \A q \in Wd \ {o} : wd'[q] = wd[q]
        /\ wd'[o].pc = wd[o].pc /\ wd'[o].stop = wd[o].stop
        /\ wd'[o].waitConnect = wd[o].waitConnect
        /\ UNCHANGED <<flagConnect, flagDisconnect, starts, stops>>
    BY <1>1, <1>8 DEF WriteMessage, DirectUnits, DirectState
  <2>2. Answered(o)'
    BY <1>1, <1>2, <2>1
  <2> QED
    BY <2>1, <2>2, AnswersLocal
<1> QED
  BY <1>3, <1>4, <1>5, <1>6, <1>7, <1>8 DEF Opening, Calling, Stopping

-----------------------------------------------------------------------------
(* Messages go out in order *)

LEMMA InitOrder == Init => OrderInv
BY DEF Init, FifoWriteDirectInit, OrderInv, Pushing, InOrder

(* A step of object o that keeps o's part keeps the invariant. *)
LEMMA OrderLocal ==
  ASSUME OrderInv, NEW o \in Wd, Pushing(o)', InOrder(o)',
         \A q \in Wd \ {o} :
           wd'[q] = wd[q] /\ out'[q] = out[q] /\ pushed'[q] = pushed[q]
  PROVE  OrderInv'
<1> SUFFICES ASSUME NEW q \in Wd, q # o PROVE Pushing(q)' /\ InOrder(q)'
  BY DEF OrderInv
<1>1. Pushing(q) /\ InOrder(q)
  BY DEF OrderInv
<1>2. wd'[q] = wd[q] /\ out'[q] = out[q] /\ pushed'[q] = pushed[q]
  OBVIOUS
<1>3. Pushing(q)'
  BY <1>1, <1>2, Zenon DEF Pushing
<1>4. InOrder(q)'
  BY <1>1, <1>2, Zenon DEF InOrder, Before
<1> QED
  BY <1>3, <1>4

LEMMA OrderFrame ==
  ASSUME OrderInv, UNCHANGED <<wd, out, pushed>>
  PROVE  OrderInv'
<1> SUFFICES ASSUME NEW q \in Wd PROVE Pushing(q)' /\ InOrder(q)'
  BY DEF OrderInv
<1>1. Pushing(q) /\ InOrder(q)
  BY DEF OrderInv
<1>2. Pushing(q)'
  BY <1>1, Zenon DEF Pushing
<1>3. InOrder(q)'
  BY <1>1, Zenon DEF InOrder, Before
<1> QED
  BY <1>2, <1>3

(* A step that writes nothing keeps the invariant if it begins no pushData() *)
(* and leaves the message of one that is going on as it is.                  *)
LEMMA OrderKept ==
  ASSUME OrderInv, NEW o \in Wd, UNCHANGED <<out, pushed>>,
         \A q \in Wd \ {o} : wd'[q] = wd[q],
         wd'[o].pc \in {"write", "writing"} => /\ wd[o].pc \in {"write", wd'[o].pc}
                                               /\ wd'[o].message = wd[o].message
                                               /\ wd'[o].written = wd[o].written
  PROVE  OrderInv'
<1>1. Pushing(o) /\ InOrder(o)
  BY DEF OrderInv
<1>2. Pushing(o)'
  BY <1>1 DEF Pushing
<1>3. InOrder(o)'
  BY <1>1, Zenon DEF InOrder, Before
<1> QED
  BY <1>2, <1>3, OrderLocal

(* Messages are numbered, and so are their units. *)
LEMMA NumbersOf ==
  \A u \in Unit : u[1] \in Nat /\ u[2] \in Nat
BY IFifoWriterAssumption DEF Unit

(* pushData(): the message is numbered behind all that is out. *)
LEMMA PushOrder ==
  ASSUME TypeOK, OrderInv, NEW o \in Wd, Push(o)
  PROVE  OrderInv'
<1>1. Pushing(o) /\ InOrder(o)
  BY DEF OrderInv
<1>2. /\ wd \in [Wd -> DirectState] /\ out[o] \in Seq(Unit)
      /\ pushed \in [Wd -> 0..MaxPushes] /\ pushed[o] \in Nat
  BY IFifoWriterAssumption DEF TypeOK
<1>3. /\ out' = out /\ pushed'[o] = pushed[o] + 1
      /\ \A q \in Wd \ {o} : pushed'[q] = pushed[q]
  BY <1>2 DEF Push
<1>4. \A j \in 1..Len(out[o]) : out[o][j][1] < pushed[o] + 1
  <2> SUFFICES ASSUME NEW j \in 1..Len(out[o]) PROVE out[o][j][1] < pushed[o] + 1
    OBVIOUS
  <2>1. out[o][j][1] \in Nat
    BY <1>2, ElementOfSeq, NumbersOf
  <2>2. out[o][j][1] <= pushed[o]
    BY <1>1 DEF Pushing
  <2> QED
    BY <1>2, <2>1, <2>2
<1>5. \A j \in 1..Len(out[o]) : out[o][j][1] <= pushed[o] + 1
  <2> SUFFICES ASSUME NEW j \in 1..Len(out[o]) PROVE out[o][j][1] <= pushed[o] + 1
    OBVIOUS
  <2>1. out[o][j][1] \in Nat
    BY <1>2, ElementOfSeq, NumbersOf
  <2> QED
    BY <1>2, <1>4, <2>1
<1>6. /\ \A q \in Wd \ {o} : wd'[q] = wd[q]
      /\ \/ wd'[o].pc \notin {"write", "writing"}
         \/ wd'[o].message = pushed[o] + 1 /\ wd'[o].written = 0
  <2>1. CASE wd' = wd
    BY <1>2, <2>1, PushMoves DEF Push
  <2>2. CASE wd' = [wd EXCEPT ![o].pc = "write", ![o].message = pushed[o] + 1,
                              ![o].written = 0]
    BY <1>2, <2>2 DEF DirectState
  <2> QED
    BY <1>2, <2>1, <2>2, PushMoves DEF Push
<1>7. Pushing(o)'
  BY <1>2, <1>3, <1>4, <1>5, <1>6 DEF Pushing
<1>8. InOrder(o)'
  BY <1>1, <1>3, Zenon DEF InOrder, Before
<1> QED
  BY <1>3, <1>6, <1>7, <1>8, OrderLocal

(* The setters, startWrite() and the entry of stopWrite(). *)
LEMMA OwnerOrder ==
  ASSUME TypeOK, OrderInv, NEW o \in Wd, Configure(o) \/ Start(o) \/ Stop(o)
  PROVE  OrderInv'
<1>1. wd \in [Wd -> DirectState]
  BY DEF TypeOK
<1>2. CASE Configure(o)
  <2>1. /\ \A q \in Wd \ {o} : wd'[q] = wd[q]
        /\ wd'[o].pc \notin {"write", "writing"} /\ UNCHANGED <<out, pushed>>
    BY <1>1, <1>2 DEF Configure, DirectNew, SetDirectHandler, DirectState, app
  <2> QED
    BY <2>1, OrderKept
<1>3. CASE Start(o)
  <2>1. /\ \A q \in Wd \ {o} : wd'[q] = wd[q]
        /\ wd'[o].pc \notin {"write", "writing"} /\ UNCHANGED <<out, pushed>>
    BY <1>1, <1>3 DEF Start, StartDirect, DirectState
  <2> QED
    BY <2>1, OrderKept
<1>4. CASE Stop(o)
  <2>1. /\ \A q \in Wd \ {o} : wd'[q] = wd[q]
        /\ wd'[o].pc = wd[o].pc /\ wd'[o].message = wd[o].message
        /\ wd'[o].written = wd[o].written /\ UNCHANGED <<out, pushed>>
    BY <1>1, <1>4 DEF Stop, StopDirect, DirectState
  <2> QED
    BY <2>1, OrderKept
<1> QED
  BY <1>2, <1>3, <1>4

(* write() takes one unit more of the message. *)
LEMMA WriteOrder ==
  ASSUME TypeOK, OrderInv, NEW o \in Wd, WriteMessage(o)
  PROVE  OrderInv'
<1> DEFINE s == out[o]
           n == Len(s)
           m == wd[o].message
           w == wd[o].written
           u == <<m, w + 1>>
           t == Append(s, u)
<1>1. Pushing(o) /\ InOrder(o)
  BY DEF OrderInv
<1>2. /\ wd \in [Wd -> DirectState] /\ out \in [Wd -> Seq(Unit)] /\ s \in Seq(Unit)
      /\ w \in Nat /\ pushed[o] \in Nat /\ pushed[o] \in 0..MaxPushes
  BY IFifoWriterAssumption DEF TypeOK, DirectState
<1>3. /\ wd[o].pc = "writing" /\ m = pushed[o] /\ pushed[o] > 0
      /\ wd' = [wd EXCEPT ![o].written = w + 1]
      /\ out' = [out EXCEPT ![o] = t] /\ pushed' = pushed
  BY <1>1 DEF WriteMessage, DirectUnits, Pushing
<1>4. /\ wd'[o].pc = "writing" /\ wd'[o].message = m /\ wd'[o].written = w + 1
      /\ out'[o] = t
      /\ \A q \in Wd \ {o} : wd'[q] = wd[q] /\ out'[q] = out[q]
  BY <1>2, <1>3 DEF DirectState
<1>5. u \in Unit /\ u[1] = pushed[o] /\ u[2] = w + 1
  BY <1>2, <1>3, IFifoWriterAssumption DEF Unit
<1>6. /\ n \in Nat /\ Len(t) = n + 1 /\ t[n + 1] = u
      /\ \A j \in 1..n : t[j] = s[j]
      /\ \A j \in 1..Len(t) : j \in 1..n \/ j = n + 1
  <2>1. Len(t) = n + 1 /\ t[n + 1] = u /\ \A j \in 1..n : t[j] = s[j]
    BY <1>2, <1>5, AppendProperties
  <2>2. n \in Nat
    BY <1>2
  <2> QED
    BY <2>1, <2>2
<1>7. \A j \in 1..n : s[j][1] \in Nat /\ s[j][2] \in Nat
  BY <1>2, ElementOfSeq, NumbersOf
<1>8. /\ \A j \in 1..n : s[j][1] <= pushed[o]
      /\ w = 0 => \A j \in 1..n : s[j][1] < pushed[o]
      /\ w > 0 => n > 0 /\ s[n] = <<pushed[o], w>>
  BY <1>1, <1>3 DEF Pushing
<1>9. InOrder(o)
  BY <1>1
<1> HIDE DEF s, n, m, w, u, t
<1>10. Pushing(o)'
  <2>1. \A j \in 1..Len(t) : t[j][1] <= pushed[o]
    BY <1>2, <1>5, <1>6, <1>8
  <2>2. Len(t) > 0 /\ t[Len(t)] = <<pushed[o], w + 1>>
    BY <1>3, <1>6 DEF u, m
  <2>3. ~(w + 1 = 0)
    BY <1>2
  <2> QED
    BY <1>3, <1>4, <2>1, <2>2, <2>3 DEF Pushing
<1>11. InOrder(o)'
  <2> SUFFICES ASSUME NEW j \in 1..Len(t)
               PROVE  /\ j > 1 => Before(t[j - 1], t[j])
                      /\ t[j][2] > 1 => j > 1 /\ t[j - 1] = <<t[j][1], t[j][2] - 1>>
    BY <1>4 DEF InOrder, Before
  <2>1. CASE j \in 1..n
    <3>1. /\ j > 1 => Before(s[j - 1], s[j])
          /\ s[j][2] > 1 => j > 1 /\ s[j - 1] = <<s[j][1], s[j][2] - 1>>
      BY <1>9, <2>1 DEF InOrder, s, n
    <3>2. t[j] = s[j] /\ (j > 1 => t[j - 1] = s[j - 1])
      BY <1>6, <2>1
    <3> QED
      BY <3>1, <3>2
  <2>2. CASE j = n + 1
    <3>1. t[j] = u /\ (j > 1 => j - 1 = n /\ n \in 1..n /\ t[j - 1] = s[n])
      BY <1>6, <2>2
    <3>2. w = 0 \/ w > 0
      BY <1>2
    <3>3. j > 1 => s[n][1] < pushed[o] \/ (s[n][1] = pushed[o] /\ s[n][2] = w)
      BY <1>8, <3>1, <3>2
    <3>4. j > 1 => Before(t[j - 1], t[j])
      BY <1>2, <1>5, <1>7, <3>1, <3>3 DEF Before
    <3>5. u[2] > 1 => j > 1 /\ s[n] = <<pushed[o], w>>
      BY <1>2, <1>5, <1>6, <1>8, <2>2
    <3>6. u[2] - 1 = w
      BY <1>2, <1>5
    <3> QED
      BY <1>5, <3>1, <3>4, <3>5, <3>6
  <2> QED
    BY <1>6, <2>1, <2>2
<1> QED
  BY <1>3, <1>4, <1>10, <1>11, OrderLocal

LEMMA CallingOrder ==
  ASSUME TypeOK, OrderInv, NEW o \in Wd, Opening(o) \/ Calling(o) \/ Stopping(o)
  PROVE  OrderInv'
<1>1. wd \in [Wd -> DirectState]
  BY DEF TypeOK
<1>2. CASE (DirectTaskStep(o) \/ StopDirectStep(o)) /\ UNCHANGED <<peer, app>>
  <2>1. UNCHANGED <<out, pushed>>
    BY <1>2 DEF app
  <2> QED
    BY <1>1, <1>2, <2>1, TaskMoves, StopMoves, OrderKept
<1>3. CASE DirectCallStep(o) /\ UNCHANGED <<peer, app>>
  <2>1. UNCHANGED <<out, pushed>>
    BY <1>3 DEF app
  <2> QED
    BY <1>1, <1>3, <2>1, CallMoves, OrderKept
<1>4. CASE ConnectHandler(o)
  <2>1. /\ UNCHANGED <<out, pushed>> /\ wd'[o].pc \notin {"write", "writing"}
        /\ \A q \in Wd \ {o} : wd'[q] = wd[q]
    BY <1>1, <1>4 DEF ConnectHandler, DirectConnectHandlerReturns, DirectState
  <2> QED
    BY <2>1, OrderKept
<1>5. CASE DirectDisconnectHandlerReturns(o) /\ DisconnectHandler(o)
  <2>1. /\ UNCHANGED <<out, pushed>> /\ wd'[o].pc \notin {"write", "writing"}
        /\ \A q \in Wd \ {o} : wd'[q] = wd[q]
    BY <1>1, <1>5 DEF DisconnectHandler, DirectDisconnectHandlerReturns, DirectState
  <2> QED
    BY <2>1, OrderKept
<1>6. CASE StopDirectHandlerReturns(o) /\ DisconnectHandler(o)
  <2>1. /\ UNCHANGED <<out, pushed>>
        /\ wd'[o].pc = wd[o].pc /\ wd'[o].message = wd[o].message
        /\ wd'[o].written = wd[o].written /\ \A q \in Wd \ {o} : wd'[q] = wd[q]
    BY <1>1, <1>6 DEF DisconnectHandler, StopDirectHandlerReturns, DirectState
  <2> QED
    BY <2>1, OrderKept
<1>7. CASE WriteMessage(o)
  BY <1>7, WriteOrder
<1> QED
  BY <1>2, <1>3, <1>4, <1>5, <1>6, <1>7 DEF Opening, Calling, Stopping

-----------------------------------------------------------------------------
(* The inductive invariant: the type of the state, what has been written of *)
(* the message in pushData(), and the callbacks that are due.               *)
IInv == TypeOK /\ OrderInv /\ AnswersInv

LEMMA InitInv == Init => IInv
BY InitType, InitOrder, InitAnswers DEF IInv

LEMMA NextInv == IInv /\ [Next]_vars => IInv'
<1> SUFFICES ASSUME IInv, [Next]_vars PROVE IInv'
  OBVIOUS
<1>1. TypeOK /\ OrderInv /\ AnswersInv
  BY DEF IInv
<1>2. TypeOK'
  BY <1>1, NextType
<1>3. OrderInv' /\ AnswersInv'
  <2>1. CASE UNCHANGED vars
    BY <1>1, <2>1, OrderFrame, AnswersFrame DEF vars, app
  <2>2. ASSUME NEW o \in Wd, Configure(o) \/ Start(o) \/ Stop(o) \/ Push(o)
        PROVE  OrderInv' /\ AnswersInv'
    BY <1>1, <2>2, OwnerOrder, PushOrder, OwnerAnswers
  <2>3. ASSUME NEW o \in Wd, Opening(o) \/ Calling(o) \/ Stopping(o)
        PROVE  OrderInv' /\ AnswersInv'
    BY <1>1, <2>3, CallingOrder, CallingAnswers
  <2>4. CASE \/ \E w \in Peer : Arrive(w) \/ Enter(w) \/ Leave(w) \/ Receive(w)
             \/ \E p \in Pipe : Remove(p)
    <3>1. UNCHANGED <<wd, app>>
      BY <1>1, <2>4, OthersType
    <3> QED
      BY <1>1, <3>1, OrderFrame, AnswersFrame DEF app
  <2> QED
    BY <2>1, <2>2, <2>3, <2>4 DEF Next
<1> QED
  BY <1>2, <1>3 DEF IInv

(* The invariant of every behaviour. *)
THEOREM Invariance == Spec => []IInv
BY InitInv, NextInv, PTL DEF Spec

(* However many objects start, push, fail and are stopped by another thread *)
(* in the middle of a call, their fields and the kernel's keep their types: *)
(* no message is written before one was pushed.                             *)
THEOREM TypeCorrect == Spec => []TypeOK
<1>1. IInv => TypeOK
  BY DEF IInv
<1> QED
  BY <1>1, Invariance, PTL

(* pushData() writes the units of the messages in the order of the calls,   *)
(* none twice and none left out within a message, though some calls fail    *)
(* (EPIPE, a descriptor stopWrite() has closed) or write a part only.       *)
THEOREM PushedInOrder == Spec => []WrittenInOrder
<1>1. IInv => WrittenInOrder
  BY DEF IInv, OrderInv, WrittenInOrder
<1> QED
  BY <1>1, Invariance, PTL

(* No start goes without its stop's disconnect callback: whatever a failing *)
(* pushData() has reported before, and in whatever moment of startWrite() or *)
(* pushData() the stop came, the disconnects are never more than the         *)
(* connects and stops, and at rest no connect lacks its disconnect.          *)
THEOREM ConnectsAnswered == Spec => []EveryConnectAnswered
<1>1. IInv => EveryConnectAnswered
  <2> SUFFICES ASSUME TypeOK, NEW o \in Wd, Answered(o)
               PROVE  /\ flagDisconnect[o] <= flagConnect[o] + stops[o]
                      /\ (wd[o].pc = "idle" /\ wd[o].stop = "none" /\ starts[o] = stops[o])
                            => flagConnect[o] <= flagDisconnect[o]
    BY DEF IInv, AnswersInv, EveryConnectAnswered
  <2>1. /\ flagConnect[o] \in Nat /\ flagDisconnect[o] \in Nat
        /\ starts[o] \in Nat /\ stops[o] \in Nat
    BY DirectSideAssumption DEF TypeOK
  <2> QED
    BY <2>1 DEF Answered, ConnectToCome, StopInProgress,
                PushHasFailed, PushMayFail
<1> QED
  BY <1>1, Invariance, PTL

-----------------------------------------------------------------------------
(* What pushData() returns with.  As for WriteQImpl, the end it holds in    *)
(* its write() is the own one when there is one pipe only: with several,    *)
(* stopWrite() may have closed the number it calls write() with.            *)

OnePipe == \A p, q \in Pipe : p = q

Holds(o) == wd[o].pc = "writing" => sys[Caller(o)].end = EndOf(addrDirect[o], "W")

(* The units counted in written are out. *)
Wrote(o) ==
  wd[o].pc = "writing" =>
    \A i \in 1..wd[o].written : <<wd[o].message, i>> \in Range(out[o])

PushInv == \A o \in Wd : Holds(o) /\ Wrote(o)

Others(o) == \A q \in Wd \ {o} : wd'[q] = wd[q] /\ out'[q] = out[q]

(* A step that neither begins a write() nor adds to one in progress.        *)
NoWrite(o) ==
  /\ Others(o) /\ out' = out
  /\ wd'[o].pc = "writing" =>
       /\ wd[o].pc = "writing"
       /\ wd'[o].message = wd[o].message /\ wd'[o].written = wd[o].written

(* The task and stopWrite() go on beside a pushData() and do not touch it.  *)
LEMMA BesideSteps ==
  ASSUME TypeOK, NEW o \in Wd, Opening(o) \/ Stopping(o) \/ Stop(o)
  PROVE  /\ NoWrite(o) /\ wd'[o].pc = wd[o].pc
         /\ \E t \in {AsyncThread(o), StopThread(o)} : LeavesCalls(t)
<1>1. /\ KernelTypeOK(Unit) /\ wd \in [Wd -> DirectState] /\ wd[o] \in DirectState
      /\ AsyncThread(o) \in Thread /\ StopThread(o) \in Thread
  BY DirectConstants DEF TypeOK
<1>2. CASE DirectTaskStep(o) /\ UNCHANGED <<peer, app>>
  <2>1. NoWrite(o) /\ wd'[o].pc = wd[o].pc
    BY <1>1, <1>2, TaskMoves DEF NoWrite, Others, app
  <2>2. LeavesCalls(AsyncThread(o))
    BY <1>1, <1>2, StepsLeaveCalls, OpenCallLeavesCalls
       DEF DirectTaskStep, DirectBegin, DirectOpen, DirectOpenReturns, DirectOpened,
           openFifo, openFifoFails, openFifoReturns
  <2> QED
    BY <2>1, <2>2
<1>3. CASE StopDirectStep(o) /\ UNCHANGED <<peer, app>>
  <2>1. NoWrite(o) /\ wd'[o].pc = wd[o].pc
    BY <1>1, <1>3, StopMoves DEF NoWrite, Others, app
  <2>2. LeavesCalls(StopThread(o))
    BY <1>1, <1>3, StepsLeaveCalls, OpenCallLeavesCalls
       DEF StopDirectStep, StopDirectRelease, StopDirectReleased, StopDirectReleaseClose,
           StopDirectTakes, StopDirectClose, StopDirectDown, openFifo, openFifoFails, openFifoReturns
  <2> QED
    BY <2>1, <2>2
<1>4. CASE \/ StopDirectHandlerReturns(o) /\ DisconnectHandler(o)
           \/ Stop(o)
  <2>1. NoWrite(o) /\ wd'[o].pc = wd[o].pc
    BY <1>1, <1>4 DEF NoWrite, Others, StopDirectHandlerReturns, DisconnectHandler, Stop,
       StopDirect, DirectState
  <2>2. LeavesCalls(StopThread(o))
    BY <1>1, <1>4, StepsLeaveCalls DEF StopDirectHandlerReturns, Stop, StopDirect
  <2> QED
    BY <2>1, <2>2
<1> QED
  BY <1>2, <1>3, <1>4 DEF Opening, Stopping

(* The number that pushData() finds usable is an end of the one pipe. *)
LEMMA PushTakesOwnEnd ==
  ASSUME OnePipe, TypeOK, NEW o \in Wd, DirectWrite(o), wd'[o].pc = "writing"
  PROVE  sys'[Caller(o)].end = EndOf(addrDirect[o], "W")
<1> DEFINE t == Caller(o)
           f == wd[o].fifoFd
<1>1. t \in Thread /\ ProcOf[t] \in Process /\ addrDirect[o] \in Pipe
  BY DirectConstants, NamedPipeAssumption
<1>2. wd \in [Wd -> DirectState] /\ KernelTypeOK(Unit)
  BY DEF TypeOK
<1>3. Usable(t, f, "W") /\ IoCall(t, "write", f)
  BY <1>2 DEF DirectWrite, DirectDown, DirectState
<1>4. fdt[ProcOf[t]][f] \in End /\ fdt[ProcOf[t]][f].mode = "W"
  BY <1>1, <1>2, <1>3 DEF Usable, KernelTypeOK, NoEnd
<1>5. fdt[ProcOf[t]][f] = EndOf(addrDirect[o], "W")
  BY <1>1, <1>4 DEF End, EndOf, OnePipe
<1>6. sys'[t].end = fdt[ProcOf[t]][f]
  BY <1>1, <1>2, <1>3 DEF IoCall, KernelTypeOK
<1> QED
  BY <1>5, <1>6

(* The calling thread: all but its write() ends where no write() begins.    *)
LEMMA CallerSteps ==
  ASSUME OnePipe, TypeOK, NEW o \in Wd, Holds(o), Pushing(o),
         Configure(o) \/ Start(o) \/ Push(o) \/ Calling(o)
  PROVE  /\ LeavesCalls(Caller(o)) /\ Others(o) /\ Holds(o)'
         /\ \/ NoWrite(o) /\ wd'[o].pc # "writing"
            \/ wd'[o].pc = "writing" /\ wd'[o].written = 0
            \/ WriteMessage(o)
<1> USE DEF Others, NoWrite, Holds
<1>1. /\ KernelTypeOK(Unit) /\ wd \in [Wd -> DirectState] /\ wd[o] \in DirectState
      /\ Caller(o) \in Thread
  BY DirectConstants DEF TypeOK
<1>2. CASE Configure(o)
  BY <1>1, <1>2, StepsLeaveCalls
     DEF Configure, DirectNew, SetDirectHandler, createFifo, DirectState, app
<1>3. CASE Start(o)
  BY <1>1, <1>3, StepsLeaveCalls DEF Start, StartDirect, DirectState
<1>4. CASE Push(o)
  <2>1. LeavesCalls(Caller(o)) /\ out' = out
    BY <1>1, <1>4, StepsLeaveCalls DEF Push, PushDirect, PushThrows
  <2>2. PushDirect(o, pushed[o] + 1) \/ PushThrows(o)
    BY <1>4 DEF Push
  <2>3. wd'[o].pc \in {"idle", "write"} /\ \A q \in Wd \ {o} : wd'[q] = wd[q]
    BY <1>1, <2>2 DEF PushDirect, PushThrows, DirectState
  <2> QED
    BY <2>1, <2>3
<1>5. CASE DirectCallStep(o) /\ UNCHANGED <<peer, app>>
  <2>1. LeavesCalls(Caller(o)) /\ out' = out
    BY <1>1, <1>5, StepsLeaveCalls
       DEF DirectCallStep, DirectWaited, DirectTest, DirectThrow, DirectConnected,
           DirectStarted, DirectWrite, DirectDown, DirectWritten, DirectFails, app
  <2>2. CASE wd'[o].pc # "writing"
    BY <1>1, <1>5, <2>1, <2>2, CallMoves
  <2>3. CASE wd'[o].pc = "writing"
    <3>1. /\ wd[o].pc = "write" /\ wd'[o].written = wd[o].written
          /\ \A q \in Wd \ {o} : wd'[q] = wd[q]
      BY <1>1, <1>5, <2>3, CallMoves
    <3>2. DirectWrite(o) /\ wd'[o].written = 0
      BY <1>5, <3>1 DEF DirectCallStep, DirectWaited, DirectTest, DirectThrow,
         DirectConnected, DirectStarted, DirectWritten, DirectFails, Pushing
    <3> QED
      BY <2>1, <2>3, <3>1, <3>2, PushTakesOwnEnd
  <2> QED
    BY <2>2, <2>3
<1>6. CASE \/ ConnectHandler(o)
           \/ DirectDisconnectHandlerReturns(o) /\ DisconnectHandler(o)
  BY <1>1, <1>6, StepsLeaveCalls
     DEF ConnectHandler, DirectConnectHandlerReturns, DisconnectHandler,
         DirectDisconnectHandlerReturns, DirectState
<1>7. CASE WriteMessage(o)
  <2>1. sys' = sys /\ wd' = [wd EXCEPT ![o].written = @ + 1]
    BY <1>7 DEF WriteMessage, DirectUnits, WriteUnit
  <2>2. wd[o].pc = "writing" /\ wd'[o].pc = "writing"
    BY <1>1, <1>7, <2>1 DEF WriteMessage, DirectUnits, DirectState
  <2>3. \A q \in Wd \ {o} : wd'[q] = wd[q] /\ out'[q] = out[q]
    BY <1>7, <2>1 DEF WriteMessage, TypeOK
  <2> QED
    BY <1>7, <2>1, <2>2, <2>3 DEF LeavesCalls
<1> QED
  BY <1>2, <1>3, <1>4, <1>5, <1>6, <1>7 DEF Calling

(* The units of a message are recorded as they are counted. *)
LEMMA WroteKept ==
  ASSUME TypeOK, NEW o \in Wd, Wrote(o), Pushing(o),
         \/ NoWrite(o)
         \/ wd'[o].pc = "writing" /\ wd'[o].written = 0
         \/ WriteMessage(o)
  PROVE  Wrote(o)'
<1>1. CASE NoWrite(o)
  BY <1>1 DEF NoWrite, Wrote
<1>2. CASE wd'[o].written = 0
  BY <1>2 DEF Wrote
<1>3. CASE WriteMessage(o)
  <2> DEFINE m == wd[o].message
             u == <<m, wd[o].written + 1>>
  <2>1. /\ wd \in [Wd -> DirectState] /\ wd[o] \in DirectState /\ wd[o].written \in Nat
        /\ wd[o].pc = "writing" /\ m \in 1..MaxPushes
        /\ wd' = [wd EXCEPT ![o].written = wd[o].written + 1]
    BY <1>3, DirectFieldTypes DEF TypeOK, WriteMessage, DirectUnits, Pushing
  <2>2. wd'[o].message = m /\ wd'[o].written = wd[o].written + 1
    BY <2>1 DEF DirectState
  <2>3. out'[o] = Append(out[o], u) /\ out[o] \in Seq(Unit) /\ u \in Unit
    BY <1>3, <2>1 DEF TypeOK, WriteMessage, Unit
  <2> HIDE DEF u
  <2>4. /\ DOMAIN out[o] = 1..Len(out[o]) /\ DOMAIN out'[o] = 1..(Len(out[o]) + 1)
        /\ Len(out[o]) \in Nat /\ out'[o][Len(out[o]) + 1] = u
        /\ \A j \in 1..Len(out[o]) : out'[o][j] = out[o][j]
    BY <2>3, AppendProperties
  <2>5. Range(out[o]) \subseteq Range(out'[o]) /\ u \in Range(out'[o])
    BY <2>4 DEF Range
  <2>6. \A i \in 1..(wd[o].written + 1) : i \in 1..wd[o].written \/ i = wd[o].written + 1
    BY <2>1
  <2> QED
    BY <2>1, <2>2, <2>5, <2>6 DEF Wrote, u
<1> QED
  BY <1>1, <1>2, <1>3

LEMMA PushFrame ==
  ASSUME NEW q \in Wd, Holds(q) /\ Wrote(q), wd'[q] = wd[q], out'[q] = out[q],
         NEW t, LeavesCalls(t), t # Caller(q)
  PROVE  Holds(q)' /\ Wrote(q)'
BY DirectConstants DEF LeavesCalls, Holds, Wrote

LEMMA PushNext ==
  ASSUME OnePipe, IInv, PushInv, [Next]_vars
  PROVE  PushInv'
<1>1. TypeOK /\ \A o \in Wd : Pushing(o)
  BY DEF IInv, OrderInv
<1>2. ASSUME NEW o \in Wd, NEW t, t \in {Caller(o), AsyncThread(o), StopThread(o)},
             LeavesCalls(t), Others(o), Holds(o)', Wrote(o)'
      PROVE  PushInv'
  <2> SUFFICES ASSUME NEW q \in Wd, q # o PROVE Holds(q)' /\ Wrote(q)'
    BY <1>2 DEF PushInv
  <2>1. t # Caller(q)
    BY <1>2 DEF Caller, AsyncThread, StopThread
  <2> QED
    BY <1>2, <2>1, PushFrame DEF PushInv, Others
<1>3. ASSUME NEW o \in Wd, Configure(o) \/ Start(o) \/ Push(o) \/ Calling(o)
      PROVE  PushInv'
  <2>1. /\ LeavesCalls(Caller(o)) /\ Others(o) /\ Holds(o)'
        /\ \/ NoWrite(o)
           \/ wd'[o].pc = "writing" /\ wd'[o].written = 0
           \/ WriteMessage(o)
    BY <1>1, <1>3, CallerSteps DEF PushInv
  <2>2. Wrote(o)'
    BY <1>1, <2>1, WroteKept DEF PushInv
  <2> QED
    BY <1>2, <2>1, <2>2
<1>4. ASSUME NEW o \in Wd, Opening(o) \/ Stopping(o) \/ Stop(o)
      PROVE  PushInv'
  <2>1. PICK t \in {AsyncThread(o), StopThread(o)} : LeavesCalls(t)
    BY <1>1, <1>4, BesideSteps
  <2>2. NoWrite(o)
    BY <1>1, <1>4, BesideSteps
  <2>3. Caller(o) # t
    BY <2>1 DEF Caller, AsyncThread, StopThread
  <2>4. Holds(o)' /\ Wrote(o)'
    BY <1>1, <2>1, <2>2, <2>3, WroteKept, DirectConstants
       DEF PushInv, Holds, NoWrite, LeavesCalls
  <2> QED
    BY <1>2, <2>1, <2>2, <2>4 DEF NoWrite
<1>5. ASSUME UNCHANGED <<wd, out>>,
             \A u \in Thread : \/ sys'[u].end = sys[u].end
                               \/ \E w \in Peer : u = PeerThread(w)
      PROVE  PushInv'
  BY <1>5, DirectConstants DEF PushInv, Holds, Wrote, PeerThread, Caller
<1>6. ASSUME NEW w \in Peer, Arrive(w) \/ Enter(w) \/ Leave(w) \/ Receive(w)
      PROVE  PushInv'
  <2>1. KernelTypeOK(Unit) /\ PeerThread(w) \in Thread
    BY <1>1, PipePeerAssumption DEF TypeOK
  <2>2. LeavesCalls(PeerThread(w)) \/ sys' = sys
    BY <1>6, <2>1, StepsLeaveCalls, OpenCallLeavesCalls
       DEF Arrive, PeerOpens, openFifo, Enter, PeerEnters, openFifoReturns, Leave, PeerLeaves,
           Receive, PeerReads
  <2> QED
    BY <1>5, <1>6, <2>2 DEF LeavesCalls, Arrive, Enter, Leave, Receive, app
<1>7. ASSUME NEW p \in Pipe, Remove(p)
      PROVE  PushInv'
  BY <1>5, <1>7 DEF Remove, Unlink, app
<1>8. CASE UNCHANGED vars
  BY <1>5, <1>8 DEF vars, kernel, app
<1> QED
  BY <1>3, <1>4, <1>6, <1>7, <1>8 DEF Next

(* A write() in progress ends in two places only, and there either all its  *)
(* units are counted or it has found no reader on the end it holds.         *)
LEMMA ReturnStep ==
  ASSUME TypeOK, NEW o \in Wd, Holds(o), Wrote(o),
         \/ Configure(o) \/ Start(o) \/ Stop(o) \/ Push(o)
         \/ Opening(o) \/ Calling(o) \/ Stopping(o)
  PROVE  Returned(o)
<1>1. wd \in [Wd -> DirectState] /\ wd[o] \in DirectState
  BY DEF TypeOK
<1>2. ASSUME wd[o].pc # "writing" \/ wd'[o].pc = wd[o].pc
      PROVE  Returned(o)
  BY <1>2 DEF Returned
<1>3. CASE Opening(o) \/ Stopping(o) \/ Stop(o)
  BY <1>2, <1>3, BesideSteps
<1>4. CASE Configure(o) \/ Start(o)
  BY <1>1, <1>2, <1>4 DEF Configure, DirectNew, SetDirectHandler, Start, StartDirect
<1>5. CASE Push(o)
  <2>1. wd[o].pc = "idle"
    BY <1>5 DEF Push, PushDirect, PushThrows
  <2> QED
    BY <1>2, <2>1
<1>6. CASE \/ ConnectHandler(o)
           \/ DirectDisconnectHandlerReturns(o) /\ DisconnectHandler(o)
  BY <1>2, <1>6 DEF ConnectHandler, DirectConnectHandlerReturns,
     DirectDisconnectHandlerReturns
<1>7. CASE WriteMessage(o)
  BY <1>1, <1>2, <1>7 DEF WriteMessage, DirectUnits, DirectState
<1>8. ASSUME wd[o].pc = "writing", BrokenPipe(Caller(o))
      PROVE  Returned(o)
  BY <1>8 DEF Holds, BrokenPipe, Opposite, EndOf, Returned
<1>9. CASE DirectCallStep(o)
  <2>1. CASE wd[o].pc # "writing"
    BY <1>2, <2>1
  <2>2. CASE wd[o].pc = "writing" /\ wd[o].written = sizeN[wd[o].message]
    BY <2>2 DEF Wrote, Returned
  <2>3. CASE wd[o].pc = "writing" /\ wd[o].written # sizeN[wd[o].message]
    <3>1. BrokenPipe(Caller(o))
      BY <1>9, <2>3 DEF DirectCallStep, DirectWaited, DirectTest, DirectThrow, DirectConnected,
         DirectStarted, DirectWrite, DirectWritten, DirectFails
    <3> QED
      BY <1>8, <2>3, <3>1
  <2> QED
    BY <2>1, <2>2, <2>3
<1> QED
  BY <1>3, <1>4, <1>5, <1>6, <1>7, <1>9 DEF Calling

LEMMA ReturnAction ==
  ASSUME OnePipe, IInv, PushInv, [Next]_vars
  PROVE  [\A o \in Wd : Returned(o)]_vars
<1> SUFFICES ASSUME Next, NEW q \in Wd
             PROVE  Returned(q)
  OBVIOUS
<1>1. TypeOK /\ \A o \in Wd : Pushing(o)
  BY DEF IInv, OrderInv
<1>2. ASSUME wd'[q] = wd[q]
      PROVE  Returned(q)
  BY <1>2 DEF Returned
<1>3. ASSUME NEW o \in Wd,
             \/ Configure(o) \/ Start(o) \/ Stop(o) \/ Push(o)
             \/ Opening(o) \/ Calling(o) \/ Stopping(o)
      PROVE  Returned(q)
  <2>1. Others(o)
    BY <1>1, <1>3, CallerSteps, BesideSteps DEF NoWrite, PushInv
  <2>2. CASE q = o
    BY <1>1, <1>3, <2>2, ReturnStep DEF PushInv
  <2>3. CASE q # o
    BY <1>2, <2>1, <2>3 DEF Others
  <2> QED
    BY <2>2, <2>3
<1>4. CASE \/ \E w \in Peer : Arrive(w) \/ Enter(w) \/ Leave(w) \/ Receive(w)
           \/ \E p \in Pipe : Remove(p)
  BY <1>1, <1>2, <1>4, OthersType
<1> QED
  BY <1>3, <1>4 DEF Next

(* For objects on one pipe and any number of readers and sessions, with     *)
(* stopWrite() closing the descriptor under it at any moment: a pushData()  *)
(* that has begun to write returns with its message out, or because no      *)
(* reader was left.                                                         *)
THEOREM PushReturns ==
  ASSUME OnePipe
  PROVE  Spec => ReturnsWhenWritten
<1>1. Init => PushInv
  BY DEF Init, FifoWriteDirectInit, PushInv, Holds, Wrote
<1>2. IInv /\ PushInv /\ [Next]_vars => PushInv'
  BY PushNext
<1>3. IInv /\ PushInv /\ [Next]_vars => [\A o \in Wd : Returned(o)]_vars
  BY ReturnAction
<1> QED
  BY <1>1, <1>2, <1>3, Invariance, PTL DEF Spec, ReturnsWhenWritten
=============================================================================
