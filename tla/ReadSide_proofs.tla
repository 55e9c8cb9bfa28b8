--------------------------- MODULE ReadSide_proofs ---------------------------
(***************************************************************************)
(* Theorems about ReadSide, for any number of objects, peers, pipes and    *)
(* descriptors and any bounds: the specification is well typed, every      *)
(* disconnect callback answers a connect callback, the callbacks say what  *)
(* getWaitConnect() says, only a real end makes a disconnect, and from the *)
(* first start to the stop no unit is lost.                                *)
(***************************************************************************)
EXTENDS ReadSide, FifoLib_proofs

-----------------------------------------------------------------------------
(* Type correctness *)

LEMMA InitType == Init => TypeOK
<1> SUFFICES ASSUME Init PROVE TypeOK
  OBVIOUS
<1>1. KernelTypeOK(Nat)
  BY KernelInitType DEF Init
<1>2. rd \in [Rd -> ReadState]
  BY FifoReadInitType DEF Init
<1>3. peer \in [Peer -> PeerState]
  BY PipePeerAssumption DEF Init, PeerInit, PeerState, NoFd
<1> QED
  BY <1>1, <1>2, <1>3, ReadSideAssumption DEF Init, TypeOK

(* The owner of an object. *)
LEMMA OwnerType ==
  ASSUME TypeOK, NEW r \in Rd, Configure(r) \/ Start(r) \/ Stop(r) \/ Stopping(r)
  PROVE  TypeOK'
<1>1. KernelTypeOK(Nat) /\ rd \in [Rd -> ReadState]
  BY DEF TypeOK
<1>2. CASE Configure(r)
  <2>1. KernelTypeOK(Nat)' /\ rd' \in [Rd -> ReadState]
    BY <1>1, <1>2, ReadOwnerType DEF Configure
  <2> QED
    BY <1>2, <2>1 DEF Configure, TypeOK, app
<1>3. CASE Start(r)
  <2>1. KernelTypeOK(Nat)' /\ rd' \in [Rd -> ReadState]
    BY <1>1, <1>3, ReadOwnerType DEF Start
  <2>2. starts' \in [Rd -> 0..MaxStarts]
    BY <1>3, ReadSideAssumption DEF Start, TypeOK
  <2> QED
    BY <1>3, <2>1, <2>2 DEF Start, TypeOK
<1>4. CASE Stop(r)
  <2>1. KernelTypeOK(Nat)' /\ rd' \in [Rd -> ReadState]
    BY <1>1, <1>4, ReadOwnerType DEF Stop
  <2> QED
    BY <1>4, <2>1 DEF Stop, TypeOK, app
<1>5. CASE Stopping(r)
  <2>1. KernelTypeOK(Nat)' /\ rd' \in [Rd -> ReadState]
    BY <1>1, <1>5, StopReadType DEF Stopping
  <2> QED
    BY <1>5, <2>1 DEF Stopping, TypeOK, app
<1> QED
  BY <1>2, <1>3, <1>4, <1>5

(* The reading thread and its callbacks. *)
LEMMA ReadingType ==
  ASSUME TypeOK, NEW r \in Rd, Reading(r)
  PROVE  TypeOK'
<1>1. KernelTypeOK(Nat) /\ rd \in [Rd -> ReadState]
  BY DEF TypeOK
<1>2. CASE ReadThreadStep(r) /\ UNCHANGED <<peer, app>>
  <2>1. KernelTypeOK(Nat)' /\ rd' \in [Rd -> ReadState]
    BY <1>1, <1>2, ReadThreadType
  <2> QED
    BY <1>2, <2>1 DEF TypeOK, app
<1>3. CASE ConnectHandler(r)
  <2>1. KernelTypeOK(Nat)' /\ rd' \in [Rd -> ReadState]
    BY <1>1, <1>3, ReadCallbackType DEF ConnectHandler
  <2>2. flagConnect' \in [Rd -> Nat]
    BY <1>3 DEF ConnectHandler, TypeOK
  <2> QED
    BY <1>3, <2>1, <2>2 DEF ConnectHandler, TypeOK
<1>4. CASE DisconnectHandler(r)
  <2>1. KernelTypeOK(Nat)' /\ rd' \in [Rd -> ReadState]
    BY <1>1, <1>4, ReadCallbackType DEF DisconnectHandler
  <2>2. flagDisconnect' \in [Rd -> Nat]
    BY <1>4 DEF DisconnectHandler, TypeOK
  <2> QED
    BY <1>4, <2>1, <2>2 DEF DisconnectHandler, TypeOK
<1>5. CASE ReadMessage(r)
  <2>1. KernelTypeOK(Nat)' /\ rd' \in [Rd -> ReadState]
    BY <1>1, <1>5, ReadCallbackType DEF ReadMessage
  <2>2. sys[ReadThread(r)].call # "none"
    BY <1>5 DEF ReadMessage, ReadData, ReadReturn
  <2>3. Chunk(ReadThread(r), MaxLine) \in Seq(Nat)
    BY <1>1, <2>2, ReadConstants, ChunkType, FifoReadAssumption
  <2>4. data' \in [Rd -> Seq(Nat)]
    BY <1>5, <2>3 DEF ReadMessage, TypeOK
  <2> QED
    BY <1>5, <2>1, <2>4 DEF ReadMessage, TypeOK
<1>6. CASE MessageHandler(r)
  <2>1. KernelTypeOK(Nat)' /\ rd' \in [Rd -> ReadState]
    BY <1>1, <1>6, ReadCallbackType DEF MessageHandler
  <2> QED
    BY <1>6, <2>1 DEF MessageHandler, TypeOK, app
<1> QED
  BY <1>2, <1>3, <1>4, <1>5, <1>6 DEF Reading

(* The peers, and the removal of a path name. *)
LEMMA OthersType ==
  ASSUME TypeOK,
         \/ \E w \in Peer : Arrive(w) \/ Enter(w) \/ Leave(w) \/ Send(w)
         \/ \E p \in Pipe : Remove(p)
  PROVE  TypeOK'
<1>1. KernelTypeOK(Nat) /\ peer \in [Peer -> PeerState]
  BY DEF TypeOK
<1>2. ASSUME NEW w \in Peer, Arrive(w) \/ Enter(w) \/ Leave(w)
      PROVE  TypeOK'
  <2>1. KernelTypeOK(Nat)' /\ peer' \in [Peer -> PeerState]
    BY <1>1, <1>2, PeerVisitType DEF Arrive, Enter, Leave
  <2> QED
    BY <1>2, <2>1 DEF Arrive, Enter, Leave, TypeOK, app
<1>3. ASSUME NEW w \in Peer, Send(w)
      PROVE  TypeOK'
  <2>1. peerPipe[w] \in Pipe
    BY PipePeerAssumption
  <2>2. /\ sent[peerPipe[w]] + 1 \in Nat
        /\ sent' \in [Pipe -> 0..MaxUnits]
    BY <1>3, <2>1, ReadSideAssumption DEF Send, TypeOK
  <2>3. KernelTypeOK(Nat)'
    BY <1>1, <1>3, <2>2, PeerWritesType DEF Send
  <2> QED
    BY <1>3, <2>2, <2>3 DEF Send, PeerWrites, TypeOK
<1>4. ASSUME NEW p \in Pipe, Remove(p)
      PROVE  TypeOK'
  <2>1. KernelTypeOK(Nat)'
    BY <1>1, <1>4, PathType DEF Remove
  <2> QED
    BY <1>4, <2>1 DEF Remove, TypeOK, app
<1> QED
  BY <1>2, <1>3, <1>4

LEMMA NextType == TypeOK /\ [Next]_vars => TypeOK'
<1> SUFFICES ASSUME TypeOK, [Next]_vars
             PROVE  TypeOK'
  OBVIOUS
<1>1. CASE UNCHANGED vars
  <2>1. KernelTypeOK(Nat)'
    BY <1>1, KernelStutterType DEF vars, TypeOK
  <2> QED
    BY <1>1, <2>1 DEF vars, TypeOK, app
<1>2. CASE Next
  BY <1>2, OwnerType, ReadingType, OthersType DEF Next
<1> QED
  BY <1>1, <1>2

(* In every state the kernel's tables, the objects' fields and the counters *)
(* of the application have their types.                                     *)
THEOREM TypeCorrect == Spec => []TypeOK
BY InitType, NextType, PTL DEF Spec

-----------------------------------------------------------------------------
(* Every disconnect callback answers a connect callback *)

LEMMA InitAnswers == Init => AnswersInv
BY DEF Init, FifoReadInit, AnswersInv, Answered, Owed

(* A step that touches no object and no counter keeps the invariant. *)
LEMMA AnswersFrame ==
  ASSUME AnswersInv, UNCHANGED <<rd, flagConnect, flagDisconnect>>
  PROVE  AnswersInv'
BY DEF AnswersInv, Answered, Owed

(* A step of object r that keeps r's part keeps the invariant. *)
LEMMA AnswersLocal ==
  ASSUME AnswersInv, NEW r \in Rd, Answered(r)',
         \A q \in Rd \ {r} : /\ rd'[q] = rd[q]
                             /\ flagConnect'[q] = flagConnect[q]
                             /\ flagDisconnect'[q] = flagDisconnect[q]
  PROVE  AnswersInv'
BY DEF AnswersInv, Answered, Owed

(* The steps of the reading thread outside its callbacks. *)
LEMMA ReadThreadAnswers ==
  ASSUME TypeOK, AnswersInv, NEW r \in Rd, ReadThreadStep(r), UNCHANGED app
  PROVE  AnswersInv'
<1> USE DEF Answered, Owed
<1>0. /\ rd \in [Rd -> ReadState] /\ Answered(r)
      /\ flagConnect \in [Rd -> Nat] /\ flagDisconnect \in [Rd -> Nat]
  BY DEF TypeOK, AnswersInv
<1>1. CASE ReadConnect(r) /\ UNCHANGED app
  <2>1. Answered(r)'
    BY <1>0, <1>1 DEF ReadConnect, app, ReadState
  <2> QED
    BY <1>0, <1>1, <2>1, AnswersLocal DEF ReadConnect, app
<1>2. CASE ReadOpen(r) /\ UNCHANGED app
  <2>0. /\ rd[r].pc = "open"
        /\ \/ rd' = [rd EXCEPT ![r].pc = "opening"]
           \/ rd' = [rd EXCEPT ![r].pc = "opened", ![r].fifoFd = NoFd]
    BY <1>2 DEF ReadOpen
  <2>1. Answered(r)'
    BY <1>0, <1>2, <2>0 DEF ReadState, app
  <2> QED
    BY <1>0, <1>2, <2>0, <2>1, AnswersLocal DEF app
<1>3. CASE ReadOpenReturns(r) /\ UNCHANGED app
  <2>1. Answered(r)'
    BY <1>0, <1>3 DEF ReadOpenReturns, app, ReadState
  <2> QED
    BY <1>0, <1>3, <2>1, AnswersLocal DEF ReadOpenReturns, app
<1>4. CASE ReadOpened(r) /\ UNCHANGED app
  <2>1. Answered(r)'
    BY <1>0, <1>4 DEF ReadOpened, app, ReadState
  <2> QED
    BY <1>0, <1>4, <2>1, AnswersLocal DEF ReadOpened, app
<1>5. CASE ReadConnected(r) /\ UNCHANGED app
  <2>1. Answered(r)'
    BY <1>0, <1>5 DEF ReadConnected, app, ReadState
  <2> QED
    BY <1>0, <1>5, <2>1, AnswersLocal DEF ReadConnected, app
<1>6. CASE ReadCheck(r) /\ UNCHANGED app
  <2>1. Answered(r)'
    BY <1>0, <1>6 DEF ReadCheck, app, ReadState
  <2> QED
    BY <1>0, <1>6, <2>1, AnswersLocal DEF ReadCheck, app
<1>7. CASE ReadLoop(r) /\ UNCHANGED app
  <2>1. Answered(r)'
    BY <1>0, <1>7 DEF ReadLoop, app, ReadState
  <2> QED
    BY <1>0, <1>7, <2>1, AnswersLocal DEF ReadLoop, app
<1>8. CASE ReadCall(r) /\ UNCHANGED app
  <2>0. /\ rd[r].pc = "read"
        /\ \/ rd' = [rd EXCEPT ![r].pc = "reading"]
           \/ rd' = [rd EXCEPT ![r].pc = "disconnectH", ![r].waitConnect = FALSE]
    BY <1>8 DEF ReadCall, ReadDown
  <2>1. Answered(r)'
    BY <1>0, <1>8, <2>0 DEF ReadState, app
  <2> QED
    BY <1>0, <1>8, <2>0, <2>1, AnswersLocal DEF app
<1>9. CASE ReadEnds(r) /\ UNCHANGED app
  <2>0. /\ rd[r].pc = "reading"
        /\ rd' = [rd EXCEPT ![r].pc = "disconnectH", ![r].waitConnect = FALSE]
    BY <1>9 DEF ReadEnds, ReadDown
  <2>1. Answered(r)'
    BY <1>0, <1>9, <2>0 DEF ReadState, app
  <2> QED
    BY <1>0, <1>9, <2>0, <2>1, AnswersLocal DEF app
<1>10. CASE ReadAgain(r) /\ UNCHANGED app
  <2>1. Answered(r)'
    BY <1>0, <1>10 DEF ReadAgain, app, ReadState
  <2> QED
    BY <1>0, <1>10, <2>1, AnswersLocal DEF ReadAgain, app
<1> QED
  BY <1>1, <1>2, <1>3, <1>4, <1>5, <1>6, <1>7, <1>8, <1>9, <1>10
     DEF ReadThreadStep

(* The callbacks, and what the reading thread does around them. *)
LEMMA ReadingAnswers ==
  ASSUME TypeOK, AnswersInv, NEW r \in Rd, Reading(r)
  PROVE  AnswersInv'
<1> USE DEF Answered, Owed
<1>0. /\ rd \in [Rd -> ReadState] /\ Answered(r)
      /\ flagConnect \in [Rd -> Nat] /\ flagDisconnect \in [Rd -> Nat]
  BY DEF TypeOK, AnswersInv
<1>1. CASE ReadThreadStep(r) /\ UNCHANGED <<peer, app>>
  BY <1>1, ReadThreadAnswers
<1>2. CASE ConnectHandler(r)
  <2>1. Answered(r)'
    BY <1>0, <1>2 DEF ConnectHandler, ReadConnectHandlerReturns, ReadState
  <2> QED
    BY <1>0, <1>2, <2>1, AnswersLocal DEF ConnectHandler, ReadConnectHandlerReturns
<1>3. CASE DisconnectHandler(r)
  <2>1. Answered(r)'
    BY <1>0, <1>3 DEF DisconnectHandler, ReadDisconnectHandlerReturns, ReadState
  <2> QED
    BY <1>0, <1>3, <2>1, AnswersLocal DEF DisconnectHandler, ReadDisconnectHandlerReturns
<1>4. CASE ReadMessage(r)
  <2>1. Answered(r)'
    BY <1>0, <1>4 DEF ReadMessage, ReadData, ReadState
  <2> QED
    BY <1>0, <1>4, <2>1, AnswersLocal DEF ReadMessage, ReadData
<1>5. CASE MessageHandler(r)
  <2>1. Answered(r)'
    BY <1>0, <1>5 DEF MessageHandler, ReadMessageHandlerReturns, app, ReadState
  <2> QED
    BY <1>0, <1>5, <2>1, AnswersLocal DEF MessageHandler, ReadMessageHandlerReturns, app
<1> QED
  BY <1>1, <1>2, <1>3, <1>4, <1>5 DEF Reading

(* The owner of an object, before and while it stops. *)
LEMMA OwnerAnswers ==
  ASSUME TypeOK, AnswersInv, NEW r \in Rd, Configure(r) \/ Start(r) \/ Stop(r)
  PROVE  AnswersInv'
<1> USE DEF Answered, Owed
<1>0. /\ rd \in [Rd -> ReadState] /\ Answered(r)
      /\ flagConnect \in [Rd -> Nat] /\ flagDisconnect \in [Rd -> Nat]
  BY DEF TypeOK, AnswersInv
<1>1. CASE FifoReadNew(r) /\ UNCHANGED app
  <2>1. Answered(r)'
    BY <1>0, <1>1 DEF FifoReadNew, app, ReadState
  <2> QED
    BY <1>0, <1>1, <2>1, AnswersLocal DEF FifoReadNew, app
<1>2. CASE (\E h \in Handlers : SetReadHandler(r, h)) /\ UNCHANGED app
  <2>1. Answered(r)'
    BY <1>0, <1>2 DEF SetReadHandler, app, ReadState
  <2> QED
    BY <1>0, <1>2, <2>1, AnswersLocal DEF SetReadHandler, app
<1>3. CASE ReadReconnectTrue(r) /\ UNCHANGED app
  <2>1. Answered(r)'
    BY <1>0, <1>3 DEF ReadReconnectTrue, app, ReadState
  <2> QED
    BY <1>0, <1>3, <2>1, AnswersLocal DEF ReadReconnectTrue, app
<1>4. CASE Start(r)
  <2>1. Answered(r)'
    BY <1>0, <1>4 DEF Start, StartRead, ReadState
  <2> QED
    BY <1>0, <1>4, <2>1, AnswersLocal DEF Start, StartRead
<1>5. CASE Stop(r)
  <2>1. Answered(r)'
    BY <1>0, <1>5 DEF Stop, StopRead, app, ReadState
  <2> QED
    BY <1>0, <1>5, <2>1, AnswersLocal DEF Stop, StopRead, app
<1> QED
  BY <1>1, <1>2, <1>3, <1>4, <1>5 DEF Configure

LEMMA StoppingAnswers ==
  ASSUME TypeOK, AnswersInv, NEW r \in Rd, StopReadStep(r), UNCHANGED app
  PROVE  AnswersInv'
<1> USE DEF Answered, Owed
<1>0. /\ rd \in [Rd -> ReadState] /\ Answered(r)
      /\ flagConnect \in [Rd -> Nat] /\ flagDisconnect \in [Rd -> Nat]
  BY DEF TypeOK, AnswersInv
<1>1. CASE StopReadReconnect(r) /\ UNCHANGED app
  <2>1. Answered(r)'
    BY <1>0, <1>1 DEF StopReadReconnect, app, ReadState
  <2> QED
    BY <1>0, <1>1, <2>1, AnswersLocal DEF StopReadReconnect, app
<1>2. CASE StopReadTestOpen(r) /\ UNCHANGED app
  <2>1. Answered(r)'
    BY <1>0, <1>2 DEF StopReadTestOpen, app, ReadState
  <2> QED
    BY <1>0, <1>2, <2>1, AnswersLocal DEF StopReadTestOpen, app
<1>3. CASE StopReadRelease(r) /\ UNCHANGED app
  <2>0. /\ rd[r].ctl = "release"
        /\ \/ rd' = [rd EXCEPT ![r].ctl = "releasing"]
           \/ rd' = [rd EXCEPT ![r].ctl = "releaseClose", ![r].fd = NoFd]
    BY <1>3 DEF StopReadRelease
  <2>1. Answered(r)'
    BY <1>0, <1>3, <2>0 DEF ReadState, app
  <2> QED
    BY <1>0, <1>3, <2>0, <2>1, AnswersLocal DEF app
<1>4. CASE StopReadReleased(r) /\ UNCHANGED app
  <2>1. Answered(r)'
    BY <1>0, <1>4 DEF StopReadReleased, app, ReadState
  <2> QED
    BY <1>0, <1>4, <2>1, AnswersLocal DEF StopReadReleased, app
<1>5. CASE StopReadReleaseClose(r) /\ UNCHANGED app
  <2>1. Answered(r)'
    BY <1>0, <1>5 DEF StopReadReleaseClose, app, ReadState
  <2> QED
    BY <1>0, <1>5, <2>1, AnswersLocal DEF StopReadReleaseClose, app
<1>6. CASE StopReadClose(r) /\ UNCHANGED app
  <2>1. Answered(r)'
    BY <1>0, <1>6 DEF StopReadClose, app, ReadState
  <2> QED
    BY <1>0, <1>6, <2>1, AnswersLocal DEF StopReadClose, app
<1>7. CASE StopReadJoin(r) /\ UNCHANGED app
  <2>1. Answered(r)'
    BY <1>0, <1>7 DEF StopReadJoin, app, ReadState
  <2> QED
    BY <1>0, <1>7, <2>1, AnswersLocal DEF StopReadJoin, app
<1>8. CASE StopReadTakes(r) /\ UNCHANGED app
  <2>1. Answered(r)'
    BY <1>0, <1>8 DEF StopReadTakes, app, ReadState
  <2> QED
    BY <1>0, <1>8, <2>1, AnswersLocal DEF StopReadTakes, app
<1> QED
  BY <1>1, <1>2, <1>3, <1>4, <1>5, <1>6, <1>7, <1>8 DEF StopReadStep

LEMMA NextAnswers == TypeOK /\ AnswersInv /\ [Next]_vars => AnswersInv'
<1> SUFFICES ASSUME TypeOK, AnswersInv, [Next]_vars
             PROVE  AnswersInv'
  OBVIOUS
<1>1. CASE UNCHANGED vars
  BY <1>1, AnswersFrame DEF vars, app
<1>2. ASSUME NEW r \in Rd,
             Configure(r) \/ Start(r) \/ Stop(r) \/ Stopping(r) \/ Reading(r)
      PROVE  AnswersInv'
  BY <1>2, OwnerAnswers, StoppingAnswers, ReadingAnswers DEF Stopping
<1>3. ASSUME NEW w \in Peer, Arrive(w) \/ Enter(w) \/ Leave(w) \/ Send(w)
      PROVE  AnswersInv'
  BY <1>3, AnswersFrame DEF Arrive, Enter, Leave, Send, app
<1>4. ASSUME NEW p \in Pipe, Remove(p)
      PROVE  AnswersInv'
  BY <1>4, AnswersFrame DEF Remove, app
<1> QED
  BY <1>1, <1>2, <1>3, <1>4 DEF Next

(* The invariant says more than the property it is there for. *)
LEMMA AnswersInvImplies == TypeOK /\ AnswersInv => DisconnectAnswersConnect
BY DEF TypeOK, AnswersInv, Answered, Owed, DisconnectAnswersConnect

(* However open, read and stopRead() interleave, fail or are repeated, the  *)
(* reading thread calls disconnectHandler only for a connection for which   *)
(* it has called connectHandler, and once for each.                         *)
THEOREM CallbacksPaired == Spec => []DisconnectAnswersConnect
<1>1. Init => AnswersInv
  BY InitAnswers
<1>2. TypeOK /\ AnswersInv /\ [Next]_vars => AnswersInv'
  BY NextAnswers
<1>3. TypeOK /\ AnswersInv => DisconnectAnswersConnect
  BY AnswersInvImplies
<1> QED
  BY <1>1, <1>2, <1>3, TypeCorrect, PTL DEF Spec
-----------------------------------------------------------------------------
(* In the first session of an object, its stop included, the callbacks      *)
(* agree with waitConnect                                                   *)

(* Nothing has happened before the first start; until the stop of the first *)
(* session has returned every connect callback is answered or owed an       *)
(* answer, and the thread is on its way to a connection only with           *)
(* waitConnect reset: once runRead is reset it may go round with waitConnect *)
(* set, but then it comes to no connection any more.                        *)
Agrees(r) ==
  /\ starts[r] = 0 =>
       /\ rd[r].ctl \in {"unborn", "stopped"} /\ ~rd[r].waitConnect
       /\ flagConnect[r] = 0 /\ flagDisconnect[r] = 0
  /\ starts[r] = 1 /\ rd[r].ctl # "stopped" =>
       /\ rd[r].pc = "connected" => ~rd[r].waitConnect
       /\ rd[r].runRead /\
            rd[r].pc \in {"connect", "open", "opening", "opened", "check", "again"}
            => ~rd[r].waitConnect
       /\ flagConnect[r] = flagDisconnect[r] + Owed(r)

AgreesInv == \A r \in Rd : Agrees(r)

LEMMA InitAgrees == Init => AgreesInv
BY DEF Init, FifoReadInit, AgreesInv, Agrees, Owed

LEMMA AgreesFrame ==
  ASSUME AgreesInv, UNCHANGED <<rd, flagConnect, flagDisconnect, starts>>
  PROVE  AgreesInv'
BY DEF AgreesInv, Agrees, Owed

LEMMA AgreesLocal ==
  ASSUME AgreesInv, NEW r \in Rd, Agrees(r)',
         \A q \in Rd \ {r} : /\ rd'[q] = rd[q]
                             /\ flagConnect'[q] = flagConnect[q]
                             /\ flagDisconnect'[q] = flagDisconnect[q]
                             /\ starts'[q] = starts[q]
  PROVE  AgreesInv'
BY DEF AgreesInv, Agrees, Owed

LEMMA ReadThreadAgrees ==
  ASSUME TypeOK, AnswersInv, AgreesInv, NEW r \in Rd, ReadThreadStep(r), UNCHANGED app
  PROVE  AgreesInv'
<1> USE DEF Agrees, Answered, Owed
<1>0. /\ rd \in [Rd -> ReadState] /\ Answered(r) /\ Agrees(r)
      /\ flagConnect \in [Rd -> Nat] /\ flagDisconnect \in [Rd -> Nat]
      /\ starts \in [Rd -> 0..MaxStarts]
  BY DEF TypeOK, AnswersInv, AgreesInv
<1>1. CASE ReadConnect(r) /\ UNCHANGED app
  <2>1. Agrees(r)'
    BY <1>0, <1>1 DEF ReadConnect, app, ReadState
  <2> QED
    BY <1>0, <1>1, <2>1, AgreesLocal DEF ReadConnect, app
<1>2. CASE ReadOpen(r) /\ UNCHANGED app
  <2>0. /\ rd[r].pc = "open"
        /\ \/ rd' = [rd EXCEPT ![r].pc = "opening"]
           \/ rd' = [rd EXCEPT ![r].pc = "opened", ![r].fifoFd = NoFd]
    BY <1>2 DEF ReadOpen
  <2>1. Agrees(r)'
    BY <1>0, <1>2, <2>0 DEF ReadState, app
  <2> QED
    BY <1>0, <1>2, <2>0, <2>1, AgreesLocal DEF app
<1>3. CASE ReadOpenReturns(r) /\ UNCHANGED app
  <2>1. Agrees(r)'
    BY <1>0, <1>3 DEF ReadOpenReturns, app, ReadState
  <2> QED
    BY <1>0, <1>3, <2>1, AgreesLocal DEF ReadOpenReturns, app
<1>4. CASE ReadOpened(r) /\ UNCHANGED app
  <2>1. Agrees(r)'
    BY <1>0, <1>4 DEF ReadOpened, app, ReadState
  <2> QED
    BY <1>0, <1>4, <2>1, AgreesLocal DEF ReadOpened, app
<1>5. CASE ReadConnected(r) /\ UNCHANGED app
  <2>1. Agrees(r)'
    BY <1>0, <1>5 DEF ReadConnected, app, ReadState
  <2> QED
    BY <1>0, <1>5, <2>1, AgreesLocal DEF ReadConnected, app
<1>6. CASE ReadCheck(r) /\ UNCHANGED app
  <2>1. Agrees(r)'
    BY <1>0, <1>6 DEF ReadCheck, app, ReadState
  <2> QED
    BY <1>0, <1>6, <2>1, AgreesLocal DEF ReadCheck, app
<1>7. CASE ReadLoop(r) /\ UNCHANGED app
  <2>1. Agrees(r)'
    BY <1>0, <1>7 DEF ReadLoop, app, ReadState
  <2> QED
    BY <1>0, <1>7, <2>1, AgreesLocal DEF ReadLoop, app
<1>8. CASE ReadCall(r) /\ UNCHANGED app
  <2>0. /\ rd[r].pc = "read"
        /\ \/ rd' = [rd EXCEPT ![r].pc = "reading"]
           \/ rd' = [rd EXCEPT ![r].pc = "disconnectH", ![r].waitConnect = FALSE]
    BY <1>8 DEF ReadCall, ReadDown
  <2>1. Agrees(r)'
    BY <1>0, <1>8, <2>0 DEF ReadState, app
  <2> QED
    BY <1>0, <1>8, <2>0, <2>1, AgreesLocal DEF app
<1>9. CASE ReadEnds(r) /\ UNCHANGED app
  <2>0. /\ rd[r].pc = "reading"
        /\ rd' = [rd EXCEPT ![r].pc = "disconnectH", ![r].waitConnect = FALSE]
    BY <1>9 DEF ReadEnds, ReadDown
  <2>1. Agrees(r)'
    BY <1>0, <1>9, <2>0 DEF ReadState, app
  <2> QED
    BY <1>0, <1>9, <2>0, <2>1, AgreesLocal DEF app
<1>10. CASE ReadAgain(r) /\ UNCHANGED app
  <2>1. Agrees(r)'
    BY <1>0, <1>10 DEF ReadAgain, app, ReadState
  <2> QED
    BY <1>0, <1>10, <2>1, AgreesLocal DEF ReadAgain, app
<1> QED
  BY <1>1, <1>2, <1>3, <1>4, <1>5, <1>6, <1>7, <1>8, <1>9, <1>10
     DEF ReadThreadStep

LEMMA ReadingAgrees ==
  ASSUME TypeOK, AnswersInv, AgreesInv, NEW r \in Rd, Reading(r)
  PROVE  AgreesInv'
<1> USE DEF Agrees, Answered, Owed
<1>0. /\ rd \in [Rd -> ReadState] /\ Answered(r) /\ Agrees(r)
      /\ flagConnect \in [Rd -> Nat] /\ flagDisconnect \in [Rd -> Nat]
      /\ starts \in [Rd -> 0..MaxStarts]
  BY DEF TypeOK, AnswersInv, AgreesInv
<1>1. CASE ReadThreadStep(r) /\ UNCHANGED <<peer, app>>
  BY <1>1, ReadThreadAgrees
<1>2. CASE ConnectHandler(r)
  <2>1. Agrees(r)'
    BY <1>0, <1>2 DEF ConnectHandler, ReadConnectHandlerReturns, ReadState
  <2> QED
    BY <1>0, <1>2, <2>1, AgreesLocal DEF ConnectHandler, ReadConnectHandlerReturns
<1>3. CASE DisconnectHandler(r)
  <2>1. Agrees(r)'
    BY <1>0, <1>3 DEF DisconnectHandler, ReadDisconnectHandlerReturns, ReadState
  <2> QED
    BY <1>0, <1>3, <2>1, AgreesLocal DEF DisconnectHandler, ReadDisconnectHandlerReturns
<1>4. CASE ReadMessage(r)
  <2>1. Agrees(r)'
    BY <1>0, <1>4 DEF ReadMessage, ReadData, ReadState
  <2> QED
    BY <1>0, <1>4, <2>1, AgreesLocal DEF ReadMessage, ReadData
<1>5. CASE MessageHandler(r)
  <2>1. Agrees(r)'
    BY <1>0, <1>5 DEF MessageHandler, ReadMessageHandlerReturns, app, ReadState
  <2> QED
    BY <1>0, <1>5, <2>1, AgreesLocal DEF MessageHandler, ReadMessageHandlerReturns, app
<1> QED
  BY <1>1, <1>2, <1>3, <1>4, <1>5 DEF Reading

LEMMA OwnerAgrees ==
  ASSUME TypeOK, AnswersInv, AgreesInv, NEW r \in Rd, Configure(r) \/ Start(r) \/ Stop(r)
  PROVE  AgreesInv'
<1> USE DEF Agrees, Answered, Owed
<1>0. /\ rd \in [Rd -> ReadState] /\ Answered(r) /\ Agrees(r)
      /\ flagConnect \in [Rd -> Nat] /\ flagDisconnect \in [Rd -> Nat]
      /\ starts \in [Rd -> 0..MaxStarts]
  BY DEF TypeOK, AnswersInv, AgreesInv
<1>1. CASE FifoReadNew(r) /\ UNCHANGED app
  <2>1. Agrees(r)'
    BY <1>0, <1>1 DEF FifoReadNew, app, ReadState
  <2> QED
    BY <1>0, <1>1, <2>1, AgreesLocal DEF FifoReadNew, app
<1>2. CASE (\E h \in Handlers : SetReadHandler(r, h)) /\ UNCHANGED app
  <2>1. Agrees(r)'
    BY <1>0, <1>2 DEF SetReadHandler, app, ReadState
  <2> QED
    BY <1>0, <1>2, <2>1, AgreesLocal DEF SetReadHandler, app
<1>3. CASE ReadReconnectTrue(r) /\ UNCHANGED app
  <2>1. Agrees(r)'
    BY <1>0, <1>3 DEF ReadReconnectTrue, app, ReadState
  <2> QED
    BY <1>0, <1>3, <2>1, AgreesLocal DEF ReadReconnectTrue, app
<1>4. CASE Start(r)
  <2>1. Agrees(r)'
    BY <1>0, <1>4 DEF Start, StartRead, ReadState
  <2> QED
    BY <1>0, <1>4, <2>1, AgreesLocal DEF Start, StartRead
<1>5. CASE Stop(r)
  <2>1. Agrees(r)'
    BY <1>0, <1>5 DEF Stop, StopRead, app, ReadState
  <2> QED
    BY <1>0, <1>5, <2>1, AgreesLocal DEF Stop, StopRead, app
<1> QED
  BY <1>1, <1>2, <1>3, <1>4, <1>5 DEF Configure

LEMMA StoppingAgrees ==
  ASSUME TypeOK, AnswersInv, AgreesInv, NEW r \in Rd, StopReadStep(r), UNCHANGED app
  PROVE  AgreesInv'
<1> USE DEF Agrees, Answered, Owed
<1>0. /\ rd \in [Rd -> ReadState] /\ Answered(r) /\ Agrees(r)
      /\ flagConnect \in [Rd -> Nat] /\ flagDisconnect \in [Rd -> Nat]
      /\ starts \in [Rd -> 0..MaxStarts]
  BY DEF TypeOK, AnswersInv, AgreesInv
<1>1. CASE StopReadReconnect(r) /\ UNCHANGED app
  <2>1. Agrees(r)'
    BY <1>0, <1>1 DEF StopReadReconnect, app, ReadState
  <2> QED
    BY <1>0, <1>1, <2>1, AgreesLocal DEF StopReadReconnect, app
<1>2. CASE StopReadTestOpen(r) /\ UNCHANGED app
  <2>1. Agrees(r)'
    BY <1>0, <1>2 DEF StopReadTestOpen, app, ReadState
  <2> QED
    BY <1>0, <1>2, <2>1, AgreesLocal DEF StopReadTestOpen, app
<1>3. CASE StopReadRelease(r) /\ UNCHANGED app
  <2>0. /\ rd[r].ctl = "release"
        /\ \/ rd' = [rd EXCEPT ![r].ctl = "releasing"]
           \/ rd' = [rd EXCEPT ![r].ctl = "releaseClose", ![r].fd = NoFd]
    BY <1>3 DEF StopReadRelease
  <2>1. Agrees(r)'
    BY <1>0, <1>3, <2>0 DEF ReadState, app
  <2> QED
    BY <1>0, <1>3, <2>0, <2>1, AgreesLocal DEF app
<1>4. CASE StopReadReleased(r) /\ UNCHANGED app
  <2>1. Agrees(r)'
    BY <1>0, <1>4 DEF StopReadReleased, app, ReadState
  <2> QED
    BY <1>0, <1>4, <2>1, AgreesLocal DEF StopReadReleased, app
<1>5. CASE StopReadReleaseClose(r) /\ UNCHANGED app
  <2>1. Agrees(r)'
    BY <1>0, <1>5 DEF StopReadReleaseClose, app, ReadState
  <2> QED
    BY <1>0, <1>5, <2>1, AgreesLocal DEF StopReadReleaseClose, app
<1>6. CASE StopReadClose(r) /\ UNCHANGED app
  <2>1. Agrees(r)'
    BY <1>0, <1>6 DEF StopReadClose, app, ReadState
  <2> QED
    BY <1>0, <1>6, <2>1, AgreesLocal DEF StopReadClose, app
<1>7. CASE StopReadJoin(r) /\ UNCHANGED app
  <2>1. Agrees(r)'
    BY <1>0, <1>7 DEF StopReadJoin, app, ReadState
  <2> QED
    BY <1>0, <1>7, <2>1, AgreesLocal DEF StopReadJoin, app
<1>8. CASE StopReadTakes(r) /\ UNCHANGED app
  <2>1. Agrees(r)'
    BY <1>0, <1>8 DEF StopReadTakes, app, ReadState
  <2> QED
    BY <1>0, <1>8, <2>1, AgreesLocal DEF StopReadTakes, app
<1> QED
  BY <1>1, <1>2, <1>3, <1>4, <1>5, <1>6, <1>7, <1>8 DEF StopReadStep

LEMMA NextAgrees == TypeOK /\ AnswersInv /\ AgreesInv /\ [Next]_vars => AgreesInv'
<1> SUFFICES ASSUME TypeOK, AnswersInv, AgreesInv, [Next]_vars
             PROVE  AgreesInv'
  OBVIOUS
<1>1. CASE UNCHANGED vars
  BY <1>1, AgreesFrame DEF vars, app
<1>2. ASSUME NEW r \in Rd,
             Configure(r) \/ Start(r) \/ Stop(r) \/ Stopping(r) \/ Reading(r)
      PROVE  AgreesInv'
  BY <1>2, OwnerAgrees, StoppingAgrees, ReadingAgrees DEF Stopping
<1>3. ASSUME NEW w \in Peer, Arrive(w) \/ Enter(w) \/ Leave(w) \/ Send(w)
      PROVE  AgreesInv'
  BY <1>3, AgreesFrame DEF Arrive, Enter, Leave, Send, app
<1>4. ASSUME NEW p \in Pipe, Remove(p)
      PROVE  AgreesInv'
  BY <1>4, AgreesFrame DEF Remove, app
<1> QED
  BY <1>1, <1>2, <1>3, <1>4 DEF Next

LEMMA AgreesInvImplies == TypeOK /\ AgreesInv => CallbacksAgreeWithFlag
BY DEF TypeOK, AgreesInv, Agrees, Owed, CallbacksAgreeWithFlag

(* In the first session of any object, until its stopRead() has returned    *)
(* and whatever its pipe, its peers and their failures do, the connect      *)
(* callbacks exceed the disconnect callbacks by one exactly while           *)
(* waitConnect is set.                                                      *)
THEOREM CallbacksFollowFlag == Spec => []CallbacksAgreeWithFlag
<1>1. Init => AnswersInv /\ AgreesInv
  BY InitAnswers, InitAgrees
<1>2. TypeOK /\ AnswersInv /\ AgreesInv /\ [Next]_vars => AnswersInv' /\ AgreesInv'
  BY NextAnswers, NextAgrees
<1>3. TypeOK /\ AgreesInv => CallbacksAgreeWithFlag
  BY AgreesInvImplies
<1> QED
  BY <1>1, <1>2, <1>3, TypeCorrect, PTL DEF Spec
-----------------------------------------------------------------------------
(* Nothing is lost in a first session *)

LEMMA DataTypes ==
  ASSUME TypeOK, NEW r \in Rd
  PROVE  /\ data \in [Rd -> Seq(Nat)] /\ data[r] \in Seq(Nat)
         /\ addrRead[r] \in Pipe
         /\ buf \in [Pipe -> Seq(Nat)] /\ buf[addrRead[r]] \in Seq(Nat)
         /\ sent \in [Pipe -> 0..MaxUnits] /\ sent[addrRead[r]] \in Nat
BY FifoReadAssumption, ReadSideAssumption DEF TypeOK, KernelTypeOK

(* What a read takes and what it leaves. *)
LEMMA ChunkSplits ==
  ASSUME TypeOK, NEW r \in Rd, NEW p \in Pipe, ReadReturn(ReadThread(r), MaxLine),
         sys[ReadThread(r)].end.pipe = p
  PROVE  \E z \in Seq(Nat) :
           /\ Chunk(ReadThread(r), MaxLine) \in Seq(Nat)
           /\ buf[p] = Chunk(ReadThread(r), MaxLine) \o z
           /\ buf'[p] = (IF Live(p)' THEN z ELSE <<>>)
<1> DEFINE b == buf[p]
           n == MaxLine
<1>0. b \in Seq(Nat) /\ n \in Nat \ {0} /\ Len(b) \in Nat /\ Contents(ReadThread(r)) = b
  BY FifoReadAssumption DEF TypeOK, KernelTypeOK, Contents
<1>1. buf' = Remaining([buf EXCEPT ![p] = IF Len(b) <= n
                                          THEN <<>> ELSE SubSeq(b, n + 1, Len(b))])
  BY <1>0 DEF ReadReturn
<1>2. CASE Len(b) <= n
  <2>1. Chunk(ReadThread(r), MaxLine) = b
    BY <1>0, <1>2 DEF Chunk
  <2>2. buf'[p] = (IF Live(p)' THEN <<>> ELSE <<>>)
    BY <1>1, <1>2 DEF Remaining, TypeOK, KernelTypeOK
  <2>3. b = b \o <<>> /\ <<>> \in Seq(Nat)
    BY <1>0, ConcatEmptySeq
  <2> QED
    BY <1>0, <2>1, <2>2, <2>3
<1>3. CASE ~(Len(b) <= n)
  <2> DEFINE z == SubSeq(b, n + 1, Len(b))
  <2>1. Chunk(ReadThread(r), MaxLine) = SubSeq(b, 1, n)
    BY <1>0, <1>3 DEF Chunk
  <2>2. buf'[p] = (IF Live(p)' THEN z ELSE <<>>)
    BY <1>1, <1>3 DEF Remaining, TypeOK, KernelTypeOK
  <2>3. SubSeq(b, 1, n) \in Seq(Nat) /\ z \in Seq(Nat)
    BY <1>0, <1>3, SubSeqProperties
  <2>4. SubSeq(b, 1, n) \o z = SubSeq(b, 1, Len(b))
    <3>1. 1 \in 1..Len(b) + 1 /\ n \in 1 - 1..Len(b) /\ Len(b) \in n..Len(b)
      BY <1>0, <1>3
    <3> QED
      BY <1>0, <3>1, ConcatAdjacentSubSeq
  <2>5. SubSeq(b, 1, Len(b)) = b
    BY <1>0, SubSeqFull
  <2> QED
    BY <2>1, <2>2, <2>3, <2>4, <2>5
<1> QED
  BY <1>2, <1>3

(* The setting of the property: an object is alone in its process and on    *)
(* its pipe, and the peers are other programs.  Another reader of the pipe  *)
(* would take its data, and another object of the process could read from   *)
(* its descriptor, or close it, by a number it has kept.                    *)
Home(r) == ProcOf[Caller(r)]

Separate ==
  /\ \A q, r \in Rd : q # r => Home(q) # Home(r) /\ addrRead[q] # addrRead[r]
  /\ \A r \in Rd, w \in Peer : ProcOf[PeerThread(w)] # Home(r)

ReadEnd(r) == EndOf(addrRead[r], "R")
WriteEnd(r) == EndOf(addrRead[r], "W")

(* The reading end of r's pipe is with r and nobody else. *)
Elsewhere(r) ==
  /\ \A u \in Thread \ {ReadThread(r)} : sys[u].end # ReadEnd(r)
  /\ \A q \in Process \ {Home(r)}, f \in Fd : fdt[q][f] # ReadEnd(r)

(* The descriptors of r's process and the calls of its two threads. *)
OwnEnds(r) ==
  /\ \A f \in Fd : fdt[Home(r)][f] \in {ReadEnd(r), WriteEnd(r), NoEnd}
  /\ sys[ReadThread(r)].end \in {ReadEnd(r), NoEnd}
  /\ sys[Caller(r)].end \in {WriteEnd(r), NoEnd}
  /\ sys[ReadThread(r)].call = "open" =>
       sys[ReadThread(r)].fd \in Fd /\ rd[r].pc = "opening"

(* Before the first session nothing is open, and nothing in the pipe. *)
Fresh(r) ==
  /\ rd[r].ctl \in {"unborn", "stopped"}
  /\ \A f \in Fd : fdt[Home(r)][f] = NoEnd
  /\ buf[addrRead[r]] = <<>> /\ sys[ReadThread(r)].end = NoEnd

(* From its first open on, a running object holds its end: in a descriptor, *)
(* or in the call that is going to give it one.                             *)
Kept(r) ==
  \/ \E f \in Fd : fdt[Home(r)][f] = ReadEnd(r)
  \/ sys[ReadThread(r)].call = "open" /\ sys[ReadThread(r)].end = ReadEnd(r)
  \/ buf[addrRead[r]] = <<>> /\ sys[ReadThread(r)].end = NoEnd

Keeps(r) ==
  /\ Elsewhere(r)
  /\ OwnEnds(r)
  /\ rd[r].runRead => rd[r].ctl = "started"
  /\ starts[r] = 0 => Fresh(r)
  /\ starts[r] = 1 /\ rd[r].ctl = "started" => Kept(r)

KeepsInv == \A r \in Rd : Keeps(r)

LEMMA HomeThreads ==
  ASSUME NEW r \in Rd
  PROVE  /\ ReadThread(r) \in Thread /\ Caller(r) \in Thread
         /\ ReadThread(r) # Caller(r)
         /\ Home(r) \in Process /\ ProcOf[ReadThread(r)] = Home(r)
         /\ ReadEnd(r) \in End /\ WriteEnd(r) \in End /\ NoEnd \notin End
         /\ ReadEnd(r) # WriteEnd(r)
BY NamedPipeAssumption, FifoReadAssumption
   DEF Home, ReadThread, Caller, ReadEnd, WriteEnd, EndOf, End, NoEnd

LEMMA InitKeeps == Init => KeepsInv
<1> SUFFICES ASSUME Init, NEW r \in Rd
             PROVE  Keeps(r)
  BY DEF KeepsInv
<1>1. /\ \A t \in Thread : sys[t] = Idle
      /\ \A q \in Process, f \in Fd : fdt[q][f] = NoEnd
      /\ buf[addrRead[r]] = <<>>
  BY FifoReadAssumption DEF Init, KernelInit
<1>2. rd[r].ctl = "unborn" /\ ~rd[r].runRead /\ starts[r] = 0
  BY DEF Init, FifoReadInit
<1>3. NoEnd # ReadEnd(r)
  BY HomeThreads
<1> QED
  BY <1>1, <1>2, <1>3, HomeThreads
     DEF Keeps, Elsewhere, OwnEnds, Fresh, Idle

(* A pipe may lose its contents in a step, if none of its ends remains. *)
Forgets(p) == buf'[p] \in {buf[p], IF Live(p)' THEN buf[p] ELSE <<>>}

LEMMA HolderLives ==
  ASSUME NEW r \in Rd,
         (\E f \in Fd : fdt'[Home(r)][f] = ReadEnd(r)) \/ sys'[ReadThread(r)].end = ReadEnd(r)
  PROVE  Live(addrRead[r])'
BY HomeThreads DEF Live, Held, ReadEnd

LEMMA NoOtherHolds ==
  ASSUME NEW r \in Rd, Elsewhere(r), Held(ReadEnd(r))
  PROVE  (\E f \in Fd : fdt[Home(r)][f] = ReadEnd(r)) \/ sys[ReadThread(r)].end = ReadEnd(r)
BY DEF Elsewhere, Held

-----------------------------------------------------------------------------
(* The steps of everybody else. *)
Beside(r) ==
  /\ rd'[r] = rd[r] /\ starts'[r] = starts[r] /\ data'[r] = data[r]
  /\ Elsewhere(r)'
  /\ fdt'[Home(r)] = fdt[Home(r)]
  /\ sys'[ReadThread(r)].call = sys[ReadThread(r)].call
  /\ sys'[ReadThread(r)].end = sys[ReadThread(r)].end
  /\ sys'[ReadThread(r)].fd = sys[ReadThread(r)].fd
  /\ sys'[Caller(r)].end = sys[Caller(r)].end
  /\ \/ Forgets(addrRead[r])
     \/ /\ Held(ReadEnd(r))
        /\ buf'[addrRead[r]] = Append(buf[addrRead[r]], sent'[addrRead[r]])

(* What is written, and what is taken, next to what was delivered. *)
LEMMA AppendOut ==
  ASSUME NEW d \in Seq(Nat), NEW b \in Seq(Nat), NEW n \in Nat
  PROVE  d \o Append(b, n) = Append(d \o b, n)
BY AppendIsConcat, ConcatAssociative, ConcatProperties

LEMMA TakenOut ==
  ASSUME NEW d \in Seq(Nat), NEW a \in Seq(Nat), NEW z \in Seq(Nat)
  PROVE  (d \o a) \o z = d \o (a \o z)
BY ConcatAssociative

LEMMA BesideKeeps ==
  ASSUME TypeOK, TypeOK', NEW r \in Rd, Keeps(r), Beside(r)
  PROVE  Keeps(r)' /\ NothingLost(r)
<1>1. OwnEnds(r)'
  BY DEF Keeps, OwnEnds, Beside
<1>2. \/ \E f \in Fd : fdt[Home(r)][f] = ReadEnd(r)
      \/ sys[ReadThread(r)].end = ReadEnd(r)
      \/ buf'[addrRead[r]] \in {buf[addrRead[r]], <<>>}
  BY NoOtherHolds DEF Beside, Forgets, Keeps
<1>3. ReadEnd(r) # NoEnd
  BY HomeThreads
<1>4. starts'[r] = 0 => Fresh(r)'
  BY <1>2, <1>3 DEF Keeps, Fresh, Beside
<1>5. starts'[r] = 1 /\ rd'[r].ctl = "started" => Kept(r)'
  BY <1>2, <1>3 DEF Keeps, Kept, Beside
<1>6. NothingLost(r)
  <2> SUFFICES ASSUME starts[r] = 1, rd[r].runRead
               PROVE  data'[r] \o buf'[addrRead[r]] \in
                        {data[r] \o buf[addrRead[r]],
                         Append(data[r] \o buf[addrRead[r]], sent'[addrRead[r]])}
    BY DEF NothingLost
  <2>1. Kept(r)
    BY DEF Keeps
  <2>2. CASE Forgets(addrRead[r])
    <3>1. Live(addrRead[r])' \/ buf[addrRead[r]] = <<>>
      BY <2>1, HolderLives DEF Kept, Beside
    <3>2. buf'[addrRead[r]] = buf[addrRead[r]]
      BY <2>2, <3>1 DEF Forgets
    <3> QED
      BY <3>2 DEF Beside
  <2>3. CASE buf'[addrRead[r]] = Append(buf[addrRead[r]], sent'[addrRead[r]])
    <3>1. /\ data[r] \in Seq(Nat) /\ buf[addrRead[r]] \in Seq(Nat)
          /\ sent'[addrRead[r]] \in Nat
      BY DataTypes, ReadConstants, ReadSideAssumption DEF TypeOK
    <3>2. data[r] \o Append(buf[addrRead[r]], sent'[addrRead[r]])
            = Append(data[r] \o buf[addrRead[r]], sent'[addrRead[r]])
      BY <3>1, AppendOut
    <3>3. data'[r] = data[r]
      BY DEF Beside
    <3> QED
      BY <2>3, <3>2, <3>3
  <2> QED
    BY <2>2, <2>3 DEF Beside
<1> QED
  BY <1>1, <1>4, <1>5, <1>6 DEF Keeps, Beside

(* A system call of another process.  What a read returns may be data of    *)
(* another pipe only.                                                       *)
BesideCall(r, t) ==
  \/ UNCHANGED kernel \/ OpenReturn(t) \/ IoReturn(t)
  \/ (\E f : Close(t, f)) \/ (\E p : Mkfifo(p) \/ Unlink(p))
  \/ \E e : e # ReadEnd(r) /\ OpenCall(t, e)
  \/ \E c, f, m : Usable(t, f, m) /\ IoCall(t, c, f)
  \/ \E n : ReadReturn(t, n) /\ sys[t].end.pipe # addrRead[r]

LEMMA BesideCallFrame ==
  ASSUME TypeOK, NEW r \in Rd, NEW t \in Thread, ProcOf[t] # Home(r), Elsewhere(r),
         BesideCall(r, t)
  PROVE  /\ Elsewhere(r)'
         /\ fdt'[Home(r)] = fdt[Home(r)]
         /\ LeavesCalls(t)
         /\ Forgets(addrRead[r])
<1>1. t # ReadThread(r) /\ ProcOf[t] \in Process \ {Home(r)} /\ NoEnd # ReadEnd(r)
  BY HomeThreads, NamedPipeAssumption
<1>2. KernelTypeOK(Nat)
  BY DEF TypeOK
<1>3. LeavesCalls(t)
  BY <1>2, OpenCallLeavesCalls, StepsLeaveCalls DEF BesideCall
<1>4. sys'[t].end # ReadEnd(r)
  <2>1. sys[t].end # ReadEnd(r)
    BY <1>1 DEF Elsewhere
  <2>2. CASE UNCHANGED kernel \/ (\E f : Close(t, f)) \/ (\E p : Mkfifo(p) \/ Unlink(p))
    BY <2>1, <2>2 DEF kernel, Close, Mkfifo, Unlink
  <2>3. CASE OpenReturn(t) \/ IoReturn(t) \/ (\E n : ReadReturn(t, n))
    <3>1. sys'[t] = Idle
      BY <1>2, <2>3 DEF OpenReturn, IoReturn, ReadReturn, KernelTypeOK
    <3> QED
      BY <1>1, <3>1 DEF Idle
  <2>4. CASE \E e : e # ReadEnd(r) /\ OpenCall(t, e)
    <3>1. PICK e : e # ReadEnd(r) /\ OpenCall(t, e)
      BY <2>4
    <3>2. sys'[t].end = e
      BY <3>1 DEF OpenCall
    <3> QED
      BY <3>1, <3>2
  <2>5. CASE \E c, f, m : Usable(t, f, m) /\ IoCall(t, c, f)
    <3>1. PICK c, f, m : Usable(t, f, m) /\ IoCall(t, c, f)
      BY <2>5
    <3>2. f \in Fd /\ sys'[t].end = fdt[ProcOf[t]][f]
      BY <1>2, <3>1 DEF Usable, IoCall, KernelTypeOK
    <3> QED
      BY <1>1, <3>2 DEF Elsewhere
  <2> QED
    BY <2>2, <2>3, <2>4, <2>5 DEF BesideCall
<1>5. \A u \in Thread \ {ReadThread(r)} : sys'[u].end # ReadEnd(r)
  BY <1>3, <1>4 DEF LeavesCalls, Elsewhere
<1>6. /\ \A q \in Process \ {Home(r)}, f \in Fd : fdt'[q][f] # ReadEnd(r)
      /\ fdt'[Home(r)] = fdt[Home(r)]
  <2>1. /\ Home(r) \in Process /\ fdt \in [Process -> [Fd -> End \cup {NoEnd}]]
        /\ \A q \in Process \ {Home(r)}, f \in Fd : fdt[q][f] # ReadEnd(r)
        /\ sys[t].end # ReadEnd(r)
    BY <1>1, <1>2, HomeThreads DEF KernelTypeOK, Elsewhere
  <2>2. CASE OpenReturn(t)
    BY <1>1, <2>1, <2>2 DEF OpenReturn
  <2>3. CASE \E f : Close(t, f)
    BY <1>1, <2>1, <2>3 DEF Close
  <2>4. CASE fdt' = fdt
    BY <2>1, <2>4
  <2>5. OpenReturn(t) \/ (\E f : Close(t, f)) \/ fdt' = fdt
    BY DEF BesideCall, kernel, IoReturn, Mkfifo, Unlink, OpenCall, IoCall, ReadReturn
  <2> QED
    BY <2>2, <2>3, <2>4, <2>5
<1>7. Forgets(addrRead[r])
  <2>1. addrRead[r] \in Pipe
    BY ReadConstants
  <2>2. CASE buf' = buf \/ buf' = Remaining(buf)
    BY <2>1, <2>2 DEF Forgets, Remaining
  <2>3. CASE \E n : ReadReturn(t, n) /\ sys[t].end.pipe # addrRead[r]
    <3>1. PICK n : ReadReturn(t, n) /\ sys[t].end.pipe # addrRead[r]
      BY <2>3
    <3> DEFINE rest == IF Len(Contents(t)) <= n
                       THEN <<>> ELSE SubSeq(Contents(t), n + 1, Len(Contents(t)))
               b    == [buf EXCEPT ![sys[t].end.pipe] = rest]
    <3>2. buf' = Remaining(b)
      BY <3>1 DEF ReadReturn
    <3>3. b[addrRead[r]] = buf[addrRead[r]]
      BY <1>2, <2>1, <3>1 DEF KernelTypeOK
    <3> HIDE DEF b
    <3> QED
      BY <2>1, <3>2, <3>3 DEF Forgets, Remaining
  <2> QED
    BY <2>2, <2>3 DEF BesideCall, kernel, OpenReturn, IoReturn, Close, Mkfifo, Unlink,
                      OpenCall, IoCall
<1> QED
  BY <1>3, <1>5, <1>6, <1>7 DEF Elsewhere

LEMMA BesideFrame ==
  ASSUME TypeOK, NEW r \in Rd, NEW t \in Thread, ProcOf[t] # Home(r), Elsewhere(r),
         BesideCall(r, t),
         rd'[r] = rd[r], starts'[r] = starts[r], data'[r] = data[r]
  PROVE  Beside(r)
<1>1. t # ReadThread(r) /\ t # Caller(r)
  BY HomeThreads DEF Home
<1> QED
  BY <1>1, BesideCallFrame, HomeThreads DEF Beside, LeavesCalls

(* The peers, and the removal of a path name. *)
LEMMA PeersBeside ==
  ASSUME Separate, TypeOK, NEW r \in Rd, Keeps(r), NEW w \in Peer,
         Arrive(w) \/ Enter(w) \/ Leave(w) \/ Send(w)
  PROVE  Beside(r)
<1>1. PeerThread(w) \in Thread /\ ProcOf[PeerThread(w)] # Home(r) /\ Elsewhere(r)
  BY PipePeerAssumption DEF Separate, Keeps
<1>2. CASE Arrive(w) \/ Enter(w) \/ Leave(w)
  <2>1. EndOf(peerPipe[w], "W") # ReadEnd(r)
    BY DEF EndOf, ReadEnd
  <2>2. BesideCall(r, PeerThread(w))
    BY <1>2, <2>1 DEF BesideCall, Arrive, Enter, Leave, PeerOpens, PeerEnters, PeerLeaves,
                      openFifo, openFifoReturns
  <2> QED
    BY <1>1, <1>2, <2>2, BesideFrame DEF Arrive, Enter, Leave, app
<1>3. CASE Send(w)
  <2>1. Elsewhere(r)'
    BY <1>1, <1>3 DEF Send, PeerWrites, Elsewhere
  <2>2. CASE peerPipe[w] = addrRead[r]
    <3>1. Held(ReadEnd(r)) /\ buf'[addrRead[r]] = Append(buf[addrRead[r]], sent'[addrRead[r]])
      BY <1>3, <2>2, ReadConstants DEF Send, PeerWrites, ReadEnd, TypeOK, KernelTypeOK
    <3> QED
      BY <1>3, <2>1, <3>1 DEF Send, PeerWrites, Beside
  <2>3. CASE peerPipe[w] # addrRead[r]
    <3>1. buf'[addrRead[r]] = buf[addrRead[r]]
      BY <1>3, <2>3, ReadConstants DEF Send, PeerWrites, TypeOK, KernelTypeOK
    <3> QED
      BY <1>3, <2>1, <3>1 DEF Send, PeerWrites, Beside, Forgets
  <2> QED
    BY <2>2, <2>3
<1> QED
  BY <1>2, <1>3

LEMMA QuietBeside ==
  ASSUME NEW r \in Rd, Keeps(r), UNCHANGED vars \/ \E p \in Pipe : Remove(p)
  PROVE  Beside(r)
<1>1. UNCHANGED <<fdt, sys, buf, rd, starts, data>>
  BY DEF Remove, Unlink, vars, kernel, app
<1> QED
  BY <1>1 DEF Beside, Keeps, Elsewhere, Forgets

(* Another object, in a process of its own and on a pipe of its own. *)
LEMMA ReaderCalls ==
  ASSUME Separate, TypeOK, NEW r \in Rd, NEW q \in Rd, q # r, Keeps(q),
         Configure(q) \/ Start(q) \/ Stop(q) \/ Stopping(q) \/ Reading(q)
  PROVE  \E t \in {ReadThread(q), Caller(q)} : BesideCall(r, t)
<1>1. EndOf(addrRead[q], "W") # ReadEnd(r) /\ EndOf(addrRead[q], "R") # ReadEnd(r)
  BY DEF Separate, EndOf, ReadEnd
<1>2. CASE Configure(q) \/ Start(q) \/ Stop(q)
  BY <1>2 DEF BesideCall, Configure, FifoReadNew, createFifo, SetReadHandler,
              ReadReconnectTrue, Start, StartRead, Stop, StopRead
<1>3. CASE Stopping(q)
  BY <1>1, <1>3 DEF BesideCall, Stopping, StopReadStep, StopReadReconnect, StopReadTestOpen,
              StopReadRelease, StopReadReleased, StopReadReleaseClose, StopReadTakes,
              StopReadClose, StopReadJoin, openFifo, openFifoFails, openFifoReturns
<1>4. CASE ReadMessage(q)
  <2>1. ReadReturn(ReadThread(q), MaxLine)
    BY <1>4 DEF ReadMessage, ReadData
  <2>2. sys[ReadThread(q)].end \in End
    BY <2>1, HomeThreads DEF TypeOK, KernelTypeOK, ReadReturn
  <2>3. sys[ReadThread(q)].end = ReadEnd(q)
    BY <2>2, HomeThreads DEF Keeps, OwnEnds
  <2> QED
    BY <2>1, <2>3 DEF BesideCall, Separate, ReadEnd, EndOf
<1>5. CASE Reading(q) /\ ~ReadMessage(q)
  BY <1>1, <1>5 DEF BesideCall, Reading, ReadThreadStep, ReadConnect, ReadOpen,
              ReadOpenReturns, ReadOpened, ReadConnected, ReadCheck, ReadLoop, ReadCall,
              ReadEnds, ReadAgain, ConnectHandler, DisconnectHandler, MessageHandler,
              ReadConnectHandlerReturns, ReadDisconnectHandlerReturns,
              ReadMessageHandlerReturns, openFifo, openFifoFails, openFifoReturns
<1> QED
  BY <1>2, <1>3, <1>4, <1>5

LEMMA ReaderLeavesOthers ==
  ASSUME TypeOK, NEW r \in Rd, NEW q \in Rd, q # r,
         Configure(q) \/ Start(q) \/ Stop(q) \/ Stopping(q) \/ Reading(q)
  PROVE  rd'[r] = rd[r] /\ starts'[r] = starts[r] /\ data'[r] = data[r]
<1>1. starts'[r] = starts[r] /\ data'[r] = data[r]
  BY DEF Configure, Start, Stop, Stopping, Reading, ConnectHandler, DisconnectHandler,
         ReadMessage, MessageHandler, app, TypeOK
<1>2. CASE Configure(q) \/ Start(q)
  BY <1>1, <1>2 DEF Configure, FifoReadNew, SetReadHandler, ReadReconnectTrue, Start, StartRead,
              TypeOK
<1>3. CASE Stop(q) \/ Stopping(q)
  BY <1>1, <1>3, StopReadMoves DEF Stop, Stopping, TypeOK
<1>4. CASE Reading(q)
  <2>1. CASE ConnectHandler(q) \/ DisconnectHandler(q)
    BY <1>1, <2>1 DEF ConnectHandler, DisconnectHandler, ReadConnectHandlerReturns,
                ReadDisconnectHandlerReturns, TypeOK
  <2>2. CASE ReadThreadStep(q) \/ ReadMessage(q) \/ MessageHandler(q)
    BY <1>1, <2>2, ReadThreadMoves DEF ReadMessage, MessageHandler, TypeOK
  <2> QED
    BY <1>4, <2>1, <2>2 DEF Reading
<1> QED
  BY <1>1, <1>2, <1>3, <1>4

LEMMA ReadersBeside ==
  ASSUME Separate, TypeOK, NEW r \in Rd, Keeps(r), NEW q \in Rd, q # r, Keeps(q),
         Configure(q) \/ Start(q) \/ Stop(q) \/ Stopping(q) \/ Reading(q)
  PROVE  Beside(r)
<1>1. PICK t \in {ReadThread(q), Caller(q)} : BesideCall(r, t)
  BY ReaderCalls
<1>2. t \in Thread /\ ProcOf[t] # Home(r) /\ Elsewhere(r)
  BY <1>1, HomeThreads DEF Separate, Keeps, Home
<1> QED
  BY <1>1, <1>2, ReaderLeavesOthers, BesideFrame

-----------------------------------------------------------------------------
(* The object's own steps.  Those without a system call first. *)
LEMMA QuietKeeps ==
  ASSUME NEW r \in Rd, Keeps(r), UNCHANGED <<fdt, sys, buf>>, data'[r] = data[r],
         sys[ReadThread(r)].call = "open" => rd'[r].pc = "opening",
         rd'[r].runRead => rd'[r].ctl = "started",
         starts'[r] = 0 => starts[r] = 0 /\ rd'[r].ctl \in {"unborn", "stopped"},
         starts'[r] = 1 /\ rd'[r].ctl = "started" => Kept(r)
  PROVE  Keeps(r)' /\ NothingLost(r)
<1>1. Elsewhere(r)' /\ OwnEnds(r)'
  BY DEF Keeps, Elsewhere, OwnEnds
<1>2. (starts'[r] = 0 => Fresh(r)') /\ (Kept(r) => Kept(r)')
  BY DEF Keeps, Fresh, Kept
<1>3. NothingLost(r)
  BY DEF NothingLost
<1> QED
  BY <1>1, <1>2, <1>3 DEF Keeps

LEMMA OwnerKeeps ==
  ASSUME TypeOK, NEW r \in Rd, Keeps(r), Answered(r), Configure(r) \/ Start(r) \/ Stop(r)
  PROVE  Keeps(r)' /\ NothingLost(r)
<1>0. /\ rd \in [Rd -> ReadState] /\ starts \in [Rd -> 0..MaxStarts] /\ MaxStarts \in Nat
      /\ sys[ReadThread(r)].call = "open" => rd[r].pc = "opening"
  BY ReadSideAssumption DEF TypeOK, Keeps, OwnEnds
<1>1. UNCHANGED <<fdt, sys, buf>> /\ data' = data
  BY DEF Configure, FifoReadNew, createFifo, Mkfifo, SetReadHandler, ReadReconnectTrue,
         Start, StartRead, Stop, StopRead, kernel, app
<1>2. CASE Configure(r)
  <2>1. /\ starts' = starts /\ rd'[r].pc = rd[r].pc /\ rd'[r].runRead = rd[r].runRead
        /\ rd[r].ctl \in {"unborn", "stopped"} /\ rd'[r].ctl = "stopped"
    BY <1>0, <1>2 DEF Configure, FifoReadNew, SetReadHandler, ReadReconnectTrue, app, ReadState
  <2> QED
    BY <1>0, <1>1, <2>1, QuietKeeps DEF Keeps
<1>3. CASE Start(r)
  <2>1. /\ rd[r].ctl = "stopped" /\ rd'[r].ctl = "started" /\ starts'[r] = starts[r] + 1
        /\ starts[r] \in Nat
    BY <1>0, <1>3 DEF Start, StartRead, ReadState
  <2>2. sys[ReadThread(r)].call # "open"
    BY <1>0, <2>1 DEF Answered
  <2>3. starts[r] = 0 => Kept(r)
    BY DEF Keeps, Fresh, Kept
  <2>4. starts'[r] # 0 /\ (starts'[r] = 1 => starts[r] = 0)
    BY <2>1
  <2> QED
    BY <1>1, <2>1, <2>2, <2>3, <2>4, QuietKeeps
<1>4. CASE Stop(r)
  <2>1. /\ starts' = starts /\ rd'[r].pc = rd[r].pc /\ ~rd'[r].runRead
        /\ rd[r].ctl = "started" /\ rd'[r].ctl = "unrun"
    BY <1>0, <1>4 DEF Stop, StopRead, app, ReadState
  <2>2. starts[r] # 0
    BY <2>1 DEF Keeps, Fresh
  <2> QED
    BY <1>0, <1>1, <2>1, <2>2, QuietKeeps
<1> QED
  BY <1>2, <1>3, <1>4

(* stopRead(): the object does not run any more, and whatever its owner    *)
(* opens is the writing end.                                               *)
LEMMA StoppingFields ==
  ASSUME TypeOK, NEW r \in Rd, Keeps(r), StopReadStep(r)
  PROVE  /\ rd[r].ctl # "started" /\ ~rd[r].runRead /\ starts[r] # 0
         /\ ~rd'[r].runRead /\ rd'[r].ctl # "started"
         /\ sys[ReadThread(r)].call = "open" => rd'[r].pc = "opening"
<1>1. rd \in [Rd -> ReadState]
  BY DEF TypeOK
<1>2. rd[r].ctl \notin {"unborn", "stopped", "started"}
  BY DEF StopReadStep, StopReadReconnect, StopReadTestOpen, StopReadRelease, StopReadReleased,
         StopReadReleaseClose, StopReadTakes, StopReadClose, StopReadJoin
<1>3. ~rd[r].runRead /\ starts[r] # 0
  BY <1>2 DEF Keeps, Fresh
<1>4. rd'[r].runRead = rd[r].runRead
  BY <1>1 DEF StopReadStep, StopReadReconnect, StopReadTestOpen, StopReadRelease,
              StopReadReleased, StopReadReleaseClose, StopReadTakes, StopReadClose,
              StopReadJoin, ReadState
<1>5. rd'[r].ctl # "started" /\ (rd[r].pc = "opening" => rd'[r].pc = "opening")
  BY <1>1, StopReadMoves
<1>6. sys[ReadThread(r)].call = "open" => rd[r].pc = "opening"
  BY DEF Keeps, OwnEnds
<1> QED
  BY <1>2, <1>3, <1>4, <1>5, <1>6

LEMMA StoppingKeeps ==
  ASSUME TypeOK, NEW r \in Rd, Keeps(r), Stopping(r)
  PROVE  Keeps(r)' /\ NothingLost(r)
<1> DEFINE t == ReadThread(r)
           c == Caller(r)
<1>0. /\ KernelTypeOK(Nat) /\ StopReadStep(r) /\ starts' = starts
  BY DEF TypeOK, Stopping, app
<1>1. NothingLost(r)
  BY <1>0, StoppingFields DEF NothingLost
<1>2. ASSUME LeavesCalls(c), sys'[c].end \in {WriteEnd(r), NoEnd},
             \A q \in Process \ {Home(r)} : fdt'[q] = fdt[q],
             \A f \in Fd : fdt'[Home(r)][f] \in {fdt[Home(r)][f], WriteEnd(r), NoEnd}
      PROVE  Keeps(r)'
  <2>1. sys'[t].call = sys[t].call /\ sys'[t].end = sys[t].end /\ sys'[t].fd = sys[t].fd
    BY <1>2, HomeThreads DEF LeavesCalls
  <2>2. Elsewhere(r)'
    BY <1>2, HomeThreads DEF Elsewhere, LeavesCalls, Keeps
  <2>3. OwnEnds(r)'
    <3>1. \A f \in Fd : fdt'[Home(r)][f] \in {ReadEnd(r), WriteEnd(r), NoEnd}
      BY <1>2 DEF Keeps, OwnEnds
    <3> QED
      BY <1>0, <1>2, <2>1, <3>1, StoppingFields DEF Keeps, OwnEnds
  <2> QED
    BY <1>0, <2>2, <2>3, StoppingFields DEF Keeps
<1>3. CASE StopReadReconnect(r) \/ StopReadTestOpen(r) \/ StopReadTakes(r)
           \/ StopReadJoin(r) \/ (StopReadRelease(r) /\ UNCHANGED kernel)
  <2>1. UNCHANGED kernel
    BY <1>3 DEF StopReadReconnect, StopReadTestOpen, StopReadTakes, StopReadJoin
  <2> QED
    BY <1>0, <1>1, <1>2, <2>1 DEF kernel, LeavesCalls, Keeps, OwnEnds
<1>4. CASE OpenCall(c, WriteEnd(r))
  <2>1. LeavesCalls(c)
    BY <1>0, <1>4, HomeThreads, OpenCallLeavesCalls
  <2>2. sys'[c].end = WriteEnd(r) /\ fdt' = fdt
    BY <1>4, HomeThreads DEF OpenCall
  <2> QED
    BY <1>1, <1>2, <2>1, <2>2
<1>5. CASE OpenReturn(c)
  <2>1. LeavesCalls(c)
    BY <1>0, <1>5, HomeThreads, StepsLeaveCalls
  <2>2. /\ sys'[c].end = NoEnd
        /\ fdt' = [fdt EXCEPT ![Home(r)][sys[c].fd] = sys[c].end]
        /\ sys[c].end \in {WriteEnd(r), NoEnd}
    BY <1>0, <1>5, HomeThreads DEF OpenReturn, KernelTypeOK, Idle, Home, Keeps, OwnEnds
  <2> QED
    BY <1>0, <1>1, <1>2, <2>1, <2>2, HomeThreads DEF KernelTypeOK
<1>6. CASE \E f : Close(c, f)
  <2>1. LeavesCalls(c)
    BY <1>0, <1>6, HomeThreads, StepsLeaveCalls
  <2>2. /\ sys' = sys /\ sys[c].end \in {WriteEnd(r), NoEnd}
        /\ \E f : fdt' = fdt \/ fdt' = [fdt EXCEPT ![Home(r)][f] = NoEnd]
    BY <1>6 DEF Close, Keeps, OwnEnds, Home
  <2> QED
    BY <1>0, <1>1, <1>2, <2>1, <2>2, HomeThreads DEF KernelTypeOK
<1> QED
  BY <1>0, <1>3, <1>4, <1>5, <1>6
     DEF StopReadStep, StopReadRelease, StopReadReleased, StopReadReleaseClose, StopReadClose,
         openFifo, openFifoFails, openFifoReturns, WriteEnd

(* readFifo(): whatever the thread opens is the reading end. *)
LEMMA ReadingFields ==
  ASSUME TypeOK, NEW r \in Rd, Keeps(r), Answered(r), Reading(r)
  PROVE  /\ rd'[r].ctl = rd[r].ctl /\ rd'[r].runRead = rd[r].runRead
         /\ starts' = starts /\ starts[r] # 0
<1>1. rd \in [Rd -> ReadState]
  BY DEF TypeOK
<1>2. starts' = starts
  BY DEF Reading, ConnectHandler, DisconnectHandler, ReadMessage, MessageHandler, app
<1>3. /\ rd[r].pc # "none"
      /\ rd'[r].ctl = rd[r].ctl /\ rd'[r].runRead = rd[r].runRead
  <2>1. CASE ConnectHandler(r) \/ DisconnectHandler(r) \/ ReadMessage(r) \/ MessageHandler(r)
    BY <1>1, <2>1 DEF ConnectHandler, DisconnectHandler, ReadMessage, MessageHandler,
         ReadConnectHandlerReturns, ReadDisconnectHandlerReturns, ReadData,
         ReadMessageHandlerReturns, ReadState
  <2>2. CASE ReadThreadStep(r)
    <3>1. rd[r].pc # "none" /\ rd'[r].ctl = rd[r].ctl
      BY <1>1, <2>2, ReadThreadMoves
    <3>2. rd'[r].runRead = rd[r].runRead
      BY <1>1, <2>2 DEF ReadThreadStep, ReadConnect, ReadOpen, ReadOpenReturns, ReadOpened,
           ReadCheck, ReadConnected, ReadLoop, ReadCall, ReadEnds, ReadAgain, ReadDown, ReadState
    <3> QED
      BY <3>1, <3>2
  <2> QED
    BY <2>1, <2>2 DEF Reading
<1>4. starts[r] # 0
  BY <1>3 DEF Answered, Keeps, Fresh
<1> QED
  BY <1>2, <1>3, <1>4

(* A step of the reading thread that leaves its process' other descriptors  *)
(* alone, and loses nothing while the end is held.                          *)
LEMMA ReadCallKeeps ==
  ASSUME TypeOK, NEW r \in Rd, Keeps(r), Answered(r), Reading(r),
         LeavesCalls(ReadThread(r)), sys'[ReadThread(r)].end \in {ReadEnd(r), NoEnd},
         sys'[ReadThread(r)].call = "open" =>
           sys'[ReadThread(r)].fd \in Fd /\ rd'[r].pc = "opening",
         \A q \in Process \ {Home(r)} : fdt'[q] = fdt[q],
         \A f \in Fd : fdt'[Home(r)][f] \in {fdt[Home(r)][f], ReadEnd(r)},
         Kept(r) => Kept(r)' /\ data'[r] \o buf'[addrRead[r]] = data[r] \o buf[addrRead[r]]
  PROVE  Keeps(r)' /\ NothingLost(r)
<1>1. Elsewhere(r)'
  BY HomeThreads DEF Elsewhere, LeavesCalls, Keeps
<1>2. OwnEnds(r)'
  <2>1. sys'[Caller(r)].end = sys[Caller(r)].end
    BY HomeThreads DEF LeavesCalls
  <2> QED
    BY <2>1 DEF Keeps, OwnEnds
<1> QED
  BY <1>1, <1>2, ReadingFields DEF Keeps, NothingLost

LEMMA ReadingKeeps ==
  ASSUME TypeOK, TypeOK', NEW r \in Rd, Keeps(r), Answered(r), Reading(r)
  PROVE  Keeps(r)' /\ NothingLost(r)
<1> DEFINE t == ReadThread(r)
           p == addrRead[r]
<1>0. /\ KernelTypeOK(Nat) /\ rd \in [Rd -> ReadState]
      /\ t \in Thread /\ ProcOf[t] = Home(r) /\ Home(r) \in Process /\ p \in Pipe
      /\ ReadEnd(r) \in End /\ ReadEnd(r) # NoEnd
      /\ sys[t].end \in {ReadEnd(r), NoEnd}
      /\ sys[t].call = "open" => sys[t].fd \in Fd /\ rd[r].pc = "opening"
      /\ sys[t].call # "none" => sys[t].end = ReadEnd(r)
  BY HomeThreads, ReadConstants DEF TypeOK, KernelTypeOK, Keeps, OwnEnds
<1>1. ASSUME UNCHANGED kernel, data'[r] = data[r], rd[r].pc # "opening"
      PROVE  Keeps(r)' /\ NothingLost(r)
  <2>1. UNCHANGED <<fdt, sys, buf>>
    BY <1>1 DEF kernel
  <2> QED
    BY <1>0, <1>1, <2>1, ReadingFields, QuietKeeps DEF Keeps
<1>2. CASE /\ UNCHANGED app
           /\ ReadConnect(r) \/ ReadOpened(r) \/ ReadCheck(r) \/ ReadConnected(r)
              \/ ReadLoop(r) \/ ReadAgain(r)
  BY <1>1, <1>2 DEF ReadConnect, ReadOpened, ReadCheck, ReadConnected, ReadLoop, ReadAgain, app
<1>3. CASE ConnectHandler(r) \/ DisconnectHandler(r) \/ MessageHandler(r)
  BY <1>1, <1>3 DEF ConnectHandler, DisconnectHandler, MessageHandler, app,
     ReadConnectHandlerReturns, ReadDisconnectHandlerReturns, ReadMessageHandlerReturns
<1>4. CASE ReadOpen(r) /\ UNCHANGED app
  <2>1. CASE UNCHANGED kernel
    BY <1>1, <1>4, <2>1 DEF ReadOpen, app
  <2>2. CASE OpenCall(t, ReadEnd(r)) /\ rd' = [rd EXCEPT ![r].pc = "opening"]
    <3>1. LeavesCalls(t)
      BY <1>0, <2>2, OpenCallLeavesCalls
    <3>2. /\ sys'[t].call = "open" /\ sys'[t].end = ReadEnd(r) /\ sys'[t].fd \in Fd
          /\ fdt' = fdt /\ buf' = buf /\ data' = data
      BY <1>0, <1>4, <2>2 DEF OpenCall, FreeFds, app
    <3>3. rd'[r].pc = "opening"
      BY <1>0, <2>2 DEF ReadState
    <3> QED
      BY <3>1, <3>2, <3>3, ReadCallKeeps DEF Kept
  <2> QED
    BY <1>4, <2>1, <2>2 DEF ReadOpen, openFifo, openFifoFails, ReadEnd
<1>5. CASE ReadOpenReturns(r) /\ UNCHANGED app
  <2>1. /\ sys[t].fd \in Fd /\ sys[t].end = ReadEnd(r)
        /\ fdt' = [fdt EXCEPT ![Home(r)][sys[t].fd] = ReadEnd(r)]
        /\ sys'[t] = Idle /\ buf' = buf /\ data' = data
    BY <1>0, <1>5 DEF ReadOpenReturns, openFifoReturns, OpenReturn, KernelTypeOK, app
  <2>2. LeavesCalls(t)
    BY <1>0, <1>5, StepsLeaveCalls DEF ReadOpenReturns, openFifoReturns
  <2>3. /\ fdt'[Home(r)][sys[t].fd] = ReadEnd(r)
        /\ \A q \in Process \ {Home(r)} : fdt'[q] = fdt[q]
        /\ \A f \in Fd : fdt'[Home(r)][f] \in {fdt[Home(r)][f], ReadEnd(r)}
    BY <1>0, <2>1 DEF KernelTypeOK
  <2> QED
    BY <2>1, <2>2, <2>3, ReadCallKeeps DEF Kept, Idle
<1>6. CASE ReadCall(r) /\ UNCHANGED app
  <2>1. CASE UNCHANGED kernel
    BY <1>1, <1>6, <2>1 DEF ReadCall, app
  <2>2. CASE Usable(t, rd[r].fifoFd, "R") /\ IoCall(t, "read", rd[r].fifoFd)
    <3>1. rd[r].fifoFd \in Fd /\ fdt[Home(r)][rd[r].fifoFd] = ReadEnd(r)
      BY <1>0, <2>2 DEF Usable, Keeps, OwnEnds, WriteEnd, EndOf, NoEnd
    <3>2. /\ sys'[t].call = "read" /\ sys'[t].end = ReadEnd(r)
          /\ fdt' = fdt /\ buf' = buf /\ data' = data
      BY <1>0, <1>6, <2>2, <3>1 DEF IoCall, KernelTypeOK, app
    <3>3. LeavesCalls(t)
      BY <1>0, <2>2, StepsLeaveCalls
    <3> QED
      BY <3>1, <3>2, <3>3, ReadCallKeeps DEF Kept
  <2> QED
    BY <1>6, <2>1, <2>2 DEF ReadCall
<1>7. ASSUME fdt' = fdt, sys'[t] = Idle, LeavesCalls(t), rd[r].pc # "opening",
             Live(p)' => data'[r] \o buf'[p] = data[r] \o buf[p],
             buf[p] = <<>> => data'[r] = data[r] /\ buf'[p] = <<>>
      PROVE  Keeps(r)' /\ NothingLost(r)
  <2>1. sys'[t].end = NoEnd /\ sys'[t].call = "none"
    BY <1>7 DEF Idle
  <2>2. Kept(r) => Kept(r)' /\ data'[r] \o buf'[p] = data[r] \o buf[p]
    <3>1. CASE \E f \in Fd : fdt[Home(r)][f] = ReadEnd(r)
      BY <1>7, <3>1, HolderLives DEF Kept
    <3>2. CASE sys[t].call = "open"
      BY <1>0, <1>7, <3>2
    <3>3. CASE buf[p] = <<>>
      BY <1>7, <2>1, <3>3 DEF Kept
    <3> QED
      BY <3>1, <3>2, <3>3 DEF Kept
  <2> QED
    BY <1>7, <2>1, <2>2, ReadCallKeeps
<1>8. CASE ReadEnds(r) /\ UNCHANGED app
  <2>1. LeavesCalls(t)
    BY <1>0, <1>8, StepsLeaveCalls DEF ReadEnds
  <2>2. /\ fdt' = fdt /\ sys'[t] = Idle /\ rd[r].pc # "opening" /\ data' = data
        /\ buf'[p] = (IF Live(p)' THEN buf[p] ELSE <<>>)
    BY <1>0, <1>8 DEF ReadEnds, IoReturn, Remaining, KernelTypeOK, app
  <2> QED
    BY <1>7, <2>1, <2>2
<1>9. CASE ReadMessage(r)
  <2>1. ReadReturn(t, MaxLine) /\ rd[r].pc # "opening"
    BY <1>9 DEF ReadMessage, ReadData
  <2>2. sys[t].end.pipe = p /\ Contents(t) = buf[p]
    BY <1>0, <2>1 DEF ReadReturn, Contents, ReadEnd, EndOf
  <2>3. LeavesCalls(t) /\ fdt' = fdt /\ sys'[t] = Idle
    BY <1>0, <2>1, StepsLeaveCalls DEF ReadReturn, KernelTypeOK
  <2>4. PICK z \in Seq(Nat) :
          /\ Chunk(t, MaxLine) \in Seq(Nat)
          /\ buf[p] = Chunk(t, MaxLine) \o z
          /\ buf'[p] = (IF Live(p)' THEN z ELSE <<>>)
    BY <1>0, <2>1, <2>2, ChunkSplits
  <2>5. data[r] \in Seq(Nat) /\ data'[r] = data[r] \o Chunk(t, MaxLine)
    BY <1>9, DataTypes DEF ReadMessage
  <2>6. (data[r] \o Chunk(t, MaxLine)) \o z = data[r] \o (Chunk(t, MaxLine) \o z)
    <3> DEFINE a == Chunk(t, MaxLine)
    <3>1. a \in Seq(Nat)
      BY <2>4
    <3> HIDE DEF a
    <3>2. (data[r] \o a) \o z = data[r] \o (a \o z)
      BY <2>5, <3>1, TakenOut
    <3> QED
      BY <3>2 DEF a
  <2>7. Live(p)' => data'[r] \o buf'[p] = data[r] \o buf[p]
    BY <2>4, <2>5, <2>6
  <2>8. buf[p] # <<>>
    BY <2>1, <2>2 DEF ReadReturn
  <2> QED
    BY <1>7, <2>1, <2>3, <2>7, <2>8
<1> QED
  BY <1>2, <1>3, <1>4, <1>5, <1>6, <1>8, <1>9 DEF Reading, ReadThreadStep

LEMMA NextKeeps ==
  ASSUME Separate, TypeOK, AnswersInv, KeepsInv, [Next]_vars
  PROVE  KeepsInv' /\ \A r \in Rd : NothingLost(r)
<1>1. TypeOK'
  BY NextType
<1> SUFFICES ASSUME NEW r \in Rd
             PROVE  Keeps(r)' /\ NothingLost(r)
  BY DEF KeepsInv
<1>2. Keeps(r) /\ Answered(r)
  BY DEF KeepsInv, AnswersInv
<1>3. CASE UNCHANGED vars \/ \E p \in Pipe : Remove(p)
  BY <1>1, <1>2, <1>3, QuietBeside, BesideKeeps
<1>4. ASSUME NEW w \in Peer, Arrive(w) \/ Enter(w) \/ Leave(w) \/ Send(w)
      PROVE  Keeps(r)' /\ NothingLost(r)
  BY <1>1, <1>2, <1>4, PeersBeside, BesideKeeps
<1>5. ASSUME NEW q \in Rd,
             Configure(q) \/ Start(q) \/ Stop(q) \/ Stopping(q) \/ Reading(q)
      PROVE  Keeps(r)' /\ NothingLost(r)
  <2>1. CASE q = r
    BY <1>1, <1>2, <1>5, <2>1, OwnerKeeps, StoppingKeeps, ReadingKeeps
  <2>2. CASE q # r
    <3>1. Keeps(q)
      BY DEF KeepsInv
    <3> QED
      BY <1>1, <1>2, <1>5, <2>2, <3>1, ReadersBeside, BesideKeeps
  <2> QED
    BY <2>1, <2>2
<1> QED
  BY <1>3, <1>4, <1>5 DEF Next

(* From startRead() to stopRead() of a first session, every unit written    *)
(* into the pipe is in it or has been handed over, through every end of     *)
(* file and reconnection, whatever the peers do: the object never gives up  *)
(* its end of the pipe.  Later sessions begin with what the first has left, *)
(* and hold nothing until they open.                                        *)
THEOREM NothingIsLost ==
  ASSUME Separate
  PROVE  Spec => NothingLostWhileRunning
<1>1. Init => AnswersInv /\ KeepsInv
  BY InitAnswers, InitKeeps
<1>2. TypeOK /\ AnswersInv /\ [Next]_vars => AnswersInv'
  BY NextAnswers
<1>3. TypeOK /\ AnswersInv /\ KeepsInv /\ [Next]_vars =>
        KeepsInv' /\ [\A r \in Rd : NothingLost(r)]_vars
  BY NextKeeps
<1> QED
  BY <1>1, <1>2, <1>3, TypeCorrect, PTL DEF Spec, NothingLostWhileRunning

-----------------------------------------------------------------------------
(* The disconnect callback means the end *)

(* The number of a running object that is connected, or about to be, is one *)
(* of its own end of the pipe; on the way to a connection waitConnect is    *)
(* reset, so that a failing open ends in no read().                         *)
Own(r) == rd[r].fifoFd \in Fd /\ fdt[Home(r)][rd[r].fifoFd] = ReadEnd(r)

Ready(r) ==
  /\ rd[r].ctl \in {"unborn", "stopped"} => ~rd[r].waitConnect
  /\ rd[r].runRead /\ rd[r].pc \in {"connect", "open", "opening", "opened", "check", "again"}
       => ~rd[r].waitConnect
  /\ rd[r].runRead /\ rd[r].pc \in {"opened", "check"} => rd[r].fifoFd = NoFd \/ Own(r)
  /\ rd[r].runRead /\ (rd[r].waitConnect \/ rd[r].pc = "connected") => Own(r)

ReadyInv == \A r \in Rd : Ready(r)

LEMMA InitReady == Init => ReadyInv
BY DEF Init, FifoReadInit, ReadyInv, Ready

(* A step that leaves the object and its process' descriptors alone. *)
LEMMA ReadyFrame ==
  ASSUME NEW r \in Rd, Ready(r), Beside(r)
  PROVE  Ready(r)' /\ EndsAtEnd(r)
BY DEF Ready, Own, Beside, EndsAtEnd

LEMMA OwnerReady ==
  ASSUME TypeOK, NEW r \in Rd, Keeps(r), Ready(r), Configure(r) \/ Start(r) \/ Stop(r)
  PROVE  Ready(r)' /\ EndsAtEnd(r)
<1>0. rd \in [Rd -> ReadState] /\ (rd[r].runRead => rd[r].ctl = "started")
  BY DEF TypeOK, Keeps
<1>1. CASE Configure(r)
  <2>1. /\ rd'[r].pc = rd[r].pc /\ rd'[r].runRead = rd[r].runRead
        /\ rd'[r].waitConnect = rd[r].waitConnect
        /\ rd[r].ctl \in {"unborn", "stopped"} /\ rd'[r].ctl = "stopped"
    BY <1>0, <1>1 DEF Configure, FifoReadNew, SetReadHandler, ReadReconnectTrue, ReadState
  <2> QED
    BY <1>0, <2>1 DEF Ready, EndsAtEnd
<1>2. CASE Start(r)
  <2>1. /\ rd[r].ctl = "stopped" /\ rd'[r].ctl = "started" /\ rd'[r].pc = "connect"
        /\ rd'[r].waitConnect = rd[r].waitConnect
    BY <1>0, <1>2 DEF Start, StartRead, ReadState
  <2> QED
    BY <2>1 DEF Ready, EndsAtEnd
<1>3. CASE Stop(r)
  <2>1. rd'[r].ctl = "unrun" /\ ~rd'[r].runRead /\ rd'[r].pc = rd[r].pc
    BY <1>0, <1>3 DEF Stop, StopRead, ReadState
  <2> QED
    BY <2>1 DEF Ready, EndsAtEnd
<1> QED
  BY <1>1, <1>2, <1>3

(* stopRead() closes the number only when the object does not run. *)
LEMMA StoppingReady ==
  ASSUME TypeOK, NEW r \in Rd, Keeps(r), Ready(r), Stopping(r)
  PROVE  Ready(r)' /\ EndsAtEnd(r)
<1>1. ~rd[r].runRead /\ ~rd'[r].runRead
  BY StoppingFields DEF Stopping
<1>2. rd'[r].ctl \notin {"unborn", "stopped"} \/ ~rd'[r].waitConnect
  BY StopReadMoves DEF Stopping, TypeOK
<1> QED
  BY <1>1, <1>2 DEF Ready, EndsAtEnd

(* The reading thread itself. *)
LEMMA ReadingReady ==
  ASSUME TypeOK, NEW r \in Rd, Keeps(r), Answered(r), Ready(r), Reading(r)
  PROVE  Ready(r)' /\ EndsAtEnd(r)
<1> DEFINE t == ReadThread(r)
<1>0. /\ rd \in [Rd -> ReadState] /\ KernelTypeOK(Nat)
      /\ t \in Thread /\ ProcOf[t] = Home(r) /\ Home(r) \in Process
      /\ rd'[r].ctl = rd[r].ctl /\ rd'[r].runRead = rd[r].runRead
      /\ rd[r].pc # "none" /\ rd[r].ctl \notin {"unborn", "stopped"}
  <2>1. rd[r].pc # "none"
    BY DEF Reading, ReadThreadStep, ReadConnect, ReadOpen, ReadOpenReturns, ReadOpened,
       ReadCheck, ReadConnected, ReadLoop, ReadCall, ReadEnds, ReadAgain, ConnectHandler,
       DisconnectHandler, ReadMessage, MessageHandler, ReadConnectHandlerReturns,
       ReadDisconnectHandlerReturns, ReadData, ReadMessageHandlerReturns
  <2> QED
    BY <2>1, ReadingFields, HomeThreads DEF Answered, TypeOK
<1>1. /\ rd[r].pc \in {"connectH", "read", "reading", "messageH"} => rd[r].waitConnect
      /\ rd[r].pc = "disconnectH" => ~rd[r].waitConnect
  BY DEF Answered
<1> USE DEF Ready, Own, EndsAtEnd
<1>2. CASE ReadConnect(r)
  BY <1>0, <1>1, <1>2 DEF ReadConnect, kernel, ReadState
<1>3. CASE ReadOpen(r)
  <2>1. /\ rd[r].pc = "open"
        /\ \/ rd' = [rd EXCEPT ![r].pc = "opening"]
           \/ rd' = [rd EXCEPT ![r].pc = "opened", ![r].fifoFd = NoFd]
    BY <1>3 DEF ReadOpen
  <2> QED
    BY <1>0, <1>1, <2>1 DEF ReadState
<1>4. CASE ReadOpenReturns(r)
  <2>1. /\ rd[r].pc = "opening"
        /\ rd' = [rd EXCEPT ![r].pc = "opened", ![r].fifoFd = sys[t].fd]
        /\ OpenReturn(t)
    BY <1>4 DEF ReadOpenReturns, openFifoReturns
  <2>2. /\ sys[t].fd \in Fd /\ sys[t].end = ReadEnd(r)
    BY <1>0, <2>1 DEF OpenReturn, Keeps, OwnEnds, KernelTypeOK, NoEnd, End
  <2>3. fdt'[Home(r)][sys[t].fd] = ReadEnd(r)
    BY <1>0, <2>1, <2>2 DEF OpenReturn, KernelTypeOK
  <2> QED
    BY <1>0, <1>1, <2>1, <2>2, <2>3 DEF ReadState
<1>5. CASE ReadOpened(r)
  BY <1>0, <1>1, <1>5 DEF ReadOpened, kernel, ReadState
<1>6. CASE ReadCheck(r)
  BY <1>0, <1>1, <1>6 DEF ReadCheck, kernel, ReadState
<1>7. CASE ReadConnected(r)
  BY <1>0, <1>1, <1>7 DEF ReadConnected, kernel, ReadState
<1>8. CASE ReadLoop(r)
  BY <1>0, <1>1, <1>8 DEF ReadLoop, kernel, ReadState
<1>9. CASE ReadCall(r)
  <2>1. rd[r].pc = "read" /\ fdt' = fdt
    BY <1>9 DEF ReadCall, IoCall, kernel
  <2>2. CASE ~rd[r].runRead
    BY <1>0, <2>2
  <2>3. CASE rd[r].runRead
    <3>1. Usable(t, rd[r].fifoFd, "R")
      BY <1>0, <1>1, <2>1, <2>3 DEF Usable, ReadEnd, EndOf
    <3>2. rd' = [rd EXCEPT ![r].pc = "reading"]
      BY <1>9, <3>1 DEF ReadCall
    <3> QED
      BY <1>0, <1>1, <2>1, <3>2 DEF ReadState
  <2> QED
    BY <2>2, <2>3
<1>10. CASE ReadEnds(r)
  <2>1. /\ rd[r].pc = "reading"
        /\ rd' = [rd EXCEPT ![r].pc = "disconnectH", ![r].waitConnect = FALSE]
        /\ EndOfFile(t) \/ rd[r].moved
    BY <1>10 DEF ReadEnds, ReadDown
  <2>2. EndOfFile(t) => buf[addrRead[r]] = <<>> /\ ~Held(WriteEnd(r))
    <3> SUFFICES ASSUME EndOfFile(t)
                 PROVE  buf[addrRead[r]] = <<>> /\ ~Held(WriteEnd(r))
      OBVIOUS
    <3>1. sys[t].end = ReadEnd(r)
      BY <1>0 DEF EndOfFile, Keeps, OwnEnds, KernelTypeOK, NoEnd, End
    <3> QED
      BY <3>1 DEF EndOfFile, Contents, Opposite, ReadEnd, WriteEnd, EndOf
  <2> QED
    BY <1>0, <1>1, <2>1, <2>2 DEF ReadState, WriteEnd
<1>11. CASE ReadAgain(r)
  BY <1>0, <1>1, <1>11 DEF ReadAgain, kernel, ReadState
<1>12. CASE ConnectHandler(r)
  BY <1>0, <1>1, <1>12 DEF ConnectHandler, ReadConnectHandlerReturns, kernel, ReadState
<1>13. CASE DisconnectHandler(r)
  BY <1>0, <1>1, <1>13 DEF DisconnectHandler, ReadDisconnectHandlerReturns, kernel, ReadState
<1>14. CASE MessageHandler(r)
  BY <1>0, <1>1, <1>14 DEF MessageHandler, ReadMessageHandlerReturns, kernel, ReadState
<1>15. CASE ReadMessage(r)
  <2>1. /\ rd[r].pc = "reading" /\ fdt' = fdt
        /\ \E x : rd' = [rd EXCEPT ![r].pc = "messageH", ![r].moved = x]
    BY <1>15 DEF ReadMessage, ReadData, ReadReturn
  <2> QED
    BY <1>0, <1>1, <2>1 DEF ReadState
<1> QED
  BY <1>2, <1>3, <1>4, <1>5, <1>6, <1>7, <1>8, <1>9, <1>10, <1>11, <1>12, <1>13, <1>14, <1>15
     DEF Reading, ReadThreadStep

LEMMA NextReady ==
  ASSUME Separate, TypeOK, AnswersInv, KeepsInv, ReadyInv, [Next]_vars
  PROVE  ReadyInv' /\ \A r \in Rd : EndsAtEnd(r)
<1> SUFFICES ASSUME NEW r \in Rd
             PROVE  Ready(r)' /\ EndsAtEnd(r)
  BY DEF ReadyInv
<1>1. Keeps(r) /\ Answered(r) /\ Ready(r)
  BY DEF KeepsInv, AnswersInv, ReadyInv
<1>2. CASE UNCHANGED vars \/ \E p \in Pipe : Remove(p)
  BY <1>1, <1>2, QuietBeside, ReadyFrame
<1>3. ASSUME NEW w \in Peer, Arrive(w) \/ Enter(w) \/ Leave(w) \/ Send(w)
      PROVE  Ready(r)' /\ EndsAtEnd(r)
  BY <1>1, <1>3, PeersBeside, ReadyFrame
<1>4. ASSUME NEW q \in Rd,
             Configure(q) \/ Start(q) \/ Stop(q) \/ Stopping(q) \/ Reading(q)
      PROVE  Ready(r)' /\ EndsAtEnd(r)
  <2>1. CASE q = r
    BY <1>1, <1>4, <2>1, OwnerReady, StoppingReady, ReadingReady
  <2>2. CASE q # r
    <3>1. Keeps(q)
      BY DEF KeepsInv
    <3> QED
      BY <1>1, <1>4, <2>2, <3>1, ReadersBeside, ReadyFrame
  <2> QED
    BY <2>1, <2>2
<1> QED
  BY <1>2, <1>3, <1>4 DEF Next

(* In every session, a disconnect callback that stopRead() has not caused   *)
(* follows the end of the data and the departure of the last writer, unless *)
(* the handler has moved the buffer away: the thread never calls it because *)
(* of an open that has failed, of a number or a flag of an earlier session, *)
(* or of what another object of the system does.                            *)
THEOREM DisconnectMeansEnd ==
  ASSUME Separate
  PROVE  Spec => EndsOnlyAtEnd
<1>1. Init => AnswersInv /\ KeepsInv /\ ReadyInv
  BY InitAnswers, InitKeeps, InitReady
<1>2. TypeOK /\ AnswersInv /\ [Next]_vars => AnswersInv'
  BY NextAnswers
<1>3. TypeOK /\ AnswersInv /\ KeepsInv /\ [Next]_vars => KeepsInv'
  BY NextKeeps
<1>4. TypeOK /\ AnswersInv /\ KeepsInv /\ ReadyInv /\ [Next]_vars =>
        ReadyInv' /\ [\A r \in Rd : EndsAtEnd(r)]_vars
  BY NextReady
<1> QED
  BY <1>1, <1>2, <1>3, <1>4, TypeCorrect, PTL DEF Spec, EndsOnlyAtEnd
=============================================================================
