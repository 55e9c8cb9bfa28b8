--------------------------- MODULE FifoLib_proofs ---------------------------
(***************************************************************************)
(* Type lemmas about the parts every composition is made of: the kernel's  *)
(* pipes, the peer, FifoRead and FifoWriteQ.  Each step of a part keeps    *)
(* the kernel's state and the part's own well formed.                      *)
(*                                                                         *)
(* A composition's proofs extend this module whether or not it has all the *)
(* parts.  The lemmas about a part cite the assumption on the constants of *)
(* that part and of NamedPipe only, so that nothing is assumed about the   *)
(* parts a composition lacks; with Rd, Wr or Peer empty their assumptions  *)
(* hold in any case.                                                       *)
(***************************************************************************)
EXTENDS FifoRead, FifoWriteQ, PipePeer, SequenceTheorems, TLAPS

-----------------------------------------------------------------------------
(* The kernel.  The lemmas hold for any set Unit of data units, so that the *)
(* proofs about readers and those about writers cite the same ones.         *)

(* The initial state is well formed. *)
LEMMA KernelInitType ==
  ASSUME NEW Unit, KernelInit
  PROVE  KernelTypeOK(Unit)
BY NamedPipeAssumption DEF KernelInit, KernelTypeOK, Idle, NoEnd, NoFd

(* The kernel's state stays well formed when nothing happens to it. *)
LEMMA KernelStutterType ==
  ASSUME NEW Unit, KernelTypeOK(Unit), UNCHANGED kernel
  PROVE  KernelTypeOK(Unit)'
BY DEF KernelTypeOK, kernel

(* What remains of well-formed contents is well formed. *)
LEMMA RemainingType ==
  ASSUME NEW Unit, NEW b \in [Pipe -> Seq(Unit)]
  PROVE  Remaining(b) \in [Pipe -> Seq(Unit)]
BY DEF Remaining

(* mkfifo and unlink only change the set of path names. *)
LEMMA PathType ==
  ASSUME NEW Unit, KernelTypeOK(Unit), NEW p \in Pipe, Mkfifo(p) \/ Unlink(p)
  PROVE  KernelTypeOK(Unit)'
BY DEF KernelTypeOK, Mkfifo, Unlink

(* open, called and returning. *)
LEMMA OpenCallType ==
  ASSUME NEW Unit, KernelTypeOK(Unit), NEW t \in Thread, NEW e \in End, OpenCall(t, e)
  PROVE  KernelTypeOK(Unit)'
<1>1. Held(Opposite(e)) \in BOOLEAN
  BY DEF Held
<1>2. PICK f \in FreeFds(ProcOf[t]) :
        sys' = [u \in Thread |->
            IF u = t
            THEN [call |-> "open", end |-> e, fd |-> f, ready |-> Held(Opposite(e))]
            ELSE IF sys[u].call = "open" /\ sys[u].end = Opposite(e)
                 THEN [sys[u] EXCEPT !.ready = TRUE]
                 ELSE sys[u]]
  BY DEF OpenCall
<1>3. f \in Fd
  BY DEF FreeFds
<1> DEFINE Call == [call  : {"none", "open", "read", "write"},
                    end   : End \cup {NoEnd},
                    fd    : Fd \cup {NoFd},
                    ready : BOOLEAN]
<1>4. ASSUME NEW u \in Thread
      PROVE  /\ sys'[u] \in Call
             /\ sys'[u].call # "none" => sys'[u].end \in End
  <2>1. CASE u = t
    BY <1>1, <1>2, <1>3, <2>1
  <2>2. CASE u # t
    <3>1. sys[u] \in Call /\ (sys[u].call # "none" => sys[u].end \in End)
      BY DEF KernelTypeOK
    <3>2. sys'[u] = sys[u] \/ sys'[u] = [sys[u] EXCEPT !.ready = TRUE]
      BY <1>2, <2>2
    <3> QED
      BY <3>1, <3>2
  <2> QED
    BY <2>1, <2>2
<1>5. sys' \in [Thread -> Call]
  BY <1>2, <1>4
<1> QED
  BY <1>4, <1>5 DEF OpenCall, KernelTypeOK

LEMMA OpenReturnType ==
  ASSUME NEW Unit, KernelTypeOK(Unit), NEW t \in Thread, OpenReturn(t)
  PROVE  KernelTypeOK(Unit)'
BY NamedPipeAssumption DEF OpenReturn, KernelTypeOK, Idle, NoEnd, NoFd

(* close, whatever number it is given. *)
LEMMA CloseType ==
  ASSUME NEW Unit, KernelTypeOK(Unit), NEW t \in Thread, NEW f, Close(t, f)
  PROVE  KernelTypeOK(Unit)'
BY NamedPipeAssumption, RemainingType DEF Close, KernelTypeOK

(* read and write, called and returning. *)
LEMMA IoCallType ==
  ASSUME NEW Unit, KernelTypeOK(Unit), NEW t \in Thread, NEW f, NEW m \in {"R", "W"},
         NEW call \in {"read", "write"}, Usable(t, f, m), IoCall(t, call, f)
  PROVE  KernelTypeOK(Unit)'
<1>1. fdt[ProcOf[t]][f] \in End
  <2>1. fdt[ProcOf[t]][f] \in End \cup {NoEnd}
    BY NamedPipeAssumption DEF KernelTypeOK, Usable
  <2> QED
    BY <2>1 DEF Usable, NoEnd
<1>2. sys' = [sys EXCEPT ![t] = [call |-> call, end |-> fdt[ProcOf[t]][f],
                                 fd |-> NoFd, ready |-> FALSE]]
  BY DEF IoCall
<1>3. sys' \in [Thread -> [call  : {"none", "open", "read", "write"},
                           end   : End \cup {NoEnd},
                           fd    : Fd \cup {NoFd},
                           ready : BOOLEAN]]
  BY <1>1, <1>2 DEF KernelTypeOK
<1> QED
  BY <1>1, <1>2, <1>3 DEF IoCall, KernelTypeOK

LEMMA IoReturnType ==
  ASSUME NEW Unit, KernelTypeOK(Unit), NEW t \in Thread, IoReturn(t)
  PROVE  KernelTypeOK(Unit)'
BY RemainingType DEF IoReturn, KernelTypeOK, Idle, NoEnd, NoFd

(* What a thread in a call finds in its pipe, and what it takes from it. *)
LEMMA ChunkType ==
  ASSUME NEW Unit, KernelTypeOK(Unit), NEW t \in Thread, sys[t].call # "none",
         NEW n \in Nat \ {0}
  PROVE  /\ Contents(t) \in Seq(Unit)
         /\ Chunk(t, n) \in Seq(Unit)
BY DEF KernelTypeOK, Contents, Chunk, End

LEMMA ReadReturnType ==
  ASSUME NEW Unit, KernelTypeOK(Unit), NEW t \in Thread, NEW n \in Nat \ {0},
         ReadReturn(t, n)
  PROVE  KernelTypeOK(Unit)'
<1> DEFINE rest == IF Len(Contents(t)) <= n
                   THEN <<>> ELSE SubSeq(Contents(t), n + 1, Len(Contents(t)))
<1>1. rest \in Seq(Unit)
  BY ChunkType DEF ReadReturn
<1>2. [buf EXCEPT ![sys[t].end.pipe] = rest] \in [Pipe -> Seq(Unit)]
  BY <1>1 DEF KernelTypeOK
<1>3. buf' \in [Pipe -> Seq(Unit)]
  BY <1>2, RemainingType DEF ReadReturn
<1> QED
  BY <1>3 DEF ReadReturn, KernelTypeOK, Idle, NoEnd, NoFd

LEMMA WriteUnitType ==
  ASSUME NEW Unit, KernelTypeOK(Unit), NEW t \in Thread, NEW unit \in Unit,
         WriteUnit(t, unit)
  PROVE  KernelTypeOK(Unit)'
<1>1. buf' = [buf EXCEPT ![sys[t].end.pipe] = Append(@, unit)]
  BY DEF WriteUnit
<1>2. buf' \in [Pipe -> Seq(Unit)]
  BY <1>1, AppendProperties DEF KernelTypeOK
<1> QED
  BY <1>2 DEF WriteUnit, KernelTypeOK

(* A step of thread t leaves alone what the calls of other threads hold. *)
LeavesCalls(t) ==
  \A u \in Thread \ {t} : /\ sys'[u].call = sys[u].call
                          /\ sys'[u].end = sys[u].end /\ sys'[u].fd = sys[u].fd

LEMMA OpenCallLeavesCalls ==
  ASSUME NEW Unit, KernelTypeOK(Unit), NEW t \in Thread, NEW e, OpenCall(t, e)
  PROVE  LeavesCalls(t)
<1> SUFFICES ASSUME NEW u \in Thread, u # t
             PROVE  /\ sys'[u].call = sys[u].call
                    /\ sys'[u].end = sys[u].end /\ sys'[u].fd = sys[u].fd
  BY DEF LeavesCalls
<1>1. sys'[u] = sys[u] \/ sys'[u] = [sys[u] EXCEPT !.ready = TRUE]
  BY DEF OpenCall
<1>2. sys[u] \in [call  : {"none", "open", "read", "write"}, end : End \cup {NoEnd},
                  fd    : Fd \cup {NoFd}, ready : BOOLEAN]
  BY DEF KernelTypeOK
<1> QED
  BY <1>1, <1>2

LEMMA StepsLeaveCalls ==
  ASSUME NEW Unit, KernelTypeOK(Unit), NEW t \in Thread,
         \/ UNCHANGED kernel \/ OpenReturn(t) \/ IoReturn(t)
         \/ (\E f : Close(t, f)) \/ (\E p : Mkfifo(p) \/ Unlink(p))
         \/ (\E c, f : IoCall(t, c, f)) \/ (\E n : ReadReturn(t, n))
  PROVE  LeavesCalls(t)
BY DEF KernelTypeOK, LeavesCalls, kernel, OpenReturn, IoReturn, Close, Mkfifo, Unlink, IoCall,
       ReadReturn

-----------------------------------------------------------------------------
(* The peer *)

(* A peer's visit: it opens, enters, leaves. *)
LEMMA PeerVisitType ==
  ASSUME NEW Unit, KernelTypeOK(Unit), peer \in [Peer -> PeerState], NEW w \in Peer,
         NEW m \in {"R", "W"}, PeerOpens(w, m) \/ PeerEnters(w) \/ PeerLeaves(w)
  PROVE  KernelTypeOK(Unit)' /\ peer' \in [Peer -> PeerState]
<1>1. PeerThread(w) \in Thread /\ peerPipe[w] \in Pipe
  BY PipePeerAssumption
<1>2. CASE PeerOpens(w, m)
  <2>1. KernelTypeOK(Unit)'
    <3>1. EndOf(peerPipe[w], m) \in End
      BY <1>1 DEF EndOf, End
    <3> QED
      BY <1>1, <1>2, <3>1, OpenCallType DEF PeerOpens, openFifo
  <2>2. peer[w].visits \in 0..MaxVisits /\ peer[w].visits + 1 \in 0..MaxVisits
    BY <1>2, PipePeerAssumption DEF PeerOpens, PeerState
  <2> QED
    BY <1>2, <2>1, <2>2 DEF PeerOpens, PeerState
<1>3. CASE PeerEnters(w)
  <2>1. KernelTypeOK(Unit)'
    BY <1>1, <1>3, OpenReturnType DEF PeerEnters, openFifoReturns
  <2>2. sys[PeerThread(w)].fd \in Fd \cup {NoFd}
    BY <1>1 DEF KernelTypeOK
  <2> QED
    BY <1>3, <2>1, <2>2 DEF PeerEnters, PeerState
<1>4. CASE PeerLeaves(w)
  <2>1. KernelTypeOK(Unit)'
    BY <1>1, <1>4, CloseType DEF PeerLeaves
  <2> QED
    BY <1>4, <2>1 DEF PeerLeaves, PeerState
<1> QED
  BY <1>2, <1>3, <1>4

(* What a peer writes and reads. *)
LEMMA PeerWritesType ==
  ASSUME NEW Unit, KernelTypeOK(Unit), NEW w \in Peer, NEW unit \in Unit,
         PeerWrites(w, unit)
  PROVE  KernelTypeOK(Unit)'
<1>1. buf' = [buf EXCEPT ![peerPipe[w]] = Append(@, unit)]
  BY DEF PeerWrites
<1>2. buf' \in [Pipe -> Seq(Unit)]
  BY <1>1, AppendProperties DEF KernelTypeOK
<1> QED
  BY <1>2 DEF PeerWrites, KernelTypeOK

LEMMA PeerReadsType ==
  ASSUME NEW Unit, KernelTypeOK(Unit), NEW w \in Peer, PeerReads(w)
  PROVE  KernelTypeOK(Unit)'
<1>1. peerPipe[w] \in Pipe
  BY PipePeerAssumption
<1>2. Tail(buf[peerPipe[w]]) \in Seq(Unit)
  BY <1>1, HeadTailProperties DEF PeerReads, KernelTypeOK
<1>3. buf' \in [Pipe -> Seq(Unit)]
  BY <1>1, <1>2 DEF PeerReads, KernelTypeOK
<1> QED
  BY <1>3 DEF PeerReads, KernelTypeOK

-----------------------------------------------------------------------------
(* FifoRead *)

(* The threads and the pipe of a reader are threads and a pipe. *)
LEMMA ReadConstants ==
  ASSUME NEW r \in Rd
  PROVE  /\ ReadThread(r) \in Thread /\ Caller(r) \in Thread
         /\ addrRead[r] \in Pipe
         /\ EndOf(addrRead[r], "R") \in End /\ EndOf(addrRead[r], "W") \in End
BY FifoReadAssumption DEF EndOf, End

LEMMA FifoReadInitType ==
  ASSUME FifoReadInit
  PROVE  rd \in [Rd -> ReadState]
BY DEF FifoReadInit, ReadState, ReadPc, ReadCtl, NoFd

(* The fields can be assigned one by one. *)
LEMMA ReadFields ==
  ASSUME NEW s \in ReadState
  PROVE  /\ \A x \in SUBSET Handlers : [s EXCEPT !.handlers = x] \in ReadState
         /\ \A x \in BOOLEAN : [s EXCEPT !.reconnect = x] \in ReadState
         /\ \A x \in BOOLEAN : [s EXCEPT !.runRead = x] \in ReadState
         /\ \A x \in BOOLEAN : [s EXCEPT !.waitConnect = x] \in ReadState
         /\ \A x \in BOOLEAN : [s EXCEPT !.waitOpen = x] \in ReadState
         /\ \A x \in BOOLEAN : [s EXCEPT !.moved = x] \in ReadState
         /\ \A x \in Fd \cup {NoFd} : [s EXCEPT !.fifoFd = x] \in ReadState
         /\ \A x \in Fd \cup {NoFd} : [s EXCEPT !.fd = x] \in ReadState
         /\ \A x \in ReadPc : [s EXCEPT !.pc = x] \in ReadState
         /\ \A x \in ReadCtl : [s EXCEPT !.ctl = x] \in ReadState
BY DEF ReadState

LEMMA ReadHandlersType ==
  ASSUME NEW s \in ReadState
  PROVE  s.handlers \in SUBSET Handlers
BY DEF ReadState

(* The constructor, the setters, startRead() and the entry of stopRead(). *)
LEMMA ReadOwnerType ==
  ASSUME NEW Unit, KernelTypeOK(Unit), rd \in [Rd -> ReadState], NEW r \in Rd,
         \/ FifoReadNew(r) \/ (\E h \in Handlers : SetReadHandler(r, h))
         \/ ReadReconnectTrue(r) \/ StartRead(r) \/ StopRead(r)
  PROVE  KernelTypeOK(Unit)' /\ rd' \in [Rd -> ReadState]
<1> USE ReadFields DEF ReadPc, ReadCtl
<1>1. CASE FifoReadNew(r)
  BY <1>1, ReadConstants, PathType DEF FifoReadNew, createFifo
<1>2. CASE \E h \in Handlers : SetReadHandler(r, h)
  <2>1. PICK h \in Handlers : SetReadHandler(r, h)
    BY <1>2
  <2>2. rd[r].handlers \cup {h} \in SUBSET Handlers
    BY ReadHandlersType
  <2>3. rd' \in [Rd -> ReadState]
    BY <2>1, <2>2 DEF SetReadHandler
  <2> QED
    BY <2>1, <2>3, KernelStutterType DEF SetReadHandler
<1>3. CASE ReadReconnectTrue(r)
  BY <1>3, KernelStutterType DEF ReadReconnectTrue
<1>4. CASE StartRead(r)
  BY <1>4, KernelStutterType DEF StartRead
<1>5. CASE StopRead(r)
  BY <1>5, KernelStutterType DEF StopRead
<1> QED
  BY <1>1, <1>2, <1>3, <1>4, <1>5

(* The reading thread outside its callbacks. *)
LEMMA ReadThreadType ==
  ASSUME NEW Unit, KernelTypeOK(Unit), rd \in [Rd -> ReadState], NEW r \in Rd,
         ReadThreadStep(r)
  PROVE  KernelTypeOK(Unit)' /\ rd' \in [Rd -> ReadState]
<1> USE ReadFields DEF ReadPc
<1>1. CASE ReadConnect(r)
  BY <1>1, KernelStutterType DEF ReadConnect
<1>2. CASE ReadOpen(r)
  <2>1. KernelTypeOK(Unit)'
    BY <1>2, ReadConstants, OpenCallType, KernelStutterType
       DEF ReadOpen, openFifo, openFifoFails
  <2>2. \/ rd' = [rd EXCEPT ![r].pc = "opening"]
        \/ rd' = [rd EXCEPT ![r].pc = "opened", ![r].fifoFd = NoFd]
    BY <1>2 DEF ReadOpen
  <2>3. CASE rd' = [rd EXCEPT ![r].pc = "opening"]
    BY <2>1, <2>3
  <2>4. CASE rd' = [rd EXCEPT ![r].pc = "opened", ![r].fifoFd = NoFd]
    BY <2>1, <2>4
  <2> QED
    BY <2>2, <2>3, <2>4
<1>3. CASE ReadOpenReturns(r)
  <2>1. KernelTypeOK(Unit)'
    BY <1>3, ReadConstants, OpenReturnType DEF ReadOpenReturns, openFifoReturns
  <2>2. sys[ReadThread(r)].fd \in Fd \cup {NoFd}
    BY ReadConstants DEF KernelTypeOK
  <2> QED
    BY <1>3, <2>1, <2>2 DEF ReadOpenReturns
<1>4. CASE ReadOpened(r)
  BY <1>4, KernelStutterType DEF ReadOpened
<1>5. CASE ReadConnected(r)
  BY <1>5, KernelStutterType DEF ReadConnected
<1>6. CASE ReadCheck(r)
  BY <1>6, KernelStutterType DEF ReadCheck
<1>7. CASE ReadLoop(r)
  BY <1>7, KernelStutterType DEF ReadLoop
<1>8. CASE ReadCall(r)
  <2>1. CASE Usable(ReadThread(r), rd[r].fifoFd, "R")
    <3>1. KernelTypeOK(Unit)'
      BY <1>8, <2>1, ReadConstants, IoCallType DEF ReadCall
    <3>2. rd' = [rd EXCEPT ![r].pc = "reading"]
      BY <1>8, <2>1 DEF ReadCall
    <3> QED
      BY <3>1, <3>2
  <2>2. CASE ~Usable(ReadThread(r), rd[r].fifoFd, "R")
    <3>1. KernelTypeOK(Unit)'
      BY <1>8, <2>2, KernelStutterType DEF ReadCall
    <3>2. rd' = [rd EXCEPT ![r].pc = "disconnectH", ![r].waitConnect = FALSE]
      BY <1>8, <2>2 DEF ReadCall, ReadDown
    <3> QED
      BY <3>1, <3>2
  <2> QED
    BY <2>1, <2>2
<1>9. CASE ReadEnds(r)
  BY <1>9, ReadConstants, IoReturnType DEF ReadEnds, ReadDown
<1>10. CASE ReadAgain(r)
  BY <1>10, KernelStutterType DEF ReadAgain
<1> QED
  BY <1>1, <1>2, <1>3, <1>4, <1>5, <1>6, <1>7, <1>8, <1>9, <1>10
     DEF ReadThreadStep

(* The callbacks of the reading thread. *)
LEMMA ReadCallbackType ==
  ASSUME NEW Unit, KernelTypeOK(Unit), rd \in [Rd -> ReadState], NEW r \in Rd,
         \/ ReadConnectHandlerReturns(r) \/ ReadDisconnectHandlerReturns(r)
         \/ ReadMessageHandlerReturns(r) \/ ReadData(r)
  PROVE  KernelTypeOK(Unit)' /\ rd' \in [Rd -> ReadState]
<1> USE ReadFields DEF ReadPc
<1>1. CASE ReadConnectHandlerReturns(r)
  BY <1>1, KernelStutterType DEF ReadConnectHandlerReturns
<1>2. CASE ReadDisconnectHandlerReturns(r)
  BY <1>2, KernelStutterType DEF ReadDisconnectHandlerReturns
<1>3. CASE ReadMessageHandlerReturns(r)
  BY <1>3, KernelStutterType DEF ReadMessageHandlerReturns
<1>4. CASE ReadData(r)
  <2>1. KernelTypeOK(Unit)'
    BY <1>4, ReadConstants, ReadReturnType, FifoReadAssumption DEF ReadData
  <2> DEFINE full == HandlerMoves /\ Len(Chunk(ReadThread(r), MaxLine)) = MaxLine
  <2>2. full \in BOOLEAN
    OBVIOUS
  <2>3. rd' = [rd EXCEPT ![r].pc = "messageH", ![r].moved = full]
    BY <1>4 DEF ReadData
  <2> HIDE DEF full
  <2> QED
    BY <2>1, <2>2, <2>3
<1> QED
  BY <1>1, <1>2, <1>3, <1>4

(* The number an object keeps is a number or none. *)
LEMMA ReadNumberType ==
  ASSUME NEW s \in ReadState
  PROVE  s.fifoFd \in Fd \cup {NoFd}
BY DEF ReadState

(* The rest of stopRead(). *)
LEMMA StopReadType ==
  ASSUME NEW Unit, KernelTypeOK(Unit), rd \in [Rd -> ReadState], NEW r \in Rd,
         StopReadStep(r)
  PROVE  KernelTypeOK(Unit)' /\ rd' \in [Rd -> ReadState]
<1> USE ReadFields DEF ReadPc, ReadCtl
<1>1. CASE StopReadReconnect(r)
  BY <1>1, KernelStutterType DEF StopReadReconnect
<1>2. CASE StopReadTestOpen(r)
  BY <1>2, KernelStutterType DEF StopReadTestOpen
<1>3. CASE StopReadRelease(r)
  <2>1. KernelTypeOK(Unit)'
    BY <1>3, ReadConstants, OpenCallType, KernelStutterType
       DEF StopReadRelease, openFifo, openFifoFails
  <2>2. \/ rd' = [rd EXCEPT ![r].ctl = "releasing"]
        \/ rd' = [rd EXCEPT ![r].ctl = "releaseClose", ![r].fd = NoFd]
    BY <1>3 DEF StopReadRelease
  <2>3. CASE rd' = [rd EXCEPT ![r].ctl = "releasing"]
    BY <2>1, <2>3
  <2>4. CASE rd' = [rd EXCEPT ![r].ctl = "releaseClose", ![r].fd = NoFd]
    BY <2>1, <2>4
  <2> QED
    BY <2>2, <2>3, <2>4
<1>4. CASE StopReadReleased(r)
  <2>1. KernelTypeOK(Unit)'
    BY <1>4, ReadConstants, OpenReturnType DEF StopReadReleased, openFifoReturns
  <2>2. sys[Caller(r)].fd \in Fd \cup {NoFd}
    BY ReadConstants DEF KernelTypeOK
  <2> QED
    BY <1>4, <2>1, <2>2 DEF StopReadReleased
<1>5. CASE StopReadReleaseClose(r)
  BY <1>5, ReadConstants, CloseType DEF StopReadReleaseClose
<1>6. CASE StopReadClose(r)
  BY <1>6, ReadConstants, CloseType DEF StopReadClose
<1>7. CASE StopReadJoin(r)
  BY <1>7, KernelStutterType DEF StopReadJoin
<1>8. CASE StopReadTakes(r)
  <2>1. rd[r].fifoFd \in Fd \cup {NoFd}
    BY ReadNumberType
  <2>2. KernelTypeOK(Unit)'
    BY <1>8, KernelStutterType DEF StopReadTakes
  <2>3. PICK n \in Fd \cup {NoFd} :
          rd' = [rd EXCEPT ![r].ctl = "closing", ![r].fd = n]
    BY <1>8, <2>1 DEF StopReadTakes
  <2> QED
    BY <2>2, <2>3
<1> QED
  BY <1>1, <1>2, <1>3, <1>4, <1>5, <1>6, <1>7, <1>8 DEF StopReadStep

(* What the reading thread's steps outside its callbacks do to its position *)
(* and to waitConnect: it enters a connect callback with the flag set, a    *)
(* disconnect callback with the flag reset, and else leaves the flag alone. *)
LEMMA ReadThreadMoves ==
  ASSUME rd \in [Rd -> ReadState], NEW r \in Rd,
         ReadThreadStep(r) \/ ReadData(r) \/ ReadMessageHandlerReturns(r)
  PROVE  /\ \A q \in Rd \ {r} : rd'[q] = rd[q]
         /\ rd'[r].ctl = rd[r].ctl
         /\ rd[r].pc \notin {"none", "connectH", "disconnectH"} /\ rd'[r].pc # "none"
         /\ \/ /\ rd'[r].pc \notin {"connectH", "disconnectH"}
               /\ rd'[r].waitConnect = rd[r].waitConnect
            \/ rd'[r].pc = "connectH" /\ rd'[r].waitConnect
            \/ rd'[r].pc = "disconnectH" /\ ~rd'[r].waitConnect
<1> USE DEF ReadState
<1>1. CASE ReadConnect(r)
  BY <1>1 DEF ReadConnect
<1>2. CASE ReadOpen(r)
  <2>1. /\ rd[r].pc = "open"
        /\ \/ rd' = [rd EXCEPT ![r].pc = "opening"]
           \/ rd' = [rd EXCEPT ![r].pc = "opened", ![r].fifoFd = NoFd]
    BY <1>2 DEF ReadOpen
  <2> QED
    BY <2>1
<1>3. CASE ReadOpenReturns(r)
  BY <1>3 DEF ReadOpenReturns
<1>4. CASE ReadOpened(r)
  BY <1>4 DEF ReadOpened
<1>5. CASE ReadCheck(r)
  BY <1>5 DEF ReadCheck
<1>6. CASE ReadConnected(r)
  BY <1>6 DEF ReadConnected
<1>7. CASE ReadLoop(r)
  BY <1>7 DEF ReadLoop
<1>8. CASE ReadCall(r)
  <2>1. /\ rd[r].pc = "read"
        /\ \/ rd' = [rd EXCEPT ![r].pc = "reading"]
           \/ rd' = [rd EXCEPT ![r].pc = "disconnectH", ![r].waitConnect = FALSE]
    BY <1>8 DEF ReadCall, ReadDown
  <2> QED
    BY <2>1
<1>9. CASE ReadEnds(r)
  <2>1. /\ rd[r].pc = "reading"
        /\ rd' = [rd EXCEPT ![r].pc = "disconnectH", ![r].waitConnect = FALSE]
    BY <1>9 DEF ReadEnds, ReadDown
  <2> QED
    BY <2>1
<1>10. CASE ReadAgain(r)
  BY <1>10 DEF ReadAgain
<1>11. CASE ReadData(r)
  BY <1>11 DEF ReadData
<1>12. CASE ReadMessageHandlerReturns(r)
  BY <1>12 DEF ReadMessageHandlerReturns
<1> QED
  BY <1>1, <1>2, <1>3, <1>4, <1>5, <1>6, <1>7, <1>8, <1>9, <1>10, <1>11, <1>12
     DEF ReadThreadStep

(* stopRead() moves no thread, but for the last step, which ends it.        *)
LEMMA StopReadMoves ==
  ASSUME rd \in [Rd -> ReadState], NEW r \in Rd, StopRead(r) \/ StopReadStep(r)
  PROVE  /\ \A q \in Rd \ {r} : rd'[q] = rd[q]
         /\ rd[r].ctl \notin {"unborn", "stopped"}
         /\ \/ /\ rd'[r].pc = rd[r].pc /\ rd'[r].waitConnect = rd[r].waitConnect
               /\ rd'[r].ctl \notin {"unborn", "stopped", "started"}
            \/ /\ rd[r].pc = "done" /\ rd'[r].pc = "none" /\ ~rd'[r].waitConnect
               /\ rd'[r].ctl = "stopped"
<1> USE DEF ReadState
<1>1. CASE StopRead(r)
  BY <1>1 DEF StopRead
<1>2. CASE StopReadReconnect(r)
  BY <1>2 DEF StopReadReconnect
<1>3. CASE StopReadTestOpen(r)
  BY <1>3 DEF StopReadTestOpen
<1>4. CASE StopReadRelease(r)
  <2>1. /\ rd[r].ctl = "release"
        /\ \/ rd' = [rd EXCEPT ![r].ctl = "releasing"]
           \/ rd' = [rd EXCEPT ![r].ctl = "releaseClose", ![r].fd = NoFd]
    BY <1>4 DEF StopReadRelease
  <2> QED
    BY <2>1
<1>5. CASE StopReadReleased(r)
  BY <1>5 DEF StopReadReleased
<1>6. CASE StopReadReleaseClose(r)
  BY <1>6 DEF StopReadReleaseClose
<1>7. CASE StopReadClose(r)
  BY <1>7 DEF StopReadClose
<1>8. CASE StopReadJoin(r)
  BY <1>8 DEF StopReadJoin
<1>9. CASE StopReadTakes(r)
  BY <1>9 DEF StopReadTakes
<1> QED
  BY <1>1, <1>2, <1>3, <1>4, <1>5, <1>6, <1>7, <1>8, <1>9 DEF StopReadStep

-----------------------------------------------------------------------------
(* FifoWriteQ *)

(* The threads and the pipe of an object are threads and a pipe. *)
LEMMA WriteConstants ==
  ASSUME NEW o \in Wr
  PROVE  /\ WriteThread(o) \in Thread /\ Caller(o) \in Thread
         /\ addrWrite[o] \in Pipe
         /\ EndOf(addrWrite[o], "R") \in End /\ EndOf(addrWrite[o], "W") \in End
BY FifoWriteQAssumption DEF EndOf, End

LEMMA FifoWriteQInitType ==
  ASSUME FifoWriteQInit
  PROVE  wr \in [Wr -> WriteState]
BY DEF FifoWriteQInit, WriteState, WritePc, WriteCtl, NoFd

(* The fields can be assigned one by one. *)
LEMMA WriteFields ==
  ASSUME NEW s \in WriteState
  PROVE  /\ \A x \in SUBSET WriteHandlers : [s EXCEPT !.handlers = x] \in WriteState
         /\ \A x \in BOOLEAN : [s EXCEPT !.reconnect = x] \in WriteState
         /\ \A x \in BOOLEAN : [s EXCEPT !.runWrite = x] \in WriteState
         /\ \A x \in BOOLEAN : [s EXCEPT !.waitConnect = x] \in WriteState
         /\ \A x \in BOOLEAN : [s EXCEPT !.waitOpen = x] \in WriteState
         /\ \A x \in Fd \cup {NoFd} : [s EXCEPT !.fifoFd = x] \in WriteState
         /\ \A x \in Fd \cup {NoFd} : [s EXCEPT !.fd = x] \in WriteState
         /\ \A x \in Seq(1..MaxPushes) : [s EXCEPT !.queue = x] \in WriteState
         /\ \A x \in Nat : [s EXCEPT !.written = x] \in WriteState
         /\ \A x \in WritePc : [s EXCEPT !.pc = x] \in WriteState
         /\ \A x \in WriteCtl : [s EXCEPT !.ctl = x] \in WriteState
BY DEF WriteState

LEMMA WriteFieldTypes ==
  ASSUME NEW s \in WriteState
  PROVE  /\ s.handlers \in SUBSET WriteHandlers
         /\ s.queue \in Seq(1..MaxPushes) /\ s.written \in Nat
BY DEF WriteState

(* The constructor, the setters, startWrite() and the entry of stopWrite(). *)
LEMMA WriteOwnerType ==
  ASSUME NEW Unit, KernelTypeOK(Unit), wr \in [Wr -> WriteState], NEW o \in Wr,
         \/ WriteQNew(o) \/ (\E h \in WriteHandlers : SetWriteHandler(o, h))
         \/ WriteReconnectTrue(o) \/ StartWrite(o) \/ StopWrite(o)
  PROVE  KernelTypeOK(Unit)' /\ wr' \in [Wr -> WriteState]
<1> USE WriteFields DEF WritePc, WriteCtl
<1>1. CASE WriteQNew(o)
  BY <1>1, WriteConstants, PathType DEF WriteQNew, createFifo
<1>2. CASE \E h \in WriteHandlers : SetWriteHandler(o, h)
  <2>1. PICK h \in WriteHandlers : SetWriteHandler(o, h)
    BY <1>2
  <2>2. wr[o].handlers \cup {h} \in SUBSET WriteHandlers
    BY WriteFieldTypes
  <2>3. wr' \in [Wr -> WriteState]
    BY <2>1, <2>2 DEF SetWriteHandler
  <2> QED
    BY <2>1, <2>3, KernelStutterType DEF SetWriteHandler
<1>3. CASE WriteReconnectTrue(o)
  BY <1>3, KernelStutterType DEF WriteReconnectTrue
<1>4. CASE StartWrite(o)
  BY <1>4, KernelStutterType DEF StartWrite
<1>5. CASE StopWrite(o)
  BY <1>5, KernelStutterType DEF StopWrite
<1> QED
  BY <1>1, <1>2, <1>3, <1>4, <1>5

(* pushData(). *)
LEMMA PushDataType ==
  ASSUME NEW Unit, KernelTypeOK(Unit), wr \in [Wr -> WriteState], NEW o \in Wr,
         NEW m \in 1..MaxPushes, PushData(o, m)
  PROVE  KernelTypeOK(Unit)' /\ wr' \in [Wr -> WriteState]
<1>1. Append(wr[o].queue, m) \in Seq(1..MaxPushes)
  BY WriteFieldTypes, AppendProperties
<1>2. wr' = [wr EXCEPT ![o].queue = Append(wr[o].queue, m)]
  BY DEF PushData
<1>3. wr' \in [Wr -> WriteState]
  BY <1>1, <1>2, WriteFields
<1> QED
  BY <1>3, KernelStutterType DEF PushData

(* The writing thread outside its callbacks and its write(). *)
LEMMA WriteThreadType ==
  ASSUME NEW Unit, KernelTypeOK(Unit), wr \in [Wr -> WriteState], NEW o \in Wr,
         wr[o].pc \in {"write", "writing"} => wr[o].queue # <<>>,
         WriteThreadStep(o)
  PROVE  KernelTypeOK(Unit)' /\ wr' \in [Wr -> WriteState]
<1> USE WriteFields DEF WritePc
<1>1. CASE WriteConnect(o)
  BY <1>1, KernelStutterType DEF WriteConnect
<1>2. CASE WriteOpen(o)
  <2>1. KernelTypeOK(Unit)'
    BY <1>2, WriteConstants, OpenCallType, KernelStutterType
       DEF WriteOpen, openFifo, openFifoFails
  <2>2. \/ wr' = [wr EXCEPT ![o].pc = "opening"]
        \/ wr' = [wr EXCEPT ![o].pc = "opened", ![o].fifoFd = NoFd]
    BY <1>2 DEF WriteOpen
  <2>3. CASE wr' = [wr EXCEPT ![o].pc = "opening"]
    BY <2>1, <2>3
  <2>4. CASE wr' = [wr EXCEPT ![o].pc = "opened", ![o].fifoFd = NoFd]
    BY <2>1, <2>4
  <2> QED
    BY <2>2, <2>3, <2>4
<1>3. CASE WriteOpenReturns(o)
  <2>1. KernelTypeOK(Unit)'
    BY <1>3, WriteConstants, OpenReturnType DEF WriteOpenReturns, openFifoReturns
  <2>2. sys[WriteThread(o)].fd \in Fd \cup {NoFd}
    BY WriteConstants DEF KernelTypeOK
  <2> QED
    BY <1>3, <2>1, <2>2 DEF WriteOpenReturns
<1>4. CASE WriteOpened(o)
  BY <1>4, KernelStutterType DEF WriteOpened
<1>5. CASE WriteCheck(o)
  BY <1>5, KernelStutterType DEF WriteCheck
<1>6. CASE WriteConnected(o)
  BY <1>6, KernelStutterType DEF WriteConnected
<1>7. CASE WriteLoop(o)
  BY <1>7, KernelStutterType DEF WriteLoop
<1>8. CASE WriteLock(o)
  BY <1>8, KernelStutterType DEF WriteLock
<1>9. CASE WriteCall(o)
  <2>1. CASE Usable(WriteThread(o), wr[o].fifoFd, "W")
    <3>1. KernelTypeOK(Unit)'
      BY <1>9, <2>1, WriteConstants, IoCallType DEF WriteCall
    <3>2. wr' = [wr EXCEPT ![o].pc = "writing", ![o].written = 0]
      BY <1>9, <2>1 DEF WriteCall
    <3> QED
      BY <3>1, <3>2
  <2>2. CASE ~Usable(WriteThread(o), wr[o].fifoFd, "W")
    <3>1. KernelTypeOK(Unit)'
      BY <1>9, <2>2, KernelStutterType DEF WriteCall
    <3>2. wr' = [wr EXCEPT ![o].pc = "disconnectH", ![o].waitConnect = FALSE]
      BY <1>9, <2>2 DEF WriteCall, WriteDown
    <3> QED
      BY <3>1, <3>2
  <2> QED
    BY <2>1, <2>2
<1>10. CASE WritePop(o)
  <2>1. KernelTypeOK(Unit)'
    BY <1>10, WriteConstants, IoReturnType DEF WritePop
  <2>2. Tail(wr[o].queue) \in Seq(1..MaxPushes)
    BY <1>10, WriteFieldTypes, HeadTailProperties DEF WritePop
  <2>3. wr' = [wr EXCEPT ![o].pc = "loop", ![o].queue = Tail(wr[o].queue),
                         ![o].written = 0]
    BY <1>10 DEF WritePop
  <2> QED
    BY <2>1, <2>2, <2>3
<1>11. CASE WriteFails(o)
  BY <1>11, WriteConstants, IoReturnType DEF WriteFails, WriteDown
<1>12. CASE WriteAgain(o)
  BY <1>12, KernelStutterType DEF WriteAgain
<1> QED
  BY <1>1, <1>2, <1>3, <1>4, <1>5, <1>6, <1>7, <1>8, <1>9, <1>10, <1>11, <1>12
     DEF WriteThreadStep

(* The message that is being written is one of those pushed. *)
LEMMA WritingMessage ==
  ASSUME wr \in [Wr -> WriteState], NEW o \in Wr, wr[o].queue # <<>>
  PROVE  /\ Head(wr[o].queue) \in 1..MaxPushes
         /\ <<Head(wr[o].queue), wr[o].written + 1>> \in (1..MaxPushes) \X Nat
<1>1. wr[o].queue \in Seq(1..MaxPushes) /\ wr[o].written + 1 \in Nat
  BY WriteFieldTypes
<1>2. Head(wr[o].queue) \in 1..MaxPushes
  BY <1>1, HeadTailProperties
<1> QED
  BY <1>1, <1>2

(* The write itself. *)
LEMMA WriteUnitsType ==
  ASSUME NEW Unit, (1..MaxPushes) \X Nat \subseteq Unit, KernelTypeOK(Unit),
         wr \in [Wr -> WriteState], NEW o \in Wr, wr[o].queue # <<>>, WriteUnits(o)
  PROVE  KernelTypeOK(Unit)' /\ wr' \in [Wr -> WriteState]
<1>1. KernelTypeOK(Unit)'
  <2>1. <<Head(wr[o].queue), wr[o].written + 1>> \in Unit
    BY WritingMessage
  <2> QED
    BY <2>1, WriteConstants, WriteUnitType DEF WriteUnits
<1>2. wr[o].written + 1 \in Nat
  BY WriteFieldTypes
<1>3. wr' = [wr EXCEPT ![o].written = wr[o].written + 1]
  BY DEF WriteUnits
<1> QED
  BY <1>1, <1>2, <1>3, WriteFields

(* The callbacks of the writing thread, and that of stopWrite(). *)
LEMMA WriteCallbackType ==
  ASSUME NEW Unit, KernelTypeOK(Unit), wr \in [Wr -> WriteState], NEW o \in Wr,
         \/ WriteConnectHandlerReturns(o) \/ WriteDisconnectHandlerReturns(o)
         \/ StopWriteHandlerReturns(o)
  PROVE  KernelTypeOK(Unit)' /\ wr' \in [Wr -> WriteState]
<1> USE WriteFields DEF WritePc, WriteCtl
<1>1. CASE WriteConnectHandlerReturns(o)
  BY <1>1, KernelStutterType DEF WriteConnectHandlerReturns
<1>2. CASE WriteDisconnectHandlerReturns(o)
  BY <1>2, KernelStutterType DEF WriteDisconnectHandlerReturns
<1>3. CASE StopWriteHandlerReturns(o)
  BY <1>3, KernelStutterType DEF StopWriteHandlerReturns
<1> QED
  BY <1>1, <1>2, <1>3

(* The number an object keeps is a number or none. *)
LEMMA WriteNumberType ==
  ASSUME NEW s \in WriteState
  PROVE  s.fifoFd \in Fd \cup {NoFd}
BY DEF WriteState

(* The rest of stopWrite(). *)
LEMMA StopWriteType ==
  ASSUME NEW Unit, KernelTypeOK(Unit), wr \in [Wr -> WriteState], NEW o \in Wr,
         StopWriteStep(o)
  PROVE  KernelTypeOK(Unit)' /\ wr' \in [Wr -> WriteState]
<1> USE WriteFields DEF WritePc, WriteCtl
<1>1. CASE StopWriteReconnect(o)
  BY <1>1, KernelStutterType DEF StopWriteReconnect
<1>2. CASE StopWriteTestOpen(o)
  BY <1>2, KernelStutterType DEF StopWriteTestOpen
<1>3. CASE StopWriteRelease(o)
  <2>1. KernelTypeOK(Unit)'
    BY <1>3, WriteConstants, OpenCallType, KernelStutterType
       DEF StopWriteRelease, openFifo, openFifoFails
  <2>2. \/ wr' = [wr EXCEPT ![o].ctl = "releasing"]
        \/ wr' = [wr EXCEPT ![o].ctl = "releaseClose", ![o].fd = NoFd]
    BY <1>3 DEF StopWriteRelease
  <2>3. CASE wr' = [wr EXCEPT ![o].ctl = "releasing"]
    BY <2>1, <2>3
  <2>4. CASE wr' = [wr EXCEPT ![o].ctl = "releaseClose", ![o].fd = NoFd]
    BY <2>1, <2>4
  <2> QED
    BY <2>2, <2>3, <2>4
<1>4. CASE StopWriteReleased(o)
  <2>1. KernelTypeOK(Unit)'
    BY <1>4, WriteConstants, OpenReturnType DEF StopWriteReleased, openFifoReturns
  <2>2. sys[Caller(o)].fd \in Fd \cup {NoFd}
    BY WriteConstants DEF KernelTypeOK
  <2> QED
    BY <1>4, <2>1, <2>2 DEF StopWriteReleased
<1>5. CASE StopWriteReleaseClose(o)
  BY <1>5, WriteConstants, CloseType DEF StopWriteReleaseClose
<1>6. CASE StopWriteClose(o)
  BY <1>6, WriteConstants, CloseType DEF StopWriteClose
<1>7. CASE StopWriteJoin(o)
  BY <1>7, KernelStutterType DEF StopWriteJoin
<1>8. CASE StopWriteTakes(o)
  <2>1. wr[o].fifoFd \in Fd \cup {NoFd}
    BY WriteNumberType
  <2>2. KernelTypeOK(Unit)'
    BY <1>8, KernelStutterType DEF StopWriteTakes
  <2>3. PICK n \in Fd \cup {NoFd} :
          wr' = [wr EXCEPT ![o].ctl = "closing", ![o].fd = n]
    BY <1>8, <2>1 DEF StopWriteTakes
  <2> QED
    BY <2>2, <2>3
<1> QED
  BY <1>1, <1>2, <1>3, <1>4, <1>5, <1>6, <1>7, <1>8 DEF StopWriteStep

(* What the writing thread's steps outside its callbacks do to its position *)
(* and to waitConnect, as for the reader; it comes to a write() only with a *)
(* message.                                                                 *)
LEMMA WriteThreadMoves ==
  ASSUME wr \in [Wr -> WriteState], NEW o \in Wr, WriteThreadStep(o) \/ WriteUnits(o),
         wr[o].pc \in {"write", "writing"} => wr[o].queue # <<>>
  PROVE  /\ \A q \in Wr \ {o} : wr'[q] = wr[q]
         /\ wr'[o].ctl = wr[o].ctl
         /\ wr[o].pc \notin {"none", "connectH", "disconnectH"} /\ wr'[o].pc # "none"
         /\ \/ /\ wr'[o].pc \notin {"connectH", "disconnectH"}
               /\ wr'[o].waitConnect = wr[o].waitConnect
            \/ wr'[o].pc = "connectH" /\ wr'[o].waitConnect
            \/ wr'[o].pc = "disconnectH" /\ ~wr'[o].waitConnect
         /\ wr'[o].pc \in {"write", "writing"} => wr'[o].queue # <<>>
<1> USE DEF WriteState
<1>1. CASE WriteConnect(o)
  BY <1>1 DEF WriteConnect
<1>2. CASE WriteOpen(o)
  <2>1. /\ wr[o].pc = "open"
        /\ \/ wr' = [wr EXCEPT ![o].pc = "opening"]
           \/ wr' = [wr EXCEPT ![o].pc = "opened", ![o].fifoFd = NoFd]
    BY <1>2 DEF WriteOpen
  <2> QED
    BY <2>1
<1>3. CASE WriteOpenReturns(o)
  BY <1>3 DEF WriteOpenReturns
<1>4. CASE WriteOpened(o)
  BY <1>4 DEF WriteOpened
<1>5. CASE WriteCheck(o)
  BY <1>5 DEF WriteCheck
<1>6. CASE WriteConnected(o)
  BY <1>6 DEF WriteConnected
<1>7. CASE WriteLoop(o)
  BY <1>7 DEF WriteLoop
<1>8. CASE WriteLock(o)
  BY <1>8 DEF WriteLock
<1>9. CASE WriteCall(o)
  <2>1. /\ wr[o].pc = "write"
        /\ \/ wr' = [wr EXCEPT ![o].pc = "writing", ![o].written = 0]
           \/ wr' = [wr EXCEPT ![o].pc = "disconnectH", ![o].waitConnect = FALSE]
    BY <1>9 DEF WriteCall, WriteDown
  <2> QED
    BY <2>1
<1>10. CASE WritePop(o)
  <2>1. /\ wr[o].pc = "writing"
        /\ wr' = [wr EXCEPT ![o].pc = "loop", ![o].queue = Tail(@), ![o].written = 0]
    BY <1>10 DEF WritePop
  <2> QED
    BY <2>1
<1>11. CASE WriteFails(o)
  <2>1. /\ wr[o].pc = "writing"
        /\ wr' = [wr EXCEPT ![o].pc = "disconnectH", ![o].waitConnect = FALSE]
    BY <1>11 DEF WriteFails, WriteDown
  <2> QED
    BY <2>1
<1>12. CASE WriteAgain(o)
  BY <1>12 DEF WriteAgain
<1>13. CASE WriteUnits(o)
  <2>1. /\ wr[o].pc = "writing"
        /\ wr' = [wr EXCEPT ![o].written = @ + 1]
    BY <1>13 DEF WriteUnits
  <2> QED
    BY <2>1
<1> QED
  BY <1>1, <1>2, <1>3, <1>4, <1>5, <1>6, <1>7, <1>8, <1>9, <1>10, <1>11, <1>12, <1>13
     DEF WriteThreadStep

(* stopWrite() moves no thread, but for the last step, which ends it.       *)
LEMMA StopWriteMoves ==
  ASSUME wr \in [Wr -> WriteState], NEW o \in Wr, StopWrite(o) \/ StopWriteStep(o)
  PROVE  /\ \A q \in Wr \ {o} : wr'[q] = wr[q]
         /\ wr[o].ctl \notin {"unborn", "stopped", "disconnectH"}
         /\ wr[o].ctl = "started" <=> StopWrite(o)
         /\ wr'[o].queue = wr[o].queue
         /\ \/ /\ wr'[o].pc = wr[o].pc /\ wr'[o].waitConnect = wr[o].waitConnect
               /\ wr'[o].ctl \notin {"unborn", "stopped", "started"}
            \/ /\ wr[o].pc = "done" /\ wr'[o].pc = "none" /\ ~wr'[o].waitConnect
               /\ wr'[o].ctl = "stopped"
<1> USE DEF WriteState
<1>1. CASE StopWrite(o)
  BY <1>1 DEF StopWrite
<1>2. CASE StopWriteReconnect(o)
  BY <1>2 DEF StopWriteReconnect, StopWrite
<1>3. CASE StopWriteTestOpen(o)
  BY <1>3 DEF StopWriteTestOpen, StopWrite
<1>4. CASE StopWriteRelease(o)
  <2>1. /\ wr[o].ctl = "release"
        /\ \/ wr' = [wr EXCEPT ![o].ctl = "releasing"]
           \/ wr' = [wr EXCEPT ![o].ctl = "releaseClose", ![o].fd = NoFd]
    BY <1>4 DEF StopWriteRelease
  <2> QED
    BY <2>1 DEF StopWrite
<1>5. CASE StopWriteReleased(o)
  BY <1>5 DEF StopWriteReleased, StopWrite
<1>6. CASE StopWriteReleaseClose(o)
  BY <1>6 DEF StopWriteReleaseClose, StopWrite
<1>7. CASE StopWriteClose(o)
  BY <1>7 DEF StopWriteClose, StopWrite
<1>8. CASE StopWriteJoin(o)
  BY <1>8 DEF StopWriteJoin, StopWrite
<1>9. CASE StopWriteTakes(o)
  BY <1>9 DEF StopWriteTakes, StopWrite
<1> QED
  BY <1>1, <1>2, <1>3, <1>4, <1>5, <1>6, <1>7, <1>8, <1>9 DEF StopWriteStep
=============================================================================
