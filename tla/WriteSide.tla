------------------------------ MODULE WriteSide ------------------------------
(***************************************************************************)
(* WriteQImpl objects under an application like those of IpcBase/test: it  *)
(* counts the connect and disconnect callbacks, pushes messages at any     *)
(* time, starts and stops the objects.  Peers read the pipes and come and  *)
(* go.                                                                     *)
(***************************************************************************)
EXTENDS FifoWriteQ, PipePeer, Functions

CONSTANTS
  Reconnecting,  \* the objects whose owner calls reconnectTrue()
  MayUnlink,     \* may the path names be removed (the server's destructor)?
  MaxStarts      \* bound: startWrite() calls per object

ASSUME WriteSideAssumption ==
  /\ Reconnecting \subseteq Wr
  /\ MayUnlink \in BOOLEAN
  /\ MaxStarts \in Nat

VARIABLES
  out,             \* out[o]: the units object o has written, in order
  flagConnect,     \* flagConnect[o]: connect callbacks run
  flagDisconnect,  \* flagDisconnect[o]: disconnect callbacks run
  starts,          \* starts[o]: startWrite() calls made
  pushed           \* pushed[o]: pushData() calls made

app  == <<out, flagConnect, flagDisconnect, starts, pushed>>
vars == <<kernel, wr, peer, app>>

Unit == (1..MaxPushes) \X Nat

Init ==
  /\ KernelInit /\ FifoWriteQInit /\ PeerInit
  /\ out = [o \in Wr |-> <<>>]
  /\ flagConnect = [o \in Wr |-> 0] /\ flagDisconnect = [o \in Wr |-> 0]
  /\ starts = [o \in Wr |-> 0]
  /\ pushed = [o \in Wr |-> 0]

-----------------------------------------------------------------------------
(* The owner of the object. *)
Configure(o) ==
  /\ \/ WriteQNew(o)
     \/ \E h \in WriteHandlers : SetWriteHandler(o, h)
     \/ o \in Reconnecting /\ WriteReconnectTrue(o)
  /\ UNCHANGED <<peer, app>>

Start(o) ==
  /\ starts[o] < MaxStarts
  /\ o \in Reconnecting /\ starts[o] = 0 => wr[o].reconnect
  /\ StartWrite(o)
  /\ starts' = [starts EXCEPT ![o] = @ + 1]
  /\ UNCHANGED <<peer, out, flagConnect, flagDisconnect, pushed>>

Push(o) ==
  /\ pushed[o] < MaxPushes
  /\ PushData(o, pushed[o] + 1)
  /\ pushed' = [pushed EXCEPT ![o] = @ + 1]
  /\ UNCHANGED <<peer, out, flagConnect, flagDisconnect, starts>>

Stop(o) == StopWrite(o) /\ UNCHANGED <<peer, app>>

(* The bodies of the callbacks count, as the tests' lambdas do. *)
ConnectHandler(o) ==
  /\ WriteConnectHandlerReturns(o)
  /\ flagConnect' = [flagConnect EXCEPT ![o] = @ + 1]
  /\ UNCHANGED <<peer, out, flagDisconnect, starts, pushed>>

DisconnectHandler(o) ==
  /\ flagDisconnect' = [flagDisconnect EXCEPT ![o] = @ + 1]
  /\ UNCHANGED <<peer, out, flagConnect, starts, pushed>>

Stopping(o) ==
  \/ StopWriteStep(o) /\ UNCHANGED <<peer, app>>
  \/ StopWriteHandlerReturns(o) /\ DisconnectHandler(o)

WriteMessage(o) ==
  /\ WriteUnits(o)
  /\ out' = [out EXCEPT ![o] = Append(@, <<Head(wr[o].queue), wr[o].written + 1>>)]
  /\ UNCHANGED <<peer, flagConnect, flagDisconnect, starts, pushed>>

Writing(o) ==
  \/ WriteThreadStep(o) /\ UNCHANGED <<peer, app>>
  \/ ConnectHandler(o) \/ WriteMessage(o)
  \/ WriteDisconnectHandlerReturns(o) /\ DisconnectHandler(o)

(* The other end, and the path name. *)
Arrive(w)  == PeerOpens(w, "R") /\ UNCHANGED <<wr, app>>
Enter(w)   == PeerEnters(w) /\ UNCHANGED <<wr, app>>
Leave(w)   == PeerLeaves(w) /\ UNCHANGED <<wr, app>>
Receive(w) == PeerReads(w) /\ UNCHANGED <<wr, app>>

Remove(p) == MayUnlink /\ p \in linked /\ Unlink(p) /\ UNCHANGED <<wr, peer, app>>

Next ==
  \/ \E o \in Wr : Configure(o) \/ Start(o) \/ Push(o) \/ Stop(o)
                     \/ Stopping(o) \/ Writing(o)
  \/ \E w \in Peer : Arrive(w) \/ Enter(w) \/ Leave(w) \/ Receive(w)
  \/ \E p \in Pipe : Remove(p)

Spec == Init /\ [][Next]_vars

(* The scheduler runs every thread of the object, the callbacks return, and *)
(* a peer that is in reads.                                                 *)
FairSpec ==
  /\ Spec
  /\ \A o \in Wr : WF_vars(Writing(o)) /\ WF_vars(Stopping(o))
  /\ \A w \in Peer : WF_vars(Enter(w)) /\ WF_vars(Receive(w))

-----------------------------------------------------------------------------
TypeOK ==
  /\ KernelTypeOK(Unit)
  /\ wr \in [Wr -> WriteState]
  /\ peer \in [Peer -> PeerState]
  /\ out \in [Wr -> Seq(Unit)]
  /\ flagConnect \in [Wr -> Nat] /\ flagDisconnect \in [Wr -> Nat]
  /\ starts \in [Wr -> 0..MaxStarts]
  /\ pushed \in [Wr -> 0..MaxPushes]

Before(u, v) == u[1] < v[1] \/ (u[1] = v[1] /\ u[2] < v[2])

InOrder(o) ==
  \A j \in 1..Len(out[o]) :
    LET v == out[o][j] IN
    /\ j > 1 => Before(out[o][j - 1], v)
    /\ v[2] > 1 => j > 1 /\ out[o][j - 1] = <<v[1], v[2] - 1>>

(* Over every start, stop and reconnection of the object and every visit of *)
(* a reader, the units go out in the order of the messages, none twice, and *)
(* a message begins with its first unit and has no hole: an EPIPE leaves    *)
(* the message in the queue, to be written from its start to the next       *)
(* reader.                                                                  *)
WrittenInOrder == \A o \in Wr : InOrder(o)

(* Why it holds: what has gone out belongs to messages before those in the  *)
(* queue, but for the first of them while it is being written.              *)
Queued(o) ==
  LET q == wr[o].queue IN
  /\ wr[o].pc \in {"write", "writing"} => q # <<>>
  /\ wr[o].written > 0 => wr[o].pc = "writing"
  /\ \A i, j \in 1..Len(q) : i < j => q[i] < q[j]
  /\ \A i \in 1..Len(q) : q[i] <= pushed[o]

Gone(o) ==
  LET q == wr[o].queue
      n == Len(out[o]) IN
  /\ \A j \in 1..n : out[o][j][1] <= pushed[o]
  /\ \A j \in 1..n, i \in 1..Len(q) :
       \/ out[o][j][1] < q[i]
       \/ i = 1 /\ out[o][j][1] = q[1] /\ out[o][j][2] <= wr[o].written
  /\ wr[o].written > 0 => n > 0 /\ out[o][n] = <<q[1], wr[o].written>>

OrderInv == \A o \in Wr : Queued(o) /\ Gone(o) /\ InOrder(o)

(* What may become of the queue of object o in a step: nothing, a new       *)
(* message, or the removal of one of which enough is out.                   *)
Popped(o) ==
  LET q == wr[o].queue IN
  \/ wr'[o].queue = q
  \/ wr'[o].queue = Append(q, pushed'[o])
  \/ /\ q # <<>> /\ wr'[o].queue = Tail(q)
     /\ \/ \A i \in 1..sizeN[Head(q)] : <<Head(q), i>> \in Range(out[o])
        \/ /\ <<Head(q), 1>> \in Range(out[o])
           /\ ~Held(EndOf(addrWrite[o], "R"))

(* A message leaves the queue when it is written, whole unless the last     *)
(* reader has left in the middle of it; a message of which nothing could be *)
(* written stays, in order, whatever becomes of the connection.             *)
PoppedWasWritten == [][\A o \in Wr : Popped(o)]_vars

(* Between two sessions every connect callback has been answered by a       *)
(* disconnect callback, and stopWrite() adds at most one of its own per     *)
(* session: the answer to a connection that is up comes from stopWrite() or *)
(* from the thread, and when they race each may give it.                    *)
EveryConnectAnswered ==
  \A o \in Wr :
    /\ flagDisconnect[o] <= flagConnect[o] + starts[o]
    /\ wr[o].ctl = "stopped" => flagConnect[o] <= flagDisconnect[o]

(* Why it holds: a connect callback that has run is owed an answer by the   *)
(* thread while waitConnect stays set, and until its disconnect callback    *)
(* has run; stopWrite() has one to give in each session.                    *)
Owed(o) ==
  IF (wr[o].waitConnect /\ wr[o].pc # "connectH") \/ wr[o].pc = "disconnectH"
  THEN 1 ELSE 0

StopsToCome(o) == IF wr[o].ctl \in {"started", "unrun", "disconnectH"} THEN 1 ELSE 0

StopHasAnswered(o) ==
  IF wr[o].ctl \in {"testOpen", "release", "releasing", "releaseClose", "close",
                 "closing", "join"}
  THEN 1 ELSE 0

Answered(o) ==
  /\ wr[o].ctl \in {"unborn", "stopped"} => wr[o].pc = "none" /\ ~wr[o].waitConnect
  /\ wr[o].pc \in {"connectH", "lock", "write", "writing"} => wr[o].waitConnect
  /\ wr[o].pc \in {"connected", "disconnectH"} => ~wr[o].waitConnect
  /\ wr[o].pc \in {"connect", "open", "opening", "opened", "check", "again"} =>
       ~(wr[o].waitConnect /\ wr[o].runWrite)
  /\ flagDisconnect[o] + Owed(o) + StopsToCome(o) <= flagConnect[o] + starts[o]
  /\ flagConnect[o] + StopHasAnswered(o) <= flagDisconnect[o] + Owed(o)

AnswersInv == \A o \in Wr : Answered(o)

(* In the first session, until join() has returned, the callbacks say what  *)
(* getWaitConnect() says, but for the thread's own callbacks in progress:   *)
(* the callback that stopWrite() makes adds one, and whatever the thread    *)
(* does at the same time, it neither adds another nor omits its own.        *)
CallbacksAgreeWithFlag ==
  \A o \in Wr :
    (/\ wr[o].ctl \notin {"unborn", "stopped"} /\ starts[o] = 1
     /\ wr[o].pc \notin {"connectH", "disconnectH"})
      => flagConnect[o] - flagDisconnect[o] + StopHasAnswered(o)
           = (IF wr[o].waitConnect THEN 1 ELSE 0)

(* stopWrite() returns, also when the thread is in the middle of a write:   *)
(* the reader either takes the data or leaves.                              *)
StopReturns == \A o \in Wr : wr[o].ctl = "unrun" ~> wr[o].ctl = "stopped"

(* The thread lets go of the mutex, so pushData() never waits for ever,     *)
(* although write() and the disconnect callback run with the mutex held.    *)
MutexReleased == \A o \in Wr : MutexHeld(o) ~> ~MutexHeld(o)

(* A message pushed to a connected object goes out, unless the connection   *)
(* ends or the owner stops the object.                                      *)
PushedGoesOut ==
  \A o \in Wr : \A m \in 1..MaxPushes :
    (m \in Range(wr[o].queue) /\ wr[o].waitConnect /\ wr[o].runWrite)
      ~> (m \notin Range(wr[o].queue) \/ ~wr[o].waitConnect \/ ~wr[o].runWrite)
=============================================================================
