------------------------------ MODULE DirectSide ------------------------------
(***************************************************************************)
(* WriteDirectImpl objects under an application like that of               *)
(* IpcBase/test/Fifo_test_big_data_NQ.cpp: it starts an object, pushes     *)
(* messages, counts the callbacks, and stops the object, the last from a   *)
(* thread of its own.  Peers read the pipes and come and go.               *)
(***************************************************************************)
EXTENDS FifoWriteDirect, PipePeer, Functions

CONSTANTS
  MayUnlink,     \* may the path names be removed (the server's destructor)?
  MaxStarts      \* bound: startWrite() calls per object

ASSUME DirectSideAssumption == MayUnlink \in BOOLEAN /\ MaxStarts \in Nat

VARIABLES
  out,             \* out[o]: the units object o has written, in order
  flagConnect,     \* flagConnect[o]: connect callbacks run
  flagDisconnect,  \* flagDisconnect[o]: disconnect callbacks run
  starts,          \* starts[o]: startWrite() calls made
  stops,           \* stops[o]: stopWrite() calls made
  pushed           \* pushed[o]: pushData() calls made

app  == <<out, flagConnect, flagDisconnect, starts, stops, pushed>>
vars == <<kernel, wd, peer, app>>

Unit == (1..MaxPushes) \X Nat

Init ==
  /\ KernelInit /\ FifoWriteDirectInit /\ PeerInit
  /\ out = [o \in Wd |-> <<>>]
  /\ flagConnect = [o \in Wd |-> 0] /\ flagDisconnect = [o \in Wd |-> 0]
  /\ starts = [o \in Wd |-> 0] /\ stops = [o \in Wd |-> 0]
  /\ pushed = [o \in Wd |-> 0]

-----------------------------------------------------------------------------
Configure(o) ==
  /\ DirectNew(o) \/ \E h \in DirectHandlers : SetDirectHandler(o, h)
  /\ UNCHANGED <<peer, app>>

(* Fifo::state lets a start follow a stop and a stop follow a start. *)
Start(o) ==
  /\ starts[o] = stops[o] /\ wd[o].stop = "none" /\ starts[o] < MaxStarts
  /\ StartDirect(o)
  /\ starts' = [starts EXCEPT ![o] = @ + 1]
  /\ UNCHANGED <<peer, out, flagConnect, flagDisconnect, stops, pushed>>

Stop(o) ==
  /\ stops[o] < starts[o]
  /\ StopDirect(o)
  /\ stops' = [stops EXCEPT ![o] = @ + 1]
  /\ UNCHANGED <<peer, out, flagConnect, flagDisconnect, starts, pushed>>

Push(o) ==
  /\ pushed[o] < MaxPushes
  /\ PushDirect(o, pushed[o] + 1) \/ PushThrows(o)
  /\ pushed' = [pushed EXCEPT ![o] = @ + 1]
  /\ UNCHANGED <<peer, out, flagConnect, flagDisconnect, starts, stops>>

(* The bodies of the callbacks count, as the test's lambdas do. *)
ConnectHandler(o) ==
  /\ DirectConnectHandlerReturns(o)
  /\ flagConnect' = [flagConnect EXCEPT ![o] = @ + 1]
  /\ UNCHANGED <<peer, out, flagDisconnect, starts, stops, pushed>>

DisconnectHandler(o) ==
  /\ flagDisconnect' = [flagDisconnect EXCEPT ![o] = @ + 1]
  /\ UNCHANGED <<peer, out, flagConnect, starts, stops, pushed>>

WriteMessage(o) ==
  /\ DirectUnits(o)
  /\ out' = [out EXCEPT ![o] = Append(@, <<wd[o].message, wd[o].written + 1>>)]
  /\ UNCHANGED <<peer, flagConnect, flagDisconnect, starts, stops, pushed>>

Opening(o) == DirectTaskStep(o) /\ UNCHANGED <<peer, app>>

Calling(o) ==
  \/ DirectCallStep(o) /\ UNCHANGED <<peer, app>>
  \/ ConnectHandler(o) \/ WriteMessage(o)
  \/ DirectDisconnectHandlerReturns(o) /\ DisconnectHandler(o)

Stopping(o) ==
  \/ StopDirectStep(o) /\ UNCHANGED <<peer, app>>
  \/ StopDirectHandlerReturns(o) /\ DisconnectHandler(o)

(* The other end, and the path name. *)
Arrive(w)  == PeerOpens(w, "R") /\ UNCHANGED <<wd, app>>
Enter(w)   == PeerEnters(w) /\ UNCHANGED <<wd, app>>
Leave(w)   == PeerLeaves(w) /\ UNCHANGED <<wd, app>>
Receive(w) == PeerReads(w) /\ UNCHANGED <<wd, app>>

Remove(p) == MayUnlink /\ p \in linked /\ Unlink(p) /\ UNCHANGED <<wd, peer, app>>

Next ==
  \/ \E o \in Wd : Configure(o) \/ Start(o) \/ Stop(o) \/ Push(o)
                     \/ Opening(o) \/ Calling(o) \/ Stopping(o)
  \/ \E w \in Peer : Arrive(w) \/ Enter(w) \/ Leave(w) \/ Receive(w)
  \/ \E p \in Pipe : Remove(p)

Spec == Init /\ [][Next]_vars

(* The scheduler runs the three threads, wait_for() returns, the callbacks  *)
(* return, and a peer that is in reads.                                     *)
FairSpec ==
  /\ Spec
  /\ \A o \in Wd : WF_vars(Opening(o)) /\ WF_vars(Calling(o)) /\ WF_vars(Stopping(o))
  /\ \A w \in Peer : WF_vars(Enter(w)) /\ WF_vars(Receive(w))

-----------------------------------------------------------------------------
TypeOK ==
  /\ KernelTypeOK(Unit)
  /\ wd \in [Wd -> DirectState]
  /\ peer \in [Peer -> PeerState]
  /\ out \in [Wd -> Seq(Unit)]
  /\ flagConnect \in [Wd -> Nat] /\ flagDisconnect \in [Wd -> Nat]
  /\ starts \in [Wd -> 0..MaxStarts] /\ stops \in [Wd -> 0..MaxStarts]
  /\ pushed \in [Wd -> 0..MaxPushes]

Before(u, v) == u[1] < v[1] \/ (u[1] = v[1] /\ u[2] < v[2])

InOrder(o) ==
  \A j \in 1..Len(out[o]) :
    LET v == out[o][j] IN
    /\ j > 1 => Before(out[o][j - 1], v)
    /\ v[2] > 1 => j > 1 /\ out[o][j - 1] = <<v[1], v[2] - 1>>

(* Whatever is refused, cut or lost in between, the units go out in the     *)
(* order of the messages, none twice, and a message begins with its first   *)
(* unit and has no hole: pushData() makes one write() of each message.      *)
WrittenInOrder == \A o \in Wd : InOrder(o)

(* Why it holds: pushData() writes the message pushed last, none of which   *)
(* was out when it began, and what it has written is out, last of all.      *)
Pushing(o) ==
  LET n == Len(out[o]) IN
  /\ wd[o].pc \in {"write", "writing"} => wd[o].message = pushed[o] /\ pushed[o] > 0
  /\ wd[o].pc = "write" => wd[o].written = 0
  /\ \A j \in 1..n : out[o][j][1] <= pushed[o]
  /\ wd[o].pc \in {"write", "writing"} /\ wd[o].written = 0 =>
       \A j \in 1..n : out[o][j][1] < pushed[o]
  /\ wd[o].pc = "writing" /\ wd[o].written > 0 =>
       n > 0 /\ out[o][n] = <<pushed[o], wd[o].written>>

OrderInv == \A o \in Wd : Pushing(o) /\ InOrder(o)

(* A pushData() that has begun to write returns only with the message       *)
(* written whole, or when the last reader has left.                         *)
Returned(o) ==
  wd[o].pc = "writing" /\ wd'[o].pc # "writing" =>
    \/ \A i \in 1..sizeN[wd[o].message] : <<wd[o].message, i>> \in Range(out[o])
    \/ ~Held(EndOf(addrDirect[o], "R"))

ReturnsWhenWritten == [][\A o \in Wd : Returned(o)]_vars

(* A session has at most one connect callback, and stopWrite() answers it   *)
(* whether or not pushData() has: over all sessions there are no more       *)
(* disconnects than connects and stops, and when the object rests after a   *)
(* stop no connect is without an answer.                                    *)
EveryConnectAnswered ==
  \A o \in Wd :
    /\ flagDisconnect[o] <= flagConnect[o] + stops[o]
    /\ (wd[o].pc = "idle" /\ wd[o].stop = "none" /\ starts[o] = stops[o])
         => flagConnect[o] <= flagDisconnect[o]

(* Why it holds: a start has its connect callback to come or has had it, if *)
(* any; a disconnect callback is due in stopWrite(), in a pushData() that   *)
(* failed, or in one that may fail, once the connect callback has returned: *)
(* stopWrite() may reset waitConnect while pushData() writes.               *)
ConnectToCome(o) ==
  IF wd[o].pc \in {"wait", "test", "connected", "connectH"} THEN 1 ELSE 0

StopInProgress(o) == IF wd[o].stop # "none" THEN 1 ELSE 0
PushHasFailed(o)  == IF wd[o].pc = "disconnectH" THEN 1 ELSE 0
PushMayFail(o) ==
  IF \/ wd[o].pc \in {"write", "writing"}
     \/ wd[o].pc # "connectH" /\ wd[o].waitConnect
  THEN 1 ELSE 0

Answered(o) ==
  /\ flagConnect[o] + ConnectToCome(o) <= starts[o]
  /\ stops[o] <= flagDisconnect[o] + StopInProgress(o)
  /\ flagDisconnect[o] + StopInProgress(o) + PushHasFailed(o) + PushMayFail(o)
       <= flagConnect[o] + stops[o]

AnswersInv == \A o \in Wd : Answered(o)

(* A reader that waits at the other end lets startWrite() return, whatever  *)
(* the timeout and a stopWrite() do in between.                             *)
ReaderLetsStart ==
  \A o \in Wd, w \in Peer :
    (wd[o].pc = "wait" /\ peer[w].at = "opening" /\ peerPipe[w] = addrDirect[o])
      ~> wd[o].pc = "idle"

(* stopWrite() returns, at whatever moment of startWrite() or pushData() it *)
(* is called and whether or not a reader ever comes, unless the path name   *)
(* is removed.                                                              *)
StopReturns ==
  \A o \in Wd :
    wd[o].stop # "none" ~> (wd[o].stop = "none" \/ addrDirect[o] \notin linked)
=============================================================================
