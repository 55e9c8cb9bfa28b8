------------------------------ MODULE ReadSide ------------------------------
(***************************************************************************)
(* FifoRead objects under an application like those of IpcBase/test: it    *)
(* counts the connect and disconnect callbacks, collects the data, starts  *)
(* and stops the objects.  Peers write into the pipes and come and go.     *)
(***************************************************************************)
EXTENDS FifoRead, PipePeer, Functions

CONSTANTS
  Reconnecting,  \* the objects whose owner may call reconnectTrue()
  MayUnlink,     \* may the path names be removed (the server's destructor)?
  MaxStarts,     \* bound: startRead() calls per object
  MaxUnits       \* bound: units the peers write into a pipe

ASSUME ReadSideAssumption ==
  /\ Reconnecting \subseteq Rd
  /\ MayUnlink \in BOOLEAN
  /\ MaxStarts \in Nat /\ MaxUnits \in Nat

VARIABLES
  data,            \* data[r]: what the message handler received, in order
  flagConnect,     \* flagConnect[r]: connect callbacks run
  flagDisconnect,  \* flagDisconnect[r]: disconnect callbacks run
  starts,          \* starts[r]: startRead() calls made
  sent             \* sent[p]: units written into pipe p; they are 1, 2, ...

app  == <<data, flagConnect, flagDisconnect, starts, sent>>
vars == <<kernel, rd, peer, app>>

Init ==
  /\ KernelInit /\ FifoReadInit /\ PeerInit
  /\ data = [r \in Rd |-> <<>>]
  /\ flagConnect = [r \in Rd |-> 0] /\ flagDisconnect = [r \in Rd |-> 0]
  /\ starts = [r \in Rd |-> 0]
  /\ sent = [p \in Pipe |-> 0]

-----------------------------------------------------------------------------
(* The owner of the object. *)
Configure(r) ==
  /\ \/ FifoReadNew(r)
     \/ \E h \in Handlers : SetReadHandler(r, h)
     \/ r \in Reconnecting /\ ReadReconnectTrue(r)
  /\ UNCHANGED <<peer, app>>

Start(r) ==
  /\ starts[r] < MaxStarts
  /\ StartRead(r)
  /\ starts' = [starts EXCEPT ![r] = @ + 1]
  /\ UNCHANGED <<peer, data, flagConnect, flagDisconnect, sent>>

Stop(r) == StopRead(r) /\ UNCHANGED <<peer, app>>

Stopping(r) == StopReadStep(r) /\ UNCHANGED <<peer, app>>

(* The bodies of the callbacks count, as the tests' lambdas do. *)
ConnectHandler(r) ==
  /\ ReadConnectHandlerReturns(r)
  /\ flagConnect' = [flagConnect EXCEPT ![r] = @ + 1]
  /\ UNCHANGED <<peer, data, flagDisconnect, starts, sent>>

DisconnectHandler(r) ==
  /\ ReadDisconnectHandlerReturns(r)
  /\ flagDisconnect' = [flagDisconnect EXCEPT ![r] = @ + 1]
  /\ UNCHANGED <<peer, data, flagConnect, starts, sent>>

ReadMessage(r) ==
  /\ ReadData(r)
  /\ data' = [data EXCEPT ![r] = @ \o Chunk(ReadThread(r), MaxLine)]
  /\ UNCHANGED <<peer, flagConnect, flagDisconnect, starts, sent>>

MessageHandler(r) == ReadMessageHandlerReturns(r) /\ UNCHANGED <<peer, app>>

Reading(r) ==
  \/ ReadThreadStep(r) /\ UNCHANGED <<peer, app>>
  \/ ConnectHandler(r) \/ DisconnectHandler(r)
  \/ ReadMessage(r) \/ MessageHandler(r)

(* The other end, and the path name. *)
Arrive(w) == PeerOpens(w, "W") /\ UNCHANGED <<rd, app>>
Enter(w)  == PeerEnters(w) /\ UNCHANGED <<rd, app>>
Leave(w)  == PeerLeaves(w) /\ UNCHANGED <<rd, app>>

Send(w) ==
  /\ sent[peerPipe[w]] < MaxUnits
  /\ PeerWrites(w, sent[peerPipe[w]] + 1)
  /\ sent' = [sent EXCEPT ![peerPipe[w]] = @ + 1]
  /\ UNCHANGED <<rd, data, flagConnect, flagDisconnect, starts>>

Remove(p) == MayUnlink /\ p \in linked /\ Unlink(p) /\ UNCHANGED <<rd, peer, app>>

Next ==
  \/ \E r \in Rd : Configure(r) \/ Start(r) \/ Stop(r) \/ Stopping(r) \/ Reading(r)
  \/ \E w \in Peer : Arrive(w) \/ Enter(w) \/ Leave(w) \/ Send(w)
  \/ \E p \in Pipe : Remove(p)

Spec == Init /\ [][Next]_vars

(* The scheduler runs every thread of the object, and the callbacks return. *)
Fairness ==
  /\ \A r \in Rd : WF_vars(Reading(r)) /\ WF_vars(Stopping(r))
  /\ \A w \in Peer : WF_vars(Enter(w))

FairSpec == Spec /\ Fairness

-----------------------------------------------------------------------------
TypeOK ==
  /\ KernelTypeOK(Nat)
  /\ rd \in [Rd -> ReadState]
  /\ peer \in [Peer -> PeerState]
  /\ data \in [Rd -> Seq(Nat)]
  /\ flagConnect \in [Rd -> Nat] /\ flagDisconnect \in [Rd -> Nat]
  /\ starts \in [Rd -> 0..MaxStarts]
  /\ sent \in [Pipe -> 0..MaxUnits]

(* In every session, until the owner asks to stop, the disconnect callback  *)
(* means that the peers have gone and that all they wrote has been          *)
(* delivered: neither an open that fails after a connection that succeeded, *)
(* nor a number or a flag left by the session before, makes the thread      *)
(* report the end of a connection that has not ended.  The one exception is *)
(* the read() into a buffer that the handler has moved away.                *)
EndsAtEnd(r) ==
  rd[r].runRead /\ rd[r].pc # "disconnectH" /\ rd'[r].pc = "disconnectH" =>
    \/ rd[r].moved
    \/ buf[addrRead[r]] = <<>> /\ ~Held(EndOf(addrRead[r], "W"))

EndsOnlyAtEnd == [][\A r \in Rd : EndsAtEnd(r)]_vars

(* No unit a peer managed to write is lost before the owner asks to stop:   *)
(* readFifo goes back to open at end of file without closing the old        *)
(* descriptor, so the pipe outlives the time between two peers.  What a     *)
(* first session has left unread may be gone before a second opens.         *)
NothingLost(r) ==
  starts[r] = 1 /\ rd[r].runRead =>
    data'[r] \o buf'[addrRead[r]] \in
      {data[r] \o buf[addrRead[r]],
       Append(data[r] \o buf[addrRead[r]], sent'[addrRead[r]])}

NothingLostWhileRunning == [][\A r \in Rd : NothingLost(r)]_vars

(* Each disconnect callback answers a connect callback of its own: the      *)
(* thread never reports the end of a connection it has not reported, or has *)
(* already ended, whatever open, read and stopRead() do around it.          *)
DisconnectAnswersConnect ==
  \A r \in Rd :
    /\ flagDisconnect[r] <= flagConnect[r]
    /\ rd[r].pc = "disconnectH" => flagDisconnect[r] < flagConnect[r]

(* Why it holds: a connect callback that has run is owed an answer while    *)
(* waitConnect stays set, and until the disconnect callback has run; the    *)
(* thread reads only while waitConnect is set.                              *)
Owed(r) ==
  IF (rd[r].waitConnect /\ rd[r].pc # "connectH") \/ rd[r].pc = "disconnectH"
  THEN 1 ELSE 0

Answered(r) ==
  /\ rd[r].ctl \in {"unborn", "stopped"} => rd[r].pc = "none"
  /\ rd[r].pc \in {"connectH", "read", "reading", "messageH"} => rd[r].waitConnect
  /\ rd[r].pc = "disconnectH" => ~rd[r].waitConnect
  /\ flagDisconnect[r] + Owed(r) <= flagConnect[r]

AnswersInv == \A r \in Rd : Answered(r)

(* In the first session, until join() has returned, an object's callbacks   *)
(* say what getWaitConnect() says: the connect callbacks exceed the         *)
(* disconnect callbacks by one exactly when waitConnect is set, outside the *)
(* callbacks themselves.  That includes the read that fails because         *)
(* stopRead() has closed the descriptor.                                    *)
CallbacksAgreeWithFlag ==
  \A r \in Rd :
    (rd[r].ctl # "stopped" /\ starts[r] = 1 /\ rd[r].pc \notin {"connectH", "disconnectH"})
      => flagConnect[r] - flagDisconnect[r] = (IF rd[r].waitConnect THEN 1 ELSE 0)

(* stopRead() of an object that does not reconnect returns: the release of  *)
(* open and the close reach the thread, if no peer stays for ever.          *)
StopReturns ==
  \A r \in Rd :
    []<>(\A w \in Peer : peer[w].at # "in")
      => (rd[r].ctl = "unrun" /\ ~rd[r].reconnect ~> rd[r].ctl = "stopped")

(* What is in the pipe of a connected object reaches its handler, unless    *)
(* the owner stops the object, even when the peer has left in the meantime: *)
(* end of file is reported after the data, never instead of it.             *)
DataArrives ==
  \A r \in Rd : \A n \in 1..MaxUnits :
    (n \in Range(buf[addrRead[r]]) /\ rd[r].waitConnect /\ rd[r].runRead)
      ~> (n \in Range(data[r]) \/ ~rd[r].runRead)

(* A peer that has come in is noticed by an object that reconnects: it      *)
(* becomes connected, or the peer is gone again, or the owner stops the     *)
(* object.                                                                  *)
PeerNoticed ==
  \A r \in Rd, w \in Peer :
    (peer[w].at = "in" /\ peerPipe[w] = addrRead[r] /\ rd[r].runRead /\ rd[r].reconnect)
      ~> (rd[r].waitConnect \/ peer[w].at # "in" \/ ~rd[r].runRead)
=============================================================================
