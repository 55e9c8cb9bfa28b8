------------------------------ MODULE ServerSide ------------------------------
(***************************************************************************)
(* A server under an application like that of                              *)
(* test/Server_Client_test_connect.cpp, which starts it, writes to its     *)
(* connections, disconnects them and stops it, in this order.  Each client *)
(* is a peer for each direction: it opens both pipes, leaves them one      *)
(* after the other, and may then come back.  What it sends passes through  *)
(* readHandler and leaves no trace in the server: clients here only        *)
(* receive.                                                                *)
(***************************************************************************)
EXTENDS Server, PipePeer

CONSTANTS
  MayDisconnect,   \* may the application disconnect connections?
  StopsEarly       \* bound: may it stop the server before the clients have gone?

ASSUME ServerSideAssumption == MayDisconnect \in BOOLEAN /\ StopsEarly \in BOOLEAN

VARIABLES
  addressee,     \* addressee[m]: the connection the m-th message is written to
  closing        \* closing[c]: where the caller of disconnect(c) is

app  == <<addressee, closing>>
vars == <<kernel, rd, wr, fifo, server, peer, app>>

Closing == {"no", "closeWrite", "closeRead", "closeReadTaken", "done"}

Init ==
  /\ KernelInit /\ FifoInit /\ ServerInit /\ PeerInit
  /\ addressee = <<>>
  /\ closing = [c \in Rd |-> "no"]

-----------------------------------------------------------------------------
New(c)      == ServerNew(c) /\ UNCHANGED <<peer, app>>
Start(c)    == ServerStart(c) /\ UNCHANGED <<peer, app>>
Starting(c) == ServerStarting(c) /\ UNCHANGED <<peer, app>>

Write(c) ==
  /\ Serving /\ Len(addressee) < MaxPushes
  /\ ServerWrite(c, Len(addressee) + 1)
  /\ addressee' = Append(addressee, c)
  /\ UNCHANGED <<peer, closing>>

Disconnect(c) ==
  /\ MayDisconnect /\ Serving /\ Len(addressee) = MaxPushes
  /\ \/ /\ closing[c] = "no" /\ ServerDisconnect(Caller(c), c)
        /\ closing' = [closing EXCEPT ![c] = "closeWrite"]
     \/ /\ closing[c] = "closeWrite" /\ ServerDisconnectClose(Caller(c))
        /\ closing' = [closing EXCEPT ![c] = "closeRead"]
     \/ /\ closing[c] = "closeRead" /\ ServerDisconnectRead(Caller(c), c)
        /\ closing' = [closing EXCEPT ![c] = "closeReadTaken"]
     \/ /\ closing[c] = "closeReadTaken" /\ ServerDisconnectClose(Caller(c))
        /\ closing' = [closing EXCEPT ![c] = "done"]
  /\ UNCHANGED <<peer, addressee>>

Gone == \A w \in Peer : peer[w].at = "out" /\ peer[w].visits = MaxVisits

Stop(c) ==
  /\ StopsEarly \/ Gone
  /\ Len(addressee) = MaxPushes
  /\ MayDisconnect => \A d \in Rd : closing[d] = "done"
  /\ ServerStop(c) /\ UNCHANGED <<peer, app>>

Stopping(c) == ServerStopping(c) /\ UNCHANGED <<peer, app>>

Handling(c, k) == ServerCallback(c, k) /\ UNCHANGED <<peer, app>>
Reading(c)     == FifoReading(c) /\ UNCHANGED <<server, peer, app>>
Writing(c)     == FifoWriting(c) /\ UNCHANGED <<server, peer, app>>

(* The destructor follows stop(). *)
Remove(p) ==
  /\ stopped /\ \A c \in Rd : fifo[c] = "stop" /\ FifoIdle(c)
  /\ p \in linked /\ ServerUnlink(p)
  /\ UNCHANGED <<peer, app>>

(* The halves of the client of connection c; it comes back with both. *)
Halves(c) == {w \in Peer : peerPipe[w] \in {addrRead[c], addrWrite[c]}}

Mode(w) == IF \E c \in Rd : peerPipe[w] = addrWrite[c] THEN "R" ELSE "W"

Arrive(w) ==
  /\ \A c \in Rd : w \in Halves(c) =>
       \A v \in Halves(c) :
         \/ peer[v].visits > peer[w].visits
         \/ peer[v].visits = peer[w].visits /\ peer[v].at = "out"
  /\ PeerOpens(w, Mode(w)) /\ UNCHANGED <<rd, wr, fifo, server, app>>

Enter(w) == PeerEnters(w) /\ UNCHANGED <<rd, wr, fifo, server, app>>
Leave(w) == PeerLeaves(w) /\ UNCHANGED <<rd, wr, fifo, server, app>>

Receive(w) ==
  /\ Mode(w) = "R" /\ PeerReads(w)
  /\ UNCHANGED <<rd, wr, fifo, server, app>>

Next ==
  \/ \E c \in Rd : \/ New(c) \/ Start(c) \/ Starting(c) \/ Write(c) \/ Disconnect(c)
                   \/ Stop(c) \/ Stopping(c) \/ Reading(c) \/ Writing(c)
                   \/ \E k \in Runner : Handling(c, k)
  \/ \E w \in Peer : Arrive(w) \/ Enter(w) \/ Leave(w) \/ Receive(w)
  \/ \E p \in Pipe : Remove(p)

Spec == Init /\ [][Next]_vars

-----------------------------------------------------------------------------
(* Type correctness; the descriptors, the positions of the threads in their *)
(* callbacks, and the messages of the application (Server.h).               *)
TypeOK ==
  /\ KernelTypeOK((1..MaxPushes) \X Nat)
  /\ rd \in [Rd -> ReadState] /\ wr \in [Wr -> WriteState]
  /\ fifo \in [Rd -> FifoState] /\ number \in [Thread -> Fd \cup {NoFd}]
  /\ stateClient \in [Rd -> {"disconnect", "connect"}]
  /\ at \in [Rd -> [Runner -> Position]]
  /\ newCalls \in [Rd -> Nat] /\ closeCalls \in [Rd -> Nat]
  /\ stopped \in BOOLEAN
  /\ peer \in [Peer -> PeerState]
  /\ addressee \in Seq(Rd)
  /\ closing \in [Rd -> Closing]

Due(c, callback(_, _)) ==
  Cardinality({k \in Runner : callback(c, k) /\ at[c][k] = "call"})

(* Every change of stateClient is reported once, whichever thread makes it: *)
(* the calls of newHandler and of closeHandler, those about to be made      *)
(* included, differ by one when the state is "connect" and else by none,    *)
(* although the two callbacks lock different mutexes (Server.cpp:12, 24).   *)
CallsMatchState ==
  \A c \in Rd :
    (newCalls[c] + Due(c, ConnectCallback)) - (closeCalls[c] + Due(c, DisconnectCallback))
      = (IF stateClient[c] = "connect" THEN 1 ELSE 0)

(* Until stop(), a connection both halves of which are up is "connect" as   *)
(* soon as none of its callbacks is in progress: whatever a disconnectH()   *)
(* that overlaps a connectH() does to stateClient, the last half to come up *)
(* repairs it (Server.cpp:13-15).                                           *)
UpIsReported ==
  \A c \in Rd :
    /\ ~stopped /\ rd[c].waitConnect /\ wr[c].waitConnect
    /\ \A k \in Runner : ~ConnectCallback(c, k) /\ ~DisconnectCallback(c, k)
    => stateClient[c] = "connect"

(* Why they hold.  A half has no thread unless it is started, and its       *)
(* thread is at a write only with a message.                                *)
HalvesOf(c) ==
  /\ rd[c].ctl = "unborn" => wr[c].ctl = "unborn"
  /\ rd[c].ctl \in {"unborn", "stopped"} => rd[c].pc = "none"
  /\ wr[c].ctl \in {"unborn", "stopped"} => wr[c].pc = "none"
  /\ wr[c].pc \in {"write", "writing"} => wr[c].queue # <<>>
  /\ rd[c].pc = "disconnectH" => ~rd[c].waitConnect
  /\ wr[c].pc = "disconnectH" => ~wr[c].waitConnect
  /\ ~stopped => wr[c].ctl \in {"unborn", "stopped", "started"}

HalvesInv == \A c \in Rd : HalvesOf(c)

(* A thread that is in no callback has its next one before it, only the     *)
(* reader's disconnect callback closes a descriptor, and either kind of     *)
(* callback is past its mutex in one thread at a time.                      *)
Placed(c, k) ==
  /\ ~ConnectCallback(c, k) /\ ~DisconnectCallback(c, k) => at[c][k] = "begin"
  /\ at[c][k] \in {"close", "closed"} => k = "read" /\ DisconnectCallback(c, k)

Connecting(c, k)    == ConnectCallback(c, k) /\ at[c][k] \in Inside
Disconnecting(c, k) == DisconnectCallback(c, k) /\ at[c][k] \in Inside

MutexInv ==
  \A c, d \in Rd, k, l \in Runner :
    \/ c = d /\ k = l
    \/ /\ ~(Connecting(c, k) /\ Connecting(d, l))
       /\ ~(Disconnecting(c, k) /\ Disconnecting(d, l))

(* Between its test of stateClient and its assignment a callback is not     *)
(* overtaken: connectH() is about to set what disconnectH() has to find.    *)
StateTested(c, k) ==
  at[c][k] = "set" =>
    stateClient[c] = (IF ConnectCallback(c, k) THEN "disconnect" ELSE "connect")

(* A connection that is up and not reported has a connect callback that is  *)
(* going to report it.                                                      *)
Reporting(c, k) == ConnectCallback(c, k) /\ at[c][k] \in {"begin", "flag", "state", "set"}

ReportInv ==
  \A c \in Rd :
    ~stopped /\ rd[c].waitConnect /\ wr[c].waitConnect =>
      stateClient[c] = "connect" \/ \E k \in Runner : Reporting(c, k)

CallbacksInv ==
  /\ \A c \in Rd, k \in Runner : Placed(c, k) /\ StateTested(c, k)
  /\ MutexInv
  /\ CallsMatchState

(* When stop() has returned, every connection that was reported has been    *)
(* reported closed: test/Server_Client_test_connect.cpp:79-80 expects as    *)
(* many calls of the one handler as of the other.                           *)
ClosedAtStop ==
  \A c \in Rd : stopped /\ fifo[c] = "stop" /\ FifoIdle(c) => newCalls[c] = closeCalls[c]
=============================================================================
