------------------------------ MODULE ClientSide ------------------------------
(***************************************************************************)
(* Clients under an application like that of test/Server_Client_test.cpp,  *)
(* which starts and stops each of them, and a server seen as a peer for    *)
(* each direction, which come and go by themselves.                        *)
(***************************************************************************)
EXTENDS Client, PipePeer

CONSTANTS
  MayStop,       \* may the application stop its clients?
  MayUnlink,     \* may the path names be removed (the server's destructor)?
  MaxStarts,     \* bound: start() calls per client
  MaxUnits       \* bound: units the server writes to a client

ASSUME ClientSideAssumption ==
  /\ MayStop \in BOOLEAN /\ MayUnlink \in BOOLEAN
  /\ MaxStarts \in Nat /\ MaxUnits \in Nat

VARIABLES
  starts,        \* starts[c]: start() calls made
  pushed,        \* pushed[c]: write() calls made
  sent           \* sent[p]: units written into pipe p

app  == <<starts, pushed, sent>>
vars == <<kernel, rd, wr, fifo, client, peer, app>>

Init ==
  /\ KernelInit /\ FifoInit /\ ClientInit /\ PeerInit
  /\ starts = [c \in Rd |-> 0] /\ pushed = [c \in Rd |-> 0]
  /\ sent = [p \in Pipe |-> 0]

-----------------------------------------------------------------------------
New(c) == ClientNew(c) /\ UNCHANGED <<peer, app>>

Start(c) ==
  /\ starts[c] < MaxStarts /\ stopping[c] = "no"
  /\ ClientStart(c)
  /\ starts' = [starts EXCEPT ![c] = @ + 1]
  /\ UNCHANGED <<peer, pushed, sent>>

Write(c) ==
  /\ FifoIdle(c) /\ fifo[c] = "start" /\ pushed[c] < MaxPushes
  /\ ClientWrite(c, pushed[c] + 1)
  /\ pushed' = [pushed EXCEPT ![c] = @ + 1]
  /\ UNCHANGED <<peer, starts, sent>>

Stop(c) == MayStop /\ FifoIdle(c) /\ ClientStop(c) /\ UNCHANGED <<peer, app>>

Starting(c) == ClientStarting(c) /\ UNCHANGED <<peer, app>>
Stopping(c) == ClientStopping(c) /\ UNCHANGED <<peer, app>>
Leaving(c)  == ClientStopReturns(c) /\ UNCHANGED <<peer, app>>
GivingUp(c) == ClientGivesUp(c) /\ UNCHANGED <<peer, app>>

Handling(c, k) == ClientCallback(c, k) /\ UNCHANGED <<peer, app>>
Reading(c)     == FifoReading(c) /\ UNCHANGED <<client, peer, app>>
Writing(c)     == FifoWriting(c) /\ UNCHANGED <<client, peer, app>>

(* The server: a peer reads what a client writes, or writes what it reads. *)
PeerMode(w) == IF peerPipe[w] \in {addrWrite[c] : c \in Rd} THEN "R" ELSE "W"

Arrive(w) == PeerOpens(w, PeerMode(w)) /\ UNCHANGED <<rd, wr, fifo, client, app>>
Enter(w)  == PeerEnters(w) /\ UNCHANGED <<rd, wr, fifo, client, app>>
Leave(w)  == PeerLeaves(w) /\ UNCHANGED <<rd, wr, fifo, client, app>>

Receive(w) ==
  /\ PeerMode(w) = "R"
  /\ PeerReads(w)
  /\ UNCHANGED <<rd, wr, fifo, client, app>>

Send(w) ==
  /\ PeerMode(w) = "W" /\ sent[peerPipe[w]] < MaxUnits
  /\ PeerWrites(w, <<0, sent[peerPipe[w]] + 1>>)
  /\ sent' = [sent EXCEPT ![peerPipe[w]] = @ + 1]
  /\ UNCHANGED <<rd, wr, fifo, client, starts, pushed>>

Remove(p) ==
  /\ MayUnlink /\ p \in linked
  /\ Unlink(p)
  /\ UNCHANGED <<rd, wr, fifo, client, peer, app>>

Next ==
  \/ \E c \in Rd : \/ New(c) \/ Start(c) \/ Starting(c) \/ Write(c)
                   \/ Stop(c) \/ Stopping(c) \/ Reading(c) \/ Writing(c)
                   \/ Leaving(c) \/ GivingUp(c)
                   \/ \E k \in Runner : Handling(c, k)
  \/ \E w \in Peer : Arrive(w) \/ Enter(w) \/ Leave(w) \/ Receive(w) \/ Send(w)
  \/ \E p \in Pipe : Remove(p)

Spec == Init /\ [][Next]_vars

(* The scheduler runs the three threads, the handlers return, and the peers *)
(* take part: one that is in reads, and sooner or later leaves.             *)
FairSpec ==
  /\ Spec
  /\ \A c \in Rd : /\ WF_vars(Reading(c) \/ Handling(c, "read"))
                   /\ WF_vars(Writing(c) \/ Handling(c, "write"))
                   /\ WF_vars(Starting(c) \/ Stopping(c) \/ Handling(c, "stop"))
                   /\ WF_vars(Leaving(c))
  /\ \A w \in Peer : WF_vars(Enter(w)) /\ WF_vars(Receive(w)) /\ WF_vars(Leave(w))

-----------------------------------------------------------------------------
(* <<m, i>> is unit i of message m of a client, <<0, i>> unit i of the server. *)
Unit == (0..MaxPushes) \X Nat

TypeOK ==
  /\ KernelTypeOK(Unit)
  /\ rd \in [Rd -> ReadState] /\ wr \in [Wr -> WriteState]
  /\ fifo \in [Rd -> FifoState] /\ number \in [Thread -> Fd \cup {NoFd}]
  /\ state \in [Rd -> {"disconnect", "connect"}]
  /\ at \in [Rd -> [Runner -> Position]]
  /\ newCalls \in [Rd -> Nat] /\ closeCalls \in [Rd -> Nat]
  /\ stopping \in [Rd -> StoppingState]
  /\ peer \in [Peer -> PeerState]
  /\ starts \in [Rd -> 0..MaxStarts] /\ pushed \in [Rd -> 0..MaxPushes]
  /\ sent \in [Pipe -> 0..MaxUnits]

Quiet(c) == \A k \in Runner : ~Callback(c, k)

(* While the client runs and no callback is in progress, state settles on   *)
(* what the halves say, whatever order the callbacks of the two threads     *)
(* came in: connect when both are connected, disconnect when neither is.    *)
StateSettles ==
  \A c \in Rd : Quiet(c) /\ fifo[c] = "start" =>
    /\ rd[c].waitConnect /\ wr[c].waitConnect => state[c] = "connect"
    /\ starts[c] = 1 /\ ~rd[c].waitConnect /\ ~wr[c].waitConnect => state[c] = "disconnect"

(* Why state settles, client by client.  What the positions of the threads  *)
(* and of the caller of start() and stop() say about the flags:             *)
HalvesOf(c) ==
  /\ rd[c].ctl = "unborn" => wr[c].ctl = "unborn"
  /\ rd[c].ctl \in {"unborn", "stopped"} => rd[c].pc = "none" /\ ~rd[c].waitConnect
  /\ wr[c].ctl \in {"unborn", "stopped"} => wr[c].pc = "none" /\ ~wr[c].waitConnect
  /\ wr[c].pc \in {"write", "writing"} => wr[c].queue # <<>>
  /\ rd[c].pc = "connectH" => rd[c].waitConnect
  /\ wr[c].pc = "connectH" => wr[c].waitConnect
  /\ rd[c].pc = "disconnectH" => ~rd[c].waitConnect
  /\ wr[c].pc = "disconnectH" => ~wr[c].waitConnect
  /\ fifo[c] = "start" => {rd[c].ctl, wr[c].ctl} \subseteq {"stopped", "started"}

(* Nothing has happened to a client that was never started.                 *)
FreshOf(c) ==
  starts[c] = 0 =>
    /\ state[c] = "disconnect" /\ fifo[c] = "stop"
    /\ rd[c].ctl \in {"unborn", "stopped"} /\ wr[c].ctl \in {"unborn", "stopped"}

(* A connection that is up and not reported has a connect callback that is  *)
(* going to set state; no disconnect callback runs, whose thread could set  *)
(* it back.                                                                 *)
UpOf(c) ==
  fifo[c] = "start" /\ rd[c].waitConnect /\ wr[c].waitConnect =>
    \/ state[c] = "connect"
    \/ \E k \in Runner : ConnectCallback(c, k) /\ at[c][k] # "call"

(* And a connection that is down, a disconnect callback: the one of the     *)
(* thread that was connected last.                                          *)
DownOf(c) ==
  fifo[c] = "start" /\ starts[c] = 1 /\ ~rd[c].waitConnect /\ ~wr[c].waitConnect =>
    \/ state[c] = "disconnect"
    \/ \E k \in Runner : DisconnectCallback(c, k) /\ at[c][k] # "call"

(* A thread that is in no callback has its next one before it.              *)
SettlesOf(c) ==
  /\ HalvesOf(c) /\ FreshOf(c) /\ UpOf(c) /\ DownOf(c)
  /\ \A k \in Runner : ~Callback(c, k) => at[c][k] = "begin"

SettlesInv == \A c \in Rd : SettlesOf(c)

(* In the first session of a client alone in its process, stopRead() and     *)
(* stopWrite() close an end of their own object and no other: the number     *)
(* kept in fifoFd has not been given to the other object or to the open by   *)
(* which a stop releases a thread (FifoRead.cpp:78, FifoWriteQ.cpp:96),      *)
(* although a disconnect callback may have closed it before (Client.cpp:24). *)
(* A second session, or a second client of the process, may get the number   *)
(* that the first has kept.                                                  *)
StopClosesOwnEnd ==
  \A c \in Rd :
    LET Holds(f, e) == f # NoFd => fdt[ProcOf[Caller(c)]][f] \in {e, NoEnd}
    IN /\ rd[c].ctl = "closing" => Holds(rd[c].fd, EndOf(addrRead[c], "R"))
       /\ wr[c].ctl = "closing" => Holds(wr[c].fd, EndOf(addrWrite[c], "W"))

(* newHandler is called once for a connection, although two threads find    *)
(* and set state.                                                           *)
NewNotTwice == \A c \in Rd : newCalls[c] <= closeCalls[c] + 1

(* The end of the server's writing side is noticed: the client calls its    *)
(* state disconnected, unless it is stopped.                                *)
LossNoticed ==
  \A c \in Rd :
    (state[c] = "connect" /\ fifo[c] = "start" /\ rd[c].waitConnect
       /\ ~Held(EndOf(addrRead[c], "W")))
      ~> (state[c] = "disconnect" \/ fifo[c] = "stop")
=============================================================================
