------------------------------- MODULE Server -------------------------------
(***************************************************************************)
(* Class Server: a Fifo for each connection, whose connect and disconnect  *)
(* callbacks drive stateClient and the application's newHandler and        *)
(* closeHandler.                                                           *)
(*                                                                         *)
(* connectH() and disconnectH() run in the two threads of every connection *)
(* and in the one that is in stop(), which calls the writers' disconnect   *)
(* callbacks.  All calls of connectH() share one mutex, those of           *)
(* disconnectH() another one, and neither excludes the other: every access *)
(* to a flag or to the state is a step, and at[c][k] is where thread k of  *)
(* connection c is.  A callback at "begin" has not got its mutex yet.      *)
(***************************************************************************)
EXTENDS Fifo

VARIABLES
  stateClient, \* stateClient[c]: "disconnect" or "connect"
  at,          \* at[c][k]: the position of thread k in its callback
  newCalls,    \* newCalls[c]: newHandler calls
  closeCalls,  \* closeCalls[c]: closeHandler calls
  stopped      \* has stop() been called?

handlers  == <<newCalls, closeCalls>>
callbacks == <<stateClient, at, handlers>>
server    == <<callbacks, stopped, number>>

Runner   == {"read", "write", "stop"}
Position == {"begin", "close", "closed", "flag", "state", "set", "call"}

ServerInit ==
  /\ stateClient = [c \in Rd |-> "disconnect"]
  /\ at = [c \in Rd |-> [k \in Runner |-> "begin"]]
  /\ newCalls = [c \in Rd |-> 0] /\ closeCalls = [c \in Rd |-> 0]
  /\ stopped = FALSE

ConnectCallback(c, k) ==
  CASE k = "read"  -> rd[c].pc = "connectH"
    [] k = "write" -> wr[c].pc = "connectH"
    [] k = "stop"  -> FALSE

DisconnectCallback(c, k) ==
  CASE k = "read"  -> rd[c].pc = "disconnectH"
    [] k = "write" -> wr[c].pc = "disconnectH"
    [] k = "stop"  -> wr[c].ctl = "disconnectH"

Inside == {"flag", "state", "set", "call"}

mtxConnect == \E c \in Rd, k \in Runner : ConnectCallback(c, k) /\ at[c][k] \in Inside

mtxDisconnect == \E c \in Rd, k \in Runner : DisconnectCallback(c, k) /\ at[c][k] \in Inside

Goto(c, k, x) ==
  /\ at' = [at EXCEPT ![c][k] = x]
  /\ UNCHANGED <<kernel, rd, wr, fifo, stopped, number>>

(* The mutex is released, and the callback returns. *)
Return(c, k) ==
  /\ at' = [at EXCEPT ![c][k] = "begin"]
  /\ UNCHANGED <<fifo, stopped, number>>
  /\ \/ /\ k = "read" /\ UNCHANGED wr
        /\ ReadConnectHandlerReturns(c) \/ ReadDisconnectHandlerReturns(c)
     \/ /\ k = "write" /\ UNCHANGED rd
        /\ WriteConnectHandlerReturns(c) \/ WriteDisconnectHandlerReturns(c)
     \/ k = "stop" /\ UNCHANGED rd /\ StopWriteHandlerReturns(c)

-----------------------------------------------------------------------------
(* Mutant: connectH() does without its mutex. *)
ConnectUnlocked(c, k) ==
  /\ ConnectCallback(c, k) /\ at[c][k] = "begin"
  /\ IF wr[c].waitConnect THEN Goto(c, k, "flag") ELSE Return(c, k)
  /\ UNCHANGED <<stateClient, handlers>>

(* Mutant: connectH() gives up when its mutex is taken. *)
ConnectTries(c, k) ==
  /\ ConnectCallback(c, k) /\ at[c][k] = "begin"
  /\ IF wr[c].waitConnect /\ ~mtxConnect THEN Goto(c, k, "flag") ELSE Return(c, k)
  /\ UNCHANGED <<stateClient, handlers>>

(* connectH() *)
ConnectFlagWrite(c, k) ==
  /\ ConnectCallback(c, k) /\ at[c][k] = "begin" /\ ~mtxConnect
  /\ IF wr[c].waitConnect THEN Goto(c, k, "flag") ELSE Return(c, k)
  /\ UNCHANGED <<stateClient, handlers>>

ConnectFlagRead(c, k) ==
  /\ ConnectCallback(c, k) /\ at[c][k] = "flag"
  /\ IF rd[c].waitConnect THEN Goto(c, k, "state") ELSE Return(c, k)
  /\ UNCHANGED <<stateClient, handlers>>

ConnectState(c, k) ==
  /\ ConnectCallback(c, k) /\ at[c][k] = "state"
  /\ IF stateClient[c] = "disconnect" THEN Goto(c, k, "set") ELSE Return(c, k)
  /\ UNCHANGED <<stateClient, handlers>>

ConnectSet(c, k) ==
  /\ ConnectCallback(c, k) /\ at[c][k] = "set"
  /\ stateClient' = [stateClient EXCEPT ![c] = "connect"]
  /\ Goto(c, k, "call") /\ UNCHANGED handlers

(* newHandler() *)
ConnectCall(c, k) ==
  /\ ConnectCallback(c, k) /\ at[c][k] = "call"
  /\ newCalls' = [newCalls EXCEPT ![c] = @ + 1]
  /\ Return(c, k) /\ UNCHANGED <<stateClient, closeCalls>>

-----------------------------------------------------------------------------
(* The reader's disconnect callback closes the writer's descriptor first. *)
DisconnectTakes(c) ==
  /\ DisconnectCallback(c, "read") /\ at[c]["read"] = "begin"
  /\ closeWriteTakes(ReadThread(c), c)
  /\ at' = [at EXCEPT ![c]["read"] = "close"]
  /\ UNCHANGED <<stateClient, handlers, stopped>>

DisconnectClose(c) ==
  /\ DisconnectCallback(c, "read") /\ at[c]["read"] = "close"
  /\ closeTaken(ReadThread(c))
  /\ at' = [at EXCEPT ![c]["read"] = "closed"]
  /\ UNCHANGED <<stateClient, handlers, stopped>>

(* disconnectH() *)
DisconnectFlagWrite(c, k) ==
  /\ DisconnectCallback(c, k) /\ at[c][k] = (IF k = "read" THEN "closed" ELSE "begin")
  /\ ~mtxDisconnect
  /\ Goto(c, k, IF ~wr[c].waitConnect THEN "state" ELSE "flag")
  /\ UNCHANGED <<stateClient, handlers>>

DisconnectFlagRead(c, k) ==
  /\ DisconnectCallback(c, k) /\ at[c][k] = "flag"
  /\ IF ~rd[c].waitConnect THEN Goto(c, k, "state") ELSE Return(c, k)
  /\ UNCHANGED <<stateClient, handlers>>

DisconnectState(c, k) ==
  /\ DisconnectCallback(c, k) /\ at[c][k] = "state"
  /\ IF stateClient[c] = "connect" THEN Goto(c, k, "set") ELSE Return(c, k)
  /\ UNCHANGED <<stateClient, handlers>>

DisconnectSet(c, k) ==
  /\ DisconnectCallback(c, k) /\ at[c][k] = "set"
  /\ stateClient' = [stateClient EXCEPT ![c] = "disconnect"]
  /\ Goto(c, k, "call") /\ UNCHANGED handlers

(* closeHandler() *)
DisconnectCall(c, k) ==
  /\ DisconnectCallback(c, k) /\ at[c][k] = "call"
  /\ closeCalls' = [closeCalls EXCEPT ![c] = @ + 1]
  /\ Return(c, k) /\ UNCHANGED <<stateClient, newCalls>>

ServerCallback(c, k) ==
  \/ ConnectFlagWrite(c, k) \/ ConnectFlagRead(c, k) \/ ConnectState(c, k)
  \/ ConnectSet(c, k) \/ ConnectCall(c, k)
  \/ k = "read" /\ (DisconnectTakes(c) \/ DisconnectClose(c))
  \/ DisconnectFlagWrite(c, k) \/ DisconnectFlagRead(c, k) \/ DisconnectState(c, k)
  \/ DisconnectSet(c, k) \/ DisconnectCall(c, k)

-----------------------------------------------------------------------------
(* start(): initialization() sets up every connection before the first Fifo *)
(* is started; the Fifos are started, and later stopped, one by one.        *)
ServerNew(c) == FifoNew(c, TRUE) /\ UNCHANGED server

ServerStart(c) ==
  /\ ~stopped /\ \A d \in Rd : rd[d].ctl # "unborn" /\ FifoIdle(d)
  /\ FifoStart(c) /\ UNCHANGED server

ServerStarting(c) == (FifoStartRead(c) \/ FifoStartWrite(c)) /\ UNCHANGED server

(* All Fifos are started, and stop() has not been called. *)
Serving == ~stopped /\ \A c \in Rd : fifo[c] = "start" /\ FifoIdle(c)

(* stop() *)
ServerStop(c) ==
  /\ Serving \/ (stopped /\ \A d \in Rd : FifoIdle(d))
  /\ FifoStop(c) /\ stopped' = TRUE
  /\ UNCHANGED <<callbacks, number>>

ServerStopping(c) == (FifoStopWrite(c) \/ FifoStopRead(c)) /\ UNCHANGED server

ServerWrite(c, m) == FifoWrite(c, m) /\ UNCHANGED server

(* disconnect(id), in thread t: closeWrite(), then closeRead(). *)
ServerDisconnect(t, c) == closeWriteTakes(t, c) /\ UNCHANGED <<callbacks, stopped>>

ServerDisconnectRead(t, c) == closeReadTakes(t, c) /\ UNCHANGED <<callbacks, stopped>>

ServerDisconnectClose(t) == closeTaken(t) /\ UNCHANGED <<callbacks, stopped>>

(* The destructor. *)
ServerUnlink(p) == Unlink(p) /\ UNCHANGED <<rd, wr, fifo, server>>
=============================================================================
