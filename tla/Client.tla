------------------------------- MODULE Client -------------------------------
(***************************************************************************)
(* Class Client: a Fifo whose connect and disconnect callbacks drive one   *)
(* state, and the application's newHandler and closeHandler with it.       *)
(*                                                                         *)
(* logicConnect() and logicDisConnect() run in three threads: those of the *)
(* reader and the writer, and the one that is in stop(), which calls the   *)
(* writer's disconnect callback.  No lock guards them, so every access to  *)
(* a flag or to state is a step; at[c][k] is where thread k is in them.    *)
(***************************************************************************)
EXTENDS Fifo

VARIABLES
  state,       \* state[c]: "disconnect" or "connect"
  at,          \* at[c][k]: the position of thread k in its callback
  newCalls,    \* newCalls[c]: newHandler calls
  closeCalls,  \* closeCalls[c]: closeHandler calls
  stopping     \* stopping[c]: where the caller of stop() is

callbacks == <<state, at, newCalls, closeCalls>>
client    == <<callbacks, stopping, number>>

(* In no stop(), in wait_for(), or with the exception thrown and the future *)
(* not yet destroyed.                                                       *)
StoppingState == {"no", "wait", "throw"}

Runner   == {"read", "write", "stop"}
Position == {"begin", "close", "flags", "flagWrite", "state", "set", "call"}

ClientInit ==
  /\ state = [c \in Rd |-> "disconnect"]
  /\ at = [c \in Rd |-> [k \in Runner |-> "begin"]]
  /\ newCalls = [c \in Rd |-> 0] /\ closeCalls = [c \in Rd |-> 0]
  /\ stopping = [c \in Rd |-> "no"]

ConnectCallback(c, k) ==
  CASE k = "read"  -> rd[c].pc = "connectH"
    [] k = "write" -> wr[c].pc = "connectH"
    [] k = "stop"  -> FALSE

DisconnectCallback(c, k) ==
  CASE k = "read"  -> rd[c].pc = "disconnectH"
    [] k = "write" -> wr[c].pc = "disconnectH"
    [] k = "stop"  -> wr[c].ctl = "disconnectH"

Callback(c, k) == ConnectCallback(c, k) \/ DisconnectCallback(c, k)

(* The callback goes on at position x, in the same thread. *)
Goto(c, k, x) ==
  /\ at' = [at EXCEPT ![c][k] = x]
  /\ UNCHANGED <<kernel, rd, wr, fifo, stopping, number>>

(* The callback returns to readFifo(), writeFifo() or stopWrite(). *)
Return(c, k) ==
  /\ at' = [at EXCEPT ![c][k] = "begin"]
  /\ UNCHANGED <<fifo, stopping, number>>
  /\ \/ /\ k = "read" /\ UNCHANGED wr
        /\ ReadConnectHandlerReturns(c) \/ ReadDisconnectHandlerReturns(c)
     \/ /\ k = "write" /\ UNCHANGED rd
        /\ WriteConnectHandlerReturns(c) \/ WriteDisconnectHandlerReturns(c)
     \/ k = "stop" /\ UNCHANGED rd /\ StopWriteHandlerReturns(c)

-----------------------------------------------------------------------------
(* logicConnect(): one of the two flags is the thread's own, and is set. *)
ConnectFlags(c, k) ==
  /\ ConnectCallback(c, k) /\ at[c][k] = "begin"
  /\ wr[c].waitConnect \/ rd[c].waitConnect
  /\ Goto(c, k, "state") /\ UNCHANGED <<state, newCalls, closeCalls>>

ConnectState(c, k) ==
  /\ ConnectCallback(c, k) /\ at[c][k] = "state"
  /\ IF state[c] = "disconnect" THEN Goto(c, k, "set") ELSE Return(c, k)
  /\ UNCHANGED <<state, newCalls, closeCalls>>

ConnectSet(c, k) ==
  /\ ConnectCallback(c, k) /\ at[c][k] = "set"
  /\ state' = [state EXCEPT ![c] = "connect"]
  /\ Goto(c, k, "call") /\ UNCHANGED <<newCalls, closeCalls>>

(* newHandler() *)
ConnectCall(c, k) ==
  /\ ConnectCallback(c, k) /\ at[c][k] = "call"
  /\ newCalls' = [newCalls EXCEPT ![c] = @ + 1]
  /\ Return(c, k) /\ UNCHANGED <<state, closeCalls>>

-----------------------------------------------------------------------------
(* Mutant: the reader's disconnect callback is left to the writer's. *)
DisconnectIgnored(c) ==
  /\ DisconnectCallback(c, "read") /\ at[c]["read"] = "close"
  /\ Return(c, "read")
  /\ UNCHANGED <<state, newCalls, closeCalls>>

(* The reader's disconnect callback closes the writer's descriptor first. *)
DisconnectTakes(c) ==
  /\ DisconnectCallback(c, "read") /\ at[c]["read"] = "begin"
  /\ closeWriteTakes(ReadThread(c), c)
  /\ at' = [at EXCEPT ![c]["read"] = "close"]
  /\ UNCHANGED <<state, newCalls, closeCalls, stopping>>

DisconnectClose(c) ==
  /\ DisconnectCallback(c, "read") /\ at[c]["read"] = "close"
  /\ closeTaken(ReadThread(c))
  /\ at' = [at EXCEPT ![c]["read"] = "flags"]
  /\ UNCHANGED <<state, newCalls, closeCalls, stopping>>

(* Mutant: both halves must be down, && for ||. *)
DisconnectFlagReadBoth(c, k) ==
  /\ DisconnectCallback(c, k) /\ at[c][k] = (IF k = "read" THEN "flags" ELSE "begin")
  /\ IF ~rd[c].waitConnect THEN Goto(c, k, "flagWrite") ELSE Return(c, k)
  /\ UNCHANGED <<state, newCalls, closeCalls>>

(* logicDisConnect() *)
DisconnectFlagRead(c, k) ==
  /\ DisconnectCallback(c, k) /\ at[c][k] = (IF k = "read" THEN "flags" ELSE "begin")
  /\ Goto(c, k, IF ~rd[c].waitConnect THEN "state" ELSE "flagWrite")
  /\ UNCHANGED <<state, newCalls, closeCalls>>

DisconnectFlagWrite(c, k) ==
  /\ DisconnectCallback(c, k) /\ at[c][k] = "flagWrite"
  /\ IF ~wr[c].waitConnect THEN Goto(c, k, "state") ELSE Return(c, k)
  /\ UNCHANGED <<state, newCalls, closeCalls>>

DisconnectState(c, k) ==
  /\ DisconnectCallback(c, k) /\ at[c][k] = "state"
  /\ IF state[c] = "connect" THEN Goto(c, k, "set") ELSE Return(c, k)
  /\ UNCHANGED <<state, newCalls, closeCalls>>

DisconnectSet(c, k) ==
  /\ DisconnectCallback(c, k) /\ at[c][k] = "set"
  /\ state' = [state EXCEPT ![c] = "disconnect"]
  /\ Goto(c, k, "call") /\ UNCHANGED <<newCalls, closeCalls>>

(* closeHandler() *)
DisconnectCall(c, k) ==
  /\ DisconnectCallback(c, k) /\ at[c][k] = "call"
  /\ closeCalls' = [closeCalls EXCEPT ![c] = @ + 1]
  /\ Return(c, k) /\ UNCHANGED <<state, newCalls>>

ClientCallback(c, k) ==
  \/ ConnectFlags(c, k) \/ ConnectState(c, k) \/ ConnectSet(c, k) \/ ConnectCall(c, k)
  \/ k = "read" /\ (DisconnectTakes(c) \/ DisconnectClose(c))
  \/ DisconnectFlagRead(c, k) \/ DisconnectFlagWrite(c, k) \/ DisconnectState(c, k)
  \/ DisconnectSet(c, k) \/ DisconnectCall(c, k)

-----------------------------------------------------------------------------
(* The constructor, start() with its three handlers set, write(), stop().  *)
ClientNew(c) == FifoNew(c, FALSE) /\ UNCHANGED client

ClientStart(c) == FifoStart(c) /\ UNCHANGED client

ClientStarting(c) == (FifoStartRead(c) \/ FifoStartWrite(c)) /\ UNCHANGED client

ClientWrite(c, m) == FifoWrite(c, m) /\ UNCHANGED client

(* stop() leaves Fifo::stop() to a thread of its own and waits three seconds *)
(* for it.  After that it throws, but the exception leaves stop() only when  *)
(* the future is destroyed, and that waits for the thread.                   *)
ClientStop(c) ==
  /\ stopping[c] = "no" /\ FifoStop(c)
  /\ stopping' = [stopping EXCEPT ![c] = "wait"]
  /\ UNCHANGED <<callbacks, number>>

ClientStopping(c) ==
  (FifoStopWrite(c) \/ FifoStopRead(c)) /\ UNCHANGED client

ClientGivesUp(c) ==
  /\ stopping[c] = "wait" /\ ~FifoIdle(c)
  /\ stopping' = [stopping EXCEPT ![c] = "throw"]
  /\ UNCHANGED <<kernel, rd, wr, fifo, number, callbacks>>

ClientStopReturns(c) ==
  /\ stopping[c] # "no" /\ FifoIdle(c)
  /\ stopping' = [stopping EXCEPT ![c] = "no"]
  /\ UNCHANGED <<kernel, rd, wr, fifo, number, callbacks>>
=============================================================================
