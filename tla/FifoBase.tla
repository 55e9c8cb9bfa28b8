------------------------------ MODULE FifoBase ------------------------------
(***************************************************************************)
(* FifoBase: the two helpers every reader and writer object uses, and the  *)
(* names of the threads that run an object's code.                         *)
(***************************************************************************)
EXTENDS NamedPipe

(* The thread that calls an object's public functions (start.., stop..). *)
Caller(o) == <<o, "caller">>

(* createFifo: an existing path is not an error. *)
createFifo(p) == Mkfifo(p)

(* openFifo, flag 'R' or 'W', blocking; it returns -1 when open fails. *)
openFifo(t, p, flag) == OpenCall(t, EndOf(p, flag))

openFifoFails(t, p) == ~CanOpen(t, p) /\ UNCHANGED kernel

openFifoReturns(t) == OpenReturn(t)
=============================================================================
