----------------------------- MODULE IFifoWriter -----------------------------
(***************************************************************************)
(* Interface IFifoWriter, which WriteQImpl and WriteDirectImpl implement:  *)
(* the messages given to pushData().  They are numbered in the order in    *)
(* which they are pushed.                                                  *)
(***************************************************************************)
EXTENDS FifoBase

CONSTANTS
  MaxPushes,  \* bound: the messages pushed to an object
  sizeN       \* sizeN[m]: units of data in the m-th message; it may be 0

ASSUME IFifoWriterAssumption ==
  /\ MaxPushes \in Nat
  /\ sizeN \in [1..MaxPushes -> Nat]
=============================================================================
