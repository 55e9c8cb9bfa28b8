---------------------------- MODULE MCPairSide ----------------------------
(* Instances of PairSide for TLC: both objects in one process, as in the test. *)
EXTENDS PairSide, TLC

CONSTANTS us

AddrRead  == reader :> pipe
AddrWrite == writer :> pipe
Threads   == {ReadThread(reader), WriteThread(writer), Caller(reader), Caller(writer)}
Proc      == [t \in Threads |-> us]

\* message 1 takes two units, message 2 one, message 3 none
Sizes == SubSeq(<<2, 1, 0>>, 1, MaxPushes)
=============================================================================
