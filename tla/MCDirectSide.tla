---------------------------- MODULE MCDirectSide ----------------------------
(* Instances of DirectSide for TLC: one object, one or two readers. *)
EXTENDS DirectSide, TLC

CONSTANTS o1, p1, w1, w2, us, them

Addr    == o1 :> p1
Peers   == [w \in Peer |-> p1]
Threads == {AsyncThread(o1), StopThread(o1), Caller(o1)}
             \cup {PeerThread(w) : w \in Peer}
Proc    == [t \in Threads |-> IF t[2] = "peer" THEN them ELSE us]

\* message 1 takes two units, message 2 one, message 3 none
Sizes == <<2, 1, 0>>
=============================================================================
