----------------------------- MODULE MCReadSide -----------------------------
(* Instances of ReadSide for TLC. *)
EXTENDS ReadSide, TLC

CONSTANTS r1, p1, w1, w2, us, them

\* one object, two peers that take turns on its pipe
OneAddr     == r1 :> p1
OnePeers    == w1 :> p1 @@ w2 :> p1
OneThreads  == {ReadThread(r1), Caller(r1), PeerThread(w1), PeerThread(w2)}
OneProc     == [t \in OneThreads |-> IF t[2] = "peer" THEN them ELSE us]

\* one object, one peer that comes and goes
LonePeer    == w1 :> p1
LoneThreads == {ReadThread(r1), Caller(r1), PeerThread(w1)}
LoneProc    == [t \in LoneThreads |-> IF t[2] = "peer" THEN them ELSE us]
=============================================================================
