---------------------------- MODULE MCWriteSide ----------------------------
(* Instances of WriteSide for TLC. *)
EXTENDS WriteSide, TLC

CONSTANTS o1, p1, w1, w2, us, them

\* one object, two readers that take turns on its pipe
OneAddr    == o1 :> p1
OnePeers   == w1 :> p1 @@ w2 :> p1
OneThreads == {WriteThread(o1), Caller(o1), PeerThread(w1), PeerThread(w2)}
OneProc    == [t \in OneThreads |-> IF t[2] = "peer" THEN them ELSE us]

\* one object, one reader that comes and goes
LonePeer    == w1 :> p1
LoneThreads == {WriteThread(o1), Caller(o1), PeerThread(w1)}
LoneProc    == [t \in LoneThreads |-> IF t[2] = "peer" THEN them ELSE us]

\* message 1 takes two units, message 2 one, message 3 none
ThreeSizes == <<2, 1, 0>>
=============================================================================
