---------------------------- MODULE MCClientSide ----------------------------
(* Instances of ClientSide for TLC: one client, one peer per direction. *)
EXTENDS ClientSide, TLC

CONSTANTS c1, direct, reverse, reader, writer, us, them

AddrRead  == c1 :> reverse
AddrWrite == c1 :> direct
Peers     == reader :> direct @@ writer :> reverse
Threads   == {ReadThread(c1), WriteThread(c1), Caller(c1),
              PeerThread(reader), PeerThread(writer)}
Proc      == [t \in Threads |-> IF t[2] = "peer" THEN them ELSE us]

Size      == [m \in 1..MaxPushes |-> 1]
=============================================================================
