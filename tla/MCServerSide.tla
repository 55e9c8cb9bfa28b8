---------------------------- MODULE MCServerSide ----------------------------
(* Instances of ServerSide for TLC: for each connection a client of two halves. *)
EXTENDS ServerSide, TLC

CONSTANTS c1, c2, direct, reverse, direct2, reverse2, reader, writer, reader2, writer2,
          us, them

AddrRead  == [c \in Rd |-> IF c = c1 THEN direct ELSE direct2]
AddrWrite == [c \in Rd |-> IF c = c1 THEN reverse ELSE reverse2]
Peers     == [w \in Peer |-> CASE w = reader  -> reverse  [] w = writer  -> direct
                              [] w = reader2 -> reverse2 [] w = writer2 -> direct2]
Threads   == UNION {{ReadThread(c), WriteThread(c), Caller(c)} : c \in Rd}
               \cup {PeerThread(w) : w \in Peer}
Proc      == [t \in Threads |-> IF t[2] = "peer" THEN them ELSE us]

Size      == [m \in 1..MaxPushes |-> 1]
=============================================================================
