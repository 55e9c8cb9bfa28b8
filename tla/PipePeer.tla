------------------------------ MODULE PipePeer ------------------------------
(***************************************************************************)
(* The process at the other end of a channel, in general terms: it opens   *)
(* one end of a pipe, uses it, closes it, and may come back.  It stands    *)
(* for the other program of the pair, which need not use this library.     *)
(***************************************************************************)
EXTENDS FifoBase

CONSTANTS
  Peer,       \* the peers
  peerPipe,   \* peerPipe[w]: the pipe peer w opens
  MaxVisits   \* bound: how many times a peer opens its end

PeerThread(w) == <<w, "peer">>

ASSUME PipePeerAssumption ==
  /\ peerPipe \in [Peer -> Pipe]
  /\ MaxVisits \in Nat
  /\ \A w \in Peer : PeerThread(w) \in Thread

VARIABLE peer   \* peer[w]: where it is, its descriptor, the visits made

PeerState == [at : {"out", "opening", "in"}, fd : Fd \cup {NoFd}, visits : 0..MaxVisits]

PeerInit == peer = [w \in Peer |-> [at |-> "out", fd |-> NoFd, visits |-> 0]]

PeerOpens(w, m) ==
  /\ peer[w].at = "out" /\ peer[w].visits < MaxVisits
  /\ openFifo(PeerThread(w), peerPipe[w], m)
  /\ peer' = [peer EXCEPT ![w].at = "opening", ![w].visits = @ + 1]

PeerEnters(w) ==
  /\ peer[w].at = "opening"
  /\ openFifoReturns(PeerThread(w))
  /\ peer' = [peer EXCEPT ![w].at = "in", ![w].fd = sys[PeerThread(w)].fd]

PeerLeaves(w) ==
  /\ peer[w].at = "in"
  /\ Close(PeerThread(w), peer[w].fd)
  /\ peer' = [peer EXCEPT ![w].at = "out", ![w].fd = NoFd]

(* The peer's own reads and writes, each taking or adding one unit. *)
PeerWrites(w, unit) ==
  /\ peer[w].at = "in"
  /\ Held(EndOf(peerPipe[w], "R")) /\ Len(buf[peerPipe[w]]) < Capacity
  /\ buf' = [buf EXCEPT ![peerPipe[w]] = Append(@, unit)]
  /\ UNCHANGED <<linked, fdt, sys, peer>>

PeerReads(w) ==
  /\ peer[w].at = "in" /\ buf[peerPipe[w]] # <<>>
  /\ buf' = [buf EXCEPT ![peerPipe[w]] = Tail(@)]
  /\ UNCHANGED <<linked, fdt, sys, peer>>
=============================================================================
