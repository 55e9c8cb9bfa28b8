------------------------------ MODULE Channel ------------------------------
(***************************************************************************)
(* What one direction of a connection promises, without threads, flags,    *)
(* descriptors or callbacks: messages wait in a queue, the units of the    *)
(* first one go over a wire of limited length, and what is taken from the  *)
(* wire is the data of the receiver.  Each end may be there or not, from   *)
(* one moment to the next.  A message is cut only when nobody is there to  *)
(* receive it, and the wire is lost only when nobody is there at all, and  *)
(* never in the middle of a message.                                       *)
(***************************************************************************)
EXTENDS Naturals, Sequences

CONSTANTS
  Messages,  \* the number of messages
  size,      \* size[m]: units in the m-th message
  Room       \* units the wire holds

VARIABLES
  pushed,    \* messages handed to the sender
  queue,     \* those that are not done with
  written,   \* units of the first of them that have gone out
  wire,      \* units on their way, oldest first
  data,      \* units received, oldest first
  ends       \* which of the two ends are there

channel == <<pushed, queue, written, wire, data, ends>>

Init ==
  /\ pushed = 0 /\ queue = <<>> /\ written = 0
  /\ wire = <<>> /\ data = <<>> /\ ends = {}

(* An end comes or goes; the sender is there while it is writing. *)
Ends == ends' \subseteq {"R", "W"} /\ (written' > 0 => "W" \in ends')

Left(w) == IF ends' = {} THEN <<>> ELSE w

Push ==
  /\ pushed < Messages
  /\ pushed' = pushed + 1 /\ queue' = Append(queue, pushed')
  /\ UNCHANGED <<written, wire, data, ends>>

Put ==
  /\ queue # <<>> /\ written < size[Head(queue)]
  /\ ends = {"R", "W"} /\ Len(wire) < Room
  /\ wire' = Append(wire, <<Head(queue), written + 1>>) /\ written' = written + 1
  /\ UNCHANGED <<pushed, queue, data, ends>>

Finish ==
  /\ queue # <<>>
  /\ written = size[Head(queue)] \/ (written > 0 /\ "R" \notin ends)
  /\ queue' = Tail(queue) /\ written' = 0
  /\ Ends /\ wire' = Left(wire)
  /\ UNCHANGED <<pushed, data>>

Take ==
  \E n \in 1..Len(wire) :
    /\ "R" \in ends
    /\ data' = data \o SubSeq(wire, 1, n)
    /\ Ends /\ wire' = Left(SubSeq(wire, n + 1, Len(wire)))
    /\ UNCHANGED <<pushed, queue, written>>

Turn == Ends /\ wire' = Left(wire) /\ UNCHANGED <<pushed, queue, written, data>>

Next == Push \/ Put \/ Finish \/ Take \/ Turn

Spec == Init /\ [][Next]_channel

-----------------------------------------------------------------------------
Before(u, v) == u[1] < v[1] \/ (u[1] = v[1] /\ u[2] < v[2])

(* In order, none twice, and a message as its first units without a hole. *)
InOrder(s) ==
  \A j \in 1..Len(s) :
    /\ j > 1 => Before(s[j - 1], s[j])
    /\ s[j][2] > 1 => j > 1 /\ s[j - 1] = <<s[j][1], s[j][2] - 1>>

(* The receiver gets the messages in the order in which they were pushed,   *)
(* none twice, and of each of them nothing or its first units.              *)
ReceivedInOrder == InOrder(data)
=============================================================================
