----------------------------- MODULE NamedPipe -----------------------------
(***************************************************************************)
(* The kernel's named pipes and descriptor tables, as the library relies   *)
(* on them (Linux open(2), read(2), write(2), close(2), fifo(7)).          *)
(*                                                                         *)
(* A pipe has two ends, read "R" and write "W".  A descriptor is a slot of *)
(* its process' table and holds at most one end.  A system call that may   *)
(* block is two steps, the call and the return, so that every other thread *)
(* can move in between:                                                    *)
(*   - open reserves the lowest free descriptor and counts its end at once;*)
(*     it blocks until the opposite end is, or has since been, opened;     *)
(*   - read and write resolve the descriptor when they are called and keep *)
(*     the end they found until they return: a close of the descriptor in  *)
(*     the meantime neither wakes them nor releases the end;               *)
(*   - a pipe whose ends are all released forgets its contents.            *)
(***************************************************************************)
EXTENDS Integers, Sequences, FiniteSets

CONSTANTS
  Pipe,      \* pipes, each known by one path name
  NoPipe,    \* not a pipe
  Thread,    \* threads that make system calls
  Process,   \* processes, each with its descriptor table
  ProcOf,    \* ProcOf[t]: the process thread t runs in
  Fd,        \* descriptor numbers a process may use (RLIMIT_NOFILE)
  Capacity   \* units of data a pipe holds before write blocks

ASSUME NamedPipeAssumption ==
  /\ NoPipe \notin Pipe
  /\ ProcOf \in [Thread -> Process]
  /\ Fd \subseteq Nat /\ IsFiniteSet(Fd)
  /\ Capacity \in Nat \ {0}

VARIABLES
  linked,    \* pipes whose path name exists
  fdt,       \* fdt[q][f]: the end descriptor f of process q holds
  sys,       \* sys[t]: the system call thread t is in
  buf        \* buf[p]: the units in pipe p, oldest first

kernel == <<linked, fdt, sys, buf>>

NoFd  == -1
End   == [pipe : Pipe, mode : {"R", "W"}]
NoEnd == [pipe |-> NoPipe, mode |-> "none"]
EndOf(p, m) == [pipe |-> p, mode |-> m]
Opposite(e) == [e EXCEPT !.mode = IF @ = "R" THEN "W" ELSE "R"]

Idle == [call |-> "none", end |-> NoEnd, fd |-> NoFd, ready |-> FALSE]

KernelTypeOK(Unit) ==
  /\ linked \subseteq Pipe
  /\ fdt \in [Process -> [Fd -> End \cup {NoEnd}]]
  /\ sys \in [Thread -> [call  : {"none", "open", "read", "write"},
                         end   : End \cup {NoEnd},
                         fd    : Fd \cup {NoFd},
                         ready : BOOLEAN]]
  /\ \A t \in Thread : sys[t].call # "none" => sys[t].end \in End
  /\ buf \in [Pipe -> Seq(Unit)]

KernelInit ==
  /\ linked = {}
  /\ fdt = [q \in Process |-> [f \in Fd |-> NoEnd]]
  /\ sys = [t \in Thread |-> Idle]
  /\ buf = [p \in Pipe |-> <<>>]

-----------------------------------------------------------------------------
(* An end counts while a descriptor or a call in progress refers to it. *)
Held(e) ==
  \/ \E q \in Process, f \in Fd : fdt[q][f] = e
  \/ \E t \in Thread : sys[t].end = e

Live(p) == Held(EndOf(p, "R")) \/ Held(EndOf(p, "W"))

(* The contents b, less those of the pipes no end of which remains. *)
Remaining(b) == [p \in Pipe |-> IF Live(p)' THEN b[p] ELSE <<>>]

FreeFds(q) ==
  {f \in Fd : /\ fdt[q][f] = NoEnd
              /\ \A t \in Thread : ProcOf[t] = q => sys[t].fd # f}

(* mkfifo: the path exists afterwards, whoever created it (EEXIST). *)
Mkfifo(p) == linked' = linked \cup {p} /\ UNCHANGED <<fdt, sys, buf>>

Unlink(p) == linked' = linked \ {p} /\ UNCHANGED <<fdt, sys, buf>>

-----------------------------------------------------------------------------
(* open: ENOENT without the path, EMFILE without a free descriptor. *)
CanOpen(t, p) == p \in linked /\ FreeFds(ProcOf[t]) # {}

OpenCall(t, e) ==
  /\ CanOpen(t, e.pipe)
  /\ \E f \in FreeFds(ProcOf[t]) :
       /\ \A g \in FreeFds(ProcOf[t]) : f <= g
       /\ sys' = [u \in Thread |->
            IF u = t
            THEN [call |-> "open", end |-> e, fd |-> f, ready |-> Held(Opposite(e))]
            ELSE IF sys[u].call = "open" /\ sys[u].end = Opposite(e)
                 THEN [sys[u] EXCEPT !.ready = TRUE]
                 ELSE sys[u]]
  /\ UNCHANGED <<linked, fdt, buf>>

OpenReturn(t) ==
  /\ sys[t].call = "open" /\ sys[t].ready
  /\ fdt' = [fdt EXCEPT ![ProcOf[t]][sys[t].fd] = sys[t].end]
  /\ sys' = [sys EXCEPT ![t] = Idle]
  /\ UNCHANGED <<linked, buf>>

(* close: the slot becomes free; a number that is not open is EBADF. *)
Close(t, f) ==
  /\ fdt' = IF f \in Fd THEN [fdt EXCEPT ![ProcOf[t]][f] = NoEnd] ELSE fdt
  /\ UNCHANGED <<linked, sys>>
  /\ buf' = Remaining(buf)

(* EBADF unless f is open for mode m. *)
Usable(t, f, m) == f \in Fd /\ fdt[ProcOf[t]][f].mode = m

IoCall(t, call, f) ==
  /\ sys' = [sys EXCEPT ![t] = [call |-> call, end |-> fdt[ProcOf[t]][f],
                                fd |-> NoFd, ready |-> FALSE]]
  /\ UNCHANGED <<linked, fdt, buf>>

(* A call returns without having moved data. *)
IoReturn(t) ==
  /\ sys' = [sys EXCEPT ![t] = Idle]
  /\ UNCHANGED <<linked, fdt>>
  /\ buf' = Remaining(buf)

(* read: at most n units, all there are if fewer; 0 at end of file. *)
Contents(t) == buf[sys[t].end.pipe]

Chunk(t, n) ==
  IF Len(Contents(t)) <= n THEN Contents(t) ELSE SubSeq(Contents(t), 1, n)

ReadReturn(t, n) ==
  /\ sys[t].call = "read" /\ Contents(t) # <<>>
  /\ sys' = [sys EXCEPT ![t] = Idle]
  /\ UNCHANGED <<linked, fdt>>
  /\ LET rest == IF Len(Contents(t)) <= n
                 THEN <<>> ELSE SubSeq(Contents(t), n + 1, Len(Contents(t)))
     IN  buf' = Remaining([buf EXCEPT ![sys[t].end.pipe] = rest])

EndOfFile(t) ==
  /\ sys[t].call = "read" /\ Contents(t) = <<>>
  /\ ~Held(Opposite(sys[t].end))

(* write: one unit at a time while there is room; EPIPE without a reader. *)
WriteUnit(t, unit) ==
  /\ sys[t].call = "write"
  /\ Held(Opposite(sys[t].end))
  /\ Len(Contents(t)) < Capacity
  /\ buf' = [buf EXCEPT ![sys[t].end.pipe] = Append(@, unit)]
  /\ UNCHANGED <<linked, fdt, sys>>

BrokenPipe(t) == sys[t].call = "write" /\ ~Held(Opposite(sys[t].end))
=============================================================================
