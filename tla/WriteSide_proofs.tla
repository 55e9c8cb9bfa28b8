-------------------------- MODULE WriteSide_proofs --------------------------
(***************************************************************************)
(* Theorems about WriteSide, for any number of objects, peers, pipes and   *)
(* descriptors and any bounds: the specification is well typed, messages   *)
(* go out in order, every connect callback is answered, the callbacks say  *)
(* what getWaitConnect() says, and, on one pipe, what is popped has been   *)
(* written.                                                                *)
(***************************************************************************)
EXTENDS WriteSide, FifoLib_proofs

-----------------------------------------------------------------------------
(* Type correctness; a message is written only while the queue holds it. *)

LEMMA InitType == Init => TypeOK
<1> SUFFICES ASSUME Init PROVE TypeOK
  OBVIOUS
<1>1. KernelTypeOK(Unit)
  BY KernelInitType DEF Init
<1>2. wr \in [Wr -> WriteState]
  BY FifoWriteQInitType DEF Init
<1>3. peer \in [Peer -> PeerState]
  BY PipePeerAssumption DEF Init, PeerInit, PeerState, NoFd
<1> QED
  BY <1>1, <1>2, <1>3, WriteSideAssumption, IFifoWriterAssumption DEF Init, TypeOK

(* The owner of an object. *)
LEMMA OwnerType ==
  ASSUME TypeOK, NEW o \in Wr, Configure(o) \/ Start(o) \/ Stop(o) \/ Push(o)
  PROVE  TypeOK'
<1>1. KernelTypeOK(Unit) /\ wr \in [Wr -> WriteState]
  BY DEF TypeOK
<1>2. CASE Configure(o)
  <2>1. KernelTypeOK(Unit)' /\ wr' \in [Wr -> WriteState]
    BY <1>1, <1>2, WriteOwnerType DEF Configure
  <2> QED
    BY <1>2, <2>1 DEF Configure, TypeOK, app
<1>3. CASE Start(o)
  <2>1. KernelTypeOK(Unit)' /\ wr' \in [Wr -> WriteState]
    BY <1>1, <1>3, WriteOwnerType DEF Start
  <2>2. starts' \in [Wr -> 0..MaxStarts]
    BY <1>3, WriteSideAssumption DEF Start, TypeOK
  <2> QED
    BY <1>3, <2>1, <2>2 DEF Start, TypeOK
<1>4. CASE Stop(o)
  <2>1. KernelTypeOK(Unit)' /\ wr' \in [Wr -> WriteState]
    BY <1>1, <1>4, WriteOwnerType DEF Stop
  <2> QED
    BY <1>4, <2>1 DEF Stop, TypeOK, app
<1>5. CASE Push(o)
  <2>1. pushed[o] + 1 \in 1..MaxPushes
    BY <1>5, IFifoWriterAssumption DEF Push, TypeOK
  <2>2. KernelTypeOK(Unit)' /\ wr' \in [Wr -> WriteState]
    BY <1>1, <1>5, <2>1, PushDataType DEF Push
  <2>3. pushed' \in [Wr -> 0..MaxPushes]
    BY <1>5, <2>1 DEF Push, TypeOK
  <2> QED
    BY <1>5, <2>2, <2>3 DEF Push, TypeOK
<1> QED
  BY <1>2, <1>3, <1>4, <1>5

(* The call of stopWrite(), and its callback. *)
LEMMA StoppingType ==
  ASSUME TypeOK, NEW o \in Wr, Stopping(o)
  PROVE  TypeOK'
<1>1. KernelTypeOK(Unit) /\ wr \in [Wr -> WriteState]
  BY DEF TypeOK
<1>2. CASE StopWriteStep(o) /\ UNCHANGED <<peer, app>>
  <2>1. KernelTypeOK(Unit)' /\ wr' \in [Wr -> WriteState]
    BY <1>1, <1>2, StopWriteType
  <2> QED
    BY <1>2, <2>1 DEF TypeOK, app
<1>3. CASE StopWriteHandlerReturns(o) /\ DisconnectHandler(o)
  <2>1. KernelTypeOK(Unit)' /\ wr' \in [Wr -> WriteState]
    BY <1>1, <1>3, WriteCallbackType
  <2>2. flagDisconnect' \in [Wr -> Nat]
    BY <1>3 DEF DisconnectHandler, TypeOK
  <2> QED
    BY <1>3, <2>1, <2>2 DEF DisconnectHandler, TypeOK
<1> QED
  BY <1>2, <1>3 DEF Stopping

(* The writing thread and its callbacks. *)
LEMMA WritingType ==
  ASSUME TypeOK, NEW o \in Wr, Queued(o), Writing(o)
  PROVE  TypeOK'
<1>1. KernelTypeOK(Unit) /\ wr \in [Wr -> WriteState]
  BY DEF TypeOK
<1>2. CASE WriteThreadStep(o) /\ UNCHANGED <<peer, app>>
  <2>1. wr[o].pc \in {"write", "writing"} => wr[o].queue # <<>>
    BY DEF Queued
  <2>2. KernelTypeOK(Unit)' /\ wr' \in [Wr -> WriteState]
    BY <1>1, <1>2, <2>1, WriteThreadType
  <2> QED
    BY <1>2, <2>2 DEF TypeOK, app
<1>3. CASE ConnectHandler(o)
  <2>1. KernelTypeOK(Unit)' /\ wr' \in [Wr -> WriteState]
    BY <1>1, <1>3, WriteCallbackType DEF ConnectHandler
  <2>2. flagConnect' \in [Wr -> Nat]
    BY <1>3 DEF ConnectHandler, TypeOK
  <2> QED
    BY <1>3, <2>1, <2>2 DEF ConnectHandler, TypeOK
<1>4. CASE WriteDisconnectHandlerReturns(o) /\ DisconnectHandler(o)
  <2>1. KernelTypeOK(Unit)' /\ wr' \in [Wr -> WriteState]
    BY <1>1, <1>4, WriteCallbackType
  <2>2. flagDisconnect' \in [Wr -> Nat]
    BY <1>4 DEF DisconnectHandler, TypeOK
  <2> QED
    BY <1>4, <2>1, <2>2 DEF DisconnectHandler, TypeOK
<1>5. CASE WriteMessage(o)
  <2>1. wr[o].queue # <<>>
    BY <1>5 DEF WriteMessage, WriteUnits, Queued
  <2>2. KernelTypeOK(Unit)' /\ wr' \in [Wr -> WriteState]
    BY <1>1, <1>5, <2>1, WriteUnitsType DEF WriteMessage, Unit
  <2>3. <<Head(wr[o].queue), wr[o].written + 1>> \in Unit
    BY <1>1, <2>1, WritingMessage DEF Unit
  <2>4. Append(out[o], <<Head(wr[o].queue), wr[o].written + 1>>) \in Seq(Unit)
    BY <2>3, AppendProperties DEF TypeOK
  <2>5. out' \in [Wr -> Seq(Unit)]
    BY <1>5, <2>4 DEF WriteMessage, TypeOK
  <2> QED
    BY <1>5, <2>2, <2>5 DEF WriteMessage, TypeOK
<1> QED
  BY <1>2, <1>3, <1>4, <1>5 DEF Writing

(* The peers, and the removal of a path name. *)
LEMMA OthersType ==
  ASSUME TypeOK,
         \/ \E w \in Peer : Arrive(w) \/ Enter(w) \/ Leave(w) \/ Receive(w)
         \/ \E p \in Pipe : Remove(p)
  PROVE  TypeOK'
<1>1. KernelTypeOK(Unit) /\ peer \in [Peer -> PeerState]
  BY DEF TypeOK
<1>2. ASSUME NEW w \in Peer, Arrive(w) \/ Enter(w) \/ Leave(w)
      PROVE  TypeOK'
  <2>1. KernelTypeOK(Unit)' /\ peer' \in [Peer -> PeerState]
    BY <1>1, <1>2, PeerVisitType DEF Arrive, Enter, Leave
  <2> QED
    BY <1>2, <2>1 DEF Arrive, Enter, Leave, TypeOK, app
<1>3. ASSUME NEW w \in Peer, Receive(w)
      PROVE  TypeOK'
  <2>1. KernelTypeOK(Unit)'
    BY <1>1, <1>3, PeerReadsType DEF Receive
  <2> QED
    BY <1>3, <2>1 DEF Receive, PeerReads, TypeOK, app
<1>4. ASSUME NEW p \in Pipe, Remove(p)
      PROVE  TypeOK'
  <2>1. KernelTypeOK(Unit)'
    BY <1>1, <1>4, PathType DEF Remove
  <2> QED
    BY <1>4, <2>1 DEF Remove, TypeOK, app
<1> QED
  BY <1>2, <1>3, <1>4

LEMMA NextType == TypeOK /\ OrderInv /\ [Next]_vars => TypeOK'
<1> SUFFICES ASSUME TypeOK, OrderInv, [Next]_vars
             PROVE  TypeOK'
  OBVIOUS
<1>1. CASE UNCHANGED vars
  <2>1. KernelTypeOK(Unit)'
    BY <1>1, KernelStutterType DEF vars, TypeOK
  <2> QED
    BY <1>1, <2>1 DEF vars, TypeOK, app
<1>2. \A o \in Wr : Queued(o)
  BY DEF OrderInv
<1>3. CASE Next
  BY <1>2, <1>3, OwnerType, StoppingType, WritingType, OthersType DEF Next
<1> QED
  BY <1>1, <1>3

-----------------------------------------------------------------------------
(* The order of what goes out *)

LEMMA InitOrder == Init => OrderInv
BY DEF Init, FifoWriteQInit, OrderInv, Queued, Gone, InOrder

(* A step of object o that keeps o's part keeps the invariant. *)
LEMMA OrderLocal ==
  ASSUME OrderInv, NEW o \in Wr, Queued(o)', Gone(o)', InOrder(o)',
         \A q \in Wr \ {o} : /\ wr'[q] = wr[q] /\ out'[q] = out[q]
                             /\ pushed'[q] = pushed[q]
  PROVE  OrderInv'
<1> SUFFICES ASSUME NEW q \in Wr, q # o
             PROVE  Queued(q)' /\ Gone(q)' /\ InOrder(q)'
  BY DEF OrderInv
<1>1. Queued(q) /\ Gone(q) /\ InOrder(q)
  BY DEF OrderInv
<1>0. wr'[q] = wr[q] /\ out'[q] = out[q] /\ pushed'[q] = pushed[q]
  OBVIOUS
<1>2. Queued(q)'
  BY <1>0, <1>1, Zenon DEF Queued
<1>3. Gone(q)'
  BY <1>0, <1>1, SMTT(20) DEF Gone
<1>4. InOrder(q)'
  BY <1>0, <1>1, Zenon DEF InOrder, Before
<1> QED
  BY <1>2, <1>3, <1>4

(* A step of a peer keeps it. *)
LEMMA OrderFrame ==
  ASSUME OrderInv, UNCHANGED <<wr, out, pushed>>
  PROVE  OrderInv'
<1> SUFFICES ASSUME NEW q \in Wr
             PROVE  Queued(q)' /\ Gone(q)' /\ InOrder(q)'
  BY DEF OrderInv
<1>1. Queued(q) /\ Gone(q) /\ InOrder(q)
  BY DEF OrderInv
<1>2. Queued(q)'
  BY <1>1, Zenon DEF Queued
<1>3. Gone(q)'
  BY <1>1, SMTT(20) DEF Gone
<1>4. InOrder(q)'
  BY <1>1, Zenon DEF InOrder, Before
<1> QED
  BY <1>2, <1>3, <1>4

(* A step that touches no queue and begins no write keeps the invariant: *)
(* it may leave a write only at its start.                               *)
LEMMA OrderKept ==
  ASSUME OrderInv, NEW o \in Wr, UNCHANGED <<out, pushed>>,
         \A q \in Wr \ {o} : wr'[q] = wr[q],
         wr'[o].queue = wr[o].queue, wr'[o].written = wr[o].written,
         wr'[o].pc = wr[o].pc \/ wr[o].written = 0,
         \/ wr'[o].pc \notin {"write", "writing"}
         \/ wr[o].pc \in {"write", "writing"} \/ wr[o].queue # <<>>
  PROVE  OrderInv'
<1>1. Queued(o) /\ Gone(o) /\ InOrder(o)
  BY DEF OrderInv
<1>2. Queued(o)'
  BY <1>1 DEF Queued
<1>3. Gone(o)'
  BY <1>1 DEF Gone
<1>4. InOrder(o)'
  BY <1>1 DEF InOrder
<1> QED
  BY <1>2, <1>3, <1>4, OrderLocal

(* Messages are numbered, and so are their units. *)
LEMMA NumbersOf ==
  /\ 1..MaxPushes \subseteq Nat
  /\ \A u \in Unit : u[1] \in Nat /\ u[2] \in Nat
BY IFifoWriterAssumption DEF Unit

(* pushData(): the new message is behind all that has been pushed. *)
LEMMA PushOrder ==
  ASSUME TypeOK, OrderInv, NEW o \in Wr, Push(o)
  PROVE  OrderInv'
<1> DEFINE q == wr[o].queue
<1>1. Queued(o) /\ Gone(o) /\ InOrder(o)
  BY DEF OrderInv
<1>2. /\ q \in Seq(1..MaxPushes) /\ pushed[o] \in Nat /\ pushed[o] + 1 \in 1..MaxPushes
      /\ out[o] \in Seq(Unit) /\ wr[o].written \in Nat
  BY IFifoWriterAssumption DEF TypeOK, WriteState, Push
<1>3. /\ wr' = [wr EXCEPT ![o].queue = Append(q, pushed[o] + 1)]
      /\ pushed' = [pushed EXCEPT ![o] = pushed[o] + 1]
      /\ out' = out /\ wr[o].pc \notin {"write", "writing"}
  BY DEF Push, PushData, MutexHeld
<1>4. /\ wr'[o].queue = Append(q, pushed[o] + 1) /\ pushed'[o] = pushed[o] + 1
      /\ wr'[o].pc = wr[o].pc /\ wr'[o].written = wr[o].written
      /\ \A p \in Wr \ {o} : wr'[p] = wr[p] /\ pushed'[p] = pushed[p]
  BY <1>3 DEF TypeOK, WriteState
<1>5. wr[o].written = 0
  BY <1>1, <1>2, <1>3 DEF Queued
<1>6. /\ Len(Append(q, pushed[o] + 1)) = Len(q) + 1
      /\ \A i \in 1..Len(q) : Append(q, pushed[o] + 1)[i] = q[i]
      /\ Append(q, pushed[o] + 1)[Len(q) + 1] = pushed[o] + 1
      /\ Append(q, pushed[o] + 1) # <<>>
  BY <1>2, AppendProperties
<1>7. \A i \in 1..Len(q) : q[i] \in Nat /\ q[i] < pushed[o] + 1
  <2> SUFFICES ASSUME NEW i \in 1..Len(q) PROVE q[i] \in Nat /\ q[i] < pushed[o] + 1
    OBVIOUS
  <2>1. q[i] \in Nat
    BY <1>2, NumbersOf, ElementOfSeq
  <2>2. q[i] <= pushed[o]
    BY <1>1 DEF Queued
  <2> QED
    BY <1>2, <2>1, <2>2
<1>8. Queued(o)'
  <2>1. /\ wr[o].written = 0 /\ wr[o].pc \notin {"write", "writing"}
        /\ \A i, j \in 1..Len(q) : i < j => q[i] < q[j]
    BY <1>1, <1>3, <1>5 DEF Queued
  <2> DEFINE r == Append(q, pushed[o] + 1)
  <2> HIDE DEF q, r
  <2>2. Len(q) \in Nat /\ \A i \in 1..Len(r) : i \in 1..Len(q) \/ i = Len(q) + 1
    BY <1>2, <1>6 DEF r
  <2>3. \A i, j \in 1..Len(r) : i < j => r[i] < r[j]
    BY <1>6, <1>7, <2>1, <2>2 DEF r
  <2>4. \A i \in 1..Len(r) : r[i] <= pushed[o] + 1
    BY <1>2, <1>6, <1>7, <2>2 DEF r
  <2> QED
    BY <1>4, <2>1, <2>3, <2>4 DEF Queued, r
<1>9. \A j \in 1..Len(out[o]) : out[o][j][1] \in Nat /\ out[o][j][1] < pushed[o] + 1
  <2> SUFFICES ASSUME NEW j \in 1..Len(out[o])
               PROVE  out[o][j][1] \in Nat /\ out[o][j][1] < pushed[o] + 1
    OBVIOUS
  <2>1. out[o][j] \in Unit
    BY <1>2, ElementOfSeq
  <2>2. out[o][j][1] <= pushed[o]
    BY <1>1 DEF Gone
  <2> QED
    BY <1>2, <2>1, <2>2, NumbersOf
<1>10. Gone(o)'
  <2> DEFINE r == Append(q, pushed[o] + 1)
  <2>1. \A j \in 1..Len(out[o]), i \in 1..Len(q) :
          \/ out[o][j][1] < q[i]
          \/ i = 1 /\ out[o][j][1] = q[1] /\ out[o][j][2] <= wr[o].written
    BY <1>1 DEF Gone
  <2> HIDE DEF q, r
  <2>2. \A j \in 1..Len(out[o]) : out[o][j][1] <= pushed[o] + 1
    BY <1>2, <1>9
  <2>3. Len(q) \in Nat /\ \A i \in 1..Len(r) : i \in 1..Len(q) \/ i = Len(q) + 1
    BY <1>2, <1>6 DEF r
  <2>4. \A j \in 1..Len(out[o]), i \in 1..Len(r) :
          \/ out[o][j][1] < r[i]
          \/ i = 1 /\ out[o][j][1] = r[1] /\ out[o][j][2] <= wr[o].written
    BY <1>6, <1>9, <2>1, <2>3 DEF r
  <2> QED
    BY <1>3, <1>4, <1>5, <2>2, <2>4 DEF Gone, r
<1>11. InOrder(o)'
  BY <1>1, <1>3 DEF InOrder
<1> QED
  BY <1>3, <1>4, <1>8, <1>10, <1>11, OrderLocal

(* write() takes one unit more of the first message. *)
LEMMA WriteOrder ==
  ASSUME TypeOK, OrderInv, NEW o \in Wr, WriteMessage(o)
  PROVE  OrderInv'
<1> DEFINE q == wr[o].queue
           s == out[o]
           w == wr[o].written
           n == Len(s)
<1>1. Queued(o) /\ Gone(o) /\ InOrder(o)
  BY DEF OrderInv
<1>2. /\ wr \in [Wr -> WriteState] /\ out \in [Wr -> Seq(Unit)]
      /\ q \in Seq(1..MaxPushes) /\ s \in Seq(Unit) /\ w \in Nat
  BY DEF TypeOK, WriteState
<1>3. /\ wr[o].pc = "writing" /\ q # <<>>
      /\ wr' = [wr EXCEPT ![o].written = w + 1]
      /\ out' = [out EXCEPT ![o] = Append(s, <<Head(q), w + 1>>)]
      /\ pushed' = pushed
  BY <1>1 DEF WriteMessage, WriteUnits, Queued
<1> DEFINE u == <<q[1], w + 1>>
           t == Append(s, u)
<1>4. /\ wr'[o].queue = q /\ wr'[o].written = w + 1 /\ wr'[o].pc = "writing"
      /\ out'[o] = t
      /\ \A p \in Wr \ {o} : wr'[p] = wr[p] /\ out'[p] = out[p]
  BY <1>2, <1>3 DEF WriteState
<1>5. /\ Len(q) \in Nat /\ 1 \in 1..Len(q)
      /\ \A i \in 1..Len(q) : q[i] \in Nat
  <2>1. Len(q) \in Nat \ {0}
    BY <1>2, <1>3, EmptySeq
  <2>2. \A i \in 1..Len(q) : q[i] \in Nat
    BY <1>2, ElementOfSeq, NumbersOf
  <2> QED
    BY <2>1, <2>2
<1>6. u \in Unit
  BY <1>2, <1>3, WritingMessage DEF Unit
<1>7. /\ n \in Nat /\ Len(t) = n + 1 /\ t[n + 1] = u
      /\ \A j \in 1..n : t[j] = s[j]
      /\ \A j \in 1..Len(t) : j \in 1..n \/ j = n + 1
  <2>1. Len(t) = n + 1 /\ t[n + 1] = u /\ \A j \in 1..n : t[j] = s[j]
    BY <1>2, <1>6, AppendProperties
  <2>2. n \in Nat
    BY <1>2
  <2> QED
    BY <2>1, <2>2
<1>8. \A j \in 1..n : s[j][1] \in Nat /\ s[j][2] \in Nat
  BY <1>2, ElementOfSeq, NumbersOf
<1>9. /\ u[1] = q[1] /\ u[2] = w + 1
      /\ \A j \in 1..n : s[j][1] <= pushed[o]
      /\ \A j \in 1..n, i \in 1..Len(q) :
           s[j][1] < q[i] \/ (i = 1 /\ s[j][1] = q[1] /\ s[j][2] <= w)
      /\ w > 0 => n > 0 /\ s[n] = <<q[1], w>>
      /\ \A i, j \in 1..Len(q) : i < j => q[i] < q[j]
      /\ \A i \in 1..Len(q) : q[i] <= pushed[o]
  BY <1>1 DEF Gone, Queued
<1>10. InOrder(o)
  BY <1>1
<1> HIDE DEF q, s, w, n, u, t
<1>11. Queued(o)'
  BY <1>3, <1>4, <1>9 DEF Queued, q
<1>12. Gone(o)'
  <2>1. \A j \in 1..Len(t) : t[j][1] <= pushed[o]
    BY <1>5, <1>7, <1>9
  <2>2. \A j \in 1..Len(t), i \in 1..Len(q) :
          t[j][1] < q[i] \/ (i = 1 /\ t[j][1] = q[1] /\ t[j][2] <= w + 1)
    <3> SUFFICES ASSUME NEW j \in 1..Len(t), NEW i \in 1..Len(q)
                 PROVE  t[j][1] < q[i] \/ (i = 1 /\ t[j][1] = q[1] /\ t[j][2] <= w + 1)
      OBVIOUS
    <3>1. CASE j = n + 1
      BY <3>1, <1>2, <1>5, <1>7, <1>9 DEF w
    <3>2. CASE j \in 1..n
      BY <3>2, <1>2, <1>7, <1>8, <1>9 DEF w
    <3> QED
      BY <1>7, <3>1, <3>2
  <2>3. Len(t) > 0 /\ t[Len(t)] = <<q[1], w + 1>>
    BY <1>7 DEF u
  <2> QED
    BY <1>3, <1>4, <2>1, <2>2, <2>3, SMTT(30) DEF Gone
<1>13. InOrder(o)'
  <2> SUFFICES ASSUME NEW j \in 1..Len(t)
               PROVE  /\ j > 1 => Before(t[j - 1], t[j])
                      /\ t[j][2] > 1 => j > 1 /\ t[j - 1] = <<t[j][1], t[j][2] - 1>>
    BY <1>4 DEF InOrder, Before
  <2>1. CASE j \in 1..n
    <3>1. /\ j > 1 => Before(s[j - 1], s[j])
          /\ s[j][2] > 1 => j > 1 /\ s[j - 1] = <<s[j][1], s[j][2] - 1>>
      BY <1>10, <2>1 DEF InOrder, s, n
    <3>2. t[j] = s[j] /\ (j > 1 => t[j - 1] = s[j - 1])
      BY <1>7, <2>1
    <3>3. j > 1 => j - 1 \in 1..n
      BY <1>7, <2>1
    <3> QED
      BY <3>1, <3>2
  <2>2. CASE j = n + 1
    <3>1. t[j] = u /\ (j > 1 => j - 1 = n /\ n \in 1..n /\ t[j - 1] = s[n])
      BY <1>7, <2>2
    <3>2. j > 1 => s[n][1] < q[1] \/ (s[n][1] = q[1] /\ s[n][2] <= w)
      BY <1>5, <1>9, <3>1
    <3>3. j > 1 => Before(t[j - 1], t[j])
      BY <1>2, <1>8, <1>9, <3>1, <3>2 DEF Before, w
    <3>4. u[2] > 1 => j > 1 /\ s[n] = <<q[1], w>>
      BY <1>2, <1>7, <1>9, <2>2 DEF w
    <3>5. u[2] - 1 = w
      BY <1>2, <1>9 DEF w
    <3> QED
      BY <1>9, <3>1, <3>3, <3>4, <3>5
  <2> QED
    BY <1>7, <2>1, <2>2
<1> QED
  BY <1>3, <1>4, <1>11, <1>12, <1>13, OrderLocal

(* pop(): what is left in the queue comes after all that is out. *)
LEMMA PopOrder ==
  ASSUME TypeOK, OrderInv, NEW o \in Wr, WritePop(o), UNCHANGED app
  PROVE  OrderInv'
<1> DEFINE q == wr[o].queue
           r == Tail(q)
<1>1. Queued(o) /\ Gone(o) /\ InOrder(o)
  BY DEF OrderInv
<1>2. /\ wr \in [Wr -> WriteState] /\ q \in Seq(1..MaxPushes)
  BY DEF TypeOK, WriteState
<1>3. /\ q # <<>> /\ out' = out /\ pushed' = pushed
      /\ wr' = [wr EXCEPT ![o].pc = "loop", ![o].queue = r, ![o].written = 0]
  BY <1>1 DEF WritePop, Queued, app
<1>4. /\ wr'[o].queue = r /\ wr'[o].written = 0 /\ wr'[o].pc = "loop"
      /\ \A p \in Wr \ {o} : wr'[p] = wr[p]
  BY <1>2, <1>3 DEF WriteState
<1>5. /\ Len(q) \in Nat
      /\ \A i \in 1..Len(r) : i + 1 \in 1..Len(q) /\ i + 1 # 1 /\ r[i] = q[i + 1]
  BY <1>2, <1>3, HeadTailProperties
<1>6. /\ \A i, j \in 1..Len(q) : i < j => q[i] < q[j]
      /\ \A i \in 1..Len(q) : q[i] <= pushed[o]
      /\ \A j \in 1..Len(out[o]) : out[o][j][1] <= pushed[o]
      /\ \A j \in 1..Len(out[o]), i \in 1..Len(q) : i # 1 => out[o][j][1] < q[i]
  BY <1>1 DEF Queued, Gone
<1> HIDE DEF q, r
<1>7. /\ \A i, j \in 1..Len(r) : i < j => r[i] < r[j]
      /\ \A i \in 1..Len(r) : r[i] <= pushed[o]
      /\ \A j \in 1..Len(out[o]), i \in 1..Len(r) : out[o][j][1] < r[i]
  BY <1>5, <1>6
<1>8. Queued(o)'
  <2>1. ~(0 > 0) /\ "loop" \notin {"write", "writing"}
    OBVIOUS
  <2> QED
    BY <1>3, <1>4, <1>7, <2>1, Zenon DEF Queued
<1>9. Gone(o)'
  BY <1>3, <1>4, <1>6, <1>7 DEF Gone
<1>10. InOrder(o)'
  BY <1>1, <1>3 DEF InOrder
<1> QED
  BY <1>3, <1>4, <1>8, <1>9, <1>10, OrderLocal

(* The other steps of the writing thread. *)
LEMMA WriteThreadOrder ==
  ASSUME TypeOK, OrderInv, NEW o \in Wr, WriteThreadStep(o), UNCHANGED app
  PROVE  OrderInv'
<1>0. /\ wr \in [Wr -> WriteState] /\ wr[o] \in WriteState
      /\ UNCHANGED <<out, pushed>>
  BY DEF TypeOK, app
<1>00. wr[o].pc # "writing" => wr[o].written = 0
  BY <1>0 DEF OrderInv, Queued, WriteState
<1>1. CASE WriteConnect(o)
  BY <1>0, <1>00, <1>1, OrderKept DEF WriteConnect, WriteState
<1>2. CASE WriteOpenReturns(o)
  BY <1>0, <1>00, <1>2, OrderKept DEF WriteOpenReturns, WriteState
<1>3. CASE WriteOpened(o)
  BY <1>0, <1>00, <1>3, OrderKept DEF WriteOpened, WriteState
<1>4. CASE WriteCheck(o)
  BY <1>0, <1>00, <1>4, OrderKept DEF WriteCheck, WriteState
<1>5. CASE WriteConnected(o)
  BY <1>0, <1>00, <1>5, OrderKept DEF WriteConnected, WriteState
<1>6. CASE WriteLoop(o)
  BY <1>0, <1>00, <1>6, OrderKept DEF WriteLoop, WriteState
<1>7. CASE WriteLock(o)
  BY <1>0, <1>00, <1>7, OrderKept DEF WriteLock, WriteState
<1>8. CASE WriteAgain(o)
  BY <1>0, <1>00, <1>8, OrderKept DEF WriteAgain, WriteState
<1>9. CASE WriteOpen(o)
  <2>1. /\ wr[o].pc = "open"
        /\ \/ wr' = [wr EXCEPT ![o].pc = "opening"]
           \/ wr' = [wr EXCEPT ![o].pc = "opened", ![o].fifoFd = NoFd]
    BY <1>9 DEF WriteOpen
  <2> QED
    BY <1>0, <1>00, <2>1, OrderKept DEF WriteState
<1>10. CASE WriteCall(o)
  <2>1. /\ wr[o].pc = "write"
        /\ \/ wr' = [wr EXCEPT ![o].pc = "writing", ![o].written = 0]
           \/ wr' = [wr EXCEPT ![o].pc = "disconnectH", ![o].waitConnect = FALSE]
    BY <1>10 DEF WriteCall, WriteDown
  <2>2. CASE wr' = [wr EXCEPT ![o].pc = "writing", ![o].written = 0]
    BY <1>0, <1>00, <2>1, <2>2, OrderKept DEF WriteState
  <2>3. CASE wr' = [wr EXCEPT ![o].pc = "disconnectH", ![o].waitConnect = FALSE]
    BY <1>0, <1>00, <2>1, <2>3, OrderKept DEF WriteState
  <2> QED
    BY <2>1, <2>2, <2>3
<1>11. CASE WriteFails(o)
  <2>1. /\ wr[o].written = 0
        /\ wr' = [wr EXCEPT ![o].pc = "disconnectH", ![o].waitConnect = FALSE]
    BY <1>11 DEF WriteFails, WriteDown
  <2> QED
    BY <1>0, <2>1, OrderKept DEF WriteState
<1>12. CASE WritePop(o)
  BY <1>12, PopOrder
<1> QED
  BY <1>1, <1>2, <1>3, <1>4, <1>5, <1>6, <1>7, <1>8, <1>9, <1>10, <1>11, <1>12 DEF WriteThreadStep

(* The callbacks of the writing thread. *)
LEMMA WritingOrder ==
  ASSUME TypeOK, OrderInv, NEW o \in Wr, Writing(o)
  PROVE  OrderInv'
<1>0. /\ wr \in [Wr -> WriteState] /\ wr[o] \in WriteState
  BY DEF TypeOK
<1>00. wr[o].pc # "writing" => wr[o].written = 0
  BY <1>0 DEF OrderInv, Queued, WriteState
<1>1. CASE WriteThreadStep(o) /\ UNCHANGED <<peer, app>>
  BY <1>1, WriteThreadOrder
<1>2. CASE ConnectHandler(o)
  BY <1>0, <1>00, <1>2, OrderKept DEF ConnectHandler, WriteConnectHandlerReturns, WriteState
<1>3. CASE WriteMessage(o)
  BY <1>3, WriteOrder
<1>4. CASE WriteDisconnectHandlerReturns(o) /\ DisconnectHandler(o)
  BY <1>0, <1>00, <1>4, OrderKept
     DEF DisconnectHandler, WriteDisconnectHandlerReturns, WriteState
<1> QED
  BY <1>1, <1>2, <1>3, <1>4 DEF Writing

(* The owner of the object. *)
LEMMA OwnerOrder ==
  ASSUME TypeOK, OrderInv, NEW o \in Wr, Configure(o) \/ Start(o) \/ Push(o) \/ Stop(o),
         AnswersInv
  PROVE  OrderInv'
<1>0. /\ wr \in [Wr -> WriteState] /\ wr[o] \in WriteState
  BY DEF TypeOK
<1>1. CASE WriteQNew(o) /\ UNCHANGED app
  BY <1>0, <1>1, OrderKept DEF WriteQNew, WriteState, app
<1>2. CASE (\E h \in WriteHandlers : SetWriteHandler(o, h)) /\ UNCHANGED app
  BY <1>0, <1>2, OrderKept DEF SetWriteHandler, WriteState, app
<1>3. CASE WriteReconnectTrue(o) /\ UNCHANGED app
  BY <1>0, <1>3, OrderKept DEF WriteReconnectTrue, WriteState, app
<1>4. CASE Start(o)
  <2>1. wr[o].written = 0
    BY <1>0, <1>4 DEF Start, StartWrite, OrderInv, Queued, AnswersInv, Answered, WriteState
  <2> QED
    BY <1>0, <1>4, <2>1, OrderKept DEF Start, StartWrite, WriteState
<1>5. CASE Push(o)
  BY <1>5, PushOrder
<1>6. CASE Stop(o)
  BY <1>0, <1>6, OrderKept DEF Stop, StopWrite, WriteState, app
<1> QED
  BY <1>1, <1>2, <1>3, <1>4, <1>5, <1>6 DEF Configure

(* The call of stopWrite(), and its callback. *)
LEMMA StoppingOrder ==
  ASSUME TypeOK, OrderInv, NEW o \in Wr, Stopping(o)
  PROVE  OrderInv'
<1>0. /\ wr \in [Wr -> WriteState] /\ wr[o] \in WriteState
      /\ UNCHANGED <<out, pushed>>
  BY DEF TypeOK, Stopping, DisconnectHandler, app
<1>1. CASE StopWriteReconnect(o)
  BY <1>0, <1>1, OrderKept DEF StopWriteReconnect, WriteState
<1>2. CASE StopWriteTestOpen(o)
  BY <1>0, <1>2, OrderKept DEF StopWriteTestOpen, WriteState
<1>3. CASE StopWriteReleased(o)
  BY <1>0, <1>3, OrderKept DEF StopWriteReleased, WriteState
<1>4. CASE StopWriteReleaseClose(o)
  BY <1>0, <1>4, OrderKept DEF StopWriteReleaseClose, WriteState
<1>5. CASE StopWriteClose(o)
  BY <1>0, <1>5, OrderKept DEF StopWriteClose, WriteState
<1>6. CASE StopWriteHandlerReturns(o)
  BY <1>0, <1>6, OrderKept DEF StopWriteHandlerReturns, WriteState
<1>7. CASE StopWriteRelease(o)
  <2>1. \/ wr' = [wr EXCEPT ![o].ctl = "releasing"]
        \/ wr' = [wr EXCEPT ![o].ctl = "releaseClose", ![o].fd = NoFd]
    BY <1>7 DEF StopWriteRelease
  <2> QED
    BY <1>0, <2>1, OrderKept DEF WriteState
<1>8. CASE StopWriteJoin(o)
  <2>1. wr[o].written = 0
    BY <1>0, <1>8 DEF StopWriteJoin, OrderInv, Queued, WriteState
  <2> QED
    BY <1>0, <1>8, <2>1, OrderKept DEF StopWriteJoin, WriteState
<1>9. CASE StopWriteTakes(o)
  BY <1>0, <1>9, OrderKept DEF StopWriteTakes, WriteState
<1> QED
  BY <1>1, <1>2, <1>3, <1>4, <1>5, <1>6, <1>7, <1>8, <1>9 DEF Stopping, StopWriteStep

-----------------------------------------------------------------------------
(* Every connect callback is answered *)

LEMMA InitAnswers == Init => AnswersInv
BY DEF Init, FifoWriteQInit, AnswersInv, Answered, Owed, StopsToCome, StopHasAnswered

(* A step that touches no object and no counter keeps the invariant. *)
LEMMA AnswersFrame ==
  ASSUME AnswersInv, UNCHANGED <<wr, flagConnect, flagDisconnect, starts>>
  PROVE  AnswersInv'
BY DEF AnswersInv, Answered, Owed, StopsToCome, StopHasAnswered

(* A step of object o that keeps o's part keeps the invariant. *)
LEMMA AnswersLocal ==
  ASSUME AnswersInv, NEW o \in Wr, Answered(o)',
         \A q \in Wr \ {o} : /\ wr'[q] = wr[q]
                             /\ flagConnect'[q] = flagConnect[q]
                             /\ flagDisconnect'[q] = flagDisconnect[q]
                             /\ starts'[q] = starts[q]
  PROVE  AnswersInv'
BY DEF AnswersInv, Answered, Owed, StopsToCome, StopHasAnswered

(* What the arithmetic is about. *)
LEMMA AnswersTypes ==
  ASSUME TypeOK, AnswersInv, NEW o \in Wr
  PROVE  /\ wr \in [Wr -> WriteState] /\ wr[o] \in WriteState /\ Answered(o)
         /\ flagConnect \in [Wr -> Nat] /\ flagConnect[o] \in Nat
         /\ flagDisconnect \in [Wr -> Nat] /\ flagDisconnect[o] \in Nat
         /\ starts \in [Wr -> 0..MaxStarts] /\ starts[o] \in Nat
BY WriteSideAssumption DEF TypeOK, AnswersInv

(* The steps of the writing thread outside its callbacks. *)
LEMMA WriteThreadAnswers ==
  ASSUME TypeOK, AnswersInv, NEW o \in Wr, WriteThreadStep(o), UNCHANGED app
  PROVE  AnswersInv'
<1> USE DEF Answered, Owed, StopsToCome, StopHasAnswered, WriteState
<1>1. CASE WriteConnect(o) /\ UNCHANGED app
  <2>1. Answered(o)'
    BY <1>1, AnswersTypes DEF WriteConnect, app
  <2> QED
    BY <1>1, <2>1, AnswersTypes, AnswersLocal DEF WriteConnect, app
<1>2. CASE WriteOpen(o) /\ UNCHANGED app
  <2>0. /\ wr[o].pc = "open"
        /\ \/ wr' = [wr EXCEPT ![o].pc = "opening"]
           \/ wr' = [wr EXCEPT ![o].pc = "opened", ![o].fifoFd = NoFd]
    BY <1>2 DEF WriteOpen
  <2>1. Answered(o)'
    <3>1. CASE wr' = [wr EXCEPT ![o].pc = "opening"]
      BY <1>2, <2>0, <3>1, AnswersTypes DEF app
    <3>2. CASE wr' = [wr EXCEPT ![o].pc = "opened", ![o].fifoFd = NoFd]
      BY <1>2, <2>0, <3>2, AnswersTypes DEF app
    <3> QED
      BY <2>0, <3>1, <3>2
  <2> QED
    BY <1>2, <2>0, <2>1, AnswersTypes, AnswersLocal DEF app
<1>3. CASE WriteOpenReturns(o) /\ UNCHANGED app
  <2>1. Answered(o)'
    BY <1>3, AnswersTypes DEF WriteOpenReturns, app
  <2> QED
    BY <1>3, <2>1, AnswersTypes, AnswersLocal DEF WriteOpenReturns, app
<1>4. CASE WriteOpened(o) /\ UNCHANGED app
  <2>1. Answered(o)'
    BY <1>4, AnswersTypes DEF WriteOpened, app
  <2> QED
    BY <1>4, <2>1, AnswersTypes, AnswersLocal DEF WriteOpened, app
<1>5. CASE WriteCheck(o) /\ UNCHANGED app
  <2>1. Answered(o)'
    BY <1>5, AnswersTypes DEF WriteCheck, app
  <2> QED
    BY <1>5, <2>1, AnswersTypes, AnswersLocal DEF WriteCheck, app
<1>6. CASE WriteConnected(o) /\ UNCHANGED app
  <2>1. Answered(o)'
    BY <1>6, AnswersTypes DEF WriteConnected, app
  <2> QED
    BY <1>6, <2>1, AnswersTypes, AnswersLocal DEF WriteConnected, app
<1>7. CASE WriteLoop(o) /\ UNCHANGED app
  <2>1. Answered(o)'
    BY <1>7, AnswersTypes DEF WriteLoop, app
  <2> QED
    BY <1>7, <2>1, AnswersTypes, AnswersLocal DEF WriteLoop, app
<1>8. CASE WriteLock(o) /\ UNCHANGED app
  <2>1. Answered(o)'
    BY <1>8, AnswersTypes DEF WriteLock, app
  <2> QED
    BY <1>8, <2>1, AnswersTypes, AnswersLocal DEF WriteLock, app
<1>9. CASE WriteCall(o) /\ UNCHANGED app
  <2>0. /\ wr[o].pc = "write"
        /\ \/ wr' = [wr EXCEPT ![o].pc = "writing", ![o].written = 0]
           \/ wr' = [wr EXCEPT ![o].pc = "disconnectH", ![o].waitConnect = FALSE]
    BY <1>9 DEF WriteCall, WriteDown
  <2>1. Answered(o)'
    <3>1. CASE wr' = [wr EXCEPT ![o].pc = "writing", ![o].written = 0]
      BY <1>9, <2>0, <3>1, AnswersTypes DEF app
    <3>2. CASE wr' = [wr EXCEPT ![o].pc = "disconnectH", ![o].waitConnect = FALSE]
      BY <1>9, <2>0, <3>2, AnswersTypes DEF app
    <3> QED
      BY <2>0, <3>1, <3>2
  <2> QED
    BY <1>9, <2>0, <2>1, AnswersTypes, AnswersLocal DEF app
<1>10. CASE WritePop(o) /\ UNCHANGED app
  <2>1. Answered(o)'
    BY <1>10, AnswersTypes DEF WritePop, app
  <2> QED
    BY <1>10, <2>1, AnswersTypes, AnswersLocal DEF WritePop, app
<1>11. CASE WriteFails(o) /\ UNCHANGED app
  <2>0. /\ wr[o].pc = "writing"
        /\ wr' = [wr EXCEPT ![o].pc = "disconnectH", ![o].waitConnect = FALSE]
    BY <1>11 DEF WriteFails, WriteDown
  <2>1. Answered(o)'
    BY <1>11, <2>0, AnswersTypes DEF app
  <2> QED
    BY <1>11, <2>0, <2>1, AnswersTypes, AnswersLocal DEF app
<1>12. CASE WriteAgain(o) /\ UNCHANGED app
  <2>1. Answered(o)'
    BY <1>12, AnswersTypes DEF WriteAgain, app
  <2> QED
    BY <1>12, <2>1, AnswersTypes, AnswersLocal DEF WriteAgain, app
<1> QED
  BY <1>1, <1>2, <1>3, <1>4, <1>5, <1>6, <1>7, <1>8, <1>9, <1>10, <1>11, <1>12 DEF WriteThreadStep

(* The callbacks and the write() of the writing thread. *)
LEMMA WritingAnswers ==
  ASSUME TypeOK, AnswersInv, NEW o \in Wr, Writing(o)
  PROVE  AnswersInv'
<1> USE DEF Answered, Owed, StopsToCome, StopHasAnswered, WriteState
<1>1. CASE WriteThreadStep(o) /\ UNCHANGED <<peer, app>>
  BY <1>1, WriteThreadAnswers
<1>2. CASE ConnectHandler(o)
  <2>1. Answered(o)'
    BY <1>2, AnswersTypes DEF ConnectHandler, WriteConnectHandlerReturns
  <2> QED
    BY <1>2, <2>1, AnswersTypes, AnswersLocal DEF ConnectHandler, WriteConnectHandlerReturns
<1>3. CASE WriteMessage(o)
  <2>1. Answered(o)'
    BY <1>3, AnswersTypes DEF WriteMessage, WriteUnits
  <2> QED
    BY <1>3, <2>1, AnswersTypes, AnswersLocal DEF WriteMessage, WriteUnits
<1>4. CASE WriteDisconnectHandlerReturns(o) /\ DisconnectHandler(o)
  <2>1. Answered(o)'
    BY <1>4, AnswersTypes DEF DisconnectHandler, WriteDisconnectHandlerReturns
  <2> QED
    BY <1>4, <2>1, AnswersTypes, AnswersLocal DEF DisconnectHandler, WriteDisconnectHandlerReturns
<1> QED
  BY <1>1, <1>2, <1>3, <1>4 DEF Writing

(* The owner of the object. *)
LEMMA OwnerAnswers ==
  ASSUME TypeOK, AnswersInv, NEW o \in Wr, Configure(o) \/ Start(o) \/ Push(o) \/ Stop(o)
  PROVE  AnswersInv'
<1> USE DEF Answered, Owed, StopsToCome, StopHasAnswered, WriteState
<1>1. CASE WriteQNew(o) /\ UNCHANGED app
  <2>1. Answered(o)'
    BY <1>1, AnswersTypes DEF WriteQNew, app
  <2> QED
    BY <1>1, <2>1, AnswersTypes, AnswersLocal DEF WriteQNew, app
<1>2. CASE (\E h \in WriteHandlers : SetWriteHandler(o, h)) /\ UNCHANGED app
  <2>1. Answered(o)'
    BY <1>2, AnswersTypes DEF SetWriteHandler, app
  <2> QED
    BY <1>2, <2>1, AnswersTypes, AnswersLocal DEF SetWriteHandler, app
<1>3. CASE WriteReconnectTrue(o) /\ UNCHANGED app
  <2>1. Answered(o)'
    BY <1>3, AnswersTypes DEF WriteReconnectTrue, app
  <2> QED
    BY <1>3, <2>1, AnswersTypes, AnswersLocal DEF WriteReconnectTrue, app
<1>4. CASE Start(o)
  <2>0. /\ wr[o].ctl = "stopped"
        /\ wr'[o].ctl = "started" /\ wr'[o].pc = "connect"
        /\ wr'[o].waitConnect = wr[o].waitConnect
        /\ starts'[o] = starts[o] + 1
        /\ flagConnect' = flagConnect /\ flagDisconnect' = flagDisconnect
    BY <1>4, AnswersTypes DEF Start, StartWrite
  <2>1. /\ Answered(o) /\ flagConnect[o] \in Nat /\ flagDisconnect[o] \in Nat
        /\ starts[o] \in Nat
    BY AnswersTypes
  <2>2. /\ wr[o].pc = "none" /\ ~wr[o].waitConnect
        /\ Owed(o) = 0 /\ StopsToCome(o) = 0 /\ StopHasAnswered(o) = 0
    BY <2>0, <2>1
  <2>3. Owed(o)' = 0 /\ StopsToCome(o)' = 1 /\ StopHasAnswered(o)' = 0
    BY <2>0, <2>2
  <2>4. Answered(o)'
    BY <2>0, <2>1, <2>2, <2>3
  <2> QED
    BY <1>4, <2>4, AnswersTypes, AnswersLocal DEF Start, StartWrite
<1>5. CASE Push(o)
  <2>1. Answered(o)'
    BY <1>5, AnswersTypes DEF Push, PushData
  <2> QED
    BY <1>5, <2>1, AnswersTypes, AnswersLocal DEF Push, PushData
<1>6. CASE Stop(o)
  <2>1. Answered(o)'
    BY <1>6, AnswersTypes DEF Stop, StopWrite, app
  <2> QED
    BY <1>6, <2>1, AnswersTypes, AnswersLocal DEF Stop, StopWrite, app
<1> QED
  BY <1>1, <1>2, <1>3, <1>4, <1>5, <1>6 DEF Configure

(* The call of stopWrite(), and its callback. *)
LEMMA StoppingAnswers ==
  ASSUME TypeOK, AnswersInv, NEW o \in Wr, Stopping(o)
  PROVE  AnswersInv'
<1> USE DEF Answered, Owed, StopsToCome, StopHasAnswered, WriteState
<1>1. CASE StopWriteReconnect(o) /\ UNCHANGED app
  <2>1. Answered(o)'
    BY <1>1, AnswersTypes DEF StopWriteReconnect, app
  <2> QED
    BY <1>1, <2>1, AnswersTypes, AnswersLocal DEF StopWriteReconnect, app
<1>2. CASE StopWriteTestOpen(o) /\ UNCHANGED app
  <2>1. Answered(o)'
    BY <1>2, AnswersTypes DEF StopWriteTestOpen, app
  <2> QED
    BY <1>2, <2>1, AnswersTypes, AnswersLocal DEF StopWriteTestOpen, app
<1>3. CASE StopWriteRelease(o) /\ UNCHANGED app
  <2>0. /\ wr[o].ctl = "release"
        /\ \/ wr' = [wr EXCEPT ![o].ctl = "releasing"]
           \/ wr' = [wr EXCEPT ![o].ctl = "releaseClose", ![o].fd = NoFd]
    BY <1>3 DEF StopWriteRelease
  <2>1. Answered(o)'
    <3>1. CASE wr' = [wr EXCEPT ![o].ctl = "releasing"]
      BY <1>3, <2>0, <3>1, AnswersTypes DEF app
    <3>2. CASE wr' = [wr EXCEPT ![o].ctl = "releaseClose", ![o].fd = NoFd]
      BY <1>3, <2>0, <3>2, AnswersTypes DEF app
    <3> QED
      BY <2>0, <3>1, <3>2
  <2> QED
    BY <1>3, <2>0, <2>1, AnswersTypes, AnswersLocal DEF app
<1>4. CASE StopWriteReleased(o) /\ UNCHANGED app
  <2>1. Answered(o)'
    BY <1>4, AnswersTypes DEF StopWriteReleased, app
  <2> QED
    BY <1>4, <2>1, AnswersTypes, AnswersLocal DEF StopWriteReleased, app
<1>5. CASE StopWriteReleaseClose(o) /\ UNCHANGED app
  <2>1. Answered(o)'
    BY <1>5, AnswersTypes DEF StopWriteReleaseClose, app
  <2> QED
    BY <1>5, <2>1, AnswersTypes, AnswersLocal DEF StopWriteReleaseClose, app
<1>6. CASE StopWriteClose(o) /\ UNCHANGED app
  <2>1. Answered(o)'
    BY <1>6, AnswersTypes DEF StopWriteClose, app
  <2> QED
    BY <1>6, <2>1, AnswersTypes, AnswersLocal DEF StopWriteClose, app
<1>7. CASE StopWriteJoin(o) /\ UNCHANGED app
  <2>0. /\ wr[o].ctl = "join" /\ wr[o].pc = "done"
        /\ wr'[o].ctl = "stopped" /\ wr'[o].pc = "none" /\ wr'[o].waitConnect = FALSE
        /\ UNCHANGED <<flagConnect, flagDisconnect, starts>>
    BY <1>7, AnswersTypes DEF StopWriteJoin, app
  <2>1. /\ Answered(o) /\ flagConnect[o] \in Nat /\ flagDisconnect[o] \in Nat
        /\ starts[o] \in Nat
    BY AnswersTypes
  <2>2. Owed(o) \in 0..1 /\ StopsToCome(o) = 0 /\ StopHasAnswered(o) = 1
    BY <2>0
  <2>3. Owed(o)' = 0 /\ StopsToCome(o)' = 0 /\ StopHasAnswered(o)' = 0
    BY <2>0
  <2>4. Answered(o)'
    BY <2>0, <2>1, <2>2, <2>3
  <2> QED
    BY <1>7, <2>4, AnswersTypes, AnswersLocal DEF StopWriteJoin, app
<1>8. CASE StopWriteHandlerReturns(o) /\ DisconnectHandler(o)
  <2>0. /\ wr[o].ctl = "disconnectH" /\ wr'[o].ctl = "testOpen"
        /\ wr'[o].pc = wr[o].pc /\ wr'[o].waitConnect = wr[o].waitConnect
        /\ wr'[o].runWrite = wr[o].runWrite
        /\ flagDisconnect'[o] = flagDisconnect[o] + 1
        /\ flagConnect' = flagConnect /\ starts' = starts
    BY <1>8, AnswersTypes DEF DisconnectHandler, StopWriteHandlerReturns
  <2>1. /\ Answered(o) /\ flagConnect[o] \in Nat /\ flagDisconnect[o] \in Nat
        /\ starts[o] \in Nat
    BY AnswersTypes
  <2>2. Owed(o) \in 0..1 /\ StopsToCome(o) = 1 /\ StopHasAnswered(o) = 0
    BY <2>0
  <2>3. Owed(o)' = Owed(o) /\ StopsToCome(o)' = 0 /\ StopHasAnswered(o)' = 1
    BY <2>0
  <2>4. Answered(o)'
    BY <2>0, <2>1, <2>2, <2>3
  <2> QED
    BY <1>8, <2>4, AnswersTypes, AnswersLocal DEF DisconnectHandler, StopWriteHandlerReturns
<1>9. CASE StopWriteTakes(o) /\ UNCHANGED app
  <2>1. Answered(o)'
    BY <1>9, AnswersTypes DEF StopWriteTakes, app
  <2> QED
    BY <1>9, <2>1, AnswersTypes, AnswersLocal DEF StopWriteTakes, app
<1> QED
  BY <1>1, <1>2, <1>3, <1>4, <1>5, <1>6, <1>7, <1>8, <1>9 DEF Stopping, StopWriteStep

-----------------------------------------------------------------------------
(* The invariants together: a message is typed because the queue it comes  *)
(* from is not empty, and a write is not cut off by startWrite() because   *)
(* the thread of the last session has been joined.                         *)

IInv == TypeOK /\ OrderInv /\ AnswersInv

LEMMA InitIInv == Init => IInv
BY InitType, InitOrder, InitAnswers DEF IInv

LEMMA NextIInv == IInv /\ [Next]_vars => IInv'
<1> SUFFICES ASSUME IInv, [Next]_vars
             PROVE  IInv'
  OBVIOUS
<1>1. TypeOK /\ OrderInv /\ AnswersInv
  BY DEF IInv
<1>2. TypeOK'
  BY <1>1, NextType
<1>3. ASSUME UNCHANGED <<wr, app>>
      PROVE  OrderInv' /\ AnswersInv'
  <2>1. AnswersInv'
    BY <1>1, <1>3, AnswersFrame DEF app
  <2>2. OrderInv'
    BY <1>1, <1>3, OrderFrame DEF app
  <2> QED
    BY <2>1, <2>2
<1>4. CASE UNCHANGED vars
  BY <1>2, <1>3, <1>4 DEF vars, IInv
<1>5. ASSUME NEW o \in Wr,
             \/ Configure(o) \/ Start(o) \/ Push(o) \/ Stop(o)
             \/ Stopping(o) \/ Writing(o)
      PROVE  OrderInv' /\ AnswersInv'
  <2>1. OrderInv'
    BY <1>1, <1>5, OwnerOrder, StoppingOrder, WritingOrder
  <2>2. AnswersInv'
    BY <1>1, <1>5, OwnerAnswers, StoppingAnswers, WritingAnswers
  <2> QED
    BY <2>1, <2>2
<1>6. ASSUME NEW w \in Peer, Arrive(w) \/ Enter(w) \/ Leave(w) \/ Receive(w)
      PROVE  OrderInv' /\ AnswersInv'
  BY <1>3, <1>6 DEF Arrive, Enter, Leave, Receive
<1>7. ASSUME NEW p \in Pipe, Remove(p)
      PROVE  OrderInv' /\ AnswersInv'
  BY <1>3, <1>7 DEF Remove
<1> QED
  BY <1>2, <1>4, <1>5, <1>6, <1>7 DEF Next, IInv

LEMMA Invariance == Spec => []IInv
BY InitIInv, NextIInv, PTL DEF Spec

(* WriteSide is well typed whatever the objects, the peers, the sizes of   *)
(* the messages and the bounds: the kernel's tables, the objects and the   *)
(* record of what has been written.                                        *)
THEOREM TypeCorrect == Spec => []TypeOK
<1>1. IInv => TypeOK
  BY DEF IInv
<1> QED
  BY <1>1, Invariance, PTL

(* Whatever is pushed, started, stopped and reconnected and however the    *)
(* readers come and go, the units go out in the order of the messages,     *)
(* none twice and none left out before the end of a write: the queue and   *)
(* writeFifo() keep the order across every EPIPE.                          *)
THEOREM OrderKeptThroughout == Spec => []WrittenInOrder
<1>1. IInv => WrittenInOrder
  BY DEF IInv, OrderInv, WrittenInOrder
<1> QED
  BY <1>1, Invariance, PTL

(* However stopWrite() and the writing thread interleave, once stopWrite() *)
(* has returned every connect callback has been answered, with at most one *)
(* disconnect callback more than connect callbacks per session.            *)
THEOREM ConnectsAnswered == Spec => []EveryConnectAnswered
<1>1. IInv => EveryConnectAnswered
  <2> SUFFICES ASSUME IInv, NEW o \in Wr
               PROVE  /\ flagDisconnect[o] <= flagConnect[o] + starts[o]
                      /\ wr[o].ctl = "stopped" => flagConnect[o] <= flagDisconnect[o]
    BY DEF EveryConnectAnswered
  <2>1. TypeOK /\ AnswersInv
    BY DEF IInv
  <2>2. Owed(o) \in 0..1 /\ StopsToCome(o) \in 0..1 /\ StopHasAnswered(o) \in 0..1
    BY DEF Owed, StopsToCome, StopHasAnswered
  <2>3. wr[o].ctl = "stopped" => Owed(o) = 0 /\ StopHasAnswered(o) = 0
    BY <2>1, AnswersTypes DEF Answered, Owed, StopHasAnswered
  <2> QED
    BY <2>1, <2>2, <2>3, AnswersTypes DEF Answered
<1> QED
  BY <1>1, Invariance, PTL

(* In the first session of an object, until its stopWrite() has returned,  *)
(* the callbacks follow waitConnect, but for the one that stopWrite() has  *)
(* made: one session and one callback of stopWrite() are all that the two  *)
(* bounds of AnswersInv leave open, so that they meet.                     *)
THEOREM CallbacksFollowFlag == Spec => []CallbacksAgreeWithFlag
<1>1. IInv => CallbacksAgreeWithFlag
  <2> SUFFICES ASSUME IInv, NEW o \in Wr,
                      wr[o].ctl \notin {"unborn", "stopped"}, starts[o] = 1,
                      wr[o].pc \notin {"connectH", "disconnectH"}
               PROVE  flagConnect[o] - flagDisconnect[o] + StopHasAnswered(o)
                        = (IF wr[o].waitConnect THEN 1 ELSE 0)
    BY DEF CallbacksAgreeWithFlag
  <2>1. TypeOK /\ AnswersInv
    BY DEF IInv
  <2>2. /\ StopsToCome(o) \in 0..1 /\ StopHasAnswered(o) \in 0..1
        /\ StopsToCome(o) + StopHasAnswered(o) = 1
    <3>1. wr[o].ctl \in WriteCtl
      BY <2>1, AnswersTypes DEF WriteState
    <3> QED
      BY <3>1 DEF StopsToCome, StopHasAnswered, WriteCtl
  <2>3. Owed(o) = IF wr[o].waitConnect THEN 1 ELSE 0
    BY DEF Owed
  <2>4. flagConnect[o] + StopHasAnswered(o) = flagDisconnect[o] + Owed(o)
    <3>1. Owed(o) \in 0..1
      BY <2>3
    <3>2. Answered(o) /\ flagConnect[o] \in Nat /\ flagDisconnect[o] \in Nat
      BY <2>1, AnswersTypes
    <3>3. /\ flagDisconnect[o] + Owed(o) + StopsToCome(o) <= flagConnect[o] + 1
          /\ flagConnect[o] + StopHasAnswered(o) <= flagDisconnect[o] + Owed(o)
      BY <3>2 DEF Answered
    <3> QED
      BY <2>2, <3>1, <3>2, <3>3
  <2> QED
    BY <2>1, <2>2, <2>3, <2>4, AnswersTypes
<1> QED
  BY <1>1, Invariance, PTL

-----------------------------------------------------------------------------
(* What is popped.  With one pipe, the end a writing thread holds in its   *)
(* write() is that of its own object; with several, the number it writes   *)
(* with may have been closed by stopWrite() and be another pipe's by then. *)

OnePipe == \A p, q \in Pipe : p = q

Holds(o) == wr[o].pc = "writing" => sys[WriteThread(o)].end = EndOf(addrWrite[o], "W")

(* The units counted in written are out. *)
Wrote(o) == \A i \in 1..wr[o].written : <<Head(wr[o].queue), i>> \in Range(out[o])

PopInv == \A o \in Wr : Holds(o) /\ Wrote(o)

(* What a step of object o may do to its queue, its write() and the record. *)
Progress(o) ==
  \/ /\ wr'[o].queue = wr[o].queue /\ out' = out
     /\ wr'[o].written = wr[o].written \/ wr'[o].written = 0
  \/ Push(o) \/ WriteMessage(o) \/ (WritePop(o) /\ UNCHANGED app)

Others(o) == \A q \in Wr \ {o} : wr'[q] = wr[q]

(* The thread of stopWrite(), which also makes the other public calls, is  *)
(* never at a write().                                                     *)
LEMMA CallerSteps ==
  ASSUME TypeOK, NEW o \in Wr,
         Configure(o) \/ Start(o) \/ Push(o) \/ Stop(o) \/ Stopping(o)
  PROVE  /\ LeavesCalls(Caller(o)) /\ Others(o) /\ Progress(o)
         /\ wr'[o].pc = "writing" => wr[o].pc = "writing"
<1> USE DEF Others, Progress, WriteState
<1>0. /\ KernelTypeOK(Unit) /\ wr \in [Wr -> WriteState] /\ wr[o] \in WriteState
      /\ Caller(o) \in Thread
  BY WriteConstants DEF TypeOK
<1>1. CASE WriteQNew(o) /\ UNCHANGED app
  BY <1>0, <1>1, StepsLeaveCalls DEF WriteQNew, createFifo, app
<1>2. CASE (\E h \in WriteHandlers : SetWriteHandler(o, h)) /\ UNCHANGED app
  BY <1>0, <1>2, StepsLeaveCalls DEF SetWriteHandler, app
<1>3. CASE WriteReconnectTrue(o) /\ UNCHANGED app
  BY <1>0, <1>3, StepsLeaveCalls DEF WriteReconnectTrue, app
<1>4. CASE Start(o)
  BY <1>0, <1>4, StepsLeaveCalls DEF Start, StartWrite
<1>5. CASE Push(o)
  BY <1>0, <1>5, StepsLeaveCalls DEF Push, PushData
<1>6. CASE Stop(o)
  BY <1>0, <1>6, StepsLeaveCalls DEF Stop, StopWrite, app
<1>7. CASE StopWriteReconnect(o) /\ UNCHANGED app
  BY <1>0, <1>7, StepsLeaveCalls DEF StopWriteReconnect, app
<1>8. CASE StopWriteTestOpen(o) /\ UNCHANGED app
  BY <1>0, <1>8, StepsLeaveCalls DEF StopWriteTestOpen, app
<1>9. CASE StopWriteRelease(o) /\ UNCHANGED app
  <2>1. LeavesCalls(Caller(o))
    BY <1>0, <1>9, StepsLeaveCalls, OpenCallLeavesCalls DEF StopWriteRelease, openFifo, openFifoFails
  <2>2. \/ wr' = [wr EXCEPT ![o].ctl = "releasing"]
        \/ wr' = [wr EXCEPT ![o].ctl = "releaseClose", ![o].fd = NoFd]
    BY <1>9 DEF StopWriteRelease
  <2> QED
    BY <1>0, <1>9, <2>1, <2>2 DEF app
<1>10. CASE StopWriteReleased(o) /\ UNCHANGED app
  BY <1>0, <1>10, StepsLeaveCalls DEF StopWriteReleased, openFifoReturns, app
<1>11. CASE StopWriteReleaseClose(o) /\ UNCHANGED app
  BY <1>0, <1>11, StepsLeaveCalls DEF StopWriteReleaseClose, app
<1>12. CASE StopWriteClose(o) /\ UNCHANGED app
  BY <1>0, <1>12, StepsLeaveCalls DEF StopWriteClose, app
<1>13. CASE StopWriteJoin(o) /\ UNCHANGED app
  BY <1>0, <1>13, StepsLeaveCalls DEF StopWriteJoin, app
<1>14. CASE StopWriteHandlerReturns(o) /\ DisconnectHandler(o)
  BY <1>0, <1>14, StepsLeaveCalls DEF StopWriteHandlerReturns, DisconnectHandler
<1>15. CASE StopWriteTakes(o) /\ UNCHANGED app
  BY <1>0, <1>15, StepsLeaveCalls DEF StopWriteTakes, app
<1> QED
  BY <1>1, <1>2, <1>3, <1>4, <1>5, <1>6, <1>7, <1>8, <1>9, <1>10, <1>11, <1>12, <1>13, <1>14,
     <1>15 DEF Configure, Stopping, StopWriteStep

(* The number that WriteCall finds usable is an end of the one pipe. *)
LEMMA CallTakesOwnEnd ==
  ASSUME OnePipe, TypeOK, NEW o \in Wr, WriteCall(o), wr'[o].pc = "writing"
  PROVE  sys'[WriteThread(o)].end = EndOf(addrWrite[o], "W")
<1> DEFINE t == WriteThread(o)
           f == wr[o].fifoFd
<1>1. t \in Thread /\ ProcOf[t] \in Process /\ addrWrite[o] \in Pipe
  BY WriteConstants, NamedPipeAssumption
<1>2. wr \in [Wr -> WriteState] /\ KernelTypeOK(Unit)
  BY DEF TypeOK
<1>3. Usable(t, f, "W") /\ IoCall(t, "write", f)
  BY <1>2 DEF WriteCall, WriteDown, WriteState
<1>4. fdt[ProcOf[t]][f] \in End /\ fdt[ProcOf[t]][f].mode = "W"
  BY <1>1, <1>2, <1>3 DEF Usable, KernelTypeOK, NoEnd
<1>5. fdt[ProcOf[t]][f] = EndOf(addrWrite[o], "W")
  BY <1>1, <1>4 DEF End, EndOf, OnePipe
<1>6. sys'[t].end = fdt[ProcOf[t]][f]
  BY <1>1, <1>2, <1>3 DEF IoCall, KernelTypeOK
<1> QED
  BY <1>5, <1>6

(* The writing thread. *)
LEMMA ThreadSteps ==
  ASSUME OnePipe, TypeOK, NEW o \in Wr, Holds(o), Writing(o)
  PROVE  LeavesCalls(WriteThread(o)) /\ Others(o) /\ Progress(o) /\ Holds(o)'
<1> USE DEF Others, Progress, WriteState, Holds
<1>0. /\ KernelTypeOK(Unit) /\ wr \in [Wr -> WriteState] /\ wr[o] \in WriteState
      /\ WriteThread(o) \in Thread
  BY WriteConstants DEF TypeOK
<1>1. CASE WriteConnect(o) /\ UNCHANGED app
  BY <1>0, <1>1, StepsLeaveCalls DEF WriteConnect, app
<1>2. CASE WriteOpen(o) /\ UNCHANGED app
  <2>1. LeavesCalls(WriteThread(o))
    BY <1>0, <1>2, StepsLeaveCalls, OpenCallLeavesCalls DEF WriteOpen, openFifo, openFifoFails
  <2>2. \/ wr' = [wr EXCEPT ![o].pc = "opening"]
        \/ wr' = [wr EXCEPT ![o].pc = "opened", ![o].fifoFd = NoFd]
    BY <1>2 DEF WriteOpen
  <2> QED
    BY <1>0, <1>2, <2>1, <2>2 DEF app
<1>3. CASE WriteOpenReturns(o) /\ UNCHANGED app
  BY <1>0, <1>3, StepsLeaveCalls DEF WriteOpenReturns, openFifoReturns, app
<1>4. CASE WriteOpened(o) /\ UNCHANGED app
  BY <1>0, <1>4, StepsLeaveCalls DEF WriteOpened, app
<1>5. CASE WriteCheck(o) /\ UNCHANGED app
  BY <1>0, <1>5, StepsLeaveCalls DEF WriteCheck, app
<1>6. CASE WriteConnected(o) /\ UNCHANGED app
  BY <1>0, <1>6, StepsLeaveCalls DEF WriteConnected, app
<1>7. CASE WriteLoop(o) /\ UNCHANGED app
  BY <1>0, <1>7, StepsLeaveCalls DEF WriteLoop, app
<1>8. CASE WriteLock(o) /\ UNCHANGED app
  BY <1>0, <1>8, StepsLeaveCalls DEF WriteLock, app
<1>9. CASE WriteCall(o) /\ UNCHANGED app
  <2>1. LeavesCalls(WriteThread(o))
    BY <1>0, <1>9, StepsLeaveCalls DEF WriteCall
  <2>2. \/ wr' = [wr EXCEPT ![o].pc = "writing", ![o].written = 0]
        \/ wr' = [wr EXCEPT ![o].pc = "disconnectH", ![o].waitConnect = FALSE]
    BY <1>9 DEF WriteCall, WriteDown
  <2>3. Others(o) /\ Progress(o)
    BY <1>0, <1>9, <2>2 DEF app
  <2> QED
    BY <1>9, <2>1, <2>3, CallTakesOwnEnd
<1>10. CASE WritePop(o) /\ UNCHANGED app
  BY <1>0, <1>10, StepsLeaveCalls DEF WritePop
<1>11. CASE WriteFails(o) /\ UNCHANGED app
  BY <1>0, <1>11, StepsLeaveCalls DEF WriteFails, WriteDown, app
<1>12. CASE WriteAgain(o) /\ UNCHANGED app
  BY <1>0, <1>12, StepsLeaveCalls DEF WriteAgain, app
<1>13. CASE ConnectHandler(o)
  BY <1>0, <1>13, StepsLeaveCalls DEF ConnectHandler, WriteConnectHandlerReturns
<1>14. CASE WriteMessage(o)
  BY <1>0, <1>14 DEF WriteMessage, WriteUnits, WriteUnit, LeavesCalls
<1>15. CASE WriteDisconnectHandlerReturns(o) /\ DisconnectHandler(o)
  BY <1>0, <1>15, StepsLeaveCalls DEF WriteDisconnectHandlerReturns, DisconnectHandler
<1> QED
  BY <1>1, <1>2, <1>3, <1>4, <1>5, <1>6, <1>7, <1>8, <1>9, <1>10, <1>11, <1>12, <1>13, <1>14,
     <1>15 DEF Writing, WriteThreadStep

(* The peers and the removal of a path name touch no object. *)
LEMMA PeerSteps ==
  ASSUME TypeOK, NEW w \in Peer, Arrive(w) \/ Enter(w) \/ Leave(w) \/ Receive(w)
  PROVE  LeavesCalls(PeerThread(w)) /\ UNCHANGED <<wr, app>>
<1>0. KernelTypeOK(Unit) /\ PeerThread(w) \in Thread
  BY PipePeerAssumption DEF TypeOK
<1>1. CASE Arrive(w)
  BY <1>0, <1>1, OpenCallLeavesCalls DEF Arrive, PeerOpens, openFifo
<1>2. CASE Enter(w)
  BY <1>0, <1>2, StepsLeaveCalls DEF Enter, PeerEnters, openFifoReturns
<1>3. CASE Leave(w)
  BY <1>0, <1>3, StepsLeaveCalls DEF Leave, PeerLeaves
<1>4. CASE Receive(w)
  BY <1>4 DEF Receive, PeerReads, LeavesCalls
<1> QED
  BY <1>1, <1>2, <1>3, <1>4

(* A step of another object, or of a peer, keeps an object's part. *)
LEMMA PopFrame ==
  ASSUME TypeOK, NEW q \in Wr, Holds(q) /\ Wrote(q), wr'[q] = wr[q],
         out'[q] = out[q], NEW t, LeavesCalls(t), t # WriteThread(q)
  PROVE  Holds(q)' /\ Wrote(q)'
<1>1. sys'[WriteThread(q)].end = sys[WriteThread(q)].end
  BY WriteConstants DEF LeavesCalls
<1>2. Holds(q)'
  BY <1>1 DEF Holds
<1>3. Wrote(q)'
  BY DEF Wrote
<1> QED
  BY <1>2, <1>3

(* The units of a message are recorded as they are counted, and the count  *)
(* begins anew with every message.                                         *)
LEMMA WroteKept ==
  ASSUME TypeOK, OrderInv, NEW o \in Wr, Wrote(o), Progress(o)
  PROVE  Wrote(o)'
<1>0. /\ wr \in [Wr -> WriteState] /\ wr[o] \in WriteState /\ wr[o].written \in Nat
      /\ out \in [Wr -> Seq(Unit)] /\ Queued(o)
  BY DEF TypeOK, WriteState, OrderInv
<1>1. ASSUME wr'[o].written = 0
      PROVE  Wrote(o)'
  BY <1>1 DEF Wrote
<1>2. CASE /\ wr'[o].queue = wr[o].queue /\ out' = out
           /\ wr'[o].written = wr[o].written \/ wr'[o].written = 0
  BY <1>1, <1>2 DEF Wrote
<1>3. CASE Push(o)
  <2>1. wr'[o].written = 0
    BY <1>0, <1>3 DEF Push, PushData, MutexHeld, Queued, WriteState
  <2> QED
    BY <1>1, <2>1
<1>4. CASE WritePop(o) /\ UNCHANGED app
  <2>1. wr'[o].written = 0
    BY <1>0, <1>4 DEF WritePop, WriteState
  <2> QED
    BY <1>1, <2>1
<1>5. CASE WriteMessage(o)
  <2> DEFINE m == Head(wr[o].queue)
             u == <<m, wr[o].written + 1>>
  <2>1. wr'[o].queue = wr[o].queue /\ wr'[o].written = wr[o].written + 1
    BY <1>0, <1>5 DEF WriteMessage, WriteUnits, WriteState
  <2>2. out'[o] = Append(out[o], u) /\ out[o] \in Seq(Unit)
    BY <1>0, <1>5 DEF WriteMessage
  <2>3. u \in Unit
    BY <1>0, <1>5, WritingMessage DEF WriteMessage, WriteUnits, Queued, Unit
  <2> HIDE DEF u
  <2>4. /\ DOMAIN out[o] = 1..Len(out[o]) /\ DOMAIN out'[o] = 1..(Len(out[o]) + 1)
        /\ Len(out[o]) \in Nat /\ out'[o][Len(out[o]) + 1] = u
        /\ \A j \in 1..Len(out[o]) : out'[o][j] = out[o][j]
    BY <2>2, <2>3, AppendProperties
  <2>5. Range(out[o]) \subseteq Range(out'[o]) /\ u \in Range(out'[o])
    BY <2>4 DEF Range
  <2>6. \A i \in 1..(wr[o].written + 1) : i \in 1..wr[o].written \/ i = wr[o].written + 1
    BY <1>0
  <2> QED
    BY <2>1, <2>5, <2>6 DEF Wrote, u
<1> QED
  BY <1>2, <1>3, <1>4, <1>5 DEF Progress

(* Only the object's own steps change its record. *)
LEMMA RecordOfOthers ==
  ASSUME TypeOK, NEW o \in Wr, Progress(o), NEW q \in Wr, q # o
  PROVE  out'[q] = out[q]
BY DEF TypeOK, Progress, Push, WriteMessage, app

LEMMA PopNext ==
  ASSUME OnePipe, IInv, PopInv, [Next]_vars
  PROVE  PopInv'
<1>0. TypeOK /\ OrderInv
  BY DEF IInv
<1>1. ASSUME NEW o \in Wr, NEW t, t \in {Caller(o), WriteThread(o)},
             LeavesCalls(t), Others(o), Progress(o), Holds(o)'
      PROVE  PopInv'
  <2> SUFFICES ASSUME NEW q \in Wr PROVE Holds(q)' /\ Wrote(q)'
    BY DEF PopInv
  <2>1. CASE q = o
    BY <1>0, <1>1, <2>1, WroteKept DEF PopInv
  <2>2. CASE q # o
    <3>1. t # WriteThread(q)
      BY <1>1, <2>2 DEF Caller, WriteThread
    <3>2. wr'[q] = wr[q] /\ out'[q] = out[q]
      BY <1>0, <1>1, <2>2, RecordOfOthers DEF Others
    <3> QED
      BY <1>0, <1>1, <3>1, <3>2, PopFrame DEF PopInv
  <2> QED
    BY <2>1, <2>2
<1>2. ASSUME NEW o \in Wr,
             Configure(o) \/ Start(o) \/ Push(o) \/ Stop(o) \/ Stopping(o)
      PROVE  PopInv'
  <2>1. /\ LeavesCalls(Caller(o)) /\ Others(o) /\ Progress(o)
        /\ wr'[o].pc = "writing" => wr[o].pc = "writing"
    BY <1>0, <1>2, CallerSteps
  <2>2. sys'[WriteThread(o)].end = sys[WriteThread(o)].end
    BY <2>1, WriteConstants DEF LeavesCalls, Caller, WriteThread
  <2>3. Holds(o)'
    BY <2>1, <2>2 DEF PopInv, Holds
  <2> QED
    BY <1>1, <2>1, <2>3
<1>3. ASSUME NEW o \in Wr, Writing(o)
      PROVE  PopInv'
  <2>1. LeavesCalls(WriteThread(o)) /\ Others(o) /\ Progress(o) /\ Holds(o)'
    BY <1>0, <1>3, ThreadSteps DEF PopInv
  <2> QED
    BY <1>1, <2>1
<1>4. ASSUME NEW t, LeavesCalls(t), UNCHANGED <<wr, out>>, \A q \in Wr : t # WriteThread(q)
      PROVE  PopInv'
  BY <1>0, <1>4, PopFrame DEF PopInv
<1>5. ASSUME NEW w \in Peer, Arrive(w) \/ Enter(w) \/ Leave(w) \/ Receive(w)
      PROVE  PopInv'
  <2>1. LeavesCalls(PeerThread(w)) /\ UNCHANGED <<wr, out>>
    BY <1>0, <1>5, PeerSteps DEF app
  <2>2. \A q \in Wr : PeerThread(w) # WriteThread(q)
    BY DEF PeerThread, WriteThread
  <2> QED
    BY <1>4, <2>1, <2>2
<1>6. ASSUME UNCHANGED <<wr, out, sys>>
      PROVE  PopInv'
  BY <1>6 DEF PopInv, Holds, Wrote
<1>7. ASSUME NEW p \in Pipe, Remove(p)
      PROVE  PopInv'
  BY <1>6, <1>7 DEF Remove, Unlink, app
<1>8. CASE UNCHANGED vars
  BY <1>6, <1>8 DEF vars, kernel, app
<1> QED
  BY <1>2, <1>3, <1>5, <1>7, <1>8 DEF Next

(* What pop() removes is written: all of it, or its first units, and then  *)
(* the end that BrokenPipe looks at is the reading end of the own pipe.    *)
LEMMA PopStep ==
  ASSUME IInv, PopInv, NEW o \in Wr, Progress(o)
  PROVE  Popped(o)
<1>0. /\ wr \in [Wr -> WriteState] /\ wr[o] \in WriteState /\ wr[o].written \in Nat
      /\ pushed \in [Wr -> 0..MaxPushes] /\ Queued(o) /\ Holds(o) /\ Wrote(o)
  BY DEF IInv, TypeOK, WriteState, OrderInv, PopInv
<1>1. CASE wr'[o].queue = wr[o].queue
  BY <1>1 DEF Popped
<1>2. CASE Push(o)
  <2>1. wr'[o].queue = Append(wr[o].queue, pushed[o] + 1) /\ pushed'[o] = pushed[o] + 1
    BY <1>0, <1>2 DEF Push, PushData, WriteState
  <2> QED
    BY <2>1 DEF Popped
<1>3. CASE WriteMessage(o)
  BY <1>0, <1>1, <1>3 DEF WriteMessage, WriteUnits, WriteState
<1>4. CASE WritePop(o)
  <2> DEFINE m == Head(wr[o].queue)
  <2>1. wr[o].queue # <<>> /\ wr'[o].queue = Tail(wr[o].queue)
    BY <1>0, <1>4 DEF WritePop, Queued, WriteState
  <2>2. CASE wr[o].written = sizeN[m]
    BY <1>0, <2>1, <2>2 DEF Popped, Wrote
  <2>3. CASE wr[o].written > 0 /\ BrokenPipe(WriteThread(o))
    <3>1. sys[WriteThread(o)].end = EndOf(addrWrite[o], "W")
      BY <1>0, <1>4 DEF WritePop, Holds
    <3>2. ~Held(EndOf(addrWrite[o], "R"))
      BY <2>3, <3>1 DEF BrokenPipe, Opposite, EndOf
    <3>3. <<m, 1>> \in Range(out[o])
      BY <1>0, <2>3 DEF Wrote
    <3> QED
      BY <2>1, <3>2, <3>3 DEF Popped
  <2> QED
    BY <1>4, <2>2, <2>3 DEF WritePop
<1> QED
  BY <1>1, <1>2, <1>3, <1>4 DEF Progress

LEMMA PopAction ==
  ASSUME OnePipe, IInv, PopInv, [Next]_vars
  PROVE  [\A o \in Wr : Popped(o)]_vars
<1> SUFFICES ASSUME Next, NEW q \in Wr
             PROVE  Popped(q)
  OBVIOUS
<1>0. TypeOK
  BY DEF IInv
<1>1. ASSUME wr'[q] = wr[q]
      PROVE  Popped(q)
  BY <1>1 DEF Popped
<1>2. ASSUME NEW o \in Wr,
             \/ Configure(o) \/ Start(o) \/ Push(o) \/ Stop(o)
             \/ Stopping(o) \/ Writing(o)
      PROVE  Popped(q)
  <2>1. Others(o) /\ Progress(o)
    BY <1>0, <1>2, CallerSteps, ThreadSteps DEF PopInv
  <2> QED
    BY <1>1, <2>1, PopStep DEF Others
<1>3. ASSUME NEW w \in Peer, Arrive(w) \/ Enter(w) \/ Leave(w) \/ Receive(w)
      PROVE  Popped(q)
  BY <1>0, <1>1, <1>3, PeerSteps
<1>4. ASSUME NEW p \in Pipe, Remove(p)
      PROVE  Popped(q)
  BY <1>1, <1>4 DEF Remove
<1> QED
  BY <1>2, <1>3, <1>4 DEF Next

(* For objects on one pipe, whatever the interleaving of stopWrite(), the  *)
(* thread and the readers: writeFifo() pops a message only when it is      *)
(* written, to its end or to the point where the last reader left.         *)
THEOREM PopsWhatIsWritten ==
  ASSUME OnePipe
  PROVE  Spec => PoppedWasWritten
<1>1. Init => PopInv
  BY DEF Init, FifoWriteQInit, PopInv, Holds, Wrote
<1>2. IInv /\ PopInv /\ [Next]_vars => PopInv'
  BY PopNext
<1>3. IInv /\ PopInv /\ [Next]_vars => [\A o \in Wr : Popped(o)]_vars
  BY PopAction
<1> QED
  BY <1>1, <1>2, <1>3, Invariance, PTL DEF Spec, PoppedWasWritten
=============================================================================
