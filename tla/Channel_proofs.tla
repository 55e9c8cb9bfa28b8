--------------------------- MODULE Channel_proofs ---------------------------
(***************************************************************************)
(* The theorem of Channel, for any messages and any length of the wire:    *)
(* what is received is in order.  The argument is about all that has gone  *)
(* out, received or on its way: it is in order, it ends with the last unit *)
(* written, and it is behind no message of the queue.                      *)
(***************************************************************************)
EXTENDS Channel, SequenceTheorems, TLAPS

Unit == Nat \X Nat

(* s has gone out, q is the queue, w the units of its first message that   *)
(* have gone out, p the number of messages pushed.                         *)
Rising(q, p) ==
  /\ \A i \in 1..Len(q) : q[i] <= p
  /\ \A i, j \in 1..Len(q) : i < j => q[i] < q[j]

Ahead(s, q, w, p) ==
  \A j \in 1..Len(s) :
    /\ s[j][1] <= p
    /\ \A i \in 1..Len(q) :
         s[j][1] < q[i] \/ (i = 1 /\ s[j][1] = q[1] /\ s[j][2] <= w)

Latest(s, q, w) == w > 0 => q # <<>> /\ Len(s) > 0 /\ s[Len(s)] = <<q[1], w>>

Gone(s, q, w, p) ==
  InOrder(s) /\ Rising(q, p) /\ Ahead(s, q, w, p) /\ Latest(s, q, w)

Inv ==
  /\ pushed \in Nat /\ written \in Nat
  /\ queue \in Seq(Nat)
  /\ wire \in Seq(Unit) /\ data \in Seq(Unit)
  /\ written > 0 => "W" \in ends
  /\ Gone(data \o wire, queue, written, pushed)

-----------------------------------------------------------------------------
(* Sequences *)

LEMMA ElementNumbers ==
  ASSUME NEW s \in Seq(Unit), NEW q \in Seq(Nat)
  PROVE  /\ Len(s) \in Nat /\ Len(q) \in Nat
         /\ \A j \in 1..Len(s) : s[j][1] \in Nat /\ s[j][2] \in Nat
         /\ \A i \in 1..Len(q) : q[i] \in Nat
BY ElementOfSeq DEF Unit

LEMMA AppendLast ==
  ASSUME NEW d \in Seq(Unit), NEW w \in Seq(Unit), NEW u \in Unit
  PROVE  d \o Append(w, u) = Append(d \o w, u)
<1>1. <<u>> \in Seq(Unit) /\ d \o w \in Seq(Unit)
  BY ConcatProperties
<1>2. Append(w, u) = w \o <<u>>
  BY AppendIsConcat
<1>3. Append(d \o w, u) = (d \o w) \o <<u>>
  BY <1>1, AppendIsConcat
<1>4. (d \o w) \o <<u>> = d \o (w \o <<u>>)
  BY <1>1, ConcatAssociative
<1> QED
  BY <1>2, <1>3, <1>4

LEMMA Associative ==
  ASSUME NEW x \in Seq(Unit), NEW y \in Seq(Unit), NEW z \in Seq(Unit)
  PROVE  (x \o y) \o z = x \o (y \o z)
BY ConcatAssociative

LEMMA TakeFirst ==
  ASSUME NEW d \in Seq(Unit), NEW w \in Seq(Unit), NEW n \in 1..Len(w)
  PROVE  LET a == SubSeq(w, 1, n)
             b == SubSeq(w, n + 1, Len(w))
         IN  /\ a \in Seq(Unit) /\ b \in Seq(Unit)
             /\ d \o a \in Seq(Unit) /\ (d \o a) \o b = d \o w
<1> DEFINE a == SubSeq(w, 1, n)
           b == SubSeq(w, n + 1, Len(w))
<1>1. Len(w) \in Nat /\ n \in 1..Len(w)
  OBVIOUS
<1>2. a \in Seq(Unit) /\ b \in Seq(Unit)
  BY <1>1, SubSeqProperties
<1>3. a \o b = SubSeq(w, 1, Len(w))
  BY <1>1, ConcatAdjacentSubSeq
<1>4. SubSeq(w, 1, Len(w)) = w
  BY SubSeqFull
<1> HIDE DEF a, b
<1>5. (d \o a) \o b = d \o (a \o b)
  BY <1>2, Associative
<1>6. d \o a \in Seq(Unit)
  BY <1>2, ConcatProperties
<1>7. (d \o a) \o b = d \o w
  BY <1>3, <1>4, <1>5
<1> QED
  BY <1>2, <1>6, <1>7 DEF a, b

(* pushData(): the new message is behind all others. *)
LEMMA GonePush ==
  ASSUME NEW s \in Seq(Unit), NEW q \in Seq(Nat), NEW w \in Nat,
         NEW p \in Nat, Gone(s, q, w, p)
  PROVE  Gone(s, Append(q, p + 1), w, p + 1)
<1> DEFINE r == Append(q, p + 1)
<1>1. /\ Len(s) \in Nat /\ Len(q) \in Nat
      /\ \A j \in 1..Len(s) : s[j][1] \in Nat /\ s[j][2] \in Nat
      /\ \A i \in 1..Len(q) : q[i] \in Nat
  BY ElementNumbers
<1>2. /\ Len(r) = Len(q) + 1 /\ r[Len(q) + 1] = p + 1
      /\ \A i \in 1..Len(q) : r[i] = q[i]
  BY AppendProperties
<1>3. Rising(q, p) /\ Ahead(s, q, w, p) /\ Latest(s, q, w) /\ InOrder(s)
  BY DEF Gone
<1>4. q # <<>> => 1 \in 1..Len(q)
  BY <1>1, EmptySeq
<1>5. r # <<>>
  BY AppendProperties
<1> HIDE DEF r
<1>6. \A i \in 1..Len(r) : i \in 1..Len(q) \/ i = Len(q) + 1
  BY <1>1, <1>2
<1>7. Rising(r, p + 1)
  <2>1. /\ \A i \in 1..Len(q) : q[i] <= p
        /\ \A i, j \in 1..Len(q) : i < j => q[i] < q[j]
    BY <1>3 DEF Rising
  <2>2. \A i \in 1..Len(r) : r[i] <= p + 1
    BY <1>1, <1>2, <1>6, <2>1
  <2>3. ASSUME NEW i \in 1..Len(r), NEW j \in 1..Len(r), i < j
        PROVE  r[i] < r[j]
    <3>1. i \in 1..Len(q)
      BY <1>1, <1>2, <1>6, <2>3
    <3>2. CASE j \in 1..Len(q)
      BY <1>2, <2>1, <2>3, <3>1, <3>2
    <3>3. CASE j = Len(q) + 1
      BY <1>1, <1>2, <2>1, <3>1, <3>3
    <3> QED
      BY <1>6, <3>2, <3>3
  <2> QED
    BY <2>2, <2>3 DEF Rising
<1>8. Ahead(s, r, w, p + 1)
  <2> SUFFICES ASSUME NEW j \in 1..Len(s)
               PROVE  /\ s[j][1] <= p + 1
                      /\ \A i \in 1..Len(r) :
                           s[j][1] < r[i] \/ (i = 1 /\ s[j][1] = r[1] /\ s[j][2] <= w)
    BY DEF Ahead
  <2>1. /\ s[j][1] <= p
        /\ \A i \in 1..Len(q) :
             s[j][1] < q[i] \/ (i = 1 /\ s[j][1] = q[1] /\ s[j][2] <= w)
    BY <1>3 DEF Ahead
  <2>2. s[j][1] \in Nat /\ s[j][1] < p + 1
    BY <1>1, <2>1
  <2>3. ASSUME NEW i \in 1..Len(r)
        PROVE  s[j][1] < r[i] \/ (i = 1 /\ s[j][1] = r[1] /\ s[j][2] <= w)
    <3>1. CASE i \in 1..Len(q)
      <4>1. r[i] = q[i] /\ (i = 1 => r[1] = q[1])
        BY <1>2, <3>1
      <4>2. s[j][1] < q[i] \/ (i = 1 /\ s[j][1] = q[1] /\ s[j][2] <= w)
        BY <2>1, <3>1
      <4> QED
        BY <4>1, <4>2
    <3>2. CASE i = Len(q) + 1
      BY <1>2, <2>2, <3>2
    <3> QED
      BY <1>6, <3>1, <3>2
  <2> QED
    BY <1>1, <2>2, <2>3
<1>9. Latest(s, r, w)
  BY <1>2, <1>3, <1>4, <1>5 DEF Latest
<1> QED
  BY <1>3, <1>7, <1>8, <1>9 DEF Gone, r

(* write() takes one unit more of the first message. *)
LEMMA GonePut ==
  ASSUME NEW s \in Seq(Unit), NEW q \in Seq(Nat), NEW w \in Nat,
         NEW p \in Nat, q # <<>>, Gone(s, q, w, p)
  PROVE  /\ <<q[1], w + 1>> \in Unit
         /\ Gone(Append(s, <<q[1], w + 1>>), q, w + 1, p)
<1> DEFINE u == <<q[1], w + 1>>
           t == Append(s, u)
           n == Len(s)
<1>1. /\ n \in Nat /\ Len(q) \in Nat
      /\ \A j \in 1..n : s[j][1] \in Nat /\ s[j][2] \in Nat
      /\ \A i \in 1..Len(q) : q[i] \in Nat
  BY ElementNumbers
<1>2. 1 \in 1..Len(q) /\ q[1] \in Nat
  BY <1>1, EmptySeq, ElementOfSeq
<1>3. u \in Unit
  BY <1>2 DEF Unit
<1>4. Len(t) = n + 1 /\ t[n + 1] = u /\ \A j \in 1..n : t[j] = s[j]
  BY <1>3, AppendProperties
<1>5. Rising(q, p) /\ Ahead(s, q, w, p) /\ Latest(s, q, w) /\ InOrder(s)
  BY DEF Gone
<1>6. u[1] = q[1] /\ u[2] = w + 1
  OBVIOUS
<1> HIDE DEF t, u, n
<1>7. \A j \in 1..Len(t) : j \in 1..n \/ j = n + 1
  BY <1>1, <1>4
<1>8. InOrder(t)
  <2> SUFFICES ASSUME NEW j \in 1..Len(t)
               PROVE  /\ j > 1 => Before(t[j - 1], t[j])
                      /\ t[j][2] > 1 => j > 1 /\ t[j - 1] = <<t[j][1], t[j][2] - 1>>
    BY DEF InOrder
  <2>1. CASE j \in 1..n
    <3>1. /\ j > 1 => Before(s[j - 1], s[j])
          /\ s[j][2] > 1 => j > 1 /\ s[j - 1] = <<s[j][1], s[j][2] - 1>>
      BY <1>5, <2>1 DEF InOrder, n
    <3>2. t[j] = s[j] /\ (j > 1 => t[j - 1] = s[j - 1])
      BY <1>1, <1>4, <2>1
    <3> QED
      BY <3>1, <3>2
  <2>2. CASE j = n + 1
    <3>1. t[j] = u /\ (j > 1 => j - 1 = n /\ n \in 1..n /\ t[j - 1] = s[n])
      BY <1>1, <1>4, <2>2
    <3>2. j > 1 => s[n][1] < q[1] \/ (s[n][1] = q[1] /\ s[n][2] <= w)
      BY <1>2, <1>5, <3>1 DEF Ahead, n
    <3>3. ASSUME j > 1 PROVE Before(t[j - 1], t[j])
      <4>1. s[n][1] \in Nat /\ s[n][2] \in Nat /\ t[j - 1] = s[n] /\ t[j] = u
        BY <1>1, <3>1, <3>3
      <4>2. s[n][1] < u[1] \/ (s[n][1] = u[1] /\ s[n][2] < u[2])
        BY <1>6, <3>2, <3>3, <4>1
      <4> QED
        BY <4>1, <4>2 DEF Before
    <3>4. u[2] > 1 => j > 1 /\ s[n] = <<q[1], w>>
      BY <1>1, <1>5, <1>6, <2>2 DEF Latest, n
    <3>5. u[2] - 1 = w
      BY <1>6
    <3> QED
      BY <1>6, <3>1, <3>3, <3>4, <3>5
  <2> QED
    BY <1>7, <2>1, <2>2
<1>9. Ahead(t, q, w + 1, p)
  <2> SUFFICES ASSUME NEW j \in 1..Len(t)
               PROVE  /\ t[j][1] <= p
                      /\ \A i \in 1..Len(q) :
                           \/ t[j][1] < q[i]
                           \/ i = 1 /\ t[j][1] = q[1] /\ t[j][2] <= w + 1
    BY DEF Ahead
  <2>1. CASE j \in 1..n
    <3>1. /\ s[j][1] <= p
          /\ \A i \in 1..Len(q) :
               s[j][1] < q[i] \/ (i = 1 /\ s[j][1] = q[1] /\ s[j][2] <= w)
      BY <1>5, <2>1 DEF Ahead, n
    <3>2. t[j] = s[j] /\ s[j][2] \in Nat
      BY <1>1, <1>4, <2>1
    <3>3. s[j][2] <= w => s[j][2] <= w + 1
      BY <3>2
    <3> QED
      BY <3>1, <3>2, <3>3, Zenon
  <2>2. CASE j = n + 1
    <3>1. q[1] <= p /\ \A i \in 1..Len(q) : i # 1 => q[1] < q[i]
      BY <1>1, <1>2, <1>5 DEF Rising
    <3> QED
      BY <1>2, <1>4, <1>6, <2>2, <3>1
  <2> QED
    BY <1>7, <2>1, <2>2
<1>10. Latest(t, q, w + 1)
  BY <1>1, <1>4 DEF Latest, u
<1> QED
  BY <1>3, <1>5, <1>8, <1>9, <1>10 DEF Gone, t, u

(* The first message is popped. *)
LEMMA GonePop ==
  ASSUME NEW s \in Seq(Unit), NEW q \in Seq(Nat), NEW w \in Nat,
         NEW p \in Nat, q # <<>>, Gone(s, q, w, p)
  PROVE  Gone(s, Tail(q), 0, p)
<1> DEFINE r == Tail(q)
<1>1. /\ Len(q) \in Nat \ {0} /\ Len(r) = Len(q) - 1
      /\ \A i \in 1..Len(r) : r[i] = q[i + 1]
  BY HeadTailProperties, EmptySeq
<1>2. /\ \A j \in 1..Len(s) : s[j][1] \in Nat /\ s[j][2] \in Nat
      /\ \A i \in 1..Len(q) : q[i] \in Nat
  BY ElementNumbers
<1>3. Rising(q, p) /\ Ahead(s, q, w, p) /\ InOrder(s)
  BY DEF Gone
<1> HIDE DEF r
<1>4. \A i \in 1..Len(r) : i + 1 \in 1..Len(q) /\ i + 1 # 1
  BY <1>1
<1>5. Rising(r, p)
  <2>1. /\ \A i \in 1..Len(q) : q[i] <= p
        /\ \A i, j \in 1..Len(q) : i < j => q[i] < q[j]
    BY <1>3 DEF Rising
  <2>2. \A i \in 1..Len(r) : r[i] <= p
    BY <1>1, <1>4, <2>1
  <2>3. ASSUME NEW i \in 1..Len(r), NEW j \in 1..Len(r), i < j
        PROVE  r[i] < r[j]
    <3>1. i + 1 \in 1..Len(q) /\ j + 1 \in 1..Len(q) /\ i + 1 < j + 1
      BY <1>4, <2>3
    <3> QED
      BY <1>1, <2>1, <3>1
  <2> QED
    BY <2>2, <2>3 DEF Rising
<1>6. Ahead(s, r, 0, p)
  BY <1>1, <1>3, <1>4 DEF Ahead
<1> QED
  BY <1>3, <1>5, <1>6 DEF Gone, Latest, r

(* What is on its way is lost between two messages. *)
LEMMA GoneLost ==
  ASSUME NEW s \in Seq(Unit), NEW t \in Seq(Unit), NEW q, NEW p,
         Gone(s \o t, q, 0, p)
  PROVE  Gone(s, q, 0, p)
<1>1. Len(s) \in Nat /\ Len(t) \in Nat /\ Len(s \o t) = Len(s) + Len(t)
  BY ConcatProperties
<1>2. \A j \in 1..Len(s) : (s \o t)[j] = s[j]
  BY ConcatProperties
<1>3. Rising(q, p) /\ Ahead(s \o t, q, 0, p) /\ InOrder(s \o t)
  BY DEF Gone
<1> DEFINE st == s \o t
<1> HIDE DEF st
<1>4. \A j \in 1..Len(s) : j \in 1..Len(st) /\ st[j] = s[j]
  BY <1>1, <1>2 DEF st
<1>5. Ahead(s, q, 0, p)
  BY <1>3, <1>4 DEF Ahead, st
<1>6. InOrder(s)
  <2> SUFFICES ASSUME NEW j \in 1..Len(s)
               PROVE  /\ j > 1 => Before(s[j - 1], s[j])
                      /\ s[j][2] > 1 => j > 1 /\ s[j - 1] = <<s[j][1], s[j][2] - 1>>
    BY DEF InOrder
  <2>1. /\ j > 1 => Before(st[j - 1], st[j])
        /\ st[j][2] > 1 => j > 1 /\ st[j - 1] = <<st[j][1], st[j][2] - 1>>
    BY <1>3, <1>4 DEF InOrder, st
  <2>2. st[j] = s[j] /\ (j > 1 => st[j - 1] = s[j - 1])
    BY <1>1, <1>4
  <2> QED
    BY <2>1, <2>2
<1> QED
  BY <1>3, <1>5, <1>6 DEF Gone, Latest

-----------------------------------------------------------------------------
LEMMA InvInit == Init => Inv
<1> SUFFICES ASSUME Init PROVE Inv
  OBVIOUS
<1>1. data \o wire = <<>> /\ <<>> \in Seq(Unit) /\ <<>> \in Seq(Nat)
  BY ConcatEmptySeq, EmptySeq DEF Init
<1>2. Gone(<<>>, <<>>, 0, 0)
  BY DEF Gone, InOrder, Rising, Ahead, Latest
<1> QED
  BY <1>1, <1>2 DEF Init, Inv

(* Whatever becomes of the ends, what has gone out stays in order. *)
LEMMA InvEnds ==
  ASSUME NEW d \in Seq(Unit), NEW w \in Seq(Unit), NEW q, Ends, wire' = Left(w),
         data' = d, queue' = q, written' \in Nat, pushed' = pushed,
         Gone(d \o w, q, written', pushed)
  PROVE  wire' \in Seq(Unit) /\ Gone(data' \o wire', queue', written', pushed')
<1>1. CASE ends' = {}
  <2>1. written' = 0 /\ wire' = <<>>
    BY <1>1 DEF Ends, Left
  <2>2. d \o <<>> = d /\ <<>> \in Seq(Unit)
    BY ConcatEmptySeq, EmptySeq
  <2>3. Gone(d, q, 0, pushed)
    BY <2>1, GoneLost
  <2> QED
    BY <2>1, <2>2, <2>3
<1>2. CASE ends' # {}
  BY <1>2 DEF Left
<1> QED
  BY <1>1, <1>2

LEMMA InvNext == Inv /\ [Next]_channel => Inv'
<1> SUFFICES ASSUME Inv, [Next]_channel
             PROVE  Inv'
  OBVIOUS
<1>1. /\ pushed \in Nat /\ written \in Nat
      /\ queue \in Seq(Nat)
      /\ wire \in Seq(Unit) /\ data \in Seq(Unit)
      /\ written > 0 => "W" \in ends
      /\ Gone(data \o wire, queue, written, pushed)
  BY DEF Inv
<1>2. data \o wire \in Seq(Unit)
  BY <1>1, ConcatProperties
<1>3. CASE Push
  <2>1. pushed + 1 \in Nat
    BY <1>1
  <2>2. Append(queue, pushed + 1) \in Seq(Nat)
    BY <1>1, <2>1, AppendProperties
  <2>3. Gone(data \o wire, Append(queue, pushed + 1), written, pushed + 1)
    BY <1>1, <1>2, GonePush
  <2> QED
    BY <1>1, <1>3, <2>1, <2>2, <2>3 DEF Push, Inv
<1>4. CASE Put
  <2> DEFINE u == <<queue[1], written + 1>>
  <2>1. /\ queue # <<>> /\ wire' = Append(wire, u) /\ written' = written + 1
        /\ "W" \in ends /\ UNCHANGED <<pushed, queue, data, ends>>
    BY <1>4 DEF Put
  <2>3. u \in Unit /\ Gone(Append(data \o wire, u), queue, written + 1, pushed)
    BY <1>1, <1>2, <2>1, GonePut
  <2>4. data \o Append(wire, u) = Append(data \o wire, u)
    BY <1>1, <2>3, AppendLast
  <2>5. wire' \in Seq(Unit)
    BY <1>1, <2>1, <2>3, AppendProperties
  <2> HIDE DEF u
  <2>6. pushed' \in Nat /\ written' \in Nat /\ queue' \in Seq(Nat) /\ data' \in Seq(Unit)
    BY <1>1, <2>1
  <2>7. Gone(data' \o wire', queue', written', pushed')
    BY <2>1, <2>3, <2>4
  <2>8. "W" \in ends'
    BY <2>1
  <2> QED
    BY <2>5, <2>6, <2>7, <2>8 DEF Inv
<1>5. CASE Finish
  <2>1. /\ queue # <<>> /\ queue' = Tail(queue) /\ written' = 0
        /\ Ends /\ wire' = Left(wire) /\ UNCHANGED <<pushed, data>>
    BY <1>5 DEF Finish
  <2>3. Gone(data \o wire, Tail(queue), 0, pushed)
    BY <1>1, <1>2, <2>1, GonePop
  <2>4. wire' \in Seq(Unit) /\ Gone(data' \o wire', queue', written', pushed')
    BY <1>1, <2>1, <2>3, InvEnds
  <2>5. queue' \in Seq(Nat)
    BY <1>1, <2>1, HeadTailProperties
  <2> QED
    BY <1>1, <2>1, <2>4, <2>5 DEF Inv
<1>6. CASE Take
  <2> PICK n \in 1..Len(wire) :
        /\ data' = data \o SubSeq(wire, 1, n)
        /\ Ends /\ wire' = Left(SubSeq(wire, n + 1, Len(wire)))
        /\ UNCHANGED <<pushed, queue, written>>
    BY <1>6 DEF Take
  <2> DEFINE a == SubSeq(wire, 1, n)
             b == SubSeq(wire, n + 1, Len(wire))
  <2>2. a \in Seq(Unit) /\ b \in Seq(Unit)
    BY <1>1, TakeFirst
  <2>3. data \o a \in Seq(Unit) /\ (data \o a) \o b = data \o wire
    BY <1>1, TakeFirst
  <2> HIDE DEF a, b
  <2>4. written' = written /\ Ends /\ wire' = Left(b) /\ data' = data \o a
    BY DEF a, b
  <2>5. wire' \in Seq(Unit) /\ Gone(data' \o wire', queue', written', pushed')
    <3>1. Gone((data \o a) \o b, queue, written', pushed)
      BY <1>1, <2>3, <2>4
    <3> QED
      BY <1>1, <2>2, <2>3, <2>4, <3>1, InvEnds
  <2>6. written' > 0 => "W" \in ends'
    BY <2>4 DEF Ends
  <2> QED
    BY <1>1, <2>3, <2>5, <2>6 DEF Inv
<1>7. CASE Turn
  <2>1. Ends /\ wire' = Left(wire) /\ UNCHANGED <<pushed, queue, written, data>>
    BY <1>7 DEF Turn
  <2>2. wire' \in Seq(Unit) /\ Gone(data' \o wire', queue', written', pushed')
    BY <1>1, <2>1, InvEnds
  <2>3. written' > 0 => "W" \in ends'
    BY <2>1 DEF Ends
  <2> QED
    BY <1>1, <2>1, <2>2, <2>3 DEF Inv
<1>8. CASE UNCHANGED channel
  BY <1>1, <1>8 DEF channel, Inv
<1> QED
  BY <1>3, <1>4, <1>5, <1>6, <1>7, <1>8 DEF Next

LEMMA InvInOrder == Inv => ReceivedInOrder
<1> SUFFICES ASSUME Inv PROVE InOrder(data)
  BY DEF ReceivedInOrder
<1>1. data \in Seq(Unit) /\ wire \in Seq(Unit) /\ InOrder(data \o wire)
  BY DEF Inv, Gone
<1>2. Gone(data \o wire, <<>>, 0, pushed)
  BY <1>1 DEF Inv, Gone, Rising, Ahead, Latest
<1> QED
  BY <1>1, <1>2, GoneLost DEF Gone

(* The receiver of a channel gets the messages in the order in which they   *)
(* were pushed, none twice, and of each nothing or its first units, however *)
(* often the two ends come and go.                                          *)
THEOREM ChannelInOrder == Spec => []ReceivedInOrder
<1>1. Spec => []Inv
  BY InvInit, InvNext, PTL DEF Spec
<1> QED
  BY <1>1, InvInOrder, PTL
=============================================================================
