-------------------------- MODULE TunnelCreditProofs --------------------------
(* Proofs about the flow control of Tunnel, for any number of sessions,    *)
(* frames and lengths: what the operations on a queue do to the sum of     *)
(* what it carries, and the account of a session's bytes.                  *)
EXTENDS TunnelStreamProofs, FiniteSetTheorems

-----------------------------------------------------------------------------
(* Sums over a queue.                                                      *)

(* A function on the first naturals is a sequence.                         *)
LEMMA FunctionIsSeq ==
  ASSUME NEW S, NEW n \in Nat, NEW f \in [1 .. n -> S]
  PROVE  f \in Seq(S)
OBVIOUS

(* A row of n cells: finite, and n of them.                                *)
LEMMA RowSize ==
  ASSUME NEW i, NEW n \in Nat
  PROVE  IsFiniteSet({i} \X (1 .. n)) /\ Cardinality({i} \X (1 .. n)) = n
<1>1. IsFiniteSet(1 .. n) /\ Cardinality(1 .. n) = n
  BY FS_Interval
<1>2. IsFiniteSet({i}) /\ Cardinality({i}) = 1
  BY FS_Singleton
<1>3. /\ IsFiniteSet({i} \X (1 .. n))
      /\ Cardinality({i} \X (1 .. n)) = Cardinality({i}) * Cardinality(1 .. n)
  BY <1>1, <1>2, FS_Product
<1> QED
  BY <1>1, <1>2, <1>3

(* Membership in the table, without the union.                             *)
LEMMA CellsMember ==
  ASSUME NEW w \in Seq(Nat), NEW c
  PROVE  c \in Cells(w) <=>
           \E i \in 1 .. Len(w) : \E k \in 1 .. w[i] : c = <<i, k>>
<1>1. DOMAIN w = 1 .. Len(w)
  OBVIOUS
<1>2. c \in Cells(w) <=> \E i \in 1 .. Len(w) : c \in {i} \X (1 .. w[i])
  BY <1>1 DEF Cells
<1>3. \A i : c \in {i} \X (1 .. w[i]) <=> \E k \in 1 .. w[i] : c = <<i, k>>
  OBVIOUS
<1> QED
  BY <1>2, <1>3

(* A sum of naturals is a natural.                                         *)
LEMMA TotalType ==
  ASSUME NEW w \in Seq(Nat)
  PROVE  IsFiniteSet(Cells(w)) /\ Total(w) \in Nat
<1> DEFINE Rows == {{i} \X (1 .. w[i]) : i \in 1 .. Len(w)}
           row == [i \in 1 .. Len(w) |-> {i} \X (1 .. w[i])]
<1>1. IsFiniteSet(1 .. Len(w))
  BY FS_Interval
<1>2. IsFiniteSet(Rows)
  <2>1. row \in Surjection(1 .. Len(w), Rows)
    BY DEF Surjection
  <2> QED
    BY <1>1, <2>1, FS_Surjection
<1>3. \A r \in Rows : IsFiniteSet(r)
  <2> SUFFICES ASSUME NEW i \in 1 .. Len(w)
               PROVE  IsFiniteSet({i} \X (1 .. w[i]))
    OBVIOUS
  <2>1. w[i] \in Nat
    OBVIOUS
  <2> QED
    BY <2>1, RowSize
<1>4. IsFiniteSet(UNION Rows)
  BY <1>2, <1>3, FS_UNION
<1>5. Cells(w) = UNION Rows
  BY DEF Cells
<1> QED
  BY <1>4, <1>5, FS_CardinalityType DEF Total

(* The sum of nothing is 0.                                                *)
LEMMA TotalEmpty == Total(<<>>) = 0
<1>1. Cells(<<>>) = {}
  BY DEF Cells
<1> QED
  BY <1>1, FS_EmptySet DEF Total

(* Appending n adds n.                                                     *)
LEMMA TotalAppend ==
  ASSUME NEW w \in Seq(Nat), NEW n \in Nat
  PROVE  Total(Append(w, n)) = Total(w) + n
<1> DEFINE v == Append(w, n)
           l == Len(w) + 1
           row == {l} \X (1 .. n)
<1>1. v \in Seq(Nat) /\ Len(v) = l /\ v[l] = n
      /\ \A i \in 1 .. Len(w) : v[i] = w[i]
  BY AppendFacts
<1>2. Cells(v) = Cells(w) \cup row
  <2>1. ASSUME NEW c PROVE c \in Cells(v) <=> c \in Cells(w) \cup row
    <3>1. c \in Cells(v) <=> \E i \in 1 .. l : \E k \in 1 .. v[i] : c = <<i, k>>
      <4> HIDE DEF v, l
      <4> QED
        BY <1>1, CellsMember
    <3>2. c \in Cells(w) <=>
            \E i \in 1 .. Len(w) : \E k \in 1 .. w[i] : c = <<i, k>>
      BY CellsMember
    <3>3. c \in row <=> \E k \in 1 .. n : c = <<l, k>>
      OBVIOUS
    <3>4. \A i : i \in 1 .. l <=> i \in 1 .. Len(w) \/ i = l
      OBVIOUS
    <3> HIDE DEF row, v, l
    <3> QED
      BY <3>1, <3>2, <3>3, <3>4, <1>1
  <2> QED
    BY <2>1
<1>3. Cells(w) \cap row = {}
  <2> SUFFICES ASSUME NEW c \in Cells(w), c \in row PROVE FALSE
    OBVIOUS
  <2>1. PICK i \in 1 .. Len(w) : \E k \in 1 .. w[i] : c = <<i, k>>
    BY CellsMember
  <2>2. c[1] = i /\ c[1] = l
    BY <2>1
  <2> QED
    BY <2>2
<1>4. IsFiniteSet(row) /\ Cardinality(row) = n
  BY RowSize
<1>5. Cardinality(Cells(w) \cup row)
        = Cardinality(Cells(w)) + Cardinality(row) - Cardinality({})
  BY <1>3, <1>4, TotalType, FS_Union
<1> QED
  BY <1>2, <1>4, <1>5, TotalType, FS_EmptySet DEF Total

(* The sum is its first element and the sum of the rest.                   *)
LEMMA TotalTail ==
  ASSUME NEW w \in Seq(Nat), w # <<>>
  PROVE  Total(w) = Head(w) + Total(Tail(w))
<1> DEFINE v == Tail(w)
           n == Head(w)
           row == {1} \X (1 .. n)
           shifted == Cells(w) \ row
           f == [c \in Cells(v) |-> <<c[1] + 1, c[2]>>]
<1>1. v \in Seq(Nat) /\ n \in Nat /\ Len(v) = Len(w) - 1 /\ Len(w) >= 1
      /\ n = w[1] /\ \A i \in 1 .. Len(v) : v[i] = w[i + 1]
  BY HeadTailFacts, EmptyFacts
<1>2. row \subseteq Cells(w)
  BY <1>1, CellsMember
<1>0. \A c : c \in Cells(v) <=>
              \E i \in 1 .. Len(v) : \E k \in 1 .. v[i] : c = <<i, k>>
  <2> HIDE DEF v
  <2> QED
    BY <1>1, CellsMember
<1>3. f \in Bijection(Cells(v), shifted)
  <2>1. ASSUME NEW c \in Cells(v) PROVE f[c] \in shifted
    <3>1. PICK i \in 1 .. Len(v) : \E k \in 1 .. v[i] : c = <<i, k>>
      BY <1>0
    <3>2. PICK k \in 1 .. v[i] : c = <<i, k>>
      BY <3>1
    <3>3. f[c] = <<i + 1, k>>
      BY <3>2
    <3>4. i + 1 \in 1 .. Len(w) /\ k \in 1 .. w[i + 1] /\ i + 1 # 1
      BY <1>1
    <3>5. <<i + 1, k>> \in Cells(w)
      BY <3>4, CellsMember
    <3>6. <<i + 1, k>> \notin row
      BY <3>4
    <3> QED
      BY <3>3, <3>5, <3>6
  <2>2. ASSUME NEW c \in Cells(v), NEW d \in Cells(v), f[c] = f[d]
        PROVE  c = d
    <3>1. PICK i \in 1 .. Len(v) : \E k \in 1 .. v[i] : c = <<i, k>>
      BY <1>0
    <3>2. PICK j \in 1 .. Len(v) : \E k \in 1 .. v[j] : d = <<j, k>>
      BY <1>0
    <3> QED
      BY <2>2, <3>1, <3>2
  <2>3. ASSUME NEW d \in shifted PROVE \E c \in Cells(v) : f[c] = d
    <3>1. PICK j \in 1 .. Len(w) : \E k \in 1 .. w[j] : d = <<j, k>>
      BY CellsMember
    <3>2. PICK k \in 1 .. w[j] : d = <<j, k>>
      BY <3>1
    <3>3. j # 1
      BY <1>1, <3>2
    <3>4. j - 1 \in 1 .. Len(v) /\ k \in 1 .. v[j - 1]
      BY <1>1, <3>3
    <3>5. <<j - 1, k>> \in Cells(v)
      BY <1>0, <3>4
    <3>6. f[<<j - 1, k>>] = d
      BY <3>2, <3>5
    <3> QED
      BY <3>5, <3>6
  <2>4. f \in [Cells(v) -> shifted]
    BY <2>1
  <2> HIDE DEF f, v, shifted
  <2> QED
    BY <2>2, <2>3, <2>4 DEF Bijection, Injection, Surjection, IsInjective
<1>4. IsFiniteSet(Cells(v)) /\ Cardinality(Cells(v)) = Total(v)
  BY <1>1, TotalType DEF Total
<1>5. IsFiniteSet(shifted) /\ Cardinality(shifted) = Total(v)
  <2>1. ExistsBijection(Cells(v), shifted)
    BY <1>3 DEF ExistsBijection
  <2> QED
    BY <1>4, <2>1, FS_Bijection
<1>6. IsFiniteSet(row) /\ Cardinality(row) = n
  BY <1>1, RowSize
<1>7. Cells(w) = row \cup shifted /\ row \cap shifted = {}
  BY <1>2
<1>8. Cardinality(row \cup shifted)
        = Cardinality(row) + Cardinality(shifted) - Cardinality({})
  BY <1>5, <1>6, <1>7, FS_Union
<1>9. Total(w) = n + Total(v)
  <2> HIDE DEF n, v, row, shifted
  <2> QED
    BY <1>1, <1>4, <1>5, <1>6, <1>7, <1>8, TotalType, FS_EmptySet DEF Total
<1> QED
  BY <1>9

-----------------------------------------------------------------------------
(* What the operations on queues do to the bytes they carry.               *)

(* The bytes a message adds to a count of a type and a session.            *)
Weight(m, type, s) == IF m.type = type /\ m.sid = s THEN m.len ELSE 0

(* A pipe carries a natural number of bytes of a session.                  *)
LEMMA CarriedType ==
  ASSUME NEW q \in Seq(Message), NEW type, NEW s
  PROVE  Carried(q, type, s) \in Seq(Nat) /\ Total(Carried(q, type, s)) \in Nat
<1>1. \A i \in 1 .. Len(q) : q[i].len \in Nat
  <2>1. \A i \in 1 .. Len(q) : q[i] \in Message
    BY LenFacts
  <2> QED
    BY <2>1 DEF Message
<1>2. Carried(q, type, s) \in [1 .. Len(q) -> Nat]
  BY <1>1 DEF Carried
<1>3. Carried(q, type, s) \in Seq(Nat)
  BY <1>2, LenFacts, FunctionIsSeq
<1> QED
  BY <1>3, TotalType

(* A message at the back adds its weight.                                  *)
LEMMA CarriedAppend ==
  ASSUME NEW q \in Seq(Message), NEW m \in Message, NEW type, NEW s
  PROVE  Total(Carried(Append(q, m), type, s))
           = Total(Carried(q, type, s)) + Weight(m, type, s)
<1>1. Weight(m, type, s) \in Nat
  BY DEF Weight, Message
<1>2. Carried(Append(q, m), type, s)
        = Append(Carried(q, type, s), Weight(m, type, s))
  BY DEF Carried, Weight
<1> QED
  BY <1>1, <1>2, CarriedType, TotalAppend

(* Taking the message at the front removes its weight.                     *)
LEMMA CarriedTail ==
  ASSUME NEW q \in Seq(Message), q # <<>>, NEW type, NEW s
  PROVE  Total(Carried(q, type, s))
           = Weight(Head(q), type, s) + Total(Carried(Tail(q), type, s))
<1> DEFINE c == Carried(q, type, s)
<1>1. c \in Seq(Nat) /\ c # <<>> /\ Head(c) = Weight(Head(q), type, s)
  <2>1. c \in Seq(Nat)
    BY CarriedType
  <2>2. c # <<>> /\ Head(c) = Weight(Head(q), type, s)
    BY DEF Carried, Weight
  <2> QED
    BY <2>1, <2>2
<1>2. Tail(c) = Carried(Tail(q), type, s)
  BY DEF Carried
<1>3. Total(c) = Head(c) + Total(Tail(c))
  <2> HIDE DEF c
  <2> QED
    BY <1>1, TotalTail
<1> QED
  BY <1>1, <1>2, <1>3

(* The same three facts for a writer's queue.                              *)
LEMMA QueuedFacts ==
  ASSUME NEW q \in Seq(WriterMessage)
  PROVE  /\ Total(Queued(q)) \in Nat
         /\ \A w \in WriterMessage :
              Total(Queued(Append(q, w))) = Total(Queued(q)) + w.len
         /\ q # <<>> =>
              Total(Queued(q)) = Head(q).len + Total(Queued(Tail(q)))
         /\ Total(Queued(<<>>)) = 0
<1> DEFINE c == Queued(q)
<1>0. \A i \in 1 .. Len(q) : q[i].len \in Nat
  <2>1. \A i \in 1 .. Len(q) : q[i] \in WriterMessage
    BY LenFacts
  <2> QED
    BY <2>1 DEF WriterMessage
<1>1. c \in Seq(Nat)
  <2>1. c \in [1 .. Len(q) -> Nat]
    BY <1>0 DEF Queued
  <2> HIDE DEF c
  <2> QED
    BY <2>1, LenFacts, FunctionIsSeq
<1>2. Total(c) \in Nat
  <2> HIDE DEF c
  <2> QED
    BY <1>1, TotalType
<1>3. ASSUME NEW w \in WriterMessage
      PROVE  Total(Queued(Append(q, w))) = Total(c) + w.len
  <2>1. Queued(Append(q, w)) = Append(c, w.len) /\ w.len \in Nat
    BY DEF Queued, WriterMessage
  <2> HIDE DEF c
  <2> QED
    BY <1>1, <2>1, TotalAppend
<1>4. ASSUME q # <<>> PROVE Total(c) = Head(q).len + Total(Queued(Tail(q)))
  <2>1. c # <<>> /\ Head(c) = Head(q).len /\ Tail(c) = Queued(Tail(q))
    BY <1>4 DEF Queued
  <2> HIDE DEF c
  <2> QED
    BY <1>1, <2>1, TotalTail
<1>5. Queued(<<>>) = <<>>
  BY DEF Queued
<1> QED
  BY <1>2, <1>3, <1>4, <1>5, TotalEmpty

(* The parts of Outstanding are natural numbers.                           *)
LEMMA PartsType ==
  ASSUME TypeOK, NEW z \in Ends
  PROVE  /\ InHand(z) \in Nat /\ InPipe(z) \in Nat /\ AtWriter(z) \in Nat
         /\ acking[z] \in Nat /\ Returning(z) \in Nat
         /\ read_buf_len[z] \in Nat
<1>1. pipe[Other(z[1])] \in Seq(Message) /\ pipe[z[1]] \in Seq(Message)
  BY EndsFacts DEF TypeOK
<1>2. InPipe(z) \in Nat /\ Returning(z) \in Nat
  BY <1>1, CarriedType DEF InPipe, Returning
<1>3. writeq[z] \in Seq(WriterMessage)
  BY DEF TypeOK
<1>4. AtWriter(z) \in Nat
  BY <1>3, QueuedFacts DEF AtWriter
<1> QED
  BY <1>2, <1>4 DEF TypeOK, InHand

(* Sending a message adds its weight to the parts it belongs to.           *)
LEMMA SendEffect ==
  ASSUME TypeOK, NEW e \in Side, NEW m \in Message, Send(e, m), NEW z \in Ends
  PROVE  /\ InPipe(z)' = InPipe(z)
              + (IF e = Other(z[1]) THEN Weight(m, "data", z[2]) ELSE 0)
         /\ Returning(z)' = Returning(z)
              + (IF e = z[1] THEN Weight(m, "ack", z[2]) ELSE 0)
<1>1. /\ z[1] \in Side /\ Other(z[1]) \in Side
      /\ pipe \in [Side -> Seq(Message)]
  BY EndsFacts DEF TypeOK
<1>2. \A d \in Side : pipe'[d] = IF d = e THEN Append(pipe[d], m) ELSE pipe[d]
  BY <1>1 DEF Send
<1>3. \A d \in Side, type \in {"data", "ack"} :
        Total(Carried(pipe'[d], type, z[2]))
          = Total(Carried(pipe[d], type, z[2]))
            + (IF d = e THEN Weight(m, type, z[2]) ELSE 0)
  BY <1>1, <1>2, CarriedAppend, CarriedType
<1> QED
  BY <1>1, <1>3 DEF InPipe, Returning

(* Receiving one removes its weight.                                       *)
LEMMA ReceiveEffect ==
  ASSUME TypeOK, NEW e \in Side, pipe[e] # <<>>, Receive(e), NEW z \in Ends
  PROVE  LET m == Head(pipe[e])
         IN  /\ InPipe(z) = InPipe(z)'
                  + (IF e = Other(z[1]) THEN Weight(m, "data", z[2]) ELSE 0)
             /\ Returning(z) = Returning(z)'
                  + (IF e = z[1] THEN Weight(m, "ack", z[2]) ELSE 0)
<1> DEFINE m == Head(pipe[e])
<1>1. /\ z[1] \in Side /\ Other(z[1]) \in Side
      /\ pipe \in [Side -> Seq(Message)]
  BY EndsFacts DEF TypeOK
<1>2. \A d \in Side : pipe'[d] = IF d = e THEN Tail(pipe[d]) ELSE pipe[d]
  BY <1>1 DEF Receive
<1>3. m \in Message /\ Tail(pipe[e]) \in Seq(Message)
  BY IncomingFacts
<1>4. \A type : Weight(m, type, z[2]) \in Nat
  BY <1>3 DEF Weight, Message
<1>5. \A d \in Side, type \in {"data", "ack"} :
        Total(Carried(pipe[d], type, z[2]))
          = Total(Carried(pipe'[d], type, z[2]))
            + (IF d = e THEN Weight(m, type, z[2]) ELSE 0)
  <2> TAKE d \in Side, type \in {"data", "ack"}
  <2>1. CASE d = e
    <3>1. Total(Carried(pipe[d], type, z[2]))
            = Weight(m, type, z[2]) + Total(Carried(Tail(pipe[d]), type, z[2]))
      BY <1>1, <2>1, CarriedTail
    <3>2. Total(Carried(Tail(pipe[d]), type, z[2])) \in Nat
      BY <1>3, <2>1, CarriedType
    <3> QED
      BY <1>2, <1>4, <2>1, <3>1, <3>2
  <2>2. CASE d # e
    BY <1>1, <1>2, <2>2, CarriedType
  <2> QED
    BY <2>1, <2>2
<1> QED
  BY <1>1, <1>5 DEF InPipe, Returning

(* Handing a message to a writer that runs adds its length there.          *)
LEMMA ToWriterEffect ==
  ASSUME TypeOK, NEW x \in Ends, NEW w \in WriterMessage, ToWriter(x, w),
         NEW z \in Ends
  PROVE  AtWriter(z)' = AtWriter(z)
           + (IF z = x /\ task[x] = "running" THEN w.len ELSE 0)
<1>1. writeq[z] \in Seq(WriterMessage) /\ writeq[x] \in Seq(WriterMessage)
  BY DEF TypeOK
<1>2. w.len \in Nat
  BY DEF WriterMessage
<1>4. /\ Total(Queued(writeq[z])) \in Nat
      /\ Total(Queued(Append(writeq[z], w))) = Total(Queued(writeq[z])) + w.len
  BY <1>1, QueuedFacts
<1>5. AtWriter(z)' = Total(Queued(writeq'[z])) /\ AtWriter(z) = Total(Queued(writeq[z]))
  BY DEF AtWriter
<1>6. CASE ~ (z = x /\ task[x] = "running")
  <2>1. writeq'[z] = writeq[z]
    BY <1>6 DEF ToWriter, TypeOK
  <2> QED
    BY <1>4, <1>5, <1>6, <2>1
<1>7. CASE z = x /\ task[x] = "running"
  <2>1. writeq'[z] = Append(writeq[z], w)
    BY <1>7 DEF ToWriter, TypeOK
  <2> QED
    BY <1>2, <1>4, <1>5, <1>7, <2>1
<1> QED
  BY <1>6, <1>7

-----------------------------------------------------------------------------
(* Flow control: what is counted covers what is under way.                 *)

(* What a step does to the account of end z: what is under way and what is *)
(* counted stay, grow or shrink together, or bytes under way are dropped   *)
(* and stay counted.  They are dropped where an end of the session leaves  *)
(* its select!, or for an end that its side does not know (any more).      *)
Kept(z) == Outstanding(z)' = Outstanding(z) /\ read_buf_len'[z] = read_buf_len[z]
Counted(z) ==
  \E d \in Nat : /\ Outstanding(z)' = Outstanding(z) + d
                 /\ read_buf_len'[z] = read_buf_len[z] + d
Repaid(z) ==
  \E d \in Nat : /\ Outstanding(z) = Outstanding(z)' + d
                 /\ read_buf_len[z] = read_buf_len'[z] + d
Dropped(z) ==
  \/ task'[z] = "ending" \/ task'[Peer(z)] = "ending"
  \/ z \notin registered
  \/ LET y == Peer(z)
     IN  /\ RecvData(y[1]) /\ IncomingEnd(y[1]) = y
         /\ y \notin registered \/ task[y] # "running"
Lost(z) ==
  /\ Outstanding(z)' <= Outstanding(z) /\ read_buf_len'[z] = read_buf_len[z]
  /\ Dropped(z)

(* A message that is neither data nor an acknowledgement weighs nothing.   *)
LEMMA ControlWeight ==
  ASSUME NEW m \in Message, m.type \notin {"data", "ack"}, NEW s
  PROVE  Weight(m, "data", s) = 0 /\ Weight(m, "ack", s) = 0
BY DEF Weight

(* What is under way is a natural number.                                  *)
LEMMA OutstandingType == TypeOK => \A z \in Ends : Outstanding(z) \in Nat
BY PartsType, EndsFacts DEF Outstanding

LEMMA OutstandingNext ==
  ASSUME TypeOK', NEW z \in Ends
  PROVE  Outstanding(z)' \in Nat
<1>1. /\ z[1] \in Side /\ Other(z[1]) \in Side /\ Peer(z) \in Ends
  BY EndsFacts
<1>2. /\ pipe'[Other(z[1])] \in Seq(Message) /\ pipe'[z[1]] \in Seq(Message)
      /\ writeq'[Peer(z)] \in Seq(WriterMessage)
      /\ hand'[z] \in Nat /\ acking'[Peer(z)] \in Nat
  BY <1>1 DEF TypeOK
<1>3. InPipe(z)' \in Nat /\ Returning(z)' \in Nat /\ AtWriter(Peer(z))' \in Nat
      /\ InHand(z)' \in Nat
  BY <1>2, CarriedType, QueuedFacts DEF InPipe, Returning, AtWriter, InHand
<1> QED
  BY <1>2, <1>3 DEF Outstanding

(* A step that only puts control messages in the pipes changes no part,    *)
(* nor does one that only takes them out.                                  *)
LEMMA QuietSend ==
  ASSUME TypeOK, NEW e \in Side, NEW m \in Message,
         m.type \notin {"data", "ack"}, Send(e, m),
         UNCHANGED <<reader, hand, read_buf_len, writeq, acking>>, NEW z \in Ends
  PROVE  Kept(z)
<1>1. InPipe(z)' = InPipe(z) /\ Returning(z)' = Returning(z)
  BY SendEffect, ControlWeight, PartsType
<1>2. /\ InHand(z)' = InHand(z) /\ AtWriter(Peer(z))' = AtWriter(Peer(z))
      /\ acking'[Peer(z)] = acking[Peer(z)]
      /\ read_buf_len'[z] = read_buf_len[z]
  BY DEF InHand, AtWriter
<1> QED
  BY <1>1, <1>2 DEF Outstanding, Kept

(* What is left in the pipes is a natural number of bytes.                 *)
LEMMA LeftType ==
  ASSUME TypeOK, NEW e \in Side, pipe[e] # <<>>, Receive(e), NEW z \in Ends
  PROVE  InPipe(z)' \in Nat /\ Returning(z)' \in Nat
<1>1. Head(pipe[e]) \in Message
  BY IncomingFacts
<1>2. pipe' \in [Side -> Seq(Message)]
  BY <1>1, PipeType
<1>3. pipe'[Other(z[1])] \in Seq(Message) /\ pipe'[z[1]] \in Seq(Message)
  BY <1>2, EndsFacts
<1> QED
  BY <1>3, CarriedType DEF InPipe, Returning

LEMMA QuietReceive ==
  ASSUME TypeOK, NEW e \in Side, pipe[e] # <<>>, Receive(e), NEW z \in Ends
  PROVE  /\ Head(pipe[e]).type # "data" => InPipe(z)' = InPipe(z)
         /\ Head(pipe[e]).type # "ack" => Returning(z)' = Returning(z)
<1>1. InPipe(z)' \in Nat /\ Returning(z)' \in Nat
  BY LeftType
<1> QED
  BY <1>1, ReceiveEffect DEF Weight

(* Every step keeps the account of every end in one of these ways.         *)
LEMMA AccountStep ==
  ASSUME TypeOK, CreditCovers, [Next]_vars, NEW z \in Ends
  PROVE  Kept(z) \/ Counted(z) \/ Repaid(z) \/ Lost(z)
<1> DEFINE Good == Kept(z) \/ Counted(z) \/ Repaid(z) \/ Lost(z)
           y == Peer(z)
<1> SUFFICES Good
  OBVIOUS
<1> USE DEF taskVars, readerVars, writerVars
<1>0. "inlet" \in Side /\ "outlet" \in Side
  BY DEF Side
<1>y. y \in Ends /\ y[1] = Other(z[1]) /\ y[2] = z[2] /\ y = <<y[1], y[2]>>
      /\ z = <<z[1], z[2]>> /\ Peer(y) = z
  BY EndsFacts
<1>p. /\ InHand(z) \in Nat /\ InPipe(z) \in Nat /\ AtWriter(y) \in Nat
      /\ acking[y] \in Nat /\ Returning(z) \in Nat /\ read_buf_len[z] \in Nat
  BY <1>y, PartsType
<1>s. /\ Outstanding(z) = InHand(z) + InPipe(z) + AtWriter(y) + acking[y] + Returning(z)
      /\ Outstanding(z)' = InHand(z)' + InPipe(z)' + AtWriter(y)' + acking'[y]
                             + Returning(z)'
  BY DEF Outstanding
<1>msg. \A type \in MessageType, s \in Sessions :
          Msg(type, s) \in Message /\ Msg(type, s).type = type
  BY MessageFacts, ZenonT(30) DEF Msg
<1>1. ASSUME NEW s \in Sessions, Accept(s) PROVE Good
  BY <1>0, <1>1, <1>msg, QuietSend DEF Accept, MessageType
<1>2. ASSUME NEW ok \in BOOLEAN, OnI2oConnect(ok) PROVE Good
  <2> DEFINE h == Head(pipe["outlet"])
             r == Msg("refused", h.sid)
  <2>1. /\ pipe["outlet"] # <<>> /\ h.type = "connect" /\ h \in Message
        /\ h.sid \in Sessions /\ r \in Message /\ r.type = "refused"
    BY <1>0, <1>2, <1>msg, IncomingFacts DEF OnI2oConnect, Incoming, MessageType
  <2>2. UNCHANGED <<reader, hand, read_buf_len, writeq, acking>>
    BY <1>2 DEF OnI2oConnect
  <2>3. CASE Receive("outlet")
    <3>1. InPipe(z)' = InPipe(z) /\ Returning(z)' = Returning(z)
      BY <1>0, <2>1, <2>3, QuietReceive
    <3> QED
      BY <2>2, <3>1 DEF Kept, Outstanding, InHand, AtWriter
  <2>4. CASE Reply("outlet", r)
    <3>1. /\ pipe'["outlet"] = Tail(pipe["outlet"])
          /\ pipe'["inlet"] = Append(pipe["inlet"], r)
      BY <1>0, <2>4 DEF Reply, Other, TypeOK, Side
    <3>2. pipe["outlet"] \in Seq(Message) /\ pipe["inlet"] \in Seq(Message)
      BY <1>0 DEF TypeOK
    <3>3. \A type \in {"data", "ack"} :
            /\ Weight(h, type, z[2]) = 0
            /\ Weight(r, type, z[2]) = 0
      BY <2>1, ControlWeight
    <3>4. \A d \in Side, type \in {"data", "ack"} :
            Total(Carried(pipe'[d], type, z[2]))
              = Total(Carried(pipe[d], type, z[2]))
      <4>1. \A type \in {"data", "ack"} :
              Total(Carried(pipe'["outlet"], type, z[2]))
                = Total(Carried(pipe["outlet"], type, z[2]))
        <5>1. Tail(pipe["outlet"]) \in Seq(Message)
          BY <2>1, <3>2, HeadTailFacts
        <5> TAKE type \in {"data", "ack"}
        <5>2. Total(Carried(pipe["outlet"], type, z[2]))
                = Weight(h, type, z[2])
                  + Total(Carried(Tail(pipe["outlet"]), type, z[2]))
          BY <2>1, <3>2, CarriedTail
        <5>3. Total(Carried(Tail(pipe["outlet"]), type, z[2])) \in Nat
          BY <5>1, CarriedType
        <5> QED
          BY <3>1, <3>3, <5>2, <5>3
      <4>2. \A type \in {"data", "ack"} :
              Total(Carried(pipe'["inlet"], type, z[2]))
                = Total(Carried(pipe["inlet"], type, z[2]))
        BY <2>1, <3>1, <3>2, <3>3, CarriedAppend, CarriedType
      <4> QED
        BY <4>1, <4>2 DEF Side
    <3>5. InPipe(z)' = InPipe(z) /\ Returning(z)' = Returning(z)
      BY <3>4, EndsFacts DEF InPipe, Returning
    <3> QED
      BY <2>2, <3>5 DEF Kept, Outstanding, InHand, AtWriter
  <2> QED
    BY <1>2, <2>3, <2>4, <2>1 DEF OnI2oConnect, IncomingEnd
<1>3. ASSUME NEW s \in Sessions, OutletSessionStart(s) PROVE Good
  BY <1>0, <1>3, <1>msg, QuietSend DEF OutletSessionStart, MessageType
<1>4. ASSUME ConnectDone \/ ConnectTimeout PROVE Good
  <2>1. connecting \in Sessions
    BY <1>4 DEF ConnectDone, ConnectTimeout, TypeOK
  <2> QED
    BY <1>0, <1>4, <2>1, <1>msg, QuietSend
    DEF ConnectDone, ConnectTimeout, MessageType
<1>5. ASSUME RecvConnected PROVE Good
  <2>1. InPipe(z)' = InPipe(z) /\ Returning(z)' = Returning(z)
    BY <1>0, <1>5, QuietReceive DEF RecvConnected, Incoming
  <2>2. UNCHANGED <<reader, hand, read_buf_len, writeq, acking>>
    BY <1>5 DEF RecvConnected
  <2> QED
    BY <2>1, <2>2 DEF Kept, Outstanding, InHand, AtWriter
<1>6. ASSUME InletRecvClose \/ OnI2oDisconnect PROVE Good
  <2>1. PICK e \in Side :
          /\ pipe[e] # <<>> /\ Receive(e)
          /\ Head(pipe[e]).type \in {"refused", "disconnect"}
          /\ \/ ToWriter(IncomingEnd(e), CloseWriter)
             \/ UNCHANGED writeq
    BY <1>0, <1>6 DEF InletRecvClose, OnI2oDisconnect, Incoming
  <2>2. UNCHANGED <<reader, hand, read_buf_len, acking>>
    BY <1>6 DEF InletRecvClose, OnI2oDisconnect
  <2>3. InPipe(z)' = InPipe(z) /\ Returning(z)' = Returning(z)
    BY <2>1, QuietReceive
  <2>4. AtWriter(y)' = AtWriter(y)
    <3>1. CASE UNCHANGED writeq
      BY <3>1 DEF AtWriter
    <3>2. CASE ToWriter(IncomingEnd(e), CloseWriter)
      <4>1. CloseWriter.len = 0 /\ CloseWriter \in WriterMessage
        BY MessageFacts DEF CloseWriter
      <4>2. IncomingEnd(e) \in Ends
        BY <2>1, IncomingFacts
      <4>3. AtWriter(y)' = AtWriter(y)
              + (IF y = IncomingEnd(e) /\ task[IncomingEnd(e)] = "running"
                   THEN CloseWriter.len ELSE 0)
        BY <1>y, <3>2, <4>1, <4>2, ToWriterEffect
      <4> QED
        BY <1>p, <4>1, <4>3
    <3> QED
      BY <2>1, <3>1, <3>2
  <2> QED
    BY <2>2, <2>3, <2>4 DEF Kept, Outstanding, InHand
<1>8. ASSUME NEW e \in Side, RecvData(e) PROVE Good
  <2> DEFINE m == Head(pipe[e])
             x == IncomingEnd(e)
             w == SendAndThen(m)
             l == m.len
             Taken == x \in registered /\ task[x] = "running"
  <2>1. /\ pipe[e] # <<>> /\ m.type = "data" /\ m \in Message
        /\ x \in Ends /\ x = <<e, m.sid>> /\ m.len \in Nat
        /\ w \in WriterMessage /\ w.len = m.len
    BY <1>8, IncomingFacts, MessageFacts DEF RecvData, Incoming, SendAndThen
  <2>2. Receive(e) /\ UNCHANGED <<reader, hand, read_buf_len, acking>>
    BY <1>8 DEF RecvData
  <2>3. IF x \in registered THEN ToWriter(x, w) ELSE UNCHANGED writeq
    BY <1>8 DEF RecvData
  <2>4. /\ InPipe(z) = InPipe(z)' + (IF y = x THEN l ELSE 0)
        /\ InPipe(z)' \in Nat /\ Returning(z)' = Returning(z)
    <3>1. y = x <=> e = Other(z[1]) /\ m.sid = z[2]
      BY <1>y, <2>1
    <3>2. InPipe(z) = InPipe(z)'
            + (IF e = Other(z[1]) THEN Weight(m, "data", z[2]) ELSE 0)
      BY <2>1, <2>2, ReceiveEffect
    <3>3. InPipe(z)' \in Nat /\ Returning(z)' = Returning(z)
      BY <2>1, <2>2, LeftType, QuietReceive
    <3> QED
      BY <2>1, <3>1, <3>2, <3>3 DEF Weight
  <2>5. AtWriter(y)' = AtWriter(y) + (IF y = x /\ Taken THEN l ELSE 0)
    <3>1. CASE x \in registered
      <4>1. AtWriter(y)' = AtWriter(y)
              + (IF y = x /\ task[x] = "running" THEN w.len ELSE 0)
        <5> HIDE DEF w, x
        <5> QED
          BY <1>y, <2>1, <2>3, <3>1, ToWriterEffect
      <4> QED
        BY <2>1, <3>1, <4>1
    <3>2. CASE x \notin registered
      <4>1. AtWriter(y)' = AtWriter(y)
        BY <2>3, <3>2 DEF AtWriter
      <4> QED
        BY <1>p, <3>2, <4>1
    <3> QED
      BY <3>1, <3>2
  <2>6. /\ InHand(z)' = InHand(z) /\ acking'[y] = acking[y]
        /\ read_buf_len'[z] = read_buf_len[z]
    BY <2>2 DEF InHand
  <2>7. CASE y # x
    <3> HIDE DEF y
    <3> QED
      BY <1>p, <1>s, <2>4, <2>5, <2>6, <2>7 DEF Kept
  <2>8. CASE y = x /\ Taken
    <3>1. /\ InPipe(z) = InPipe(z)' + l /\ AtWriter(y)' = AtWriter(y) + l
          /\ l \in Nat /\ InPipe(z)' \in Nat /\ Returning(z)' = Returning(z)
      BY <2>1, <2>4, <2>5, <2>8
    <3> HIDE DEF y, l
    <3> QED
      BY <1>p, <1>s, <2>6, <3>1 DEF Kept
  <2>9. CASE y = x /\ ~ Taken
    <3>1. /\ InPipe(z) = InPipe(z)' + l /\ AtWriter(y)' = AtWriter(y)
          /\ l \in Nat /\ InPipe(z)' \in Nat /\ Returning(z)' = Returning(z)
      BY <1>p, <2>1, <2>4, <2>5, <2>9
    <3>2. Outstanding(z)' <= Outstanding(z) /\ read_buf_len'[z] = read_buf_len[z]
      <4> HIDE DEF y, l
      <4> QED
        BY <1>p, <1>s, <2>6, <3>1
    <3>3. y[1] = e
      BY <2>1, <2>9
    <3>4. Dropped(z)
      BY <1>8, <2>9, <3>3 DEF Dropped
    <3> QED
      BY <3>2, <3>4 DEF Lost
  <2> QED
    BY <2>7, <2>8, <2>9, SMTT(30)
<1>9. ASSUME NEW e \in Side, RecvAck(e) PROVE Good
  <2> DEFINE m == Head(pipe[e])
             x == IncomingEnd(e)
             l == m.len
  <2>1. /\ pipe[e] # <<>> /\ m.type = "ack" /\ m \in Message
        /\ x \in Ends /\ x = <<e, m.sid>> /\ l \in Nat
    BY <1>9, IncomingFacts DEF RecvAck, Incoming
  <2>2. Receive(e) /\ UNCHANGED <<reader, hand, writeq, acking>>
    BY <1>9 DEF RecvAck
  <2>3. read_buf_len' = IF x \in registered
                          THEN [read_buf_len EXCEPT ![x] = Subtract(@, l)]
                          ELSE read_buf_len
    BY <1>9 DEF RecvAck
  <2>4. /\ Returning(z) = Returning(z)' + (IF z = x THEN l ELSE 0)
        /\ Returning(z)' \in Nat /\ InPipe(z)' = InPipe(z)
    <3>1. z = x <=> e = z[1] /\ m.sid = z[2]
      BY <1>y, <2>1
    <3>2. Returning(z) = Returning(z)'
            + (IF e = z[1] THEN Weight(m, "ack", z[2]) ELSE 0)
      BY <2>1, <2>2, ReceiveEffect
    <3>3. Returning(z)' \in Nat /\ InPipe(z)' = InPipe(z)
      BY <2>1, <2>2, LeftType, QuietReceive
    <3> QED
      BY <2>1, <3>1, <3>2, <3>3 DEF Weight
  <2>5. InHand(z)' = InHand(z) /\ AtWriter(y)' = AtWriter(y) /\ acking'[y] = acking[y]
    BY <2>2 DEF InHand, AtWriter
  <2>6. CASE z # x
    <3>1. read_buf_len'[z] = read_buf_len[z]
      BY <2>1, <2>3, <2>6 DEF TypeOK
    <3> HIDE DEF y
    <3> QED
      BY <1>p, <1>s, <2>4, <2>5, <2>6, <3>1 DEF Kept
  <2>7. CASE z = x /\ z \in registered
    <3>1. /\ Returning(z) = Returning(z)' + l /\ Returning(z)' \in Nat /\ l \in Nat
          /\ InPipe(z)' = InPipe(z)
          /\ read_buf_len'[z] = Subtract(read_buf_len[z], l)
      BY <2>1, <2>3, <2>4, <2>7 DEF TypeOK
    <3>2. Outstanding(z) <= read_buf_len[z]
      BY DEF CreditCovers
    <3> HIDE DEF y, l
    <3>3. Outstanding(z) = Outstanding(z)' + l /\ Outstanding(z)' \in Nat
      BY <1>p, <1>s, <2>5, <3>1
    <3>4. read_buf_len[z] = read_buf_len'[z] + l
      <4>1. read_buf_len[z] \in Nat
        BY DEF TypeOK
      <4>2. l <= Outstanding(z) /\ Outstanding(z) \in Nat
        BY <3>1, <3>3
      <4>3. l <= read_buf_len[z]
        BY <3>1, <3>2, <4>1, <4>2
      <4> QED
        BY <3>1, <4>1, <4>3 DEF Subtract
    <3> QED
      BY <3>1, <3>3, <3>4 DEF Repaid
  <2>8. CASE z = x /\ z \notin registered
    <3>1. /\ Returning(z) = Returning(z)' + l /\ Returning(z)' \in Nat /\ l \in Nat
          /\ InPipe(z)' = InPipe(z) /\ read_buf_len'[z] = read_buf_len[z]
      BY <2>1, <2>3, <2>4, <2>8
    <3> HIDE DEF y, l
    <3>2. Outstanding(z)' <= Outstanding(z)
      BY <1>p, <1>s, <2>5, <3>1
    <3> QED
      BY <2>8, <3>1, <3>2 DEF Lost, Dropped
  <2> QED
    BY <2>6, <2>7, <2>8
<1>10. ASSUME NEW x \in Ends, NEW len \in ChunkLens, ReadFrame(x, len) PROVE Good
  <2>1. InHand(z)' = InHand(z)
    BY <1>10 DEF ReadFrame, InHand, TypeOK
  <2> QED
    BY <1>10, <2>1
    DEF ReadFrame, Outstanding, Kept, InPipe, AtWriter, Returning
<1>11. ASSUME NEW x \in Ends, EncodeDataAndLimiting(x) PROVE Good
  <2> DEFINE d == IF z = x THEN hand[x] ELSE 0
  <2>1. /\ InHand(z)' = InHand(z) + d
        /\ read_buf_len'[z] = read_buf_len[z] + d
        /\ d \in Nat
    BY <1>11 DEF EncodeDataAndLimiting, InHand, TypeOK
  <2>2. /\ InPipe(z)' = InPipe(z) /\ AtWriter(y)' = AtWriter(y)
        /\ acking'[y] = acking[y] /\ Returning(z)' = Returning(z)
    BY <1>11 DEF EncodeDataAndLimiting, InPipe, AtWriter, Returning
  <2> HIDE DEF d, y
  <2>3. Outstanding(z)' = Outstanding(z) + d
    BY <1>p, <1>s, <2>1, <2>2
  <2> QED
    BY <2>1, <2>3 DEF Counted
<1>12. ASSUME NEW x \in Ends, SendFrame(x) PROVE Good
  <2> DEFINE m == [type |-> "data", sid |-> x[2], n |-> nread[x], len |-> hand[x]]
  <2>1. m \in Message /\ m.type = "data" /\ m.sid = x[2] /\ m.len = hand[x]
        /\ hand[x] \in Nat
    BY EndsFacts DEF TypeOK, Message, MessageType
  <2>2. Send(Other(x[1]), m) /\ UNCHANGED <<read_buf_len, writeq, acking>>
    BY <1>12 DEF SendFrame
  <2> DEFINE d == IF z = x THEN hand[x] ELSE 0
  <2>3. InHand(z) = InHand(z)' + d /\ d \in Nat /\ InHand(z)' \in Nat
    BY <1>12 DEF SendFrame, InHand, TypeOK
  <2>4. InPipe(z)' = InPipe(z) + d /\ Returning(z)' = Returning(z)
    <3>1. Other(x[1]) \in Side /\ (z = x <=> z[1] = x[1] /\ z[2] = x[2])
          /\ (Other(x[1]) = Other(z[1]) <=> x[1] = z[1])
      BY EndsFacts DEF Other, Side
    <3>2. /\ InPipe(z)' = InPipe(z)
               + (IF Other(x[1]) = Other(z[1]) THEN Weight(m, "data", z[2]) ELSE 0)
          /\ Returning(z)' = Returning(z)
               + (IF Other(x[1]) = z[1] THEN Weight(m, "ack", z[2]) ELSE 0)
      <4> HIDE DEF m
      <4> QED
        BY <2>1, <2>2, <3>1, SendEffect
    <3> HIDE DEF m
    <3> QED
      BY <2>1, <3>1, <3>2, PartsType DEF Weight
  <2>5. /\ AtWriter(y)' = AtWriter(y) /\ acking'[y] = acking[y]
        /\ read_buf_len'[z] = read_buf_len[z]
    BY <2>2 DEF AtWriter
  <2> HIDE DEF d, m, y
  <2> QED
    BY <1>p, <1>s, <2>3, <2>4, <2>5 DEF Kept
<1>13. ASSUME NEW x \in Ends, WriteFrame(x) \/ FlushError(x) PROVE Good
  <2> DEFINE l == Head(writeq[x]).len
  <2>1. /\ writeq[x] # <<>> /\ acking[x] = 0 /\ l \in Nat
        /\ writeq[x] \in Seq(WriterMessage)
        /\ Tail(writeq[x]) \in Seq(WriterMessage)
    BY <1>13, WriterFacts DEF WriteFrame, FlushError, WriterAt, TypeOK
  <2>2. /\ writeq' = [writeq EXCEPT ![x] = Tail(writeq[x])]
        /\ acking' = [acking EXCEPT ![x] = l]
        /\ UNCHANGED <<pipe, reader, hand, read_buf_len>>
    BY <1>13 DEF WriteFrame, FlushError
  <2>3. AtWriter(y)' + acking'[y] = AtWriter(y) + acking[y]
    <3>1. CASE y = x
      <4>1. Total(Queued(writeq[x])) = l + Total(Queued(Tail(writeq[x])))
            /\ Total(Queued(Tail(writeq[x]))) \in Nat
        BY <2>1, QueuedFacts
      <4>2. writeq'[x] = Tail(writeq[x]) /\ acking'[x] = l
        BY <2>2 DEF TypeOK
      <4> HIDE DEF l
      <4> QED
        BY <2>1, <3>1, <4>1, <4>2 DEF AtWriter
    <3>2. CASE y # x
      BY <2>2, <3>2, EndsFacts, SMTT(30) DEF AtWriter, TypeOK
    <3> QED
      BY <3>1, <3>2
  <2>4. InHand(z)' = InHand(z) /\ InPipe(z)' = InPipe(z) /\ Returning(z)' = Returning(z)
        /\ read_buf_len'[z] = read_buf_len[z]
    BY <2>2 DEF InHand, InPipe, Returning
  <2>5. AtWriter(y)' \in Nat /\ acking'[y] \in Nat
    <3>1. writeq'[y] \in Seq(WriterMessage) /\ acking'[y] \in Nat
      BY <2>1, <2>2, EndsFacts DEF TypeOK
    <3> QED
      BY <3>1, QueuedFacts DEF AtWriter
  <2> HIDE DEF l, y
  <2> QED
    BY <1>p, <1>s, <2>3, <2>4, <2>5 DEF Kept
<1>14. ASSUME NEW x \in Ends, Callback(x) PROVE Good
  <2> DEFINE m == [type |-> "ack", sid |-> x[2], n |-> 0, len |-> acking[x]]
  <2>1. m \in Message /\ m.type = "ack" /\ m.sid = x[2] /\ m.len = acking[x]
        /\ acking[x] \in Nat
    BY EndsFacts DEF TypeOK, Message, MessageType
  <2>2. /\ Send(Other(x[1]), m) /\ acking' = [acking EXCEPT ![x] = 0]
        /\ UNCHANGED <<reader, hand, read_buf_len, writeq>>
    BY <1>14 DEF Callback
  <2> DEFINE d == IF y = x THEN acking[x] ELSE 0
  <2>3. acking[y] = acking'[y] + d /\ d \in Nat /\ acking'[y] \in Nat
    <3>1. CASE y = x
      BY <2>1, <2>2, <3>1 DEF TypeOK
    <3>2. CASE y # x
      <4>1. acking'[y] = acking[y] /\ acking[y] \in Nat
        BY <2>2, <3>2, EndsFacts DEF TypeOK
      <4> QED
        BY <3>2, <4>1
    <3> QED
      BY <3>1, <3>2
  <2>4. Returning(z)' = Returning(z) + d /\ InPipe(z)' = InPipe(z)
    <3>1. Other(x[1]) \in Side
          /\ (y = x <=> z[1] = Other(x[1]) /\ z[2] = x[2])
      BY EndsFacts DEF Other, Side
    <3>2. /\ InPipe(z)' = InPipe(z)
               + (IF Other(x[1]) = Other(z[1]) THEN Weight(m, "data", z[2]) ELSE 0)
          /\ Returning(z)' = Returning(z)
               + (IF Other(x[1]) = z[1] THEN Weight(m, "ack", z[2]) ELSE 0)
      <4> HIDE DEF m
      <4> QED
        BY <2>1, <2>2, <3>1, SendEffect
    <3> HIDE DEF m
    <3> QED
      BY <2>1, <3>1, <3>2, PartsType DEF Weight
  <2>5. InHand(z)' = InHand(z) /\ AtWriter(y)' = AtWriter(y)
        /\ read_buf_len'[z] = read_buf_len[z]
    BY <2>2 DEF AtWriter, InHand
  <2> HIDE DEF d, m, y
  <2> QED
    BY <1>p, <1>s, <2>3, <2>4, <2>5 DEF Kept
<1>15. ASSUME NEW x \in Ends, ReadEof(x) \/ WriteError(x) \/ WriterClose(x)
       PROVE  Good
  <2>1. /\ task' = [task EXCEPT ![x] = "ending"]
        /\ reader' = [reader EXCEPT ![x] = "idle"]
        /\ writeq' = [writeq EXCEPT ![x] = <<>>]
        /\ acking' = [acking EXCEPT ![x] = 0]
        /\ hand' = [hand EXCEPT ![x] = 0]
        /\ UNCHANGED <<pipe, read_buf_len>>
    BY <1>15 DEF ReadEof, WriteError, WriterClose, SelectReturns
  <2>2. InPipe(z)' = InPipe(z) /\ Returning(z)' = Returning(z)
        /\ read_buf_len'[z] = read_buf_len[z]
    BY <2>1 DEF InPipe, Returning
  <2>3. CASE x \notin {z, y}
    <3>1. /\ reader'[z] = reader[z] /\ hand'[z] = hand[z]
          /\ writeq'[y] = writeq[y] /\ acking'[y] = acking[y]
      BY <1>y, <2>1, <2>3 DEF TypeOK
    <3> QED
      BY <2>2, <3>1 DEF Kept, Outstanding, InHand, AtWriter
  <2>4. CASE x \in {z, y}
    <3>1. InHand(z)' <= InHand(z) /\ InHand(z)' \in Nat
      BY <2>1 DEF InHand, TypeOK
    <3>2. AtWriter(y)' <= AtWriter(y) /\ AtWriter(y)' \in Nat
      <4>1. writeq'[y] = writeq[y] \/ writeq'[y] = <<>>
        BY <1>y, <2>1 DEF TypeOK
      <4>2. AtWriter(y) \in Nat /\ Total(Queued(<<>>)) = 0
        BY <1>p, QueuedFacts DEF TypeOK
      <4> QED
        BY <4>1, <4>2 DEF AtWriter
    <3>3. acking'[y] <= acking[y] /\ acking'[y] \in Nat
      BY <1>y, <2>1 DEF TypeOK
    <3>4. Outstanding(z)' <= Outstanding(z)
      <4> HIDE DEF y
      <4> QED
        BY <1>p, <1>s, <2>2, <3>1, <3>2, <3>3
    <3>5. Dropped(z)
      BY <1>y, <2>1, <2>4 DEF Dropped, TypeOK
    <3> QED
      BY <2>2, <3>4, <3>5 DEF Lost
  <2> QED
    BY <2>3, <2>4
<1>16. ASSUME NEW x \in Ends, OnSessionClose(x) PROVE Good
  BY <1>16, <1>msg, QuietSend, EndsFacts DEF OnSessionClose, MessageType
<1>17. ASSUME UNCHANGED vars PROVE Good
  BY <1>17 DEF vars, Kept, Outstanding, InHand, InPipe, AtWriter, Returning
<1> HIDE DEF Good
<1> QED
  BY <1>0, <1>1, <1>2, <1>3, <1>4, <1>5, <1>6, <1>8, <1>9, <1>10, <1>11,
     <1>12, <1>13, <1>14, <1>15, <1>16, <1>17
  DEF Next, InletInput, OutletInput, InputLoop, Writer

(* CreditCovers is inductive, given the types.                             *)
LEMMA CreditStep ==
  ASSUME TypeOK, CreditCovers, [Next]_vars, TypeOK' PROVE CreditCovers'
<1> SUFFICES ASSUME NEW z \in Ends PROVE Outstanding(z)' <= read_buf_len'[z]
  BY DEF CreditCovers
<1>1. /\ Outstanding(z) \in Nat /\ read_buf_len[z] \in Nat /\ read_buf_len'[z] \in Nat
      /\ Outstanding(z) <= read_buf_len[z]
  BY OutstandingType DEF CreditCovers, TypeOK
<1>2. Outstanding(z)' \in Nat
  BY OutstandingNext
<1> QED
  BY <1>1, <1>2, AccountStep DEF Kept, Counted, Repaid, Lost

(* Flow control never counts less than what is under way: the saturating   *)
(* subtractions of O2iSendDataResult and I2oRecvDataResult never clip.     *)
THEOREM CreditSafety == Spec => []CreditCovers
<1>1. Init => CreditCovers
  <2> SUFFICES ASSUME Init, NEW z \in Ends
               PROVE  Outstanding(z) <= read_buf_len[z]
    BY DEF CreditCovers
  <2>1. /\ InHand(z) = 0 /\ acking[Peer(z)] = 0 /\ read_buf_len[z] = 0
        /\ writeq[Peer(z)] = <<>> /\ pipe[z[1]] = <<>>
        /\ pipe[Other(z[1])] = <<>>
    BY EndsFacts DEF Init, InHand
  <2>2. Queued(<<>>) = <<>> /\ \A type, s : Carried(<<>>, type, s) = <<>>
    BY DEF Queued, Carried
  <2> QED
    BY <2>1, <2>2, TotalEmpty DEF Outstanding, InPipe, AtWriter, Returning
<1> QED
  BY <1>1, TypeCorrect, CreditStep, PTL DEF Spec

(* Admission: a frame in hand has a possible length, and the count exceeds *)
(* READ_BUF_MAX_LEN by at most one frame.                                  *)
Admission ==
  \A x \in Ends :
    /\ hand[x] \in ChunkLens \cup {0}
    /\ \E len \in ChunkLens \cup {0} : read_buf_len[x] <= READ_BUF_MAX_LEN + len

(* Admission is inductive, given the types.                                *)
LEMMA AdmissionStep == TypeOK /\ Admission /\ [Next]_vars => Admission'
<1> SUFFICES ASSUME TypeOK, Admission, [Next]_vars, NEW z \in Ends
             PROVE  /\ hand'[z] \in ChunkLens \cup {0}
                    /\ \E len \in ChunkLens \cup {0} :
                         read_buf_len'[z] <= READ_BUF_MAX_LEN + len
  BY DEF Admission
<1> USE DEF taskVars, readerVars, writerVars
<1>1. \A len \in ChunkLens \cup {0} : len \in Nat
  BY ConstantsAssumption
<1>2. hand'[z] \in ChunkLens \cup {0}
  <2>1. \/ UNCHANGED hand
        \/ \E x \in Ends, len \in ChunkLens \cup {0} :
             hand' = [hand EXCEPT ![x] = len]
    BY ZenonT(30) DEF Next, InletInput, OutletInput, InputLoop, Writer, Accept,
           OnI2oConnect, OutletSessionStart, ConnectDone, ConnectTimeout,
           RecvConnected, InletRecvClose, OnI2oDisconnect, RecvData, RecvAck,
           ReadFrame, EncodeDataAndLimiting, SendFrame, WriteFrame, FlushError,
           Callback, ReadEof, WriteError, WriterClose, SelectReturns,
           OnSessionClose, vars
  <2> QED
    BY <2>1, SMTT(30) DEF Admission, TypeOK
<1>3. \/ /\ read_buf_len'[z] <= read_buf_len[z]
         /\ read_buf_len'[z] \in Nat
      \/ /\ read_buf_len[z] <= READ_BUF_MAX_LEN
         /\ read_buf_len'[z] = read_buf_len[z] + hand[z]
  <2>1. CASE UNCHANGED read_buf_len
    BY <2>1 DEF TypeOK
  <2>2. ASSUME NEW e \in Side, RecvAck(e)
        PROVE  read_buf_len'[z] <= read_buf_len[z] /\ read_buf_len'[z] \in Nat
    <3>1. Head(pipe[e]).len \in Nat
      BY <2>2, IncomingFacts DEF RecvAck, Incoming
    <3>2. \A a, b \in Nat : Subtract(a, b) \in Nat /\ Subtract(a, b) <= a
      BY DEF Subtract
    <3>3. \/ read_buf_len' = read_buf_len
          \/ read_buf_len' = [read_buf_len EXCEPT ![IncomingEnd(e)] =
                               Subtract(@, Head(pipe[e]).len)]
      BY <2>2 DEF RecvAck
    <3>4. \/ read_buf_len'[z] = read_buf_len[z]
          \/ read_buf_len'[z] = Subtract(read_buf_len[z], Head(pipe[e]).len)
      BY <3>3 DEF TypeOK
    <3>5. read_buf_len[z] \in Nat
      BY DEF TypeOK
    <3>6. /\ Subtract(read_buf_len[z], Head(pipe[e]).len) \in Nat
          /\ Subtract(read_buf_len[z], Head(pipe[e]).len) <= read_buf_len[z]
      BY <3>1, <3>2, <3>5
    <3>7. CASE read_buf_len'[z] = read_buf_len[z]
      BY <3>5, <3>7, SMTT(30)
    <3>8. CASE read_buf_len'[z] = Subtract(read_buf_len[z], Head(pipe[e]).len)
      BY <3>6, <3>8, SMTT(30)
    <3> QED
      BY <3>4, <3>7, <3>8, SMTT(30)
  <2>3. ASSUME NEW x \in Ends, EncodeDataAndLimiting(x)
        PROVE  \/ read_buf_len'[z] = read_buf_len[z]
               \/ /\ read_buf_len[z] <= READ_BUF_MAX_LEN
                  /\ read_buf_len'[z] = read_buf_len[z] + hand[z]
    BY <2>3, SMTT(30) DEF EncodeDataAndLimiting, TypeOK
  <2>4. \/ UNCHANGED read_buf_len
        \/ \E e \in Side : RecvAck(e)
        \/ \E x \in Ends : EncodeDataAndLimiting(x)
    BY ZenonT(30) DEF Next, InletInput, OutletInput, InputLoop, Writer, Accept,
           OnI2oConnect, OutletSessionStart, ConnectDone, ConnectTimeout,
           RecvConnected, InletRecvClose, OnI2oDisconnect, RecvData,
           ReadFrame, SendFrame, WriteFrame, FlushError,
           Callback, ReadEof, WriteError, WriterClose, SelectReturns,
           OnSessionClose, vars, Side
  <2> QED
    BY <2>1, <2>2, <2>3, <2>4 DEF TypeOK
<1>4. READ_BUF_MAX_LEN \in Nat /\ read_buf_len[z] \in Nat
  BY ConstantsAssumption DEF TypeOK
<1>5. hand[z] \in ChunkLens \cup {0}
  BY DEF Admission
<1>6. PICK len \in ChunkLens \cup {0} : read_buf_len[z] <= READ_BUF_MAX_LEN + len
  BY DEF Admission
<1>7. len \in Nat /\ hand[z] \in Nat
  BY <1>1, <1>5
<1>8. CASE read_buf_len'[z] <= read_buf_len[z] /\ read_buf_len'[z] \in Nat
  <2>1. read_buf_len'[z] <= READ_BUF_MAX_LEN + len
    BY <1>4, <1>6, <1>7, <1>8
  <2> QED
    BY <1>2, <2>1
<1>9. CASE /\ read_buf_len[z] <= READ_BUF_MAX_LEN
           /\ read_buf_len'[z] = read_buf_len[z] + hand[z]
  <2>1. read_buf_len'[z] <= READ_BUF_MAX_LEN + hand[z]
    BY <1>4, <1>7, <1>9
  <2> QED
    BY <1>2, <1>5, <2>1
<1> QED
  BY <1>3, <1>8, <1>9

(* A session never has more than READ_BUF_MAX_LEN bytes and one frame per  *)
(* direction under way in the whole tunnel.                                *)
THEOREM InFlightBound == Spec => []BoundedInFlight
<1>1. Init => Admission
  BY ConstantsAssumption DEF Init, Admission
<1>2. TypeOK /\ CreditCovers /\ Admission => BoundedInFlight
  <2> SUFFICES ASSUME TypeOK, CreditCovers, Admission, NEW x \in Ends
               PROVE  \E len \in ChunkLens \cup {0} :
                        Outstanding(x) <= READ_BUF_MAX_LEN + len
    BY DEF BoundedInFlight
  <2>1. PICK len \in ChunkLens \cup {0} :
          read_buf_len[x] <= READ_BUF_MAX_LEN + len
    BY DEF Admission
  <2>2. Outstanding(x) <= read_buf_len[x] /\ len \in Nat
    BY ConstantsAssumption DEF CreditCovers
  <2>3. Outstanding(x) \in Nat /\ read_buf_len[x] \in Nat
    BY PartsType, EndsFacts DEF Outstanding
  <2> QED
    BY <2>1, <2>2, <2>3, ConstantsAssumption
<1> QED
  BY <1>1, <1>2, TypeCorrect, CreditSafety, AdmissionStep, PTL DEF Spec

-----------------------------------------------------------------------------
(* No byte of credit is lost.                                              *)

(* An end that has not started has counted nothing; one that runs counts   *)
(* exactly what is under way until its peer is over.                       *)
CreditHeld ==
  \A z \in Ends :
    /\ task[z] \in {"none", "spawned"} => read_buf_len[z] = 0
    /\ task[z] = "running" /\ z \in registered /\ ~ Over(Peer(z))
         => read_buf_len[z] = Outstanding(z)

(* An end enters the map of its side when its task starts.                 *)
LEMMA EntersMap ==
  ASSUME TypeOK, [Next]_vars, NEW z \in Ends, z \in registered', z \notin registered
  PROVE  task[z] \in {"none", "spawned"}
<1>1. \/ registered' \subseteq registered
      \/ \E s \in Sessions : Accept(s) \/ OutletSessionStart(s)
  BY ZenonT(30) DEF Next, InletInput, OutletInput, InputLoop, Writer, OnI2oConnect,
         ConnectDone, ConnectTimeout, RecvConnected, InletRecvClose,
         OnI2oDisconnect, RecvData, RecvAck, ReadFrame, EncodeDataAndLimiting,
         SendFrame, WriteFrame, FlushError, Callback, ReadEof, WriteError,
         WriterClose, SelectReturns, OnSessionClose, vars, taskVars
<1> QED
  BY <1>1, SMTT(30) DEF Accept, OutletSessionStart

(* An end that has not started counts nothing.                             *)
LEMMA CountStays ==
  ASSUME TypeOK, Life, Loop, [Next]_vars, NEW z \in Ends,
         task[z] \in {"none", "spawned"}
  PROVE  read_buf_len'[z] = read_buf_len[z]
<1>1. \/ UNCHANGED read_buf_len
      \/ \E e \in Side : RecvAck(e)
      \/ \E x \in Ends : EncodeDataAndLimiting(x)
  BY ZenonT(30) DEF Next, InletInput, OutletInput, InputLoop, Writer, Accept,
         OnI2oConnect, OutletSessionStart, ConnectDone, ConnectTimeout,
         RecvConnected, InletRecvClose, OnI2oDisconnect, RecvData,
         ReadFrame, SendFrame, WriteFrame, FlushError,
         Callback, ReadEof, WriteError, WriterClose, SelectReturns,
         OnSessionClose, vars, readerVars, Side
<1>2. ASSUME NEW e \in Side, RecvAck(e) PROVE read_buf_len'[z] = read_buf_len[z]
  <2>1. z \notin registered
    BY DEF Loop
  <2> QED
    BY <1>2, <2>1 DEF RecvAck, TypeOK
<1>3. ASSUME NEW x \in Ends, EncodeDataAndLimiting(x)
      PROVE  read_buf_len'[z] = read_buf_len[z]
  <2>1. z # x
    BY <1>3 DEF EncodeDataAndLimiting, Life
  <2> QED
    BY <1>3, <2>1 DEF EncodeDataAndLimiting, TypeOK
<1> QED
  BY <1>1, <1>2, <1>3, SMTT(30)

(* What a step drops is never of a session that is up at both ends.        *)
LEMMA NothingDropped ==
  ASSUME TypeOK, Base, Known, ~ SlowSpawn, NEW z \in Ends, Dropped(z),
         task'[z] = "running", z \in registered, ~ Over(Peer(z)), ~ Over(Peer(z))'
  PROVE  FALSE
<1> DEFINE y == Peer(z)
<1>0. y \in Ends /\ y[1] \in Side /\ y = <<y[1], y[2]>>
  BY EndsFacts
<1>1. task'[z] # "ending" /\ task'[y] # "ending"
  BY DEF Over
<1>2. /\ RecvData(y[1]) /\ IncomingEnd(y[1]) = y
      /\ y \notin registered \/ task[y] # "running"
  BY <1>1 DEF Dropped
<1>3. /\ pipe[y[1]] # <<>> /\ Head(pipe[y[1]]).type = "data"
      /\ y[1] = "outlet" => connecting = NoSession
  BY <1>2 DEF RecvData, Incoming
<1>4. Head(pipe[y[1]]) \in Message /\ Head(pipe[y[1]]).sid = y[2]
  BY <1>0, <1>2, <1>3, IncomingFacts
<1>5. Head(pipe[y[1]]) \in Data(y[2])
  BY <1>3, <1>4, WordFacts DEF Data
<1> QED
  BY <1>0, <1>2, <1>3, <1>5, NoFrameMissed

LEMMA CreditHeldStep ==
  ASSUME TypeOK, TypeOK', Base, Whole, ~ SlowSpawn, CreditCovers, CreditHeld,
         [Next]_vars
  PROVE  CreditHeld'
<1>0. /\ Life /\ FirstWord /\ Loop /\ Known
      /\ \A e \in Side : Moves(e)
      /\ \A x \in Ends : Goes(x)
  BY BaseStep DEF Base, Whole
<1>1. \A z \in Ends : task'[z] \in {"none", "spawned"} => read_buf_len'[z] = 0
  <2> TAKE z \in Ends
  <2> HAVE task'[z] \in {"none", "spawned"}
  <2>1. task[z] \in {"none", "spawned"}
    BY <1>0 DEF Goes
  <2> QED
    BY <1>0, <2>1, CountStays DEF CreditHeld
<1>2. ASSUME NEW z \in Ends, task'[z] = "running", z \in registered', ~ Over(Peer(z))'
      PROVE  read_buf_len'[z] = Outstanding(z)'
  <2>0. Peer(z) \in Ends
    BY EndsFacts
  <2>1. ~ Over(Peer(z))
    BY <1>0, <1>2, <2>0, OverStays
  <2>2. /\ Outstanding(z) \in Nat /\ Outstanding(z)' \in Nat
        /\ read_buf_len[z] \in Nat /\ read_buf_len'[z] \in Nat
    BY OutstandingType, OutstandingNext DEF TypeOK
  <2>3. CASE task[z] \in {"none", "spawned"}
    <3>1. read_buf_len[z] = 0 /\ Outstanding(z) <= 0
      BY <2>3 DEF CreditHeld, CreditCovers
    <3> QED
      BY <2>2, <3>1, AccountStep DEF Kept, Counted, Repaid, Lost
  <2>4. CASE task[z] \notin {"none", "spawned"}
    <3>1. task[z] = "running"
      BY <1>0, <1>2, <2>4 DEF Goes
    <3>2. z \in registered
      BY <1>2, <2>4, EntersMap
    <3>3. read_buf_len[z] = Outstanding(z)
      BY <2>1, <3>1, <3>2 DEF CreditHeld
    <3>4. ~ Lost(z)
      BY <1>0, <1>2, <2>1, <3>2, NothingDropped DEF Lost
    <3> QED
      BY <2>2, <3>3, <3>4, AccountStep DEF Kept, Counted, Repaid
  <2> QED
    BY <2>3, <2>4
<1> QED
  BY <1>1, <1>2 DEF CreditHeld

(* While both ends of a session are up, what encode_data_and_limiting      *)
(* counts at an end is exactly what is under way, so the acknowledgements  *)
(* to come give back all of the credit and no session is slowed down for   *)
(* good.  A spawned session must start within the 2 s of on_i2o_connect.   *)
THEOREM CreditIsExact == Spec => []CreditExact
<1> DEFINE Held == ~ SlowSpawn => CreditHeld
<1>1. Init => Held
  <2> SUFFICES ASSUME Init PROVE CreditHeld
    OBVIOUS
  <2> QED
    BY DEF Init, CreditHeld
<1>2. /\ TypeOK /\ Base /\ Whole /\ GracefulClose /\ CreditCovers /\ Held
      /\ TypeOK' /\ [Next]_vars
      => Held'
  BY CreditHeldStep
<1>3. TypeOK /\ Held => CreditExact
  <2> SUFFICES ASSUME TypeOK, CreditHeld, NEW x \in Ends,
                      {x, Peer(x)} \subseteq registered,
                      task[x] = "running", task[Peer(x)] = "running"
               PROVE  read_buf_len[x] = Outstanding(x)
    BY DEF CreditExact
  <2>1. ~ Over(Peer(x))
    BY DEF Over
  <2> QED
    BY <2>1 DEF CreditHeld
<1> QED
  BY <1>1, <1>2, <1>3, WholeHolds, CreditSafety, PTL DEF Spec
=============================================================================
