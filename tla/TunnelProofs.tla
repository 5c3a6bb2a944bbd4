----------------------------- MODULE TunnelProofs -----------------------------
(* Proofs about Tunnel, for any number of sessions, frames and lengths:    *)
(* its types, the order of what a queue holds, the inductive invariant of  *)
(* the streams, and what a step may do to the tasks and to a stream.       *)
EXTENDS Tunnel, TLAPS

-----------------------------------------------------------------------------
(* What the operations on sequences do.                                    *)
LEMMA LenFacts ==
  ASSUME NEW S, NEW q \in Seq(S)
  PROVE  /\ Len(q) \in Nat /\ DOMAIN q = 1 .. Len(q)
         /\ q \in [1 .. Len(q) -> S]
         /\ q # <<>> => Len(q) > 0
OBVIOUS

LEMMA EmptyFacts ==
  ASSUME NEW S
  PROVE  <<>> \in Seq(S) /\ Len(<<>>) = 0
OBVIOUS

LEMMA HeadTailFacts ==
  ASSUME NEW S, NEW q \in Seq(S), q # <<>>
  PROVE  /\ Head(q) \in S /\ Tail(q) \in Seq(S)
         /\ Len(Tail(q)) = Len(q) - 1
         /\ \A i \in 1 .. Len(Tail(q)) : Tail(q)[i] = q[i + 1]
OBVIOUS

LEMMA AppendFacts ==
  ASSUME NEW S, NEW q \in Seq(S), NEW m \in S
  PROVE  /\ Append(q, m) \in Seq(S) /\ Append(q, m) # <<>>
         /\ Len(Append(q, m)) = Len(q) + 1
         /\ \A i \in 1 .. Len(q) : Append(q, m)[i] = q[i]
         /\ Append(q, m)[Len(q) + 1] = m
OBVIOUS

-----------------------------------------------------------------------------
(* Facts about the ends and the messages.                                  *)

(* The two ends of a session face each other.                              *)
LEMMA EndsFacts ==
  ASSUME NEW x \in Ends
  PROVE  /\ x[1] \in Side /\ x[2] \in Sessions /\ x = <<x[1], x[2]>>
         /\ Other(x[1]) \in Side /\ Other(x[1]) # x[1]
         /\ Other(Other(x[1])) = x[1]
         /\ Peer(x) \in Ends /\ Peer(Peer(x)) = x /\ Peer(x) # x
         /\ Peer(x)[1] = Other(x[1]) /\ Peer(x)[2] = x[2]
BY DEF Ends, Side, Other, Peer

(* The ends the actions name.                                              *)
LEMMA NamedEnds ==
  ASSUME NEW s \in Sessions
  PROVE  Inlet(s) \in Ends /\ Outlet(s) \in Ends
BY DEF Inlet, Outlet, Ends, Side

(* What the constructors of messages build.                                *)
LEMMA MessageFacts ==
  /\ \A type \in MessageType : \A s \in Sessions : Msg(type, s) \in Message
  /\ \A m \in Message : SendAndThen(m) \in WriterMessage
  /\ CloseWriter \in WriterMessage
BY DEF Message, Msg, SendAndThen, WriterMessage, CloseWriter, MessageType

(* A side that finds a message in its queue finds a proper one.            *)
LEMMA IncomingFacts ==
  ASSUME TypeOK, NEW e \in Side, pipe[e] # <<>>
  PROVE  /\ Head(pipe[e]) \in Message
         /\ Tail(pipe[e]) \in Seq(Message)
         /\ Head(pipe[e]).sid \in Sessions
         /\ Head(pipe[e]).len \in Nat
         /\ IncomingEnd(e) \in Ends
         /\ IncomingEnd(e) = <<e, Head(pipe[e]).sid>>
<1>1. pipe[e] \in Seq(Message)
  BY DEF TypeOK
<1>2. Head(pipe[e]) \in Message /\ Tail(pipe[e]) \in Seq(Message)
  BY <1>1, HeadTailFacts
<1> QED
  BY <1>2 DEF Message, IncomingEnd, Ends

(* The pipes stay sequences of messages.                                   *)
LEMMA PipeType ==
  ASSUME TypeOK, NEW e \in Side, NEW m \in Message
  PROVE  /\ Send(e, m) => pipe' \in [Side -> Seq(Message)]
         /\ pipe[e] # <<>> /\ Receive(e) => pipe' \in [Side -> Seq(Message)]
         /\ pipe[e] # <<>> /\ Reply(e, m) => pipe' \in [Side -> Seq(Message)]
<1>1. pipe \in [Side -> Seq(Message)]
  BY DEF TypeOK
<1>2. pipe[e] # <<>> => Tail(pipe[e]) \in Seq(Message)
  BY IncomingFacts
<1>3. \A d \in Side : Append(pipe[d], m) \in Seq(Message)
  BY <1>1, AppendFacts
<1>4. Other(e) \in Side /\ Other(e) # e
  BY DEF Side, Other
<1>5. Send(e, m) => pipe' \in [Side -> Seq(Message)]
  BY <1>1, <1>3 DEF Send
<1>6. pipe[e] # <<>> /\ Receive(e) => pipe' \in [Side -> Seq(Message)]
  BY <1>1, <1>2 DEF Receive
<1>7. pipe[e] # <<>> /\ Reply(e, m) => pipe' \in [Side -> Seq(Message)]
  BY <1>1, <1>2, <1>3, <1>4 DEF Reply
<1> QED
  BY <1>5, <1>6, <1>7

(* The writers' queues stay sequences of writer messages.                  *)
LEMMA WriteqType ==
  ASSUME TypeOK, NEW x \in Ends, NEW w \in WriterMessage
  PROVE  ToWriter(x, w) => writeq' \in [Ends -> Seq(WriterMessage)]
<1>1. writeq \in [Ends -> Seq(WriterMessage)]
  BY DEF TypeOK
<1>2. Append(writeq[x], w) \in Seq(WriterMessage)
  BY <1>1, AppendFacts
<1> QED
  BY <1>1, <1>2 DEF ToWriter

(* A writer that finds a message in its queue finds a proper one.          *)
LEMMA WriterFacts ==
  ASSUME TypeOK, NEW x \in Ends, writeq[x] # <<>>
  PROVE  /\ Head(writeq[x]) \in WriterMessage
         /\ Tail(writeq[x]) \in Seq(WriterMessage)
         /\ Head(writeq[x]).n \in Nat
         /\ Head(writeq[x]).len \in Nat
<1>1. writeq[x] \in Seq(WriterMessage)
  BY DEF TypeOK
<1>2. Head(writeq[x]) \in WriterMessage /\ Tail(writeq[x]) \in Seq(WriterMessage)
  BY <1>1, HeadTailFacts
<1> QED
  BY <1>2 DEF WriterMessage

-----------------------------------------------------------------------------
(* Type correctness.                                                       *)

(* Every step of the tunnel keeps its variables within their types.        *)
LEMMA TypeStep == TypeOK /\ [Next]_vars => TypeOK'
<1> SUFFICES ASSUME TypeOK, [Next]_vars PROVE TypeOK'
  OBVIOUS
<1> USE DEF taskVars, readerVars, writerVars
<1>0. "inlet" \in Side /\ "outlet" \in Side
  BY DEF Side
<1>1. ASSUME NEW s \in Sessions, Accept(s) PROVE TypeOK'
  <2>1. pipe' \in [Side -> Seq(Message)]
    BY <1>0, <1>1, PipeType, MessageFacts DEF Accept, MessageType
  <2> QED
    BY <1>1, <2>1, NamedEnds DEF Accept, TypeOK
<1>2. ASSUME NEW ok \in BOOLEAN, OnI2oConnect(ok) PROVE TypeOK'
  <2> DEFINE x == IncomingEnd("outlet")
  <2>1. x \in Ends /\ x[2] \in Sessions /\ pipe["outlet"] # <<>>
    BY <1>0, <1>2, IncomingFacts, EndsFacts DEF OnI2oConnect, Incoming
  <2>2. Msg("refused", x[2]) \in Message
    BY <2>1, MessageFacts DEF MessageType
  <2>3. pipe' \in [Side -> Seq(Message)]
    BY <1>0, <1>2, <2>1, <2>2, PipeType DEF OnI2oConnect
  <2> QED
    BY <1>2, <2>1, <2>3 DEF OnI2oConnect, TypeOK
<1>3. ASSUME NEW s \in Sessions, OutletSessionStart(s) PROVE TypeOK'
  <2>1. pipe' \in [Side -> Seq(Message)]
    BY <1>0, <1>3, PipeType, MessageFacts DEF OutletSessionStart, MessageType
  <2> QED
    BY <1>3, <2>1, NamedEnds DEF OutletSessionStart, TypeOK
<1>4. ASSUME ConnectDone \/ ConnectTimeout PROVE TypeOK'
  <2>1. connecting \in Sessions
    BY <1>4 DEF ConnectDone, ConnectTimeout, TypeOK
  <2>2. pipe' \in [Side -> Seq(Message)]
    BY <1>0, <1>4, <2>1, PipeType, MessageFacts
    DEF ConnectDone, ConnectTimeout, MessageType
  <2> QED
    BY <1>4, <2>2 DEF ConnectDone, ConnectTimeout, TypeOK
<1>5. ASSUME RecvConnected PROVE TypeOK'
  <2>1. pipe' \in [Side -> Seq(Message)]
    BY <1>0, <1>5, PipeType, IncomingFacts DEF RecvConnected, Incoming
  <2> QED
    BY <1>5, <2>1 DEF RecvConnected, TypeOK
<1>6. ASSUME InletRecvClose PROVE TypeOK'
  <2>1. pipe["inlet"] # <<>>
    BY <1>6 DEF InletRecvClose, Incoming
  <2>2. pipe' \in [Side -> Seq(Message)]
    BY <1>0, <1>6, <2>1, PipeType, IncomingFacts DEF InletRecvClose
  <2>3. writeq' \in [Ends -> Seq(WriterMessage)]
    BY <1>0, <1>6, <2>1, WriteqType, IncomingFacts, MessageFacts
    DEF InletRecvClose, TypeOK
  <2> QED
    BY <1>6, <2>2, <2>3 DEF InletRecvClose, TypeOK
<1>7. ASSUME OnI2oDisconnect PROVE TypeOK'
  <2>1. pipe["outlet"] # <<>>
    BY <1>7 DEF OnI2oDisconnect, Incoming
  <2>2. pipe' \in [Side -> Seq(Message)]
    BY <1>0, <1>7, <2>1, PipeType, IncomingFacts DEF OnI2oDisconnect
  <2>3. writeq' \in [Ends -> Seq(WriterMessage)]
    BY <1>0, <1>7, <2>1, WriteqType, IncomingFacts, MessageFacts
    DEF OnI2oDisconnect, TypeOK
  <2> QED
    BY <1>7, <2>2, <2>3 DEF OnI2oDisconnect, TypeOK
<1>8. ASSUME NEW e \in Side, RecvData(e) PROVE TypeOK'
  <2>1. pipe[e] # <<>>
    BY <1>8 DEF RecvData, Incoming
  <2>2. pipe' \in [Side -> Seq(Message)]
    BY <1>8, <2>1, PipeType, IncomingFacts DEF RecvData
  <2>3. writeq' \in [Ends -> Seq(WriterMessage)]
    BY <1>8, <2>1, WriteqType, IncomingFacts, MessageFacts DEF RecvData, TypeOK
  <2> QED
    BY <1>8, <2>2, <2>3 DEF RecvData, TypeOK
<1>9. ASSUME NEW e \in Side, RecvAck(e) PROVE TypeOK'
  <2>1. pipe[e] # <<>>
    BY <1>9 DEF RecvAck, Incoming
  <2>2. pipe' \in [Side -> Seq(Message)]
    BY <1>9, <2>1, PipeType, IncomingFacts DEF RecvAck
  <2>3. read_buf_len' \in [Ends -> Nat]
    <3>1. \A a, b \in Nat : Subtract(a, b) \in Nat
      BY DEF Subtract
    <3> QED
      BY <1>9, <2>1, <3>1, IncomingFacts DEF RecvAck, TypeOK
  <2> QED
    BY <1>9, <2>2, <2>3 DEF RecvAck, TypeOK
<1>10. ASSUME NEW x \in Ends, NEW len \in ChunkLens, ReadFrame(x, len)
       PROVE  TypeOK'
  BY <1>10, ConstantsAssumption DEF ReadFrame, TypeOK
<1>11. ASSUME NEW x \in Ends, EncodeDataAndLimiting(x) PROVE TypeOK'
  BY <1>11 DEF EncodeDataAndLimiting, TypeOK
<1>12. ASSUME NEW x \in Ends, SendFrame(x) PROVE TypeOK'
  <2>1. [type |-> "data", sid |-> x[2], n |-> nread[x], len |-> hand[x]]
          \in Message
    BY EndsFacts DEF TypeOK, Message, MessageType
  <2>2. pipe' \in [Side -> Seq(Message)]
    BY <1>12, <2>1, PipeType, EndsFacts DEF SendFrame
  <2> QED
    BY <1>12, <2>2 DEF SendFrame, TypeOK
<1>13. ASSUME NEW x \in Ends, WriteFrame(x) \/ FlushError(x) PROVE TypeOK'
  <2>1. writeq[x] # <<>>
    BY <1>13 DEF WriteFrame, FlushError, WriterAt
  <2>2. Append(delivered[x], Head(writeq[x]).n) \in Seq(Nat)
    BY <2>1, WriterFacts, AppendFacts DEF TypeOK
  <2>3. CASE WriteFrame(x)
    BY <2>1, <2>2, <2>3, WriterFacts DEF WriteFrame, TypeOK
  <2>4. CASE FlushError(x)
    BY <2>1, <2>4, WriterFacts DEF FlushError, TypeOK
  <2> QED
    BY <1>13, <2>3, <2>4
<1>14. ASSUME NEW x \in Ends, Callback(x) PROVE TypeOK'
  <2>1. [type |-> "ack", sid |-> x[2], n |-> 0, len |-> acking[x]] \in Message
    BY EndsFacts DEF TypeOK, Message, MessageType
  <2>2. pipe' \in [Side -> Seq(Message)]
    BY <1>14, <2>1, PipeType, EndsFacts DEF Callback
  <2> QED
    BY <1>14, <2>2 DEF Callback, TypeOK
<1>15. ASSUME NEW x \in Ends, ReadEof(x) \/ WriteError(x) \/ WriterClose(x)
       PROVE  TypeOK'
  <2>1. PICK why \in {"eof", "write_error", "close"} : SelectReturns(x, why)
    BY <1>15 DEF ReadEof, WriteError, WriterClose
  <2>2. writeq' \in [Ends -> Seq(WriterMessage)]
    BY <2>1 DEF SelectReturns, TypeOK
  <2> QED
    BY <2>1, <2>2 DEF SelectReturns, TypeOK
<1>16. ASSUME NEW x \in Ends, OnSessionClose(x) PROVE TypeOK'
  <2>1. pipe' \in [Side -> Seq(Message)]
    BY <1>16, PipeType, MessageFacts, EndsFacts DEF OnSessionClose, MessageType
  <2> QED
    BY <1>16, <2>1 DEF OnSessionClose, TypeOK
<1>17. ASSUME UNCHANGED vars PROVE TypeOK'
  BY <1>17 DEF vars, TypeOK
<1> QED
  BY <1>0, <1>1, <1>2, <1>3, <1>4, <1>5, <1>6, <1>7, <1>8, <1>9, <1>10, <1>11,
     <1>12, <1>13, <1>14, <1>15, <1>16, <1>17
  DEF Next, InletInput, OutletInput, InputLoop, Writer

(* Type correctness: TypeOK holds in every state of the tunnel.            *)
THEOREM TypeCorrect == Spec => []TypeOK
<1>1. Init => TypeOK
  BY DEF Init, TypeOK
<1> QED
  BY <1>1, TypeStep, PTL DEF Spec

-----------------------------------------------------------------------------
(* Order in a queue: q holds an element of A; nothing of B comes behind an *)
(* element of A; the numbers of the elements of A, and that they ascend.   *)
Has(q, A) == \E i \in 1 .. Len(q) : q[i] \in A
NeverAfter(q, A, B) ==
  \A i, j \in 1 .. Len(q) : i < j /\ q[i] \in A => q[j] \notin B
Numbers(q, A) == {q[i].n : i \in {k \in 1 .. Len(q) : q[k] \in A}}
Ascending(q, A) ==
  \A i, j \in 1 .. Len(q) :
    i < j /\ q[i] \in A /\ q[j] \in A => q[i].n < q[j].n

(* The elements of a queue one was added to, and of one the head was taken *)
(* from.                                                                   *)
LEMMA AppendIndices ==
  ASSUME NEW S, NEW q \in Seq(S), NEW m \in S
  PROVE  /\ Len(q) \in Nat
         /\ \A i : i \in 1 .. Len(Append(q, m)) <=>
                     i \in 1 .. Len(q) \/ i = Len(q) + 1
         /\ \A i \in 1 .. Len(q) : Append(q, m)[i] = q[i]
         /\ Append(q, m)[Len(q) + 1] = m
BY AppendFacts, LenFacts

LEMMA TailIndices ==
  ASSUME NEW S, NEW q \in Seq(S), q # <<>>
  PROVE  /\ Len(q) \in Nat /\ 1 \in 1 .. Len(q) /\ Head(q) = q[1]
         /\ Tail(q) \in Seq(S)
         /\ \A i \in 1 .. Len(Tail(q)) :
              i + 1 \in 1 .. Len(q) /\ Tail(q)[i] = q[i + 1]
         /\ \A i \in 1 .. Len(q) :
              i # 1 => i - 1 \in 1 .. Len(Tail(q)) /\ q[i] = Tail(q)[i - 1]
<1>1. /\ Head(q) = q[1] /\ Tail(q) \in Seq(S) /\ Len(Tail(q)) = Len(q) - 1
      /\ \A i \in 1 .. Len(Tail(q)) : Tail(q)[i] = q[i + 1]
  BY HeadTailFacts
<1>2. Len(q) \in Nat /\ Len(q) > 0
  BY EmptyFacts, LenFacts
<1> QED
  BY <1>1, <1>2

(* What adding an element does.                                            *)
LEMMA HasAppend ==
  ASSUME NEW S, NEW q \in Seq(S), NEW m \in S, NEW A
  PROVE  Has(Append(q, m), A) <=> Has(q, A) \/ m \in A
<1> DEFINE r == Append(q, m)
<1>1. /\ \A i : i \in 1 .. Len(r) <=> i \in 1 .. Len(q) \/ i = Len(q) + 1
      /\ \A i \in 1 .. Len(q) : r[i] = q[i]
      /\ r[Len(q) + 1] = m
  BY AppendIndices
<1> HIDE DEF r
<1>2. Has(r, A) <=> Has(q, A) \/ m \in A
  BY <1>1 DEF Has
<1> QED
  BY <1>2 DEF r

LEMMA NeverAfterAppend ==
  ASSUME NEW S, NEW q \in Seq(S), NEW m \in S, NEW A, NEW B,
         NeverAfter(q, A, B), m \in B => ~ Has(q, A)
  PROVE  NeverAfter(Append(q, m), A, B)
<1> DEFINE r == Append(q, m)
<1>1. /\ Len(q) \in Nat
      /\ \A i : i \in 1 .. Len(r) <=> i \in 1 .. Len(q) \/ i = Len(q) + 1
      /\ \A i \in 1 .. Len(q) : r[i] = q[i]
      /\ r[Len(q) + 1] = m
  BY AppendIndices
<1> HIDE DEF r
<1> SUFFICES ASSUME NEW i \in 1 .. Len(r), NEW j \in 1 .. Len(r),
                    i < j, r[i] \in A, r[j] \in B
             PROVE  FALSE
  BY DEF NeverAfter, r
<1>2. i \in 1 .. Len(q)
  BY <1>1
<1>3. CASE j \in 1 .. Len(q)
  BY <1>1, <1>2, <1>3 DEF NeverAfter
<1>4. CASE j = Len(q) + 1
  BY <1>1, <1>2, <1>4 DEF Has
<1> QED
  BY <1>1, <1>3, <1>4

LEMMA NumbersAppend ==
  ASSUME NEW S, NEW q \in Seq(S), NEW m \in S, NEW A
  PROVE  Numbers(Append(q, m), A)
           = Numbers(q, A) \cup (IF m \in A THEN {m.n} ELSE {})
<1> DEFINE r == Append(q, m)
<1>1. /\ \A i : i \in 1 .. Len(r) <=> i \in 1 .. Len(q) \/ i = Len(q) + 1
      /\ \A i \in 1 .. Len(q) : r[i] = q[i]
      /\ r[Len(q) + 1] = m
  BY AppendIndices
<1> HIDE DEF r
<1>2. Numbers(r, A) = Numbers(q, A) \cup (IF m \in A THEN {m.n} ELSE {})
  BY <1>1 DEF Numbers
<1> QED
  BY <1>2 DEF r

LEMMA AscendingAppend ==
  ASSUME NEW S, NEW q \in Seq(S), NEW m \in S, NEW A, Ascending(q, A),
         m \in A => \A k \in Numbers(q, A) : k < m.n
  PROVE  Ascending(Append(q, m), A)
<1> DEFINE r == Append(q, m)
<1>1. /\ Len(q) \in Nat
      /\ \A i : i \in 1 .. Len(r) <=> i \in 1 .. Len(q) \/ i = Len(q) + 1
      /\ \A i \in 1 .. Len(q) : r[i] = q[i]
      /\ r[Len(q) + 1] = m
  BY AppendIndices
<1> HIDE DEF r
<1> SUFFICES ASSUME NEW i \in 1 .. Len(r), NEW j \in 1 .. Len(r),
                    i < j, r[i] \in A, r[j] \in A
             PROVE  r[i].n < r[j].n
  BY DEF Ascending, r
<1>2. i \in 1 .. Len(q)
  BY <1>1
<1>3. CASE j \in 1 .. Len(q)
  BY <1>1, <1>2, <1>3 DEF Ascending
<1>4. CASE j = Len(q) + 1
  BY <1>1, <1>2, <1>4 DEF Numbers
<1> QED
  BY <1>1, <1>3, <1>4

(* What taking the head does.                                              *)
LEMMA HasTail ==
  ASSUME NEW S, NEW q \in Seq(S), q # <<>>, NEW A
  PROVE  Has(q, A) <=> Head(q) \in A \/ Has(Tail(q), A)
<1> DEFINE r == Tail(q)
<1>1. /\ 1 \in 1 .. Len(q) /\ Head(q) = q[1]
      /\ \A i \in 1 .. Len(r) : i + 1 \in 1 .. Len(q) /\ r[i] = q[i + 1]
      /\ \A i \in 1 .. Len(q) :
           i # 1 => i - 1 \in 1 .. Len(r) /\ q[i] = r[i - 1]
  BY TailIndices
<1> HIDE DEF r
<1>2. Has(q, A) <=> Head(q) \in A \/ Has(r, A)
  BY <1>1 DEF Has
<1> QED
  BY <1>2 DEF r

LEMMA NeverAfterTail ==
  ASSUME NEW S, NEW q \in Seq(S), q # <<>>, NEW A, NEW B, NeverAfter(q, A, B)
  PROVE  /\ NeverAfter(Tail(q), A, B)
         /\ Head(q) \in A => ~ Has(Tail(q), B)
<1> DEFINE r == Tail(q)
<1>1. /\ 1 \in 1 .. Len(q) /\ Head(q) = q[1]
      /\ \A i \in 1 .. Len(r) : i + 1 \in 1 .. Len(q) /\ r[i] = q[i + 1]
  BY TailIndices
<1>0. Len(q) \in Nat
  BY TailIndices
<1> HIDE DEF r
<1>2. NeverAfter(r, A, B)
  <2> SUFFICES ASSUME NEW i \in 1 .. Len(r), NEW j \in 1 .. Len(r),
                      i < j, r[i] \in A, r[j] \in B
               PROVE  FALSE
    BY DEF NeverAfter
  <2>1. i + 1 < j + 1
    OBVIOUS
  <2> QED
    BY <1>1, <2>1 DEF NeverAfter
<1>3. ASSUME Head(q) \in A, Has(r, B) PROVE FALSE
  <2>1. PICK i \in 1 .. Len(r) : r[i] \in B
    BY <1>3 DEF Has
  <2>2. 1 < i + 1
    OBVIOUS
  <2> QED
    BY <1>1, <1>3, <2>1, <2>2 DEF NeverAfter
<1> QED
  BY <1>2, <1>3 DEF r

LEMMA NumbersTail ==
  ASSUME NEW S, NEW q \in Seq(S), q # <<>>, NEW A, Ascending(q, A),
         \A m \in A : m.n \in Int
  PROVE  /\ Ascending(Tail(q), A)
         /\ Head(q) \notin A => Numbers(Tail(q), A) = Numbers(q, A)
         /\ Head(q) \in A =>
              /\ Head(q).n \in Numbers(q, A)
              /\ \A k \in Numbers(Tail(q), A) : Head(q).n < k
              /\ Numbers(Tail(q), A) = Numbers(q, A) \ {Head(q).n}
<1> DEFINE r == Tail(q)
<1>0. Len(q) \in Nat
  BY TailIndices
<1>1. /\ 1 \in 1 .. Len(q) /\ Head(q) = q[1]
      /\ \A i \in 1 .. Len(r) : i + 1 \in 1 .. Len(q) /\ r[i] = q[i + 1]
      /\ \A i \in 1 .. Len(q) :
           i # 1 => i - 1 \in 1 .. Len(r) /\ q[i] = r[i - 1]
  BY TailIndices
<1> HIDE DEF r
<1>2. Ascending(r, A)
  <2> SUFFICES ASSUME NEW i \in 1 .. Len(r), NEW j \in 1 .. Len(r),
                      i < j, r[i] \in A, r[j] \in A
               PROVE  r[i].n < r[j].n
    BY DEF Ascending
  <2>1. i + 1 < j + 1
    OBVIOUS
  <2> QED
    BY <1>1, <2>1 DEF Ascending
<1>3. Numbers(q, A) = Numbers(r, A) \cup (IF q[1] \in A THEN {q[1].n} ELSE {})
  <2>1. \A i \in 1 .. Len(q) : i = 1 \/ (i - 1 \in 1 .. Len(r) /\ q[i] = r[i - 1])
    BY <1>1
  <2>2. ASSUME NEW k \in Numbers(q, A)
        PROVE  k \in Numbers(r, A) \cup (IF q[1] \in A THEN {q[1].n} ELSE {})
    BY <2>1 DEF Numbers
  <2>3. ASSUME NEW k \in Numbers(r, A) PROVE k \in Numbers(q, A)
    BY <1>1, SMTT(30) DEF Numbers
  <2>4. q[1] \in A => q[1].n \in Numbers(q, A)
    BY <1>1 DEF Numbers
  <2> QED
    BY <2>2, <2>3, <2>4
<1>4. ASSUME Head(q) \in A, NEW k \in Numbers(r, A) PROVE Head(q).n < k
  <2>1. PICK i \in 1 .. Len(r) : r[i] \in A /\ k = r[i].n
    BY DEF Numbers
  <2>2. 1 < i + 1
    OBVIOUS
  <2> QED
    BY <1>1, <1>4, <2>1, <2>2 DEF Ascending
<1>5. Head(q) \in A => Head(q).n \notin Numbers(r, A)
  BY <1>4
<1> QED
  BY <1>1, <1>2, <1>3, <1>4, <1>5 DEF r

(* The empty queue, and the queue without numbers.                         *)
LEMMA EmptyQueue ==
  ASSUME NEW A
  PROVE  /\ ~ Has(<<>>, A) /\ (\A B : NeverAfter(<<>>, A, B))
         /\ Numbers(<<>>, A) = {} /\ Ascending(<<>>, A)
BY DEF Has, NeverAfter, Numbers, Ascending

LEMMA NoNumbers ==
  ASSUME NEW q, NEW A
  PROVE  Numbers(q, A) = {} <=> ~ Has(q, A)
BY DEF Has, Numbers

-----------------------------------------------------------------------------
(* The inductive invariant.                                                *)

(* The messages of some types of a session, and the two kinds of           *)
(* WriterMessage.                                                          *)
Words(T, s) == [type : T, sid : {s}, n : Nat, len : Nat]
Data(s) == Words({"data"}, s)
Connect(s) == Words({"connect"}, s)
Closing(s) == Words({"refused", "disconnect"}, s)
Frames == [close : {FALSE}, n : Nat, len : Nat]
Closes == [close : {TRUE}, n : Nat, len : Nat]

(* The stream into end y, by the numbers of its frames: still in the pipe, *)
(* waiting for the writer, and written; and what its peer has sent of what *)
(* it read: all but the frame in its hands.                                *)
Piped(y) == Numbers(pipe[y[1]], Data(y[2]))
Waiting(y) == Numbers(writeq[y], Frames)
Written(y) == {delivered[y][i] : i \in 1 .. Len(delivered[y])}
Sent(x) == IF reader[x] = "idle" THEN nread[x] ELSE nread[x] - 1

(* What a task holds in its life: nothing is in the hands of an end        *)
(* outside its select!, and an end that has not started has read nothing.  *)
Life ==
  \A x \in Ends :
    /\ task[x] # "running" => reader[x] = "idle" /\ acking[x] = 0
    /\ task[x] \in {"none", "spawned"} => nread[x] = 0
    /\ reader[x] # "idle" => nread[x] > 0
    /\ endedBy[x] # "none" <=> task[x] \in {"ending", "closed"}
    /\ x[1] = "inlet" => task[x] # "spawned"

(* A connect in the pipe is the first message of its session and the only  *)
(* connect, comes from an inlet end that was accepted and finds no outlet  *)
(* end; an outlet end never exists before its inlet end.                   *)
FirstWord ==
  \A s \in Sessions :
    /\ Has(pipe["outlet"], Connect(s)) =>
         task[Inlet(s)] # "none" /\ task[Outlet(s)] = "none"
    /\ NeverAfter(pipe["outlet"], Connect(s) \cup Data(s), Connect(s))
    /\ task[Inlet(s)] = "none" => task[Outlet(s)] = "none"

(* The outlet's input loop: while it waits for a session, that one has     *)
(* been spawned, and is in the map as soon as it runs; only a slow runtime *)
(* lets the loop give up on a session that is still to start.  The maps    *)
(* hold ends that run or are about to leave.                               *)
Loop ==
  /\ \A x \in registered : task[x] \in {"running", "ending"}
  /\ connecting # NoSession =>
       /\ task[Outlet(connecting)] # "none"
       /\ task[Outlet(connecting)] = "running" => Outlet(connecting) \in registered
  /\ ~ SlowSpawn =>
       \A s \in Sessions : task[Outlet(s)] = "spawned" => connecting = s

(* The frames of a stream are numbered upwards from writer to reader.      *)
Before(S, T) == \A a \in S, b \in T : a < b
Order ==
  \A y \in Ends :
    /\ Ascending(pipe[y[1]], Data(y[2]))
    /\ Ascending(writeq[y], Frames)
    /\ Before(Written(y), Waiting(y) \cup Piped(y))
    /\ Before(Waiting(y), Piped(y))
    /\ Written(y) \cup Waiting(y) \cup Piped(y) \subseteq 1 .. Sent(Peer(y))

(* An end that will not run any more: its select! has returned, or its     *)
(* connect was refused.                                                    *)
Over(x) ==
  \/ task[x] \in {"ending", "closed"}
  \/ /\ task[x] = "none" /\ task[Inlet(x[2])] # "none"
     /\ ~ Has(pipe["outlet"], Connect(x[2]))

(* An end runs without being in the map only when its peer has ended and   *)
(* everything it sent has arrived.                                         *)
Known ==
  \A y \in Ends :
    task[y] = "running" /\ y \notin registered => Over(Peer(y)) /\ Piped(y) = {}

(* A closing message, in the pipe or at the writer, says that the peer is  *)
(* over, and is followed by no data.                                       *)
LastWords ==
  \A y \in Ends :
    /\ Has(pipe[y[1]], Closing(y[2])) => Over(Peer(y))
    /\ NeverAfter(pipe[y[1]], Closing(y[2]), Data(y[2]))
    /\ Has(writeq[y], Closes) => Over(Peer(y)) /\ Piped(y) = {}
    /\ NeverAfter(writeq[y], Closes, Frames)
    /\ endedBy[y] = "close" => Over(Peer(y))

(* Nothing is missing: what was written is a prefix of what was read, and  *)
(* as long as an end can go on writing, every frame up to the last one     *)
(* under way is under way, up to the last one read unless its reader was   *)
(* dropped.                                                                *)
Present(y, k) == k <= Len(delivered[y]) \/ k \in Waiting(y) \cup Piped(y)
Exact == \A y \in Ends : \A i \in 1 .. Len(delivered[y]) : delivered[y][i] = i
Unbroken ==
  \A y \in Ends :
    ~ Over(y) /\ y \notin broken =>
      /\ \A n \in Waiting(y) \cup Piped(y) : \A k \in 1 .. n : Present(y, k)
      /\ task[Peer(y)] \in {"none", "spawned", "running"} \/ endedBy[Peer(y)] = "eof"
           => \A k \in 1 .. Sent(Peer(y)) : Present(y, k)

-----------------------------------------------------------------------------
(* Facts about messages and ends.                                          *)

(* Membership in the sets of messages.                                     *)
LEMMA WordFacts ==
  /\ \A m \in Message : \A T, s : m \in Words(T, s) <=> m.type \in T /\ m.sid = s
  /\ \A T, s : \A m \in Words(T, s) : m.type \in T /\ m.sid = s /\ m.n \in Nat
  /\ \A w \in WriterMessage : w \in Frames <=> ~ w.close
  /\ \A w \in WriterMessage : w \in Closes <=> w.close
  /\ \A w \in Frames : w.n \in Nat /\ ~ w.close
  /\ \A m \in Message :
       SendAndThen(m) \in Frames /\ SendAndThen(m).n = m.n
       /\ SendAndThen(m) \notin Closes
  /\ CloseWriter \in Closes /\ CloseWriter \notin Frames
BY DEF Words, Message, WriterMessage, Frames, Closes, SendAndThen, CloseWriter

(* The session ends by name.                                               *)
LEMMA NamedFacts ==
  ASSUME NEW s \in Sessions
  PROVE  /\ Inlet(s) \in Ends /\ Outlet(s) \in Ends
         /\ Inlet(s)[1] = "inlet" /\ Inlet(s)[2] = s
         /\ Outlet(s)[1] = "outlet" /\ Outlet(s)[2] = s
         /\ Peer(Inlet(s)) = Outlet(s) /\ Peer(Outlet(s)) = Inlet(s)
         /\ Inlet(s) # Outlet(s)
         /\ \A u : Inlet(u) # Outlet(s) /\ Outlet(u) # Inlet(s)
         /\ \A u : (Outlet(u) = Outlet(s) => u = s) /\ (Inlet(u) = Inlet(s) => u = s)
BY DEF Inlet, Outlet, Ends, Side, Peer, Other

LEMMA EndNames ==
  ASSUME NEW x \in Ends
  PROVE  /\ x = Inlet(x[2]) \/ x = Outlet(x[2])
         /\ x[1] = "inlet" <=> x = Inlet(x[2])
         /\ x[1] = "outlet" <=> x = Outlet(x[2])
         /\ x[2] \in Sessions
BY DEF Inlet, Outlet, Ends, Side

(* What has been sent is a number, and no more than what was read.         *)
LEMMA SentType ==
  ASSUME TypeOK, Life, NEW x \in Ends
  PROVE  Sent(x) \in Nat /\ nread[x] \in Nat /\ Sent(x) <= nread[x]
BY DEF TypeOK, Life, Sent

-----------------------------------------------------------------------------
(* What a step may do to the tasks and the pipes.                          *)

(* The end that sent message m into side e's queue.                        *)
Sender(e, m) == <<Other(e), m.sid>>

(* How a task may go on.                                                   *)
Goes(x) ==
  \/ task'[x] = task[x]
  \/ task[x] = "none" /\ x[1] = "inlet" /\ task'[x] = "running"
  \/ /\ x[1] = "outlet" /\ task[x] = "none" /\ task'[x] = "spawned"
     /\ pipe["outlet"] # <<>>
     /\ Head(pipe["outlet"]) \in Connect(x[2])
     /\ pipe'["outlet"] = Tail(pipe["outlet"])
  \/ task[x] = "spawned" /\ task'[x] = "running"
  \/ task[x] = "running" /\ task'[x] = "ending"
  \/ task[x] = "ending" /\ task'[x] = "closed"

(* Who may send what.                                                      *)
Sends(e, m) ==
  /\ m.type = "connect" =>
       /\ e = "outlet"
       /\ task[Inlet(m.sid)] = "none" /\ task'[Inlet(m.sid)] = "running"
  /\ m.type = "disconnect" => task'[Sender(e, m)] = "closed"
  /\ m.type = "refused" => e = "inlet" /\ (~ SlowSpawn => Over(Outlet(m.sid))')
  /\ m.type \in {"data", "ack"} => task[Sender(e, m)] = "running"

(* A step leaves a queue alone, takes its head or adds one message.        *)
Moves(e) ==
  \/ pipe'[e] = pipe[e]
  \/ pipe[e] # <<>> /\ pipe'[e] = Tail(pipe[e])
  \/ \E m \in Message : pipe'[e] = Append(pipe[e], m) /\ Sends(e, m)

(* Sending, receiving and replying move the queues in those ways.          *)
LEMMA SendMoves ==
  ASSUME TypeOK, NEW d \in Side, NEW m \in Message, Send(d, m), Sends(d, m)
  PROVE  \A e \in Side : Moves(e)
BY DEF TypeOK, Send, Moves

LEMMA ReceiveMoves ==
  ASSUME TypeOK, NEW d \in Side, pipe[d] # <<>>, Receive(d)
  PROVE  \A e \in Side : Moves(e)
BY DEF TypeOK, Receive, Moves

LEMMA ReplyMoves ==
  ASSUME TypeOK, NEW d \in Side, NEW m \in Message, pipe[d] # <<>>, Reply(d, m),
         Sends(Other(d), m)
  PROVE  \A e \in Side : Moves(e)
BY DEF TypeOK, Reply, Moves, Side, Other

(* A connect at the head of the queue is the only one of its session, and  *)
(* finds the inlet end accepted and no outlet end.                         *)
LEMMA ConnectAtHead ==
  ASSUME TypeOK, FirstWord, pipe["outlet"] # <<>>,
         NEW s \in Sessions, Head(pipe["outlet"]) \in Connect(s)
  PROVE  /\ task[Inlet(s)] # "none" /\ task[Outlet(s)] = "none"
         /\ ~ Has(Tail(pipe["outlet"]), Connect(s))
<1>1. pipe["outlet"] \in Seq(Message)
  BY DEF TypeOK, Side
<1>2. Has(pipe["outlet"], Connect(s))
  BY <1>1, HasTail
<1>3. /\ NeverAfter(pipe["outlet"], Connect(s) \cup Data(s), Connect(s))
      /\ Head(pipe["outlet"]) \in Connect(s) \cup Data(s)
  BY DEF FirstWord
<1> QED
  BY <1>1, <1>2, <1>3, NeverAfterTail DEF FirstWord

(* Every step of the tunnel moves the queues and the tasks in these ways.  *)
LEMMA StepMoves ==
  ASSUME TypeOK, Life, FirstWord, Loop, [Next]_vars
  PROVE  /\ \A e \in Side : Moves(e)
         /\ \A x \in Ends : Goes(x)
         /\ Life'
<1> DEFINE Good == /\ \A e \in Side : Moves(e)
                   /\ \A x \in Ends : Goes(x)
                   /\ Life'
<1> USE DEF taskVars, readerVars, writerVars
<1>0. "inlet" \in Side /\ "outlet" \in Side
  BY DEF Side
<1>1. ASSUME NEW s \in Sessions, Accept(s) PROVE Good
  <2>1. Msg("connect", s) \in Message /\ Inlet(s) \in Ends
    BY MessageFacts, NamedEnds DEF MessageType
  <2>2. Sends("outlet", Msg("connect", s))
    BY <1>1, <2>1 DEF Accept, Sends, Msg, TypeOK
  <2>3. \A e \in Side : Moves(e)
    BY <1>0, <1>1, <2>1, <2>2, SendMoves DEF Accept
  <2>4. \A x \in Ends : Goes(x)
    <3>1. Inlet(s)[1] = "inlet"
      BY DEF Inlet
    <3> QED
      BY <1>1, <2>1, <3>1 DEF Accept, Goes, TypeOK
  <2>5. Life'
    BY <1>1, <2>1 DEF Accept, Life, TypeOK
  <2> QED
    BY <2>3, <2>4, <2>5
<1>2. ASSUME NEW ok \in BOOLEAN, OnI2oConnect(ok) PROVE Good
  <2> DEFINE x == IncomingEnd("outlet")
  <2>0. PICK s \in Sessions : Head(pipe["outlet"]).sid = s
    BY <1>0, <1>2, IncomingFacts DEF OnI2oConnect, Incoming
  <2>1. /\ x = Outlet(s) /\ x[2] = s /\ pipe["outlet"] # <<>>
        /\ Head(pipe["outlet"]) \in Message /\ Head(pipe["outlet"]).type = "connect"
    BY <1>0, <1>2, <2>0, IncomingFacts DEF OnI2oConnect, Incoming, IncomingEnd, Outlet
  <2>2. Head(pipe["outlet"]) \in Connect(s)
    BY <2>0, <2>1, WordFacts DEF Connect
  <2>3. /\ task[Inlet(s)] # "none" /\ task[Outlet(s)] = "none"
        /\ ~ Has(Tail(pipe["outlet"]), Connect(s))
    BY <2>1, <2>2, ConnectAtHead
  <2>4. Outlet(s) \in Ends /\ Outlet(s)[1] = "outlet" /\ Outlet(s)[2] = s
        /\ Inlet(s) # Outlet(s)
    BY NamedFacts
  <2>5. CASE ok /\ x \notin registered
    <3>1. task' = [task EXCEPT ![x] = "spawned"] /\ Receive("outlet")
          /\ UNCHANGED <<reader, acking, nread, endedBy>>
      BY <1>2, <2>5 DEF OnI2oConnect
    <3>2. \A e \in Side : Moves(e)
      BY <1>0, <2>1, <3>1, ReceiveMoves
    <3>3. pipe'["outlet"] = Tail(pipe["outlet"])
      BY <1>0, <3>1 DEF Receive, TypeOK
    <3>4. \A y \in Ends : Goes(y)
      BY <2>1, <2>2, <2>3, <2>4, <3>1, <3>3 DEF Goes, TypeOK
    <3>5. Life'
      BY <2>1, <2>3, <2>4, <3>1 DEF Life, TypeOK
    <3> QED
      BY <3>2, <3>4, <3>5
  <2>6. CASE ~ (ok /\ x \notin registered)
    <3> DEFINE m == Msg("refused", s)
    <3>1. Reply("outlet", m) /\ UNCHANGED <<task, reader, acking, nread, endedBy>>
      BY <1>2, <2>1, <2>6 DEF OnI2oConnect
    <3>2. m \in Message /\ m.type = "refused" /\ m.sid = s
      BY <2>1, MessageFacts DEF MessageType, Msg
    <3>3. pipe'["outlet"] = Tail(pipe["outlet"])
      BY <1>0, <3>1 DEF Reply, TypeOK, Other
    <3>4. Over(Outlet(s))'
      BY <2>3, <2>4, <3>1, <3>3 DEF Over
    <3>5. Sends(Other("outlet"), m)
      BY <3>2, <3>4 DEF Sends, Other
    <3> HIDE DEF m
    <3>6. \A e \in Side : Moves(e)
      BY <1>0, <2>1, <3>1, <3>2, <3>5, ReplyMoves
    <3> QED
      BY <3>1, <3>6 DEF Goes, Life
  <2> QED
    BY <2>5, <2>6
<1>3. ASSUME NEW s \in Sessions, OutletSessionStart(s) PROVE Good
  <2>1. Msg("connected", s) \in Message /\ Outlet(s) \in Ends
    BY MessageFacts, NamedEnds DEF MessageType
  <2>2. Sends("inlet", Msg("connected", s))
    BY DEF Sends, Msg
  <2>3. \A e \in Side : Moves(e)
    BY <1>0, <1>3, <2>1, <2>2, SendMoves DEF OutletSessionStart
  <2>4. \A x \in Ends : Goes(x)
    BY <1>3, <2>1 DEF OutletSessionStart, Goes, TypeOK
  <2>5. Life'
    BY <1>3, <2>1 DEF OutletSessionStart, Life, TypeOK
  <2> QED
    BY <2>3, <2>4, <2>5
<1>4. ASSUME ConnectDone \/ ConnectTimeout PROVE Good
  <2>1. UNCHANGED <<task, reader, acking, nread, endedBy>>
    BY <1>4 DEF ConnectDone, ConnectTimeout
  <2>2. PICK s \in Sessions : connecting = s
    BY <1>4 DEF ConnectDone, ConnectTimeout, TypeOK
  <2>3. PICK type \in {"connected", "refused"} :
          /\ Send("inlet", Msg(type, s))
          /\ type = "refused" => ConnectTimeout
    BY <1>4, <2>2 DEF ConnectDone, ConnectTimeout
  <2> DEFINE m == Msg(type, s)
  <2>4. m \in Message /\ m.type = type /\ m.sid = s
    BY MessageFacts DEF MessageType, Msg
  <2>5. ASSUME ConnectTimeout, ~ SlowSpawn PROVE Over(Outlet(s))'
    <3>1. task[Outlet(s)] \in {"ending", "closed"}
      BY <2>2, <2>5, NamedFacts DEF ConnectTimeout, Loop, TypeOK
    <3> QED
      BY <2>1, <3>1 DEF Over
  <2>6. Sends("inlet", m)
    <3> HIDE DEF m
    <3> QED
      BY <2>3, <2>4, <2>5 DEF Sends
  <2>7. \A e \in Side : Moves(e)
    <3> HIDE DEF m
    <3> QED
      BY <1>0, <2>3, <2>4, <2>6, SendMoves DEF m
  <2> QED
    BY <2>1, <2>7 DEF Goes, Life
<1>5. ASSUME NEW d \in Side, pipe[d] # <<>>, Receive(d),
             UNCHANGED <<task, reader, acking, nread, endedBy>>
      PROVE  Good
  <2>1. \A e \in Side : Moves(e)
    BY <1>5, ReceiveMoves
  <2> QED
    BY <1>5, <2>1 DEF Goes, Life
<1>6. ASSUME RecvConnected \/ InletRecvClose \/ OnI2oDisconnect PROVE Good
  BY <1>0, <1>5, <1>6 DEF RecvConnected, InletRecvClose, OnI2oDisconnect, Incoming
<1>7. ASSUME NEW d \in Side, RecvData(d) \/ RecvAck(d) PROVE Good
  BY <1>5, <1>7, ZenonT(30) DEF RecvData, RecvAck, Incoming
<1>8. ASSUME NEW x \in Ends, NEW len \in ChunkLens, ReadFrame(x, len) PROVE Good
  BY <1>8 DEF ReadFrame, Moves, Goes, Life, TypeOK
<1>9. ASSUME NEW x \in Ends, EncodeDataAndLimiting(x) PROVE Good
  BY <1>9 DEF EncodeDataAndLimiting, Moves, Goes, Life, TypeOK
<1>10. ASSUME NEW x \in Ends, SendFrame(x) PROVE Good
  <2> DEFINE m == [type |-> "data", sid |-> x[2], n |-> nread[x], len |-> hand[x]]
  <2>1. m \in Message /\ Other(x[1]) \in Side /\ Sender(Other(x[1]), m) = x
    BY EndsFacts DEF TypeOK, Message, MessageType, Sender
  <2>2. task[x] = "running"
    BY <1>10 DEF SendFrame, Life
  <2>3. Sends(Other(x[1]), m)
    BY <2>1, <2>2 DEF Sends
  <2>4. \A e \in Side : Moves(e)
    BY <1>10, <2>1, <2>3, SendMoves, ZenonT(30) DEF SendFrame
  <2>5. Life'
    BY <1>10, <2>2 DEF SendFrame, Life, TypeOK
  <2>6. \A y \in Ends : Goes(y)
    BY <1>10 DEF SendFrame, Goes
  <2> QED
    BY <2>4, <2>5, <2>6
<1>11. ASSUME NEW x \in Ends, WriteFrame(x) \/ FlushError(x) PROVE Good
  <2>1. task[x] = "running" /\ UNCHANGED <<task, reader, pipe, nread, endedBy>>
    BY <1>11 DEF WriteFrame, FlushError, WriterAt
  <2>2. \A y \in Ends : y # x => acking'[y] = acking[y]
    BY <1>11 DEF WriteFrame, FlushError, TypeOK
  <2> QED
    BY <2>1, <2>2 DEF Moves, Goes, Life
<1>12. ASSUME NEW x \in Ends, Callback(x) PROVE Good
  <2> DEFINE m == [type |-> "ack", sid |-> x[2], n |-> 0, len |-> acking[x]]
  <2>1. m \in Message /\ Other(x[1]) \in Side /\ Sender(Other(x[1]), m) = x
    BY EndsFacts DEF TypeOK, Message, MessageType, Sender
  <2>2. task[x] = "running"
    BY <1>12 DEF Callback, Life
  <2>3. Sends(Other(x[1]), m)
    BY <2>1, <2>2 DEF Sends
  <2>4. \A e \in Side : Moves(e)
    BY <1>12, <2>1, <2>3, SendMoves DEF Callback
  <2>5. Life'
    BY <1>12, <2>2 DEF Callback, Life, TypeOK
  <2>6. \A y \in Ends : Goes(y)
    BY <1>12 DEF Callback, Goes
  <2> QED
    BY <2>4, <2>5, <2>6
<1>13. ASSUME NEW x \in Ends, ReadEof(x) \/ WriteError(x) \/ WriterClose(x)
       PROVE  Good
  <2>1. PICK why \in {"eof", "write_error", "close"} : SelectReturns(x, why)
    BY <1>13 DEF ReadEof, WriteError, WriterClose
  <2>2. task[x] = "running"
    BY <1>13 DEF ReadEof, WriteError, WriterClose, WriterAt
  <2> QED
    BY <2>1, <2>2 DEF SelectReturns, Moves, Goes, Life, TypeOK
<1>14. ASSUME NEW x \in Ends, OnSessionClose(x) PROVE Good
  <2> DEFINE m == Msg("disconnect", x[2])
  <2>1. /\ m \in Message /\ Other(x[1]) \in Side /\ Sender(Other(x[1]), m) = x
        /\ m.type = "disconnect"
    BY EndsFacts, MessageFacts DEF MessageType, Msg, Sender
  <2>2. Sends(Other(x[1]), m)
    BY <1>14, <2>1 DEF Sends, OnSessionClose, TypeOK
  <2>3. \A e \in Side : Moves(e)
    BY <1>14, <2>1, <2>2, SendMoves DEF OnSessionClose
  <2>4. Life'
    BY <1>14 DEF OnSessionClose, Life, TypeOK
  <2>5. \A y \in Ends : Goes(y)
    BY <1>14 DEF OnSessionClose, Goes, TypeOK
  <2> QED
    BY <2>3, <2>4, <2>5
<1>15. ASSUME UNCHANGED vars PROVE Good
  BY <1>15 DEF vars, Moves, Goes, Life
<1> QED
  BY <1>0, <1>1, <1>2, <1>3, <1>4, <1>6, <1>7, <1>8, <1>9, <1>10, <1>11,
     <1>12, <1>13, <1>14, <1>15
  DEF Next, InletInput, OutletInput, InputLoop, Writer

-----------------------------------------------------------------------------
(* What follows from the moves alone.                                      *)

(* Data in the pipe comes from an end that has run.                        *)
LEMMA DataHasSender ==
  ASSUME TypeOK, Life, Order, NEW y \in Ends,
         task[Peer(y)] \in {"none", "spawned"}
  PROVE  Piped(y) = {} /\ ~ Has(pipe[y[1]], Data(y[2]))
<1>1. Piped(y) \subseteq 1 .. Sent(Peer(y))
  BY DEF Order
<1>2. Sent(Peer(y)) = 0
  BY EndsFacts DEF Life, Sent
<1>3. Piped(y) = {}
  BY <1>1, <1>2
<1> QED
  BY <1>3, NoNumbers DEF Piped

(* FirstWord is inductive: a connect is sent when the inlet end is         *)
(* accepted, which happens once, and is taken when the outlet end appears. *)
LEMMA FirstWordStep ==
  ASSUME TypeOK, Life, Order, FirstWord,
         \A e \in Side : Moves(e), \A x \in Ends : Goes(x)
  PROVE  FirstWord'
<1> SUFFICES ASSUME NEW s \in Sessions
             PROVE  /\ Has(pipe'["outlet"], Connect(s)) =>
                         task'[Inlet(s)] # "none" /\ task'[Outlet(s)] = "none"
                    /\ NeverAfter(pipe'["outlet"], Connect(s) \cup Data(s), Connect(s))
                    /\ task'[Inlet(s)] = "none" => task'[Outlet(s)] = "none"
  BY ZenonT(30) DEF FirstWord, Inlet, Outlet, Connect, Data, Words
<1> DEFINE q == pipe["outlet"]
           A == Connect(s) \cup Data(s)
<1>0. /\ q \in Seq(Message) /\ Goes(Inlet(s)) /\ Goes(Outlet(s)) /\ Moves("outlet")
      /\ Inlet(s)[1] = "inlet" /\ Outlet(s)[1] = "outlet" /\ Outlet(s)[2] = s
      /\ "outlet" \in Side
  BY NamedFacts DEF TypeOK, Side
<1>1. /\ Has(q, Connect(s)) => task[Inlet(s)] # "none" /\ task[Outlet(s)] = "none"
      /\ NeverAfter(q, A, Connect(s))
      /\ task[Inlet(s)] = "none" => task[Outlet(s)] = "none"
  BY DEF FirstWord
<1>2. task[Inlet(s)] # "none" => task'[Inlet(s)] # "none"
  BY <1>0 DEF Goes
<1>3. ASSUME task[Outlet(s)] = "none", task'[Outlet(s)] # "none"
      PROVE  /\ q # <<>> /\ Head(q) \in Connect(s) /\ pipe'["outlet"] = Tail(q)
             /\ Has(q, Connect(s)) /\ ~ Has(Tail(q), Connect(s))
  <2>1. q # <<>> /\ Head(q) \in Connect(s) /\ pipe'["outlet"] = Tail(q)
    BY <1>0, <1>3 DEF Goes
  <2> QED
    BY <1>0, <2>1, ConnectAtHead, HasTail
<1>4. task'[Inlet(s)] = "none" => task'[Outlet(s)] = "none"
  BY <1>1, <1>2, <1>3
<1>5. CASE pipe'["outlet"] = q
  <2>1. ~ (task[Outlet(s)] = "none" /\ task'[Outlet(s)] # "none")
    BY <1>3, <1>5
  <2> QED
    BY <1>1, <1>2, <1>4, <1>5, <2>1
<1>6. CASE q # <<>> /\ pipe'["outlet"] = Tail(q)
  <2>1. NeverAfter(Tail(q), A, Connect(s))
    BY <1>0, <1>1, <1>6, NeverAfterTail
  <2>2. Has(Tail(q), Connect(s)) => Has(q, Connect(s))
    BY <1>0, <1>6, HasTail
  <2> QED
    BY <1>1, <1>2, <1>3, <1>4, <1>6, <2>1, <2>2
<1>7. ASSUME NEW m \in Message, pipe'["outlet"] = Append(q, m), Sends("outlet", m)
      PROVE  /\ Has(pipe'["outlet"], Connect(s)) =>
                  task'[Inlet(s)] # "none" /\ task'[Outlet(s)] = "none"
             /\ NeverAfter(pipe'["outlet"], A, Connect(s))
  <2>1. Len(Append(q, m)) # Len(Tail(q)) \/ q = <<>>
    BY <1>0, AppendFacts, HeadTailFacts, LenFacts
  <2>2. ~ (task[Outlet(s)] = "none" /\ task'[Outlet(s)] # "none")
    BY <1>3, <1>7, <2>1
  <2>3. CASE m \notin Connect(s)
    <3>1. Has(Append(q, m), Connect(s)) <=> Has(q, Connect(s))
      BY <1>0, <2>3, HasAppend
    <3>2. NeverAfter(Append(q, m), A, Connect(s))
      BY <1>0, <1>1, <2>3, NeverAfterAppend
    <3> QED
      BY <1>1, <1>2, <1>7, <2>2, <3>1, <3>2
  <2>4. CASE m \in Connect(s)
    <3>1. task[Inlet(s)] = "none" /\ task'[Inlet(s)] = "running"
      <4>1. m.type = "connect" /\ m.sid = s
        BY <2>4 DEF Connect, Words
      <4> QED
        BY <1>7, <4>1, ZenonT(30) DEF Sends
    <3>2. ~ Has(q, Connect(s)) /\ task[Outlet(s)] = "none"
      BY <1>1, <3>1
    <3>3. ~ Has(q, Data(s))
      BY <3>1, DataHasSender, NamedFacts
    <3>4. ~ Has(q, A)
      BY <3>2, <3>3 DEF Has
    <3>5. NeverAfter(Append(q, m), A, Connect(s))
      BY <1>0, <1>1, <3>4, NeverAfterAppend
    <3> QED
      BY <1>7, <2>2, <3>1, <3>2, <3>5
  <2> QED
    BY <2>3, <2>4
<1> QED
  BY <1>0, <1>4, <1>5, <1>6, <1>7, ZenonT(30) DEF Moves

(* An end that is over stays over.                                         *)
LEMMA OverStays ==
  ASSUME TypeOK, FirstWord, \A e \in Side : Moves(e), \A x \in Ends : Goes(x),
         NEW x \in Ends, Over(x)
  PROVE  Over(x)' /\ task[x] # "running" /\ task[x] # "spawned"
<1> DEFINE s == x[2]
           q == pipe["outlet"]
<1>0. q \in Seq(Message) /\ s \in Sessions /\ Inlet(s) \in Ends /\ Goes(Inlet(s))
      /\ Goes(x) /\ Moves("outlet") /\ (x[1] = "inlet" => x = Inlet(s))
  BY NamedFacts, EndNames DEF TypeOK, Side
<1>1. CASE task[x] \in {"ending", "closed"}
  BY <1>0, <1>1 DEF Over, Goes
<1>2. CASE /\ task[x] = "none" /\ task[Inlet(s)] # "none" /\ ~ Has(q, Connect(s))
  <2>1. task'[Inlet(s)] # "none"
    BY <1>0, <1>2, ZenonT(30) DEF Goes
  <2>2. task'[x] = "none"
    <3>1. ~ (q # <<>> /\ Head(q) \in Connect(s))
      BY <1>0, <1>2, HasTail
    <3>2. x[1] # "inlet"
      BY <1>0, <1>2
    <3> QED
      BY <1>0, <1>2, <3>1, <3>2, ZenonT(30) DEF Goes
  <2>3. ~ Has(pipe'["outlet"], Connect(s))
    <3>1. CASE pipe'["outlet"] = q
      BY <1>2, <3>1
    <3>2. CASE q # <<>> /\ pipe'["outlet"] = Tail(q)
      BY <1>0, <1>2, <3>2, HasTail
    <3>3. ASSUME NEW m \in Message, pipe'["outlet"] = Append(q, m),
                 Sends("outlet", m)
          PROVE  ~ Has(pipe'["outlet"], Connect(s))
      <4>1. m \notin Connect(s)
        <5>1. m \in Connect(s) => m.type = "connect" /\ m.sid = s
          BY DEF Connect, Words
        <5> QED
          BY <1>2, <3>3, <5>1, ZenonT(30) DEF Sends
      <4> QED
        BY <1>0, <1>2, <3>3, <4>1, HasAppend
    <3> QED
      BY <1>0, <3>1, <3>2, <3>3 DEF Moves
  <2> QED
    BY <1>2, <2>1, <2>2, <2>3, ZenonT(30) DEF Over
<1> QED
  BY <1>1, <1>2 DEF Over

(* Loop is inductive.                                                      *)
LEMMA LoopStep ==
  ASSUME TypeOK, FirstWord, Loop, [Next]_vars
  PROVE  Loop'
<1> USE DEF taskVars, readerVars, writerVars
<1>0. /\ NoSession \notin Sessions /\ SlowSpawn \in BOOLEAN
      /\ connecting \in Sessions \cup {NoSession} /\ registered \subseteq Ends
  BY ConstantsAssumption DEF TypeOK
<1>a. \A s, u \in Sessions :
        /\ Outlet(s) \in Ends /\ Inlet(s) \in Ends /\ Inlet(u) # Outlet(s)
        /\ Outlet(u) = Outlet(s) => u = s
  BY NamedFacts
<1>1. ASSUME NEW s \in Sessions, Accept(s) PROVE Loop'
  <2>1. \A x \in Ends : task'[x] = IF x = Inlet(s) THEN "running" ELSE task[x]
    BY <1>1 DEF Accept, TypeOK
  <2>2. registered' = registered \cup {Inlet(s)} /\ connecting' = connecting
    BY <1>1 DEF Accept
  <2> QED
    BY <1>0, <1>a, <2>1, <2>2 DEF Loop
<1>2. ASSUME NEW ok \in BOOLEAN, OnI2oConnect(ok) PROVE Loop'
  <2>1. PICK s \in Sessions : Head(pipe["outlet"]).sid = s
    BY <1>2, IncomingFacts, ZenonT(30) DEF OnI2oConnect, Incoming, Side
  <2>2. /\ connecting = NoSession /\ registered' = registered
        /\ pipe["outlet"] # <<>> /\ Head(pipe["outlet"]).type = "connect"
        /\ IncomingEnd("outlet") = Outlet(s)
    BY <1>2, <2>1 DEF OnI2oConnect, Incoming, IncomingEnd, Outlet
  <2>3. CASE task' = [task EXCEPT ![Outlet(s)] = "spawned"] /\ connecting' = s
    <3>1. \A x \in Ends : task'[x] = IF x = Outlet(s) THEN "spawned" ELSE task[x]
      BY <2>3 DEF TypeOK
    <3>2. task[Outlet(s)] = "none"
      <4>1. Head(pipe["outlet"]) \in Connect(s)
        BY <2>1, <2>2, IncomingFacts, WordFacts DEF Connect, Side
      <4> QED
        BY <2>2, <4>1, ConnectAtHead
    <3> QED
      BY <1>0, <1>a, <2>2, <2>3, <3>1, <3>2 DEF Loop
  <2>4. CASE UNCHANGED <<task, connecting>>
    BY <2>2, <2>4 DEF Loop, Outlet
  <2>5. Outlet(s)[2] = s
    BY DEF Outlet
  <2> QED
    BY <1>2, <2>2, <2>3, <2>4, <2>5, ZenonT(30) DEF OnI2oConnect
<1>3. ASSUME NEW s \in Sessions, OutletSessionStart(s) PROVE Loop'
  <2>1. \A x \in Ends : task'[x] = IF x = Outlet(s) THEN "running" ELSE task[x]
    BY <1>3 DEF OutletSessionStart, TypeOK
  <2>2. registered' = registered \cup {Outlet(s)} /\ connecting' = connecting
    BY <1>3 DEF OutletSessionStart
  <2> QED
    BY <1>0, <1>a, <2>1, <2>2 DEF Loop
<1>4. ASSUME ConnectDone \/ ConnectTimeout PROVE Loop'
  <2>1. PICK s \in Sessions : connecting = s
    BY <1>4 DEF ConnectDone, ConnectTimeout, TypeOK
  <2>2. connecting' = NoSession /\ UNCHANGED <<task, registered>>
    BY <1>4 DEF ConnectDone, ConnectTimeout
  <2>3. ~ SlowSpawn => task[Outlet(s)] # "spawned"
    BY <1>4, <2>1 DEF ConnectTimeout, ConnectDone, Loop
  <2> QED
    BY <1>0, <2>1, <2>2, <2>3 DEF Loop
<1>5. ASSUME OnI2oDisconnect PROVE Loop'
  <2>1. /\ connecting = NoSession /\ UNCHANGED <<task, connecting>>
        /\ registered' \subseteq registered
    BY <1>5 DEF OnI2oDisconnect, Incoming
  <2> QED
    BY <1>0, <2>1 DEF Loop
<1>6. ASSUME NEW x \in Ends, ReadEof(x) \/ WriteError(x) \/ WriterClose(x)
      PROVE  Loop'
  <2>1. task' = [task EXCEPT ![x] = "ending"] /\ UNCHANGED <<connecting, registered>>
    BY <1>6 DEF ReadEof, WriteError, WriterClose, SelectReturns
  <2>2. \A y \in Ends : task'[y] = IF y = x THEN "ending" ELSE task[y]
    BY <2>1 DEF TypeOK
  <2> QED
    BY <1>0, <1>a, <2>1, <2>2 DEF Loop
<1>7. ASSUME NEW x \in Ends, OnSessionClose(x) PROVE Loop'
  <2>1. \A y \in Ends : task'[y] = IF y = x THEN "closed" ELSE task[y]
    BY <1>7 DEF OnSessionClose, TypeOK
  <2>2. registered' = registered \ {x} /\ connecting' = connecting
    BY <1>7 DEF OnSessionClose
  <2> QED
    BY <1>0, <1>a, <2>1, <2>2 DEF Loop
<1>8. CASE UNCHANGED taskVars
  BY <1>8 DEF Loop, Outlet
<1>9. ASSUME NEW x \in Ends,
             \/ \E len \in ChunkLens : ReadFrame(x, len)
             \/ EncodeDataAndLimiting(x) \/ SendFrame(x) \/ WriteFrame(x)
             \/ FlushError(x) \/ Callback(x)
      PROVE  UNCHANGED taskVars
  BY <1>9, ZenonT(30) DEF ReadFrame, EncodeDataAndLimiting, SendFrame, WriteFrame, FlushError,
              Callback
<1>10. ASSUME NEW e \in Side, RecvData(e) \/ RecvAck(e) PROVE UNCHANGED taskVars
  BY <1>10 DEF RecvData, RecvAck
<1>11. ASSUME RecvConnected \/ InletRecvClose \/ UNCHANGED vars
       PROVE  UNCHANGED taskVars
  BY <1>11 DEF RecvConnected, InletRecvClose, vars
<1> QED
  BY <1>1, <1>2, <1>3, <1>4, <1>5, <1>6, <1>7, <1>8, <1>9, <1>10, <1>11
  DEF Next, InletInput, OutletInput, InputLoop, Writer, Side

-----------------------------------------------------------------------------
(* What a step may do to the stream into an end.                           *)

(* Another message goes by, or none.                                       *)
LaneRests(y) ==
  /\ writeq'[y] = writeq[y] /\ delivered'[y] = delivered[y]
  /\ Sent(Peer(y))' = Sent(Peer(y))
  /\ endedBy'[y] = endedBy[y] /\ endedBy'[Peer(y)] = endedBy[Peer(y)]
  /\ \/ pipe'[y[1]] = pipe[y[1]]
     \/ /\ pipe[y[1]] # <<>> /\ pipe'[y[1]] = Tail(pipe[y[1]])
        /\ Head(pipe[y[1]]) \notin Data(y[2])
     \/ \E m \in Message \ Data(y[2]) : pipe'[y[1]] = Append(pipe[y[1]], m)

(* The peer sends the next frame.                                          *)
LaneSends(y) ==
  /\ task[Peer(y)] = "running"
  /\ Sent(Peer(y))' = Sent(Peer(y)) + 1
  /\ \E m \in Message :
       /\ m \in Data(y[2]) /\ m.n = Sent(Peer(y)) + 1
       /\ pipe'[y[1]] = Append(pipe[y[1]], m)
  /\ writeq'[y] = writeq[y] /\ delivered'[y] = delivered[y]
  /\ endedBy'[y] = endedBy[y] /\ endedBy'[Peer(y)] = endedBy[Peer(y)]

(* The head of the pipe is a message of the stream of one of these kinds.  *)
LaneHead(y, A) ==
  /\ pipe[y[1]] # <<>> /\ Head(pipe[y[1]]) \in A
  /\ pipe'[y[1]] = Tail(pipe[y[1]])
  /\ y[1] = "outlet" => connecting = NoSession
  /\ delivered'[y] = delivered[y]
  /\ Sent(Peer(y))' = Sent(Peer(y))
  /\ endedBy'[y] = endedBy[y] /\ endedBy'[Peer(y)] = endedBy[Peer(y)]

(* A frame is handed to the writer, or dropped; a close is handed to it.   *)
LaneTakes(y) ==
  /\ LaneHead(y, Data(y[2])) /\ task[y] = "running"
  /\ writeq'[y] = Append(writeq[y], SendAndThen(Head(pipe[y[1]])))
LaneMisses(y) ==
  /\ LaneHead(y, Data(y[2])) /\ (task[y] # "running" \/ y \notin registered)
  /\ writeq'[y] = writeq[y]
LaneCloses(y) ==
  /\ LaneHead(y, Closing(y[2]))
  /\ writeq'[y] = Append(writeq[y], CloseWriter)

(* The writer takes a frame, writes it or fails to.                        *)
LaneWriter(y) ==
  /\ task[y] = "running" /\ task' = task
  /\ writeq[y] # <<>> /\ Head(writeq[y]) \in Frames
  /\ writeq'[y] = Tail(writeq[y])
  /\ pipe' = pipe
  /\ Sent(Peer(y))' = Sent(Peer(y))
  /\ endedBy'[y] = endedBy[y] /\ endedBy'[Peer(y)] = endedBy[Peer(y)]
LaneWrites(y) ==
  /\ LaneWriter(y) /\ y \notin broken
  /\ delivered'[y] = Append(delivered[y], Head(writeq[y]).n)
LaneFails(y) ==
  LaneWriter(y) /\ y \in broken' /\ delivered'[y] = delivered[y]

(* The end, or its peer, leaves its select!.                               *)
LaneEnds(y) ==
  /\ task[y] = "running" /\ task'[y] = "ending"
  /\ endedBy'[y] = "close" => writeq[y] # <<>> /\ Head(writeq[y]) \in Closes
  /\ endedBy'[Peer(y)] = endedBy[Peer(y)]
  /\ writeq'[y] = <<>> /\ delivered'[y] = delivered[y]
  /\ pipe' = pipe /\ Sent(Peer(y))' = Sent(Peer(y))
LaneLeft(y) ==
  /\ task[Peer(y)] = "running" /\ task'[Peer(y)] = "ending"
  /\ endedBy'[y] = endedBy[y]
  /\ Sent(Peer(y))' \in {Sent(Peer(y)), Sent(Peer(y)) + 1}
  /\ endedBy'[Peer(y)] = "eof" => Sent(Peer(y))' = Sent(Peer(y))
  /\ writeq'[y] = writeq[y] /\ delivered'[y] = delivered[y]
  /\ pipe' = pipe

Lane(y) ==
  \/ LaneRests(y) \/ LaneSends(y) \/ LaneTakes(y) \/ LaneMisses(y)
  \/ LaneCloses(y) \/ LaneWrites(y) \/ LaneFails(y) \/ LaneEnds(y)
  \/ LaneLeft(y)

(* A message that is not data of a session does nothing to its stream.     *)
LEMMA ControlRests ==
  ASSUME TypeOK, NEW d \in Side, NEW m \in Message, m.type # "data",
         Send(d, m), UNCHANGED <<reader, nread, writeq, delivered, endedBy>>,
         NEW y \in Ends
  PROVE  LaneRests(y)
<1>1. m \in Message \ Data(y[2])
  BY WordFacts DEF Data
<1>2. pipe'[y[1]] = pipe[y[1]] \/ pipe'[y[1]] = Append(pipe[y[1]], m)
  BY EndsFacts DEF Send, TypeOK
<1> QED
  BY <1>1, <1>2 DEF LaneRests, Sent
LEMMA ReceiveRests ==
  ASSUME TypeOK, NEW d \in Side, pipe[d] # <<>>, Receive(d), NEW y \in Ends,
         y[1] = d => Head(pipe[d]) \notin Data(y[2]),
         UNCHANGED <<reader, nread, delivered, endedBy>>, writeq'[y] = writeq[y]
  PROVE  LaneRests(y)
<1>1. \/ pipe'[y[1]] = pipe[y[1]]
      \/ y[1] = d /\ pipe'[y[1]] = Tail(pipe[d])
  BY EndsFacts DEF Receive, TypeOK
<1> QED
  BY <1>1 DEF LaneRests, Sent

(* Every step of the tunnel is one of these for every stream.              *)
LEMMA LaneStep ==
  ASSUME TypeOK, Life, [Next]_vars, NEW y \in Ends
  PROVE  Lane(y) /\ (y \in broken => y \in broken')
<1> DEFINE x == Peer(y)
           Good == Lane(y) /\ (y \in broken => y \in broken')
<1> USE DEF taskVars, readerVars, writerVars
<1>0. /\ "inlet" \in Side /\ "outlet" \in Side
      /\ x \in Ends /\ x # y /\ Peer(x) = y /\ y[1] \in Side /\ y[2] \in Sessions
      /\ Other(x[1]) = y[1] /\ x[2] = y[2] /\ y = <<y[1], y[2]>>
  BY EndsFacts DEF Side
<1>msg. \A type \in MessageType, s \in Sessions :
          Msg(type, s) \in Message /\ Msg(type, s).type = type
  BY MessageFacts, ZenonT(30) DEF Msg
<1>1. ASSUME NEW d \in Side, NEW m \in Message, m.type # "data", Send(d, m),
             UNCHANGED <<reader, nread, writeq, delivered, endedBy, broken>>
      PROVE  Good
  BY <1>1, ControlRests DEF Lane
<1>2. ASSUME NEW s \in Sessions, Accept(s) \/ OutletSessionStart(s) PROVE Good
  BY <1>0, <1>1, <1>2, <1>msg DEF Accept, OutletSessionStart, MessageType
<1>3. ASSUME ConnectDone \/ ConnectTimeout PROVE Good
  <2>1. connecting \in Sessions
    BY <1>3 DEF ConnectDone, ConnectTimeout, TypeOK
  <2> QED
    BY <1>0, <1>1, <1>3, <1>msg, <2>1 DEF ConnectDone, ConnectTimeout, MessageType
<1>4. ASSUME NEW z \in Ends, OnSessionClose(z) PROVE Good
  BY <1>1, <1>4, <1>msg, EndsFacts DEF OnSessionClose, MessageType
<1>5. ASSUME NEW z \in Ends, Callback(z) PROVE Good
  <2> DEFINE m == [type |-> "ack", sid |-> z[2], n |-> 0, len |-> acking[z]]
  <2>1. m \in Message /\ m.type # "data" /\ Other(z[1]) \in Side
    BY EndsFacts DEF TypeOK, Message, MessageType
  <2>2. Send(Other(z[1]), m) /\ UNCHANGED <<reader, nread, writeq, delivered, endedBy, broken>>
    BY <1>5 DEF Callback
  <2> HIDE DEF m
  <2> QED
    BY <1>1, <2>1, <2>2
<1>6. ASSUME NEW ok \in BOOLEAN, OnI2oConnect(ok) PROVE Good
  <2>1. /\ pipe["outlet"] # <<>> /\ Head(pipe["outlet"]).type = "connect"
        /\ Head(pipe["outlet"]) \in Message
        /\ UNCHANGED <<reader, nread, writeq, delivered, endedBy, broken>>
    BY <1>0, <1>6, IncomingFacts DEF OnI2oConnect, Incoming
  <2>2. Head(pipe["outlet"]) \notin Data(y[2])
    BY <2>1, WordFacts DEF Data
  <2>3. CASE Receive("outlet")
    BY <1>0, <2>1, <2>2, <2>3, ReceiveRests DEF Lane
  <2>4. ASSUME NEW s \in Sessions, Reply("outlet", Msg("refused", s)) PROVE Good
    <3>1. /\ pipe'["outlet"] = Tail(pipe["outlet"])
          /\ pipe'["inlet"] = Append(pipe["inlet"], Msg("refused", s))
      BY <1>0, <2>4, SMTT(30) DEF Reply, Other, TypeOK, Side
    <3>2. Msg("refused", s) \in Message \ Data(y[2])
      BY <1>msg, WordFacts DEF MessageType, Data
    <3>3. y[1] = "inlet" \/ y[1] = "outlet"
      BY <1>0 DEF Side
    <3> QED
      BY <2>1, <2>2, <3>1, <3>2, <3>3, ZenonT(30) DEF Lane, LaneRests, Sent
  <2>5. IncomingEnd("outlet")[2] \in Sessions
    BY <1>0, <2>1, IncomingFacts
  <2> QED
    BY <1>6, <2>3, <2>4, <2>5 DEF OnI2oConnect
<1>7. ASSUME RecvConnected PROVE Good
  <2>1. /\ pipe["inlet"] # <<>> /\ Head(pipe["inlet"]).type = "connected"
        /\ Head(pipe["inlet"]) \in Message
    BY <1>0, <1>7, IncomingFacts DEF RecvConnected, Incoming
  <2>2. Head(pipe["inlet"]) \notin Data(y[2])
    BY <2>1, WordFacts DEF Data
  <2> QED
    BY <1>0, <1>7, <2>1, <2>2, ReceiveRests DEF Lane, RecvConnected
<1>8. ASSUME NEW d \in Side, RecvAck(d) PROVE Good
  <2>1. /\ pipe[d] # <<>> /\ Head(pipe[d]).type = "ack" /\ Head(pipe[d]) \in Message
    BY <1>8, IncomingFacts, ZenonT(30) DEF RecvAck, Incoming
  <2>2. Head(pipe[d]) \notin Data(y[2])
    BY <2>1, WordFacts DEF Data
  <2> QED
    BY <1>8, <2>1, <2>2, ReceiveRests, ZenonT(30) DEF Lane, RecvAck
<1>9. ASSUME NEW d \in Side, RecvData(d) PROVE Good
  <2> DEFINE h == Head(pipe[d])
             z == IncomingEnd(d)
  <2>1. /\ pipe[d] # <<>> /\ h.type = "data" /\ h \in Message
        /\ z \in Ends /\ z = <<d, h.sid>>
        /\ d = "outlet" => connecting = NoSession
    BY <1>9, IncomingFacts DEF RecvData, Incoming
  <2>2. Receive(d) /\ UNCHANGED <<reader, nread, delivered, endedBy, broken>>
    BY <1>9 DEF RecvData
  <2>3. \/ z \in registered /\ ToWriter(z, SendAndThen(h))
        \/ z \notin registered /\ UNCHANGED writeq
    BY <1>9 DEF RecvData
  <2>4. h \in Data(y[2]) <=> h.sid = y[2]
    BY <2>1, WordFacts DEF Data
  <2>5. CASE z # y
    <3>1. writeq'[y] = writeq[y]
      BY <2>1, <2>3, <2>5, ZenonT(30) DEF ToWriter, TypeOK
    <3>2. y[1] = d => h \notin Data(y[2])
      BY <1>0, <2>1, <2>4, <2>5
    <3> HIDE DEF h, z
    <3> QED
      BY <2>1, <2>2, <3>1, <3>2, ReceiveRests, ZenonT(30) DEF Lane, h
  <2>6. CASE z = y
    <3>1. y[1] = d /\ y[2] = h.sid
      BY <2>1, <2>6
    <3>2. pipe'[d] = Tail(pipe[d])
      BY <2>2 DEF Receive, TypeOK
    <3>3. LaneHead(y, Data(y[2]))
      BY <2>1, <2>2, <2>4, <3>1, <3>2 DEF LaneHead, Sent
    <3>4. \/ task[y] = "running" /\ writeq'[y] = Append(writeq[y], SendAndThen(h))
          \/ (task[y] # "running" \/ y \notin registered) /\ writeq'[y] = writeq[y]
      BY <2>1, <2>3, <2>6 DEF ToWriter, TypeOK
    <3>5. LaneTakes(y) \/ LaneMisses(y)
      BY <3>1, <3>3, <3>4 DEF LaneTakes, LaneMisses
    <3> QED
      BY <2>2, <3>5 DEF Lane
  <2> QED
    BY <2>5, <2>6
<1>10. ASSUME InletRecvClose \/ OnI2oDisconnect PROVE Good
  <2>1. PICK d \in Side :
          /\ pipe[d] # <<>> /\ Head(pipe[d]).type \in {"refused", "disconnect"}
          /\ d = "outlet" => connecting = NoSession
          /\ Receive(d)
          /\ ToWriter(IncomingEnd(d), CloseWriter) \/ UNCHANGED writeq
    BY <1>0, <1>10 DEF InletRecvClose, OnI2oDisconnect, Incoming
  <2>2. UNCHANGED <<reader, nread, delivered, endedBy, broken>>
    BY <1>10 DEF InletRecvClose, OnI2oDisconnect
  <2> DEFINE h == Head(pipe[d])
             z == IncomingEnd(d)
  <2>3. h \in Message /\ z \in Ends /\ z = <<d, h.sid>>
    BY <2>1, IncomingFacts
  <2>4. h \notin Data(y[2]) /\ (h \in Closing(y[2]) <=> h.sid = y[2])
    BY <2>1, <2>3, WordFacts DEF Data, Closing
  <2>5. CASE writeq'[y] = writeq[y]
    BY <2>1, <2>2, <2>4, <2>5, ReceiveRests, ZenonT(30) DEF Lane
  <2>6. CASE writeq'[y] # writeq[y]
    <3>1. z = y /\ writeq'[y] = Append(writeq[y], CloseWriter)
      BY <2>1, <2>3, <2>6, ZenonT(30) DEF ToWriter, TypeOK
    <3>2. y[1] = d /\ y[2] = h.sid
      BY <2>3, <3>1
    <3>3. pipe'[d] = Tail(pipe[d])
      BY <2>1 DEF Receive, TypeOK
    <3>4. LaneHead(y, Closing(y[2]))
      BY <2>1, <2>2, <2>4, <3>2, <3>3 DEF LaneHead, Sent
    <3> QED
      BY <2>2, <3>1, <3>4, ZenonT(30) DEF Lane, LaneCloses
  <2> QED
    BY <2>5, <2>6
<1>11. ASSUME NEW z \in Ends,
              (\E len \in ChunkLens : ReadFrame(z, len)) \/ EncodeDataAndLimiting(z)
       PROVE  Good
  <2>1. UNCHANGED <<pipe, writeq, delivered, endedBy, broken>>
    BY <1>11 DEF ReadFrame, EncodeDataAndLimiting
  <2>2. Sent(x)' = Sent(x)
    <3>1. CASE EncodeDataAndLimiting(z)
      BY <1>0, <3>1 DEF EncodeDataAndLimiting, Sent, TypeOK
    <3>2. ASSUME NEW len \in ChunkLens, ReadFrame(z, len) PROVE Sent(x)' = Sent(x)
      <4>1. /\ reader[z] = "idle" /\ reader'[z] = "limiting"
            /\ nread[z] \in Nat /\ nread'[z] = nread[z] + 1
            /\ \A u \in Ends : u # z => reader'[u] = reader[u] /\ nread'[u] = nread[u]
        BY <3>2 DEF ReadFrame, TypeOK
      <4>2. \A u \in Ends : Sent(u)' = Sent(u)
        BY <4>1 DEF Sent
      <4> QED
        BY <1>0, <4>2 DEF Sent
    <3> QED
      BY <1>11, <3>1, <3>2
  <2> QED
    BY <2>1, <2>2, ZenonT(30) DEF Lane, LaneRests
<1>12. ASSUME NEW z \in Ends, SendFrame(z) PROVE Good
  <2> DEFINE m == [type |-> "data", sid |-> z[2], n |-> nread[z], len |-> hand[z]]
  <2>1. /\ m \in Message /\ Other(z[1]) \in Side /\ m.n = nread[z]
        /\ z[2] = y[2] => m \in Data(y[2])
        /\ z[2] # y[2] => m \notin Data(y[2])
        /\ z = <<z[1], z[2]>>
    BY EndsFacts DEF TypeOK, Message, MessageType, Data, Words
  <2>2. /\ pipe' = [pipe EXCEPT ![Other(z[1])] = Append(@, m)]
        /\ reader[z] = "sending"
        /\ reader' = [reader EXCEPT ![z] = "idle"]
        /\ UNCHANGED <<nread, writeq, delivered, endedBy, broken>>
    BY <1>12, ZenonT(30) DEF SendFrame, Send
  <2> HIDE DEF m
  <2>3. CASE z = x
    <3>1. pipe'[y[1]] = Append(pipe[y[1]], m)
      BY <1>0, <2>1, <2>2, <2>3 DEF TypeOK
    <3>2. Sent(x) = nread[x] - 1 /\ Sent(x)' = nread[x] /\ nread[x] \in Nat
      BY <1>0, <2>2, <2>3 DEF Sent, TypeOK
    <3>3. task[x] = "running"
      BY <1>0, <2>2, <2>3 DEF Life
    <3>4. m.n = Sent(x) + 1 /\ Sent(x)' = Sent(x) + 1 /\ m \in Data(y[2])
      BY <1>0, <2>1, <2>3, <3>2
    <3> HIDE DEF x
    <3>5. LaneSends(y)
      BY <2>1, <2>2, <3>1, <3>3, <3>4 DEF LaneSends, x
    <3> QED
      BY <2>2, <3>5 DEF Lane
  <2>4. CASE z # x
    <3>1. Sent(x)' = Sent(x)
      BY <1>0, <2>2, <2>4 DEF Sent, TypeOK
    <3>2. \/ pipe'[y[1]] = pipe[y[1]]
          \/ Other(z[1]) = y[1] /\ pipe'[y[1]] = Append(pipe[y[1]], m)
      BY <1>0, <2>1, <2>2 DEF TypeOK
    <3>3. Other(z[1]) = y[1] => z[2] # y[2]
      <4>1. Other(z[1]) = y[1] => z[1] = x[1]
        BY <1>0, EndsFacts
      <4>2. x = <<x[1], x[2]>>
        BY <1>0, EndsFacts
      <4> HIDE DEF x
      <4> QED
        BY <1>0, <2>1, <2>4, <4>1, <4>2
    <3> QED
      BY <2>1, <2>2, <3>1, <3>2, <3>3 DEF Lane, LaneRests
  <2> QED
    BY <2>3, <2>4
<1>13. ASSUME NEW z \in Ends, WriteFrame(z) \/ FlushError(z) PROVE Good
  <2>1. /\ task[z] = "running" /\ writeq[z] # <<>> /\ ~ Head(writeq[z]).close
        /\ writeq' = [writeq EXCEPT ![z] = Tail(@)]
        /\ UNCHANGED <<task, pipe, reader, nread, endedBy>>
        /\ broken \subseteq broken'
    BY <1>13 DEF WriteFrame, FlushError, WriterAt
  <2>2. \/ /\ z \notin broken
           /\ delivered' = [delivered EXCEPT ![z] = Append(@, Head(writeq[z]).n)]
        \/ z \in broken' /\ UNCHANGED delivered
    BY <1>13, ZenonT(30) DEF WriteFrame, FlushError
  <2>3. Head(writeq[z]) \in Frames
    BY <2>1, WriterFacts, WordFacts
  <2>4. Sent(x)' = Sent(x)
    BY <2>1 DEF Sent
  <2>5. CASE z # y
    <3>1. writeq'[y] = writeq[y] /\ delivered'[y] = delivered[y]
      BY <2>1, <2>2, <2>5 DEF TypeOK
    <3> QED
      BY <2>1, <2>4, <3>1, ZenonT(30) DEF Lane, LaneRests
  <2>6. CASE z = y
    <3>1. writeq'[y] = Tail(writeq[y])
      BY <2>1, <2>6 DEF TypeOK
    <3>2. LaneWriter(y)
      BY <2>1, <2>3, <2>4, <2>6, <3>1 DEF LaneWriter
    <3>3. \/ y \notin broken /\ delivered'[y] = Append(delivered[y], Head(writeq[y]).n)
          \/ y \in broken' /\ delivered'[y] = delivered[y]
      BY <2>2, <2>6 DEF TypeOK
    <3> QED
      BY <2>1, <3>2, <3>3 DEF Lane, LaneWrites, LaneFails
  <2> QED
    BY <2>5, <2>6
<1>14. ASSUME NEW z \in Ends, ReadEof(z) \/ WriteError(z) \/ WriterClose(z)
       PROVE  Good
  <2>1. PICK why \in {"eof", "write_error", "close"} :
          /\ SelectReturns(z, why)
          /\ why = "eof" => reader[z] = "idle"
          /\ why = "close" => writeq[z] # <<>> /\ Head(writeq[z]).close
    BY <1>14 DEF ReadEof, WriteError, WriterClose, WriterAt
  <2>2. task[z] = "running"
    BY <1>14 DEF ReadEof, WriteError, WriterClose, WriterAt
  <2>3. /\ task'[z] = "ending" /\ writeq'[z] = <<>> /\ reader'[z] = "idle"
        /\ endedBy'[z] = why
        /\ \A u \in Ends : u # z =>
             /\ writeq'[u] = writeq[u] /\ reader'[u] = reader[u]
             /\ endedBy'[u] = endedBy[u]
        /\ UNCHANGED <<pipe, nread, delivered, broken>>
    BY <2>1 DEF SelectReturns, TypeOK
  <2>4. CASE z = y
    <3>1. Sent(x)' = Sent(x)
      BY <1>0, <2>3, <2>4 DEF Sent
    <3>2. why = "close" => writeq[y] # <<>> /\ Head(writeq[y]) \in Closes
      BY <2>1, <2>4, WriterFacts, WordFacts
    <3> QED
      BY <1>0, <2>2, <2>3, <2>4, <3>1, <3>2 DEF Lane, LaneEnds
  <2>5. CASE z = x
    <3>1. Sent(x)' = nread[x] /\ nread[x] \in Nat
      BY <1>0, <2>3, <2>5 DEF Sent, TypeOK
    <3>2. Sent(x)' \in {Sent(x), Sent(x) + 1}
      BY <3>1 DEF Sent
    <3>3. why = "eof" => Sent(x)' = Sent(x)
      BY <2>1, <2>5, <3>1 DEF Sent
    <3> QED
      BY <1>0, <2>2, <2>3, <2>5, <3>2, <3>3 DEF Lane, LaneLeft
  <2>6. CASE z # x /\ z # y
    <3>1. Sent(x)' = Sent(x)
      BY <1>0, <2>3, <2>6 DEF Sent
    <3> QED
      BY <1>0, <2>3, <2>6, <3>1 DEF Lane, LaneRests
  <2> QED
    BY <2>4, <2>5, <2>6
<1>15. ASSUME UNCHANGED vars PROVE Good
  BY <1>15, ZenonT(30) DEF vars, Lane, LaneRests, Sent
<1> QED
  BY <1>0, <1>2, <1>3, <1>4, <1>5, <1>6, <1>7, <1>8, <1>9, <1>10, <1>11, <1>12,
     <1>13, <1>14, <1>15
  DEF Next, InletInput, OutletInput, InputLoop, Writer
=============================================================================
