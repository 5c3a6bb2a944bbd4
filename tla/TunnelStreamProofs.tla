-------------------------- MODULE TunnelStreamProofs --------------------------
(* Proofs about the order, the completeness and the end of a session's     *)
(* streams, for any number of sessions, frames and lengths, and that the   *)
(* tunnel implements Stream.                                               *)
EXTENDS TunnelStream, TunnelProofs

-----------------------------------------------------------------------------
(* The same, by the numbers of the frames.                                 *)

FlowKeeps(y) ==
  Piped(y)' = Piped(y) /\ Waiting(y)' = Waiting(y) /\ delivered'[y] = delivered[y]
Flow(y) ==
  \/ /\ LaneRests(y) \/ LaneCloses(y)
     /\ FlowKeeps(y)
  \/ /\ LaneSends(y)
     /\ Piped(y)' = Piped(y) \cup {Sent(Peer(y)) + 1}
     /\ Waiting(y)' = Waiting(y) /\ delivered'[y] = delivered[y]
  \/ /\ LaneTakes(y)
     /\ \E n \in Piped(y) :
          /\ Piped(y)' = Piped(y) \ {n} /\ Waiting(y)' = Waiting(y) \cup {n}
          /\ \A k \in Piped(y)' : n < k
     /\ delivered'[y] = delivered[y]
  \/ /\ LaneMisses(y)
     /\ Piped(y) # {} /\ Piped(y)' \subseteq Piped(y) /\ Waiting(y)' = Waiting(y)
     /\ delivered'[y] = delivered[y]
  \/ /\ LaneWrites(y)
     /\ \E n \in Waiting(y) :
          /\ Waiting(y)' = Waiting(y) \ {n}
          /\ delivered'[y] = Append(delivered[y], n)
          /\ \A k \in Waiting(y)' : n < k
     /\ Piped(y)' = Piped(y)
  \/ /\ LaneFails(y)
     /\ Waiting(y)' \subseteq Waiting(y) /\ Piped(y)' = Piped(y)
     /\ delivered'[y] = delivered[y]
  \/ /\ LaneEnds(y)
     /\ Waiting(y)' = {} /\ Piped(y)' = Piped(y) /\ delivered'[y] = delivered[y]
  \/ LaneLeft(y) /\ FlowKeeps(y)

(* Every step is one of these, and keeps both queues of a stream in order. *)
LEMMA FlowStep ==
  ASSUME TypeOK, Life, Order, NEW y \in Ends, Lane(y)
  PROVE  /\ Flow(y)
         /\ Ascending(pipe'[y[1]], Data(y[2])) /\ Ascending(writeq'[y], Frames)
<1> DEFINE q == pipe[y[1]]
           w == writeq[y]
           Sorted == Ascending(pipe'[y[1]], Data(y[2])) /\ Ascending(writeq'[y], Frames)
<1>a. /\ q \in Seq(Message) /\ w \in Seq(WriterMessage)
      /\ Sent(Peer(y)) \in Nat
  BY EndsFacts, SentType DEF TypeOK
<1>b. (\A m \in Data(y[2]) : m.n \in Int) /\ (\A m \in Frames : m.n \in Int)
  BY WordFacts DEF Data
<1>c. /\ Ascending(q, Data(y[2])) /\ Ascending(w, Frames)
      /\ Before(Waiting(y), Piped(y))
      /\ Piped(y) \subseteq 1 .. Sent(Peer(y))
  BY ZenonT(30) DEF Order
<1>d. /\ Piped(y) = Numbers(q, Data(y[2])) /\ Waiting(y) = Numbers(w, Frames)
      /\ Piped(y)' = Numbers(pipe'[y[1]], Data(y[2]))
      /\ Waiting(y)' = Numbers(writeq'[y], Frames)
  BY DEF Piped, Waiting
<1>0. /\ q \in Seq(Message) /\ w \in Seq(WriterMessage)
      /\ Ascending(q, Data(y[2])) /\ Ascending(w, Frames)
      /\ Piped(y) = Numbers(q, Data(y[2])) /\ Waiting(y) = Numbers(w, Frames)
      /\ Piped(y)' = Numbers(pipe'[y[1]], Data(y[2]))
      /\ Waiting(y)' = Numbers(writeq'[y], Frames)
      /\ (\A m \in Data(y[2]) : m.n \in Int) /\ (\A m \in Frames : m.n \in Int)
      /\ Before(Waiting(y), Piped(y))
      /\ Piped(y) \subseteq 1 .. Sent(Peer(y))
      /\ Sent(Peer(y)) \in Nat
  BY <1>a, <1>b, <1>c, <1>d, ZenonT(30)
<1>1. CASE LaneRests(y)
  <2>1. writeq'[y] = w /\ delivered'[y] = delivered[y]
    BY <1>1 DEF LaneRests
  <2>2. CASE pipe'[y[1]] = q
    BY <1>0, <1>1, <2>1, <2>2, ZenonT(30) DEF Flow, FlowKeeps
  <2>3. CASE q # <<>> /\ pipe'[y[1]] = Tail(q) /\ Head(q) \notin Data(y[2])
    <3>1. /\ Ascending(Tail(q), Data(y[2]))
          /\ Numbers(Tail(q), Data(y[2])) = Numbers(q, Data(y[2]))
      BY <1>a, <1>b, <1>c, <2>3, NumbersTail
    <3> QED
      BY <1>0, <1>1, <2>1, <2>3, <3>1, ZenonT(30) DEF Flow, FlowKeeps
  <2>4. ASSUME NEW m \in Message \ Data(y[2]), pipe'[y[1]] = Append(q, m)
        PROVE  Flow(y) /\ Sorted
    <3>1. Numbers(Append(q, m), Data(y[2])) = Numbers(q, Data(y[2])) \cup {}
      BY <1>a, NumbersAppend, ZenonT(30)
    <3>2. Ascending(Append(q, m), Data(y[2]))
      BY <1>a, <1>c, AscendingAppend
    <3> QED
      BY <1>0, <1>1, <2>1, <2>4, <3>1, <3>2, ZenonT(30) DEF Flow, FlowKeeps
  <2> QED
    BY <1>1, <2>2, <2>3, <2>4, ZenonT(30) DEF LaneRests
<1>2. CASE LaneSends(y)
  <2>1. writeq'[y] = w /\ delivered'[y] = delivered[y]
    BY <1>2, ZenonT(30) DEF LaneSends
  <2>2. PICK m \in Message :
          m \in Data(y[2]) /\ m.n = Sent(Peer(y)) + 1 /\ pipe'[y[1]] = Append(q, m)
    BY <1>2 DEF LaneSends
  <2>3. \A k \in Numbers(q, Data(y[2])) : k < m.n
    <3>1. Numbers(q, Data(y[2])) \subseteq 1 .. Sent(Peer(y))
      BY <1>c, <1>d, ZenonT(30)
    <3> QED
      BY <1>a, <2>2, <3>1
  <2>4. Ascending(pipe'[y[1]], Data(y[2]))
    BY <1>0, <2>2, <2>3, AscendingAppend, ZenonT(30)
  <2>5. Numbers(pipe'[y[1]], Data(y[2])) = Numbers(q, Data(y[2])) \cup {Sent(Peer(y)) + 1}
    BY <1>a, <2>2, NumbersAppend
  <2> QED
    BY <1>0, <1>2, <2>1, <2>4, <2>5, ZenonT(30) DEF Flow
<1>3. ASSUME NEW B, LaneHead(y, B)
      PROVE  /\ q # <<>> /\ Head(q) \in B /\ Head(q) \in Message
             /\ pipe'[y[1]] = Tail(q) /\ delivered'[y] = delivered[y]
             /\ Ascending(Tail(q), Data(y[2]))
             /\ Head(q) \notin Data(y[2]) => Piped(y)' = Piped(y)
             /\ Head(q) \in Data(y[2]) =>
                  /\ Head(q).n \in Piped(y)
                  /\ \A k \in Piped(y)' : Head(q).n < k
                  /\ Piped(y)' = Piped(y) \ {Head(q).n}
  <2>1. q # <<>> /\ Head(q) \in B /\ pipe'[y[1]] = Tail(q)
        /\ delivered'[y] = delivered[y]
    BY <1>3, ZenonT(30) DEF LaneHead
  <2>2. Head(q) \in Message
    BY <2>1, IncomingFacts, EndsFacts
  <2>3. /\ Ascending(Tail(q), Data(y[2]))
        /\ Head(q) \notin Data(y[2]) => Numbers(Tail(q), Data(y[2])) = Numbers(q, Data(y[2]))
        /\ Head(q) \in Data(y[2]) =>
             /\ Head(q).n \in Numbers(q, Data(y[2]))
             /\ \A k \in Numbers(Tail(q), Data(y[2])) : Head(q).n < k
             /\ Numbers(Tail(q), Data(y[2])) = Numbers(q, Data(y[2])) \ {Head(q).n}
    BY <1>a, <1>b, <1>c, <2>1, NumbersTail
  <2> QED
    BY <1>d, <2>1, <2>2, <2>3, ZenonT(30)
<1>4. CASE LaneTakes(y)
  <2> DEFINE n == Head(q).n
  <2>1. /\ Head(q) \in Data(y[2]) /\ Head(q) \in Message /\ Ascending(pipe'[y[1]], Data(y[2]))
        /\ n \in Piped(y) /\ (\A k \in Piped(y)' : n < k)
        /\ Piped(y)' = Piped(y) \ {n} /\ delivered'[y] = delivered[y]
    BY <1>3, <1>4, ZenonT(30) DEF LaneTakes
  <2>2. /\ writeq'[y] = Append(w, SendAndThen(Head(q)))
        /\ SendAndThen(Head(q)) \in Frames /\ SendAndThen(Head(q)) \in WriterMessage
        /\ SendAndThen(Head(q)).n = n
    BY <1>4, <2>1, WordFacts, MessageFacts, ZenonT(30) DEF LaneTakes
  <2>3. \A k \in Numbers(w, Frames) : k < n
    BY <1>0, <2>1, ZenonT(30) DEF Before
  <2>4. Ascending(writeq'[y], Frames)
    BY <1>0, <2>2, <2>3, AscendingAppend, ZenonT(30)
  <2>5. Waiting(y)' = Waiting(y) \cup {n}
    <3>1. Numbers(Append(w, SendAndThen(Head(q))), Frames) = Numbers(w, Frames) \cup {n}
      BY <1>a, <2>2, NumbersAppend
    <3> QED
      BY <1>d, <2>2, <3>1, ZenonT(30)
  <2> QED
    BY <1>4, <2>1, <2>4, <2>5, ZenonT(30) DEF Flow
<1>5. CASE LaneMisses(y)
  <2>1. /\ Head(q) \in Data(y[2]) /\ Ascending(pipe'[y[1]], Data(y[2])) /\ Head(q).n \in Piped(y)
        /\ Piped(y)' = Piped(y) \ {Head(q).n} /\ delivered'[y] = delivered[y]
        /\ writeq'[y] = w
    BY <1>3, <1>5, ZenonT(30) DEF LaneMisses
  <2>2. Piped(y)' \subseteq Piped(y) /\ Piped(y) # {} /\ Waiting(y)' = Waiting(y)
    BY <1>0, <2>1, ZenonT(30)
  <2> QED
    BY <1>0, <1>5, <2>1, <2>2, ZenonT(30) DEF Flow
<1>6. CASE LaneCloses(y)
  <2>1. /\ Head(q) \in Closing(y[2]) /\ Ascending(pipe'[y[1]], Data(y[2]))
        /\ Head(q) \notin Data(y[2]) => Piped(y)' = Piped(y)
        /\ delivered'[y] = delivered[y] /\ writeq'[y] = Append(w, CloseWriter)
    BY <1>3, <1>6, ZenonT(30) DEF LaneCloses
  <2>2. Head(q) \notin Data(y[2])
    BY <2>1 DEF Data, Closing, Words
  <2>3. CloseWriter \in WriterMessage /\ CloseWriter \notin Frames
    BY MessageFacts, WordFacts
  <2>4. Ascending(writeq'[y], Frames) /\ Waiting(y)' = Waiting(y)
    <3>1. Numbers(Append(w, CloseWriter), Frames) = Numbers(w, Frames) \cup {}
      BY <1>a, <2>3, NumbersAppend, ZenonT(30)
    <3>2. Ascending(Append(w, CloseWriter), Frames)
      BY <1>a, <1>c, <2>3, AscendingAppend
    <3> QED
      BY <1>d, <2>1, <3>1, <3>2, ZenonT(30)
  <2> QED
    BY <1>6, <2>1, <2>2, <2>4, ZenonT(30) DEF Flow, FlowKeeps
<1>7. ASSUME LaneWriter(y)
      PROVE  /\ Sorted /\ Piped(y)' = Piped(y)
             /\ Head(w).n \in Waiting(y)
             /\ Waiting(y)' = Waiting(y) \ {Head(w).n}
             /\ \A k \in Waiting(y)' : Head(w).n < k
  <2>1. w # <<>> /\ Head(w) \in Frames /\ writeq'[y] = Tail(w) /\ pipe' = pipe
    BY <1>7, ZenonT(30) DEF LaneWriter
  <2>2. /\ Ascending(Tail(w), Frames)
        /\ Head(w) \notin Frames => Numbers(Tail(w), Frames) = Numbers(w, Frames)
        /\ Head(w) \in Frames =>
             /\ Head(w).n \in Numbers(w, Frames)
             /\ \A k \in Numbers(Tail(w), Frames) : Head(w).n < k
             /\ Numbers(Tail(w), Frames) = Numbers(w, Frames) \ {Head(w).n}
    BY <1>a, <1>b, <1>c, <2>1, NumbersTail
  <2> QED
    BY <1>c, <1>d, <2>1, <2>2, ZenonT(30)
<1>8. CASE LaneWrites(y)
  <2>1. LaneWriter(y) /\ delivered'[y] = Append(delivered[y], Head(w).n)
    BY <1>8 DEF LaneWrites
  <2> QED
    BY <1>7, <1>8, <2>1, ZenonT(30) DEF Flow
<1>9. CASE LaneFails(y)
  <2>1. LaneWriter(y) /\ delivered'[y] = delivered[y]
    BY <1>9 DEF LaneFails
  <2>2. Waiting(y)' \subseteq Waiting(y)
    BY <1>7, <2>1, ZenonT(30)
  <2> QED
    BY <1>7, <1>9, <2>1, <2>2, ZenonT(30) DEF Flow
<1>10. CASE LaneEnds(y)
  <2>1. writeq'[y] = <<>> /\ pipe' = pipe /\ delivered'[y] = delivered[y]
    BY <1>10, ZenonT(30) DEF LaneEnds
  <2> QED
    BY <1>0, <1>10, <2>1, EmptyQueue, ZenonT(30) DEF Flow
<1>11. CASE LaneLeft(y)
  <2>1. writeq'[y] = w /\ pipe' = pipe /\ delivered'[y] = delivered[y]
    BY <1>11, ZenonT(30) DEF LaneLeft
  <2> QED
    BY <1>0, <1>11, <2>1, ZenonT(30) DEF Flow, FlowKeeps
<1> QED
  BY <1>1, <1>2, <1>4, <1>5, <1>6, <1>8, <1>9, <1>10, <1>11, ZenonT(30) DEF Lane

(* A frame that is written joins the written ones, at their end.           *)
LEMMA WrittenAppend ==
  ASSUME TypeOK, NEW y \in Ends, NEW n \in Nat,
         delivered'[y] = Append(delivered[y], n)
  PROVE  Written(y)' = Written(y) \cup {n}
<1>1. /\ delivered[y] \in Seq(Nat) /\ Len(delivered[y]) \in Nat
  BY DEF TypeOK
<1> DEFINE d == delivered[y]
           r == Append(d, n)
<1>2. /\ \A i : i \in 1 .. Len(r) <=> i \in 1 .. Len(d) \/ i = Len(d) + 1
      /\ \A i \in 1 .. Len(d) : r[i] = d[i]
      /\ r[Len(d) + 1] = n
  BY <1>1, AppendIndices
<1> HIDE DEF r
<1>3. {r[i] : i \in 1 .. Len(r)} = {d[i] : i \in 1 .. Len(d)} \cup {n}
  BY <1>2
<1> QED
  BY <1>3 DEF Written, r

-----------------------------------------------------------------------------
(* Frames arrive in the order in which they were read.                     *)

(* The order of a stream survives every step.                              *)
LEMMA OrderStep ==
  ASSUME TypeOK, Life, Order, InOrder, \A y \in Ends : Lane(y)
  PROVE  Order' /\ InOrder'
<1> SUFFICES ASSUME NEW y \in Ends
             PROVE  /\ Ascending(pipe'[y[1]], Data(y[2]))
                    /\ Ascending(writeq'[y], Frames)
                    /\ Before(Written(y)', Waiting(y)' \cup Piped(y)')
                    /\ Before(Waiting(y)', Piped(y)')
                    /\ Written(y)' \cup Waiting(y)' \cup Piped(y)'
                         \subseteq 1 .. Sent(Peer(y))'
                    /\ \A i, j \in 1 .. Len(delivered'[y]) :
                         i < j => delivered'[y][i] < delivered'[y][j]
  BY ZenonT(30) DEF Order, InOrder, Before, Data, Words, Frames
<1> DEFINE P == Piped(y)
           W == Waiting(y)
           D == Written(y)
           k == Sent(Peer(y))
<1>0. /\ Before(D, W \cup P) /\ Before(W, P) /\ D \cup W \cup P \subseteq 1 .. k
      /\ k \in Nat
      /\ \A i, j \in 1 .. Len(delivered[y]) :
           i < j => delivered[y][i] < delivered[y][j]
  BY EndsFacts, SentType DEF Order, InOrder
<1>1. Flow(y) /\ Ascending(pipe'[y[1]], Data(y[2])) /\ Ascending(writeq'[y], Frames)
  BY FlowStep, ZenonT(30)
<1>2. ASSUME delivered'[y] = delivered[y]
      PROVE  /\ D' = D
             /\ \A i, j \in 1 .. Len(delivered'[y]) :
                  i < j => delivered'[y][i] < delivered'[y][j]
  BY <1>0, <1>2 DEF Written
<1>3. ASSUME delivered'[y] = delivered[y], k' \in {k, k + 1},
             W' \subseteq W, P' \subseteq P
      PROVE  /\ Before(D', W' \cup P') /\ Before(W', P')
             /\ D' \cup W' \cup P' \subseteq 1 .. k'
  <2>1. D' = D
    BY <1>2, <1>3
  <2>2. D \cup W \cup P \subseteq 1 .. k'
    <3> HIDE DEF D, W, P, k
    <3> QED
      BY <1>0, <1>3
  <2> HIDE DEF D, W, P, k
  <2> QED
    BY <1>0, <1>3, <2>1, <2>2 DEF Before
<1>4. CASE /\ delivered'[y] = delivered[y] /\ k' \in {k, k + 1}
           /\ W' \subseteq W /\ P' \subseteq P
  BY <1>1, <1>2, <1>3, <1>4, ZenonT(30)
<1>5. CASE /\ k' = k + 1 /\ P' = P \cup {k + 1}
           /\ W' = W /\ delivered'[y] = delivered[y]
  <2>1. D' = D
    BY <1>2, <1>5, ZenonT(30)
  <2>2. \A n \in D \cup W \cup P : n \in 1 .. k' /\ n < k + 1
    <3> HIDE DEF D, W, P, k
    <3> QED
      BY <1>0, <1>5
  <2>3. /\ Before(D', W' \cup P') /\ Before(W', P')
        /\ D' \cup W' \cup P' \subseteq 1 .. k'
    <3> HIDE DEF D, W, P, k
    <3> QED
      BY <1>0, <1>5, <2>1, <2>2 DEF Before
  <2> QED
    BY <1>1, <1>2, <1>5, <2>3, ZenonT(30)
<1>6. ASSUME NEW n \in P, P' = P \ {n}, W' = W \cup {n}, \A i \in P' : n < i,
             delivered'[y] = delivered[y], k' = k
      PROVE  /\ Before(D', W' \cup P') /\ Before(W', P')
             /\ D' \cup W' \cup P' \subseteq 1 .. k'
  <2>1. D' = D
    BY <1>2, <1>6
  <2> HIDE DEF D, W, P, k
  <2> QED
    BY <1>0, <1>6, <2>1 DEF Before
<1>7. ASSUME NEW n \in W, W' = W \ {n}, P' = P, \A i \in W' : n < i, k' = k,
             delivered'[y] = Append(delivered[y], n)
      PROVE  /\ Before(D', W' \cup P') /\ Before(W', P')
             /\ D' \cup W' \cup P' \subseteq 1 .. k'
             /\ \A i, j \in 1 .. Len(delivered'[y]) :
                  i < j => delivered'[y][i] < delivered'[y][j]
  <2>1. n \in Nat
    <3> HIDE DEF D, W, P, k
    <3> QED
      BY <1>0
  <2>2. D' = D \cup {n}
    BY <1>7, <2>1, WrittenAppend
  <2>3. /\ Before(D', W' \cup P') /\ Before(W', P')
        /\ D' \cup W' \cup P' \subseteq 1 .. k'
    <3> HIDE DEF D, W, P, k
    <3> QED
      BY <1>0, <1>7, <2>2 DEF Before
  <2>4. \A i \in 1 .. Len(delivered[y]) : delivered[y][i] < n
    <3>1. \A i \in 1 .. Len(delivered[y]) : delivered[y][i] \in D
      BY DEF Written
    <3> HIDE DEF D, W
    <3> QED
      BY <1>0, <3>1 DEF Before
  <2>5. /\ delivered[y] \in Seq(Nat) /\ Len(delivered[y]) \in Nat
        /\ Len(delivered'[y]) = Len(delivered[y]) + 1
        /\ \A i \in 1 .. Len(delivered[y]) : delivered'[y][i] = delivered[y][i]
        /\ delivered'[y][Len(delivered[y]) + 1] = n
    <3>1. delivered[y] \in Seq(Nat)
      BY DEF TypeOK
    <3> QED
      BY <1>7, <2>1, <3>1, AppendFacts, LenFacts
  <2>6. ASSUME NEW i \in 1 .. Len(delivered'[y]), NEW j \in 1 .. Len(delivered'[y]),
               i < j
        PROVE  delivered'[y][i] < delivered'[y][j]
    <3>1. i \in 1 .. Len(delivered[y])
      BY <2>5, <2>6
    <3>2. j \in 1 .. Len(delivered[y]) \/ j = Len(delivered[y]) + 1
      BY <2>5
    <3> QED
      BY <1>0, <2>4, <2>5, <2>6, <3>1, <3>2
  <2> QED
    BY <2>3, <2>6, ZenonT(30)
<1>8. /\ LaneRests(y) \/ LaneCloses(y) \/ LaneTakes(y) \/ LaneMisses(y)
         \/ LaneWrites(y) \/ LaneFails(y) \/ LaneEnds(y) => k' = k
      /\ LaneLeft(y) => k' \in {k, k + 1}
      /\ LaneSends(y) => k' = k + 1
  BY ZenonT(30) DEF LaneRests, LaneCloses, LaneTakes, LaneMisses, LaneHead, LaneWrites,
         LaneFails, LaneWriter, LaneEnds, LaneLeft, LaneSends
<1>9. CASE \E n \in P : /\ P' = P \ {n} /\ W' = W \cup {n} /\ \A i \in P' : n < i
                        /\ delivered'[y] = delivered[y] /\ k' = k
  BY <1>1, <1>2, <1>6, <1>9, ZenonT(30)
<1>10. CASE \E n \in W : /\ W' = W \ {n} /\ P' = P /\ \A i \in W' : n < i
                         /\ k' = k /\ delivered'[y] = Append(delivered[y], n)
  BY <1>1, <1>7, <1>10, ZenonT(30)
<1>11. \/ /\ delivered'[y] = delivered[y] /\ k' \in {k, k + 1}
          /\ W' \subseteq W /\ P' \subseteq P
       \/ /\ k' = k + 1 /\ P' = P \cup {k + 1}
          /\ W' = W /\ delivered'[y] = delivered[y]
       \/ \E n \in P : /\ P' = P \ {n} /\ W' = W \cup {n} /\ \A i \in P' : n < i
                       /\ delivered'[y] = delivered[y] /\ k' = k
       \/ \E n \in W : /\ W' = W \ {n} /\ P' = P /\ \A i \in W' : n < i
                       /\ k' = k /\ delivered'[y] = Append(delivered[y], n)
  <2> HIDE DEF k, W, P
  <2> QED
    BY <1>1, <1>8, ZenonT(30) DEF Flow, FlowKeeps, k, W, P
<1> QED
  BY <1>4, <1>5, <1>9, <1>10, <1>11, ZenonT(30)

(* The part of the inductive invariant that holds on any runtime.          *)
Base == Life /\ FirstWord /\ Loop /\ Order /\ InOrder

LEMMA BaseInit == Init => Base
<1> SUFFICES ASSUME Init PROVE Base
  OBVIOUS
<1>1. Life /\ Loop /\ InOrder
  BY NamedFacts, ConstantsAssumption DEF Init, Life, Loop, InOrder
<1>2. \A e \in Side : pipe[e] = <<>>
  BY DEF Init
<1>3. FirstWord
  <2>1. pipe["outlet"] = <<>>
    BY <1>2 DEF Side
  <2>2. ASSUME NEW s \in Sessions
        PROVE  /\ ~ Has(pipe["outlet"], Connect(s))
               /\ NeverAfter(pipe["outlet"], Connect(s) \cup Data(s), Connect(s))
               /\ task[Outlet(s)] = "none"
    <3>1. ~ Has(<<>>, Connect(s))
      BY EmptyQueue
    <3>2. NeverAfter(<<>>, Connect(s) \cup Data(s), Connect(s))
      BY EmptyQueue
    <3>3. task[Outlet(s)] = "none"
      BY NamedFacts DEF Init
    <3> QED
      BY <2>1, <3>1, <3>2, <3>3
  <2> QED
    BY <2>2 DEF FirstWord
<1>4. Order
  <2> SUFFICES ASSUME NEW y \in Ends
               PROVE  /\ Ascending(pipe[y[1]], Data(y[2]))
                      /\ Ascending(writeq[y], Frames)
                      /\ Before(Written(y), Waiting(y) \cup Piped(y))
                      /\ Before(Waiting(y), Piped(y))
                      /\ Written(y) \cup Waiting(y) \cup Piped(y)
                           \subseteq 1 .. Sent(Peer(y))
    BY ZenonT(30) DEF Order
  <2>1. pipe[y[1]] = <<>> /\ writeq[y] = <<>> /\ delivered[y] = <<>>
    BY <1>2, EndsFacts DEF Init
  <2>2. Piped(y) = {} /\ Waiting(y) = {} /\ Written(y) = {}
    BY <2>1, EmptyQueue DEF Piped, Waiting, Written
  <2> QED
    BY <2>1, <2>2, EmptyQueue DEF Before
<1> QED
  BY <1>1, <1>3, <1>4 DEF Base

LEMMA BaseStep ==
  ASSUME TypeOK, Base, [Next]_vars
  PROVE  /\ Base'
         /\ \A e \in Side : Moves(e)
         /\ \A x \in Ends : Goes(x)
         /\ \A y \in Ends : Lane(y) /\ Flow(y)
<1>1. Life /\ FirstWord /\ Loop /\ Order /\ InOrder
  BY DEF Base
<1>2. (\A e \in Side : Moves(e)) /\ (\A x \in Ends : Goes(x)) /\ Life'
  BY <1>1, StepMoves
<1>3. \A y \in Ends : Lane(y)
  BY <1>1, LaneStep
<1>4. \A y \in Ends : Flow(y)
  BY <1>1, <1>3, FlowStep
<1>5. Loop' /\ FirstWord' /\ Order' /\ InOrder'
  BY <1>1, <1>2, <1>3, LoopStep, FirstWordStep, OrderStep
<1> QED
  BY <1>2, <1>3, <1>4, <1>5 DEF Base

LEMMA BaseHolds == Spec => []Base
<1>1. TypeOK /\ Base /\ [Next]_vars => Base'
  BY BaseStep
<1> QED
  BY <1>1, BaseInit, TypeCorrect, PTL DEF Spec

(* What a socket gets are frames of the other socket in the order in which *)
(* poll_read read them, none of them twice, however the two loops of each  *)
(* end, the input loops and a slow runtime interleave.                     *)
THEOREM FramesInOrder == Spec => []InOrder
<1>1. Base => InOrder
  BY DEF Base
<1> QED
  BY <1>1, BaseHolds, PTL

-----------------------------------------------------------------------------
(* The last words of an end.                                               *)

(* The end a disconnect comes from is closed, and nothing of it follows.   *)
Disconnected ==
  \A y \in Ends :
    /\ Has(pipe[y[1]], Words({"disconnect"}, y[2])) => task[Peer(y)] = "closed"
    /\ NeverAfter(pipe[y[1]], Words({"disconnect"}, y[2]), Words({"data", "ack"}, y[2]))

(* The end a message of y's queue comes from.                              *)
LEMMA SenderIsPeer ==
  ASSUME NEW y \in Ends, NEW m \in Message, NEW T, m \in Words(T, y[2])
  PROVE  m.type \in T /\ m.sid = y[2] /\ Sender(y[1], m) = Peer(y)
BY WordFacts DEF Sender, Peer

LEMMA DisconnectedStep ==
  ASSUME TypeOK, Disconnected, \A e \in Side : Moves(e), \A x \in Ends : Goes(x)
  PROVE  Disconnected'
<1> SUFFICES ASSUME NEW y \in Ends
             PROVE  /\ Has(pipe'[y[1]], Words({"disconnect"}, y[2]))
                         => task'[Peer(y)] = "closed"
                    /\ NeverAfter(pipe'[y[1]], Words({"disconnect"}, y[2]),
                                  Words({"data", "ack"}, y[2]))
  BY ZenonT(30) DEF Disconnected, Words, Peer
<1> DEFINE q == pipe[y[1]]
           A == Words({"disconnect"}, y[2])
           B == Words({"data", "ack"}, y[2])
<1>0. q \in Seq(Message) /\ Moves(y[1]) /\ Goes(Peer(y))
  BY EndsFacts DEF TypeOK
<1>1. (Has(q, A) => task[Peer(y)] = "closed") /\ NeverAfter(q, A, B)
  BY ZenonT(30) DEF Disconnected
<1>2. task[Peer(y)] = "closed" => task'[Peer(y)] = "closed"
  BY <1>0 DEF Goes
<1>3. CASE pipe'[y[1]] = q
  BY <1>1, <1>2, <1>3
<1>4. CASE q # <<>> /\ pipe'[y[1]] = Tail(q)
  BY <1>0, <1>1, <1>2, <1>4, HasTail, NeverAfterTail
<1>5. ASSUME NEW m \in Message, pipe'[y[1]] = Append(q, m), Sends(y[1], m)
      PROVE  (Has(pipe'[y[1]], A) => task'[Peer(y)] = "closed")
             /\ NeverAfter(pipe'[y[1]], A, B)
  <2>1. ASSUME m \in A PROVE task'[Peer(y)] = "closed"
    <3>1. m.type = "disconnect" /\ Sender(y[1], m) = Peer(y)
      BY <2>1, SenderIsPeer, m \in Words({"disconnect"}, y[2])
    <3>2. m.type = "disconnect" => task'[Sender(y[1], m)] = "closed"
      BY <1>5 DEF Sends
    <3> QED
      BY <3>1, <3>2
  <2>2. m \in B => task[Peer(y)] = "running"
    BY <1>5, SenderIsPeer DEF Sends
  <2>3. m \in B => ~ Has(q, A)
    BY <1>1, <2>2, ZenonT(30)
  <2>4. NeverAfter(Append(q, m), A, B)
    BY <1>0, <1>1, <2>3, NeverAfterAppend
  <2>5. Has(Append(q, m), A) <=> Has(q, A) \/ m \in A
    BY <1>0, HasAppend
  <2> QED
    BY <1>1, <1>2, <1>5, <2>1, <2>4, <2>5, ZenonT(30)
<1> QED
  BY <1>0, <1>3, <1>4, <1>5, ZenonT(30) DEF Moves

(* The disconnect is the last word of an end, however the tasks of the two *)
(* sides interleave: no data and no acknowledgement of the session follows *)
(* it in the pipe, so what the receiving side still has of the session     *)
(* when on_i2o_disconnect or the O2iDisconnect arm runs is all of it.      *)
THEOREM DisconnectIsLast == Spec => []DisconnectLast
<1>1. Init => Disconnected
  <2> SUFFICES ASSUME Init, NEW y \in Ends
               PROVE  pipe[y[1]] = <<>>
    BY EmptyQueue DEF Disconnected
  <2> QED
    BY EndsFacts DEF Init
<1>2. TypeOK /\ Base /\ Disconnected /\ [Next]_vars => Disconnected'
  BY BaseStep, DisconnectedStep
<1>3. TypeOK /\ Disconnected => DisconnectLast
  <2> SUFFICES ASSUME TypeOK, Disconnected, NEW e \in Side,
                      NEW i \in 1 .. Len(pipe[e]), NEW j \in 1 .. Len(pipe[e]),
                      pipe[e][i].type = "disconnect", i < j,
                      pipe[e][j].sid = pipe[e][i].sid
               PROVE  pipe[e][j].type \notin {"data", "ack"}
    BY DEF DisconnectLast
  <2> DEFINE s == pipe[e][i].sid
             y == <<e, s>>
  <2>1. pipe[e][i] \in Message /\ pipe[e][j] \in Message
    BY DEF TypeOK
  <2>2. s \in Sessions /\ y \in Ends /\ y[1] = e /\ y[2] = s
    BY <2>1 DEF Message, Ends
  <2>3. pipe[e][i] \in Words({"disconnect"}, s)
    BY <2>1, WordFacts
  <2>4. NeverAfter(pipe[e], Words({"disconnect"}, s), Words({"data", "ack"}, s))
    BY <2>2, ZenonT(30) DEF Disconnected
  <2>5. pipe[e][j] \notin Words({"data", "ack"}, s)
    <3> HIDE DEF s
    <3> QED
      BY <2>3, <2>4 DEF NeverAfter
  <2> QED
    BY <2>1, <2>5, WordFacts
<1> QED
  BY <1>1, <1>2, <1>3, TypeCorrect, BaseHolds, PTL DEF Spec

(* An end runs outside the map because it did so before, or because a      *)
(* disconnect of its session has just been taken from the pipe.            *)
LEMMA LeavesMap ==
  ASSUME TypeOK, Life, [Next]_vars, NEW y \in Ends,
         task'[y] = "running", y \notin registered'
  PROVE  \/ task[y] = "running" /\ y \notin registered
         \/ /\ pipe[y[1]] # <<>> /\ Head(pipe[y[1]]) \in Closing(y[2])
            /\ pipe'[y[1]] = Tail(pipe[y[1]])
<1> DEFINE Good == \/ task[y] = "running" /\ y \notin registered
                   \/ /\ pipe[y[1]] # <<>> /\ Head(pipe[y[1]]) \in Closing(y[2])
                      /\ pipe'[y[1]] = Tail(pipe[y[1]])
<1> SUFFICES Good
  OBVIOUS
<1> DEFINE Still == task' = task /\ registered' = registered
<1> USE DEF taskVars
<1>1. ASSUME NEW s \in Sessions, Accept(s) PROVE Good
  <2>1. y # Inlet(s)
    BY <1>1 DEF Accept
  <2> QED
    BY <1>1, <2>1, ZenonT(30) DEF Accept, TypeOK
<1>2. ASSUME NEW s \in Sessions, OutletSessionStart(s) PROVE Good
  <2>1. y # Outlet(s)
    BY <1>2 DEF OutletSessionStart
  <2> QED
    BY <1>2, <2>1, ZenonT(30) DEF OutletSessionStart, TypeOK
<1>3. ASSUME NEW ok \in BOOLEAN, OnI2oConnect(ok) PROVE Good
  <2>1. registered' = registered
        /\ (task' = task \/ task' = [task EXCEPT ![IncomingEnd("outlet")] = "spawned"])
    BY <1>3 DEF OnI2oConnect
  <2> QED
    BY <2>1 DEF TypeOK
<1>4. ASSUME OnI2oDisconnect PROVE Good
  <2> DEFINE x == IncomingEnd("outlet")
  <2>1. task' = task /\ registered' = registered \ {x}
    BY <1>4 DEF OnI2oDisconnect
  <2>2. CASE y = x
    <3>1. "outlet" \in Side /\ pipe["outlet"] # <<>>
          /\ Head(pipe["outlet"]).type = "disconnect" /\ Receive("outlet")
      BY <1>4 DEF OnI2oDisconnect, Incoming, Side
    <3>2. y[1] = "outlet" /\ Head(pipe["outlet"]).sid = y[2]
          /\ Head(pipe["outlet"]) \in Message
      BY <2>2, <3>1, IncomingFacts
    <3>3. Head(pipe["outlet"]) \in Closing(y[2])
      BY <3>1, <3>2, WordFacts DEF Closing
    <3>4. pipe'["outlet"] = Tail(pipe["outlet"])
      BY <3>1 DEF Receive, TypeOK
    <3> QED
      BY <3>1, <3>2, <3>3, <3>4
  <2> QED
    BY <2>1, <2>2
<1>5. ASSUME NEW x \in Ends, ReadEof(x) \/ WriteError(x) \/ WriterClose(x)
      PROVE  Good
  <2>1. task' = [task EXCEPT ![x] = "ending"] /\ registered' = registered
    BY <1>5 DEF ReadEof, WriteError, WriterClose, SelectReturns
  <2> QED
    BY <2>1 DEF TypeOK
<1>6. ASSUME NEW x \in Ends, OnSessionClose(x) PROVE Good
  BY <1>6, ZenonT(30) DEF OnSessionClose, TypeOK
<1>7. CASE Still
  BY <1>7
<1>8. ASSUME NEW x \in Ends,
             \/ \E len \in ChunkLens : ReadFrame(x, len)
             \/ EncodeDataAndLimiting(x) \/ SendFrame(x) \/ WriteFrame(x)
             \/ FlushError(x) \/ Callback(x)
      PROVE  Still
  BY <1>8, ZenonT(30) DEF ReadFrame, EncodeDataAndLimiting, SendFrame, WriteFrame, FlushError,
              Callback
<1>9. ASSUME NEW e \in Side, RecvData(e) \/ RecvAck(e)
      PROVE  Still
  BY <1>9 DEF RecvData, RecvAck
<1>10. ASSUME RecvConnected \/ InletRecvClose \/ ConnectDone \/ ConnectTimeout
              \/ UNCHANGED vars
       PROVE  Still
  BY <1>10 DEF RecvConnected, InletRecvClose, ConnectDone, ConnectTimeout, vars
<1> HIDE DEF Good, Still
<1>11. CASE InletInput \/ OutletInput \/ UNCHANGED vars
  BY <1>3, <1>4, <1>7, <1>9, <1>10, <1>11
  DEF InletInput, OutletInput, InputLoop, Side
<1>12. ASSUME NEW s \in Sessions, Accept(s) \/ OutletSessionStart(s) PROVE Good
  BY <1>1, <1>2, <1>12
<1>13. CASE \E x \in Ends :
              \/ \E len \in ChunkLens : ReadFrame(x, len)
              \/ EncodeDataAndLimiting(x) \/ SendFrame(x) \/ Writer(x)
              \/ Callback(x) \/ ReadEof(x) \/ OnSessionClose(x)
  BY <1>5, <1>6, <1>7, <1>8, <1>13 DEF Writer
<1> QED
  BY <1>11, <1>12, <1>13 DEF Next

(* The pipe: a closing message is sent by an end that is over, or for one. *)
LEMMA ClosingStep ==
  ASSUME TypeOK, ~ SlowSpawn, LastWords, NEW y \in Ends, Moves(y[1]),
         Over(Peer(y)) => Over(Peer(y))' /\ task[Peer(y)] # "running"
  PROVE  /\ Has(pipe'[y[1]], Closing(y[2])) => Over(Peer(y))'
         /\ NeverAfter(pipe'[y[1]], Closing(y[2]), Data(y[2]))
<1> DEFINE q == pipe[y[1]]
<1>0. q \in Seq(Message) /\ y[1] \in Side
  BY EndsFacts DEF TypeOK
<1>1. (Has(q, Closing(y[2])) => Over(Peer(y)))
      /\ NeverAfter(q, Closing(y[2]), Data(y[2]))
  BY ZenonT(30) DEF LastWords
<1>3. CASE pipe'[y[1]] = q
  BY <1>1, <1>3, ZenonT(30)
<1>4. CASE q # <<>> /\ pipe'[y[1]] = Tail(q)
  BY <1>0, <1>1, <1>4, HasTail, NeverAfterTail
<1>5. ASSUME NEW m \in Message, pipe'[y[1]] = Append(q, m), Sends(y[1], m)
      PROVE  /\ Has(pipe'[y[1]], Closing(y[2])) => Over(Peer(y))'
             /\ NeverAfter(pipe'[y[1]], Closing(y[2]), Data(y[2]))
  <2>1. ASSUME m \in Closing(y[2]) PROVE Over(Peer(y))'
    <3>1. m.type \in {"refused", "disconnect"} /\ m.sid = y[2]
          /\ Sender(y[1], m) = Peer(y)
      BY <2>1, SenderIsPeer, ZenonT(30) DEF Closing
    <3>2. CASE m.type = "disconnect"
      <4>1. task'[Peer(y)] = "closed"
        BY <1>5, <3>1, <3>2, ZenonT(30) DEF Sends
      <4> QED
        BY <4>1 DEF Over
    <3>3. CASE m.type = "refused"
      <4>1. y[1] = "inlet" /\ Over(Outlet(m.sid))'
        BY <1>5, <3>3, ZenonT(30) DEF Sends
      <4>2. Peer(y) = Outlet(m.sid)
        BY <3>1, <4>1 DEF Peer, Other, Outlet
      <4> QED
        BY <4>1, <4>2, ZenonT(30) DEF Over
    <3> QED
      BY <3>1, <3>2, <3>3, ZenonT(30)
  <2>2. m \in Data(y[2]) => ~ Has(q, Closing(y[2]))
    <3> SUFFICES ASSUME m \in Data(y[2]) PROVE ~ Has(q, Closing(y[2]))
      OBVIOUS
    <3>1. m.type = "data" /\ Sender(y[1], m) = Peer(y)
      BY SenderIsPeer, m \in Words({"data"}, y[2]) DEF Data
    <3>2. task[Peer(y)] = "running"
      BY <1>5, <3>1, ZenonT(30) DEF Sends
    <3> QED
      BY <1>1, <3>2, ZenonT(30)
  <2>3. NeverAfter(Append(q, m), Closing(y[2]), Data(y[2]))
    BY <1>0, <1>1, <2>2, NeverAfterAppend, ZenonT(30)
  <2>4. Has(Append(q, m), Closing(y[2])) <=>
          Has(q, Closing(y[2])) \/ m \in Closing(y[2])
    BY <1>0, HasAppend
  <2> QED
    BY <1>1, <1>5, <2>1, <2>3, <2>4, ZenonT(30)
<1> QED
  BY <1>0, <1>3, <1>4, <1>5, ZenonT(30) DEF Moves

(* The writer's queue: a Close that waits there came behind all the data.  *)
LEMMA CloseStep ==
  ASSUME TypeOK, Life, LastWords, NEW y \in Ends, Flow(y),
         Over(Peer(y)) => Over(Peer(y))' /\ task[Peer(y)] # "running"
  PROVE  /\ Has(writeq'[y], Closes) => Over(Peer(y))' /\ Piped(y)' = {}
         /\ NeverAfter(writeq'[y], Closes, Frames)
         /\ endedBy'[y] = "close" => Over(Peer(y))'
<1> DEFINE w == writeq[y]
           q == pipe[y[1]]
           Good == /\ Has(writeq'[y], Closes) => Over(Peer(y))' /\ Piped(y)' = {}
                   /\ NeverAfter(writeq'[y], Closes, Frames)
                   /\ endedBy'[y] = "close" => Over(Peer(y))'
<1>0. w \in Seq(WriterMessage) /\ q \in Seq(Message)
  BY EndsFacts DEF TypeOK
<1>1. /\ Has(w, Closes) => Over(Peer(y)) /\ Piped(y) = {}
      /\ NeverAfter(w, Closes, Frames)
      /\ endedBy[y] = "close" => Over(Peer(y))
      /\ Has(q, Closing(y[2])) => Over(Peer(y))
      /\ NeverAfter(q, Closing(y[2]), Data(y[2]))
  BY ZenonT(30) DEF LastWords
<1>2. ASSUME writeq'[y] = w, endedBy'[y] = endedBy[y], Piped(y)' \subseteq Piped(y)
      PROVE  Good
  BY <1>1, <1>2, ZenonT(30)
<1>3. CASE LaneRests(y) /\ FlowKeeps(y)
  BY <1>2, <1>3, ZenonT(30) DEF LaneRests, FlowKeeps
<1>4. CASE LaneCloses(y)
  <2>1. /\ q # <<>> /\ Head(q) \in Closing(y[2]) /\ pipe'[y[1]] = Tail(q)
        /\ writeq'[y] = Append(w, CloseWriter) /\ endedBy'[y] = endedBy[y]
    BY <1>4 DEF LaneCloses, LaneHead
  <2>2. Over(Peer(y))'
    BY <1>0, <1>1, <2>1, HasTail, ZenonT(30)
  <2>3. ~ Has(Tail(q), Data(y[2]))
    BY <1>0, <1>1, <2>1, NeverAfterTail, ZenonT(30)
  <2>4. Piped(y)' = {}
    BY <2>1, <2>3, NoNumbers, ZenonT(30) DEF Piped
  <2>5. CloseWriter \in WriterMessage /\ CloseWriter \notin Frames
    BY DEF CloseWriter, WriterMessage, Frames
  <2>6. NeverAfter(Append(w, CloseWriter), Closes, Frames)
    BY <1>0, <1>1, <2>5, NeverAfterAppend, ZenonT(30)
  <2> QED
    BY <2>1, <2>2, <2>4, <2>6, ZenonT(30)
<1>5. CASE LaneSends(y)
  <2>1. writeq'[y] = w /\ endedBy'[y] = endedBy[y] /\ task[Peer(y)] = "running"
    BY <1>5, ZenonT(30) DEF LaneSends
  <2> QED
    BY <1>1, <2>1, ZenonT(30)
<1>6. CASE LaneTakes(y) /\ Piped(y) # {}
  <2>1. /\ q # <<>> /\ writeq'[y] = Append(w, SendAndThen(Head(q)))
        /\ endedBy'[y] = endedBy[y]
    BY <1>6 DEF LaneTakes, LaneHead
  <2>2. Head(q) \in Message
    BY <2>1, EndsFacts, IncomingFacts
  <2>3. SendAndThen(Head(q)) \in WriterMessage /\ SendAndThen(Head(q)) \notin Closes
    BY <2>2, WordFacts, ZenonT(30) DEF SendAndThen, Message, WriterMessage
  <2>4. ~ Has(w, Closes)
    BY <1>1, <1>6, ZenonT(30)
  <2> HIDE DEF w, q
  <2>5. ~ Has(writeq'[y], Closes)
    BY <1>0, <2>1, <2>3, <2>4, HasAppend
  <2>6. NeverAfter(writeq'[y], Closes, Frames)
    BY <1>0, <1>1, <2>1, <2>3, <2>4, NeverAfterAppend, ZenonT(30)
  <2> QED
    BY <1>1, <2>1, <2>5, <2>6, ZenonT(30)
<1>7. CASE LaneMisses(y) /\ Piped(y)' \subseteq Piped(y)
  BY <1>2, <1>7, ZenonT(30) DEF LaneMisses, LaneHead
<1>8. CASE (LaneWrites(y) \/ LaneFails(y)) /\ Piped(y)' = Piped(y)
  <2>1. w # <<>> /\ writeq'[y] = Tail(w) /\ endedBy'[y] = endedBy[y]
    BY <1>8, ZenonT(30) DEF LaneWrites, LaneFails, LaneWriter
  <2>2. Has(Tail(w), Closes) => Has(w, Closes)
    BY <1>0, <2>1, HasTail, ZenonT(30)
  <2>3. NeverAfter(Tail(w), Closes, Frames)
    BY <1>0, <1>1, <2>1, NeverAfterTail, ZenonT(30)
  <2> QED
    BY <1>1, <1>8, <2>1, <2>2, <2>3, ZenonT(30)
<1>9. CASE LaneEnds(y)
  <2>1. /\ writeq'[y] = <<>>
        /\ endedBy'[y] = "close" => w # <<>> /\ Head(w) \in Closes
    BY <1>9, ZenonT(30) DEF LaneEnds
  <2>2. endedBy'[y] = "close" => Has(w, Closes)
    BY <1>0, <2>1, HasTail
  <2> QED
    BY <1>1, <2>1, <2>2, EmptyQueue, ZenonT(30)
<1>10. CASE LaneLeft(y) /\ FlowKeeps(y)
  BY <1>2, <1>10, ZenonT(30) DEF LaneLeft, FlowKeeps
<1> QED
  BY <1>3, <1>4, <1>5, <1>6, <1>7, <1>8, <1>9, <1>10, ZenonT(30) DEF Flow

(* What has arrived of a stream has arrived for good once its sender is    *)
(* over.                                                                   *)
LEMMA PipedShrinks ==
  ASSUME NEW y \in Ends, Flow(y), task[Peer(y)] # "running"
  PROVE  Piped(y)' \subseteq Piped(y)
<1>1. ~ LaneSends(y)
  BY ZenonT(30) DEF LaneSends
<1> QED
  BY <1>1, ZenonT(30) DEF Flow, FlowKeeps

(* A side forgets an end that runs only on the last word of its peer.      *)
LEMMA KnownStep ==
  ASSUME TypeOK, Life, Known, LastWords, [Next]_vars, NEW y \in Ends, Flow(y),
         task'[y] = "running", y \notin registered',
         Over(Peer(y)) => Over(Peer(y))' /\ task[Peer(y)] # "running"
  PROVE  Over(Peer(y))' /\ Piped(y)' = {}
<1> DEFINE q == pipe[y[1]]
<1>0. q \in Seq(Message)
  BY EndsFacts DEF TypeOK
<1>1. CASE task[y] = "running" /\ y \notin registered
  <2>1. Over(Peer(y)) /\ Piped(y) = {}
    BY <1>1 DEF Known
  <2> QED
    BY <2>1, PipedShrinks
<1>2. CASE q # <<>> /\ Head(q) \in Closing(y[2]) /\ pipe'[y[1]] = Tail(q)
  <2>1. Over(Peer(y)) /\ ~ Has(Tail(q), Data(y[2]))
    BY <1>0, <1>2, HasTail, NeverAfterTail DEF LastWords
  <2>2. Piped(y)' = {}
    BY <1>2, <2>1, NoNumbers, ZenonT(30) DEF Piped
  <2> QED
    BY <2>1, <2>2, ZenonT(30)
<1> QED
  BY <1>1, <1>2, LeavesMap, ZenonT(30)

-----------------------------------------------------------------------------
(* Nothing is missing.                                                     *)

(* No frame is dropped on its way to an end that can still write it: the   *)
(* outlet's loop handles no data while a session is starting, no data      *)
(* comes before the connect, and an end leaves the map after the last      *)
(* frame.                                                                  *)
LEMMA NoFrameMissed ==
  ASSUME TypeOK, Base, Known, ~ SlowSpawn, NEW y \in Ends, ~ Over(y),
         pipe[y[1]] # <<>>, Head(pipe[y[1]]) \in Data(y[2]),
         y[1] = "outlet" => connecting = NoSession,
         task[y] # "running" \/ y \notin registered
  PROVE  FALSE
<1> DEFINE s == y[2]
           q == pipe[y[1]]
<1>0. /\ Life /\ FirstWord /\ Loop /\ Order
      /\ s \in Sessions /\ q \in Seq(Message)
      /\ task[y] \in {"none", "spawned", "running", "ending", "closed"}
  BY EndsFacts DEF Base, TypeOK
<1>1. /\ q # <<>> /\ Head(q) \in Data(s) /\ (y[1] = "outlet" => connecting = NoSession)
      /\ task[y] # "running" \/ y \notin registered
      /\ Piped(y) # {}
  BY <1>0, HasTail, NoNumbers DEF Piped
<1>2. task[y] # "running"
  BY <1>1 DEF Known
<1>3. task[y] # "spawned"
  <2> SUFFICES ASSUME task[y] = "spawned" PROVE FALSE
    OBVIOUS
  <2>1. y[1] = "outlet" /\ y = Outlet(s)
    BY <1>0, EndNames, EndsFacts DEF Life, Side
  <2>2. connecting = s /\ connecting = NoSession
    BY <1>0, <1>1, <2>1, ZenonT(30) DEF Loop
  <2> QED
    BY <1>0, <2>2, ConstantsAssumption
<1>4. task[y] \notin {"ending", "closed"}
  BY DEF Over
<1>5. task[y] = "none"
  BY <1>0, <1>2, <1>3, <1>4
<1>6. task[Peer(y)] # "none"
  BY <1>0, <1>1, DataHasSender
<1>7. y = Outlet(s) /\ y[1] = "outlet" /\ Peer(y) = Inlet(s)
  <2>1. ASSUME y = Inlet(s) PROVE FALSE
    <3> HIDE DEF s, q
    <3>1. Peer(y) = Outlet(s)
      BY <1>0, <2>1, NamedFacts
    <3>2. task[Inlet(s)] = "none" => task[Outlet(s)] = "none"
      BY <1>0, ZenonT(30) DEF FirstWord
    <3> QED
      BY <1>5, <1>6, <2>1, <3>1, <3>2
  <2> QED
    BY <1>0, <2>1, EndNames, NamedFacts, ZenonT(30)
<1>8. Has(q, Connect(s)) /\ NeverAfter(q, Connect(s) \cup Data(s), Connect(s))
  BY <1>0, <1>5, <1>6, <1>7, ZenonT(30) DEF Over, FirstWord
<1>9. Head(q) \in Connect(s)
  BY <1>0, <1>1, <1>8, HasTail, NeverAfterTail
<1> QED
  BY <1>1, <1>9, WordFacts DEF Connect, Data

(* The frame a writer takes is the next one.                               *)
LEMMA NextWritten ==
  ASSUME TypeOK, Base, Exact, Unbroken, NEW y \in Ends,
         task[y] = "running", y \notin broken, NEW n \in Waiting(y),
         \A k \in Waiting(y) \ {n} : n < k
  PROVE  n = Len(delivered[y]) + 1
<1> DEFINE l == Len(delivered[y])
<1>0. /\ l \in Nat /\ n \in Nat /\ n > 0
      /\ Before(Written(y), Waiting(y)) /\ Before(Waiting(y), Piped(y))
  <2>1. Order /\ Life /\ delivered[y] \in Seq(Nat)
    BY DEF Base, TypeOK
  <2>2. /\ Waiting(y) \subseteq 1 .. Sent(Peer(y)) /\ Sent(Peer(y)) \in Nat
        /\ Before(Written(y), Waiting(y) \cup Piped(y))
        /\ Before(Waiting(y), Piped(y))
    BY <2>1, SentType, EndsFacts DEF Order
  <2> QED
    BY <2>1, <2>2, LenFacts DEF Before
<1>1. ~ Over(y)
  BY DEF Over
<1>2. \A k \in 1 .. n : k <= l \/ k \in Waiting(y) \cup Piped(y)
  BY <1>1 DEF Unbroken, Present
<1>3. ~ (n <= l)
  <2> SUFFICES ASSUME n <= l PROVE FALSE
    OBVIOUS
  <2>1. n \in 1 .. l /\ delivered[y][n] = n
    BY <1>0 DEF Exact
  <2>2. n \in Written(y)
    BY <2>1 DEF Written
  <2> QED
    BY <1>0, <2>2 DEF Before
<1>4. ~ (n > l + 1)
  <2> SUFFICES ASSUME n > l + 1 PROVE FALSE
    OBVIOUS
  <2> HIDE DEF l
  <2>1. l + 1 \in 1 .. n /\ ~ (l + 1 <= l) /\ ~ (n < l + 1) /\ l + 1 # n
    BY <1>0
  <2>2. l + 1 \in Waiting(y) \cup Piped(y)
    BY <1>2, <2>1
  <2> QED
    BY <1>0, <2>1, <2>2 DEF Before
<1> HIDE DEF l
<1>5. n = l + 1
  BY <1>0, <1>3, <1>4
<1> QED
  BY <1>5 DEF l

LEMMA ExactStep ==
  ASSUME TypeOK, Base, Exact, Unbroken, NEW y \in Ends, Flow(y)
  PROVE  \A i \in 1 .. Len(delivered'[y]) : delivered'[y][i] = i
<1>0. delivered[y] \in Seq(Nat) /\ \A i \in 1 .. Len(delivered[y]) : delivered[y][i] = i
  BY DEF TypeOK, Exact
<1>1. CASE delivered'[y] = delivered[y]
  BY <1>0, <1>1
<1>2. ASSUME LaneWrites(y), NEW n \in Waiting(y),
             delivered'[y] = Append(delivered[y], n), \A k \in Waiting(y) \ {n} : n < k
      PROVE  \A i \in 1 .. Len(delivered'[y]) : delivered'[y][i] = i
  <2>1. n = Len(delivered[y]) + 1
    BY <1>2, NextWritten DEF LaneWrites, LaneWriter
  <2>2. n \in Nat
    BY <1>0, <2>1, LenFacts
  <2>3. /\ \A i : i \in 1 .. Len(delivered'[y]) <=>
                  i \in 1 .. Len(delivered[y]) \/ i = Len(delivered[y]) + 1
        /\ \A i \in 1 .. Len(delivered[y]) : delivered'[y][i] = delivered[y][i]
        /\ delivered'[y][Len(delivered[y]) + 1] = n
    BY <1>0, <1>2, <2>2, AppendIndices, SMTT(30)
  <2> QED
    BY <1>0, <2>1, <2>3
<1> QED
  BY <1>1, <1>2 DEF Flow, FlowKeeps
(* As long as an end can write, a step loses no frame of its stream.       *)
LEMMA UnbrokenStep ==
  ASSUME TypeOK, Base, Known, Exact, Unbroken, ~ SlowSpawn, NEW y \in Ends,
         Flow(y), Goes(Peer(y)), y \in broken => y \in broken',
         Over(y) => Over(y)', ~ Over(y)', y \notin broken'
  PROVE  /\ \A n \in (Waiting(y) \cup Piped(y))' : \A k \in 1 .. n : Present(y, k)'
         /\ task'[Peer(y)] \in {"none", "spawned", "running"} \/ endedBy'[Peer(y)] = "eof"
              => \A k \in 1 .. Sent(Peer(y))' : Present(y, k)'
<1> DEFINE x == Peer(y)
           l == Len(delivered[y])
           W == Waiting(y)
           P == Piped(y)
           Can == task[x] \in {"none", "spawned", "running"} \/ endedBy[x] = "eof"
           Goal == /\ \A n \in (Waiting(y) \cup Piped(y))' : \A k \in 1 .. n : Present(y, k)'
                   /\ Can' => \A k \in 1 .. Sent(x)' : Present(y, k)'
<1> SUFFICES Goal
  OBVIOUS
<1>1. ~ Over(y) /\ y \notin broken
  OBVIOUS
<1>2. /\ \A n \in W \cup P : \A k \in 1 .. n : k <= l \/ k \in W \cup P
      /\ Can => \A k \in 1 .. Sent(x) : k <= l \/ k \in W \cup P
  BY <1>1 DEF Unbroken, Present
<1>3. /\ Sent(x) \in Nat /\ l \in Nat /\ W \cup P \subseteq 1 .. Sent(x)
      /\ delivered[y] \in Seq(Nat)
  <2>1. Order /\ Life /\ delivered[y] \in Seq(Nat)
    BY DEF Base, TypeOK
  <2> QED
    BY <2>1, SentType, EndsFacts, LenFacts DEF Order
<1>4. \A k : Present(y, k)' <=> k <= Len(delivered'[y]) \/ k \in (Waiting(y) \cup Piped(y))'
  BY DEF Present
<1>5. ASSUME delivered'[y] = delivered[y], (Waiting(y) \cup Piped(y))' = W \cup P,
             Can' => Can /\ Sent(x)' = Sent(x)
      PROVE  Goal
  <2> HIDE DEF Can, W, P
  <2> QED
    BY <1>2, <1>4, <1>5
<1>6. ASSUME endedBy'[x] = endedBy[x] PROVE Can' => Can
  BY <1>6 DEF Goes
<1>7. CASE (LaneRests(y) \/ LaneCloses(y)) /\ FlowKeeps(y)
  <2>1. endedBy'[x] = endedBy[x] /\ Sent(x)' = Sent(x)
    BY <1>7 DEF LaneRests, LaneCloses, LaneHead
  <2> QED
    BY <1>5, <1>6, <1>7, <2>1 DEF FlowKeeps
<1>8. CASE LaneLeft(y) /\ FlowKeeps(y)
  <2>1. Can' => Can /\ Sent(x)' = Sent(x)
    BY <1>8 DEF LaneLeft
  <2> QED
    BY <1>5, <1>8, <2>1 DEF FlowKeeps
<1>9. ASSUME LaneSends(y), P' = P \cup {Sent(x) + 1}, W' = W,
             delivered'[y] = delivered[y]
      PROVE  Goal
  <2>1. Can /\ Sent(x)' = Sent(x) + 1
    BY <1>9 DEF LaneSends
  <2>2. \A k \in 1 .. Sent(x) + 1 : Present(y, k)'
    <3> HIDE DEF Can
    <3> QED
      BY <1>2, <1>3, <1>4, <1>9, <2>1
  <2>3. (Waiting(y) \cup Piped(y))' \subseteq 1 .. Sent(x) + 1
    BY <1>3, <1>9
  <2>4. \A n \in 1 .. Sent(x) + 1 : \A k \in 1 .. n : k \in 1 .. Sent(x) + 1
    BY <1>3
  <2> HIDE DEF Can
  <2> QED
    BY <2>1, <2>2, <2>3, <2>4
<1>10. ASSUME LaneTakes(y), NEW n \in P, P' = P \ {n}, W' = W \cup {n},
              delivered'[y] = delivered[y]
       PROVE  Goal
  <2>1. endedBy'[x] = endedBy[x] /\ Sent(x)' = Sent(x)
    BY <1>10, ZenonT(30) DEF LaneTakes, LaneHead
  <2> QED
    BY <1>5, <1>6, <1>10, <2>1, SMTT(30)
<1>11. ASSUME LaneMisses(y), P # {} PROVE Goal
  BY <1>1, <1>11, NoFrameMissed DEF LaneMisses, LaneHead
<1>12. ASSUME LaneWrites(y), NEW n \in W, W' = W \ {n}, P' = P,
              delivered'[y] = Append(delivered[y], n), \A k \in W' : n < k
       PROVE  Goal
  <2>1. task[y] = "running" /\ endedBy'[x] = endedBy[x] /\ Sent(x)' = Sent(x)
    BY <1>12 DEF LaneWrites, LaneWriter
  <2>2. n = l + 1
    BY <1>1, <1>12, <2>1, NextWritten
  <2>3. Len(delivered'[y]) = l + 1
    BY <1>3, <1>12, <2>2, AppendFacts
  <2>4. \A k \in Nat : k <= l \/ k \in W \cup P => Present(y, k)'
    <3>1. \A k \in Nat : Present(y, k)' <=> k <= l + 1 \/ k \in (W \ {n}) \cup P
      BY <1>4, <1>12, <2>3
    <3> HIDE DEF W, P, l
    <3> QED
      BY <1>3, <2>2, <3>1
  <2>5. (Waiting(y) \cup Piped(y))' \subseteq W \cup P
    BY <1>12
  <2>6. \A m \in W \cup P : \A k \in 1 .. m : k \in Nat
    BY <1>3
  <2>7. Can' => Can
    BY <1>6, <2>1
  <2> HIDE DEF Can, W, P, l
  <2>8. Can' => \A k \in 1 .. Sent(x)' : Present(y, k)'
    BY <1>2, <1>3, <2>1, <2>4, <2>7
  <2>9. \A m \in (Waiting(y) \cup Piped(y))' : \A k \in 1 .. m : Present(y, k)'
    BY <1>2, <2>4, <2>5, <2>6
  <2> QED
    BY <2>8, <2>9
<1>13. ~ LaneFails(y)
  BY DEF LaneFails
<1>14. ~ LaneEnds(y)
  BY DEF LaneEnds, Over
<1> HIDE DEF Goal
<1> QED
  BY <1>7, <1>8, <1>9, <1>10, <1>11, <1>12, <1>13, <1>14, ZenonT(30) DEF Flow

(* Close is handled when all the data before it was written: if the peer   *)
(* has sent all it read, all of it.                                        *)
LEMMA GracefulStep ==
  ASSUME TypeOK, Base, Known, LastWords, Exact, Unbroken, GracefulClose,
         ~ SlowSpawn, Life', NEW y \in Ends, Flow(y), Goes(Peer(y)),
         y \in broken => y \in broken',
         Over(Peer(y)) => task[Peer(y)] # "running",
         endedBy'[y] = "close", endedBy'[Peer(y)] = "eof", y \notin broken'
  PROVE  Len(delivered'[y]) = nread'[Peer(y)]
<1> DEFINE x == Peer(y)
           l == Len(delivered[y])
<1>0. /\ Life /\ Order /\ x \in Ends /\ y \notin broken /\ delivered[y] \in Seq(Nat)
      /\ l \in Nat /\ Sent(x) \in Nat
  BY EndsFacts, SentType, LenFacts, SMTT(30) DEF Base, TypeOK
<1>1. nread'[x] = Sent(x)'
  <2>1. reader'[x] = "idle"
    BY <1>0 DEF Life
  <2> QED
    BY <2>1 DEF Sent
<1>2. ASSUME endedBy[x] = "eof"
      PROVE  nread[x] = Sent(x) /\ task[x] # "running"
  BY <1>0, <1>2 DEF Life, Sent
<1>3. ASSUME endedBy[y] = "close", endedBy[x] = "eof" PROVE l = Sent(x)
  BY <1>0, <1>2, <1>3, ZenonT(30) DEF GracefulClose
<1>4. CASE (LaneRests(y) \/ LaneCloses(y) \/ LaneTakes(y) \/ LaneMisses(y))
  <2>1. /\ endedBy'[y] = endedBy[y] /\ endedBy'[x] = endedBy[x]
        /\ Sent(x)' = Sent(x) /\ delivered'[y] = delivered[y]
    BY <1>4 DEF LaneRests, LaneCloses, LaneTakes, LaneMisses, LaneHead
  <2> QED
    BY <1>1, <1>3, <2>1
<1>5. ~ LaneSends(y)
  BY <1>2 DEF LaneSends
<1>6. ~ LaneWrites(y) /\ ~ LaneFails(y)
  BY <1>0 DEF LaneWrites, LaneFails, LaneWriter, Life
<1>7. ~ LaneLeft(y)
  BY ZenonT(30) DEF LaneLeft, LastWords
<1>8. CASE LaneEnds(y)
  <2>1. /\ task[y] = "running" /\ delivered'[y] = delivered[y]
        /\ writeq[y] # <<>> /\ Head(writeq[y]) \in Closes
        /\ endedBy[x] = "eof" /\ Sent(x)' = Sent(x)
    BY <1>8 DEF LaneEnds
  <2>2. writeq[y] \in Seq(WriterMessage)
    BY DEF TypeOK
  <2>3. Has(writeq[y], Closes) /\ ~ Has(Tail(writeq[y]), Frames)
    BY <2>1, <2>2, HasTail, NeverAfterTail, ZenonT(30) DEF LastWords
  <2>4. Piped(y) = {}
    BY <2>3, ZenonT(30) DEF LastWords
  <2>5. Waiting(y) = {}
    <3>1. Head(writeq[y]) \notin Frames
      BY <2>1 DEF Closes, Frames
    <3>2. ~ Has(writeq[y], Frames)
      BY <2>1, <2>2, <2>3, <3>1, HasTail
    <3> QED
      BY <3>2, NoNumbers, ZenonT(30) DEF Waiting
  <2>6. \A k \in 1 .. Sent(x) : k <= l
    <3>1. ~ Over(y)
      BY <2>1 DEF Over
    <3>2. \A k \in 1 .. Sent(x) : Present(y, k)
      BY <1>0, <2>1, <3>1 DEF Unbroken
    <3> QED
      BY <2>4, <2>5, <3>2 DEF Present
  <2>7. l # 0 => l \in Written(y)
    <3>1. l # 0 => l \in 1 .. l /\ delivered[y][l] = l
      BY <1>0 DEF Exact
    <3> QED
      BY <3>1 DEF Written
  <2>8. l # 0 => l <= Sent(x)
    <3>1. Written(y) \subseteq 1 .. Sent(x)
      BY <1>0 DEF Order
    <3> HIDE DEF l
    <3> QED
      BY <1>0, <2>7, <3>1
  <2> HIDE DEF l
  <2>9. l = Sent(x)
    BY <1>0, <2>6, <2>8
  <2> QED
    BY <1>1, <2>1, <2>9 DEF l
<1> QED
  BY <1>4, <1>5, <1>6, <1>7, <1>8, ZenonT(30) DEF Flow

(* With a runtime that starts a spawned task within the 2 s for which      *)
(* on_i2o_connect waits.                                                   *)
Whole == ~ SlowSpawn => Known /\ LastWords /\ Exact /\ Unbroken

(* Initially no stream has begun.                                          *)
LEMMA WholeInit == ASSUME Init PROVE Whole /\ GracefulClose
<1>1. \A y \in Ends : /\ pipe[y[1]] = <<>> /\ writeq[y] = <<>> /\ delivered[y] = <<>>
                      /\ task[y] = "none" /\ endedBy[y] = "none"
                      /\ Sent(Peer(y)) = 0
  BY EndsFacts DEF Init, Sent
<1>2. Known
  BY <1>1 DEF Known
<1>3. LastWords
  BY <1>1, EmptyQueue DEF LastWords
<1>4. Exact
  BY <1>1 DEF Exact
<1>5. Unbroken
  <2>1. \A y \in Ends : Waiting(y) = {} /\ Piped(y) = {}
    BY <1>1, EmptyQueue DEF Waiting, Piped
  <2> QED
    BY <1>1, <2>1 DEF Unbroken
<1>6. GracefulClose
  BY <1>1 DEF GracefulClose
<1> QED
  BY <1>2, <1>3, <1>4, <1>5, <1>6 DEF Whole

LEMMA WholeStep ==
  ASSUME TypeOK, Base, Whole, GracefulClose, [Next]_vars
  PROVE  Whole' /\ GracefulClose'
<1> SUFFICES ASSUME ~ SlowSpawn
             PROVE  (Known /\ LastWords /\ Exact /\ Unbroken)' /\ GracefulClose'
  BY DEF Whole, GracefulClose
<1>0. /\ Known /\ LastWords /\ Exact /\ Unbroken
      /\ Life /\ FirstWord /\ Loop /\ Order
  BY DEF Whole, Base
<1>1. /\ \A e \in Side : Moves(e)
      /\ \A x \in Ends : Goes(x)
      /\ \A y \in Ends : Lane(y) /\ Flow(y)
      /\ Life'
  BY BaseStep DEF Base
<1>2. \A x \in Ends : Over(x) => Over(x)' /\ task[x] # "running"
  BY <1>0, <1>1, OverStays
<1>3. \A y \in Ends : y \in broken => y \in broken'
  BY <1>0, LaneStep
<1>4. \A y \in Ends : Peer(y) \in Ends /\ y[1] \in Side
  BY EndsFacts
<1>5. Known'
  <2>1. \A y \in Ends : task'[y] = "running" /\ y \notin registered'
          => Over(Peer(y))' /\ Piped(y)' = {}
    BY <1>0, <1>1, <1>2, <1>4, KnownStep
  <2> QED
    BY <2>1 DEF Known
<1>6. LastWords'
  <2>1. \A y \in Ends : /\ Has(pipe'[y[1]], Closing(y[2])) => Over(Peer(y))'
                        /\ NeverAfter(pipe'[y[1]], Closing(y[2]), Data(y[2]))
    BY <1>0, <1>1, <1>2, <1>4, ClosingStep
  <2>2. \A y \in Ends :
          /\ Has(writeq'[y], Closes) => Over(Peer(y))' /\ Piped(y)' = {}
          /\ NeverAfter(writeq'[y], Closes, Frames)
          /\ endedBy'[y] = "close" => Over(Peer(y))'
    BY <1>0, <1>1, <1>2, <1>4, CloseStep
  <2> QED
    BY <2>1, <2>2 DEF LastWords, Closing, Data, Words, Closes, Frames
<1>7. Exact'
  <2>1. \A y \in Ends : \A i \in 1 .. Len(delivered'[y]) : delivered'[y][i] = i
    BY <1>0, <1>1, ExactStep
  <2> QED
    BY <2>1 DEF Exact
<1>8. Unbroken'
  <2>1. ASSUME NEW y \in Ends, ~ Over(y)', y \notin broken'
        PROVE  /\ \A n \in (Waiting(y) \cup Piped(y))' : \A k \in 1 .. n : Present(y, k)'
               /\ task'[Peer(y)] \in {"none", "spawned", "running"}
                    \/ endedBy'[Peer(y)] = "eof"
                    => \A k \in 1 .. Sent(Peer(y))' : Present(y, k)'
    BY <1>0, <1>1, <1>2, <1>3, <1>4, <2>1, UnbrokenStep
  <2> QED
    BY <2>1 DEF Unbroken
<1>9. GracefulClose'
  <2>1. ASSUME NEW y \in Ends, endedBy'[y] = "close", endedBy'[Peer(y)] = "eof",
               y \notin broken'
        PROVE  Len(delivered'[y]) = nread'[Peer(y)]
    BY <1>0, <1>1, <1>2, <1>3, <1>4, <2>1, GracefulStep, ZenonT(30)
  <2> QED
    BY <2>1 DEF GracefulClose
<1> QED
  BY <1>5, <1>6, <1>7, <1>8, <1>9

(* In every run, the streams of a session are whole in this sense.         *)
LEMMA WholeHolds == Spec => [](TypeOK /\ Base /\ Whole /\ GracefulClose)
BY WholeInit, WholeStep, TypeCorrect, BaseHolds, PTL DEF Spec

(* Close is graceful, for any number of sessions and frames: when one      *)
(* socket was closed after its last byte and the other end was closed      *)
(* because of it, everything that was read has been written, on a runtime  *)
(* that starts a spawned session within the 2 s of on_i2o_connect.         *)
THEOREM ClosesGracefully == Spec => []GracefulClose
BY WholeHolds, PTL

(* An end is closed from the other side only when its peer has ended or    *)
(* was never there, whatever the other sessions in the same loops do, on   *)
(* the same condition.                                                     *)
THEOREM OnlyPeerCloses == Spec => []ClosedByPeer
<1>1. TypeOK /\ Base /\ Whole /\ GracefulClose => ClosedByPeer
  BY DEF Whole, LastWords, Over, ClosedByPeer
<1> QED
  BY <1>1, WholeHolds, PTL

-----------------------------------------------------------------------------
(* The tunnel implements Stream.                                           *)

(* The ends of Stream, and the state of an end by its task.                *)
LEMMA PromiseEnds ==
  Promise!Ends = Ends /\ \A x \in Ends : Promise!Peer(x) = Peer(x)
BY DEF Promise!Ends, Promise!Peer, Ends, Side, Peer, Other

LEMMA StateFacts ==
  ASSUME TypeOK, NEW x \in Ends
  PROVE  /\ task[x] \in {"none", "spawned"} => State(x) = "new"
         /\ task[x] = "running" => State(x) = "open"
         /\ task[x] \in {"ending", "closed"} =>
              State(x) = CASE endedBy[x] = "eof" -> "left"
                           [] endedBy[x] = "write_error" -> "aborted"
                           [] OTHER -> "closed"
         /\ State(x) = "new" => task[x] \in {"none", "spawned"}
         /\ State(x) = "open" => task[x] = "running"
         /\ State(x) = "left" => endedBy[x] = "eof"
BY DEF TypeOK, State

(* A step that changes the task of one end changes its state alone.        *)
LEMMA OneState ==
  ASSUME NEW x \in Ends,
         \A z \in Ends : z # x => task'[z] = task[z] /\ endedBy'[z] = endedBy[z]
  PROVE  [z \in Ends |-> State(z)]' = [[z \in Ends |-> State(z)] EXCEPT ![x] = State(x)']
BY DEF State

LEMMA SameStates ==
  ASSUME \A z \in Ends : State(z)' = State(z), UNCHANGED <<nread, delivered, broken>>
  PROVE  UNCHANGED Promise!vars
BY DEF Promise!vars

(* A session starts, and ends, at one of its ends.                         *)
LEMMA StartIsOpen ==
  ASSUME TypeOK, TypeOK', Base, NEW s \in Sessions, Accept(s) \/ OutletSessionStart(s)
  PROVE  Promise!Next
<1> USE DEF readerVars, writerVars
<1>1. PICK x \in Ends :
        /\ task[x] \in {"none", "spawned"} /\ task' = [task EXCEPT ![x] = "running"]
        /\ x[1] = "outlet" => x = Outlet(s) /\ task[x] = "spawned"
  BY NamedFacts, ZenonT(30) DEF Accept, OutletSessionStart
<1>2. UNCHANGED <<nread, delivered, broken, endedBy>>
  BY DEF Accept, OutletSessionStart
<1>3. x[1] = "outlet" => task[Peer(x)] \notin {"none", "spawned"}
  <2> SUFFICES ASSUME x[1] = "outlet" PROVE task[Inlet(s)] \notin {"none", "spawned"}
    BY <1>1, NamedFacts
  <2>1. task[Outlet(s)] = "spawned"
    BY <1>1
  <2>2. task[Inlet(s)] # "none"
    BY <2>1 DEF Base, FirstWord
  <2>3. task[Inlet(s)] # "spawned"
    BY NamedFacts DEF Base, Life
  <2> QED
    BY <2>2, <2>3
<1>4. task'[x] = "running" /\ \A z \in Ends : z # x => task'[z] = task[z]
  BY <1>1, <1>2 DEF TypeOK
<1>5. State(x) = "new"
  BY <1>1, <1>2, StateFacts
<1>9. State(x)' = "open"
  BY <1>4 DEF State
<1>6. x[1] = "outlet" => State(Peer(x)) # "new"
  BY <1>1, <1>3, EndsFacts, StateFacts
<1>7. [z \in Ends |-> State(z)]' = [[z \in Ends |-> State(z)] EXCEPT ![x] = "open"]
  BY <1>1, <1>2, <1>4, <1>9, OneState
<1>8. Promise!Open(x)
  BY <1>1, <1>2, <1>5, <1>6, <1>7, PromiseEnds, EndsFacts
  DEF Promise!Open, Promise!Becomes
<1> QED
  BY <1>1, <1>8, PromiseEnds DEF Promise!Next

LEMMA EndIsOver ==
  ASSUME TypeOK, TypeOK', Base, Whole, ~ SlowSpawn, GracefulClose', NEW x \in Ends,
         ReadEof(x) \/ WriteError(x) \/ WriterClose(x)
  PROVE  Promise!Next
<1>1. PICK why \in {"eof", "write_error", "close"} :
        /\ task[x] = "running" /\ SelectReturns(x, why)
        /\ why = "close" => WriterClose(x)
  BY DEF ReadEof, WriteError, WriterClose, WriterAt
<1>2. /\ task'[x] = "ending" /\ endedBy'[x] = why
      /\ \A z \in Ends : z # x => task'[z] = task[z] /\ endedBy'[z] = endedBy[z]
      /\ UNCHANGED <<nread, delivered, broken>>
  BY <1>1 DEF SelectReturns, TypeOK
<1>3. State(x) = "open"
  BY <1>1, StateFacts
<1>4. State(x)' = CASE why = "eof" -> "left" [] why = "write_error" -> "aborted"
                    [] OTHER -> "closed"
  BY <1>2 DEF State
<1>5. [z \in Ends |-> State(z)]' = [[z \in Ends |-> State(z)] EXCEPT ![x] = State(x)']
  BY <1>2, OneState
<1>6. CASE why = "eof"
  <2>1. Promise!Leave(x)
    BY <1>2, <1>3, <1>4, <1>5, <1>6, PromiseEnds DEF Promise!Leave, Promise!Becomes
  <2> QED
    BY <2>1, PromiseEnds DEF Promise!Next
<1>7. CASE why = "write_error"
  <2>1. Promise!Abort(x)
    BY <1>2, <1>3, <1>4, <1>5, <1>7, PromiseEnds DEF Promise!Abort, Promise!Becomes
  <2> QED
    BY <2>1, PromiseEnds DEF Promise!Next
<1>8. CASE why = "close"
  <2>0. Peer(x) \in Ends /\ Peer(x) # x
    BY EndsFacts
  <2>1. WriterClose(x) /\ writeq[x] \in Seq(WriterMessage) /\ writeq[x] # <<>>
        /\ Head(writeq[x]).close = TRUE
    BY <1>1, <1>8 DEF WriterClose, WriterAt, TypeOK
  <2>2. Head(writeq[x]) \in Closes
    BY <2>1, WordFacts, SMTT(30)
  <2>3. Over(Peer(x))
    BY <2>1, <2>2, HasTail, ZenonT(30) DEF Whole, LastWords
  <2>4. State(Peer(x)) # "open"
    BY <2>0, <2>3, StateFacts DEF Over
  <2>5. State(Peer(x)) = "left" /\ x \notin broken => Len(delivered[x]) = nread[Peer(x)]
    BY <1>2, <1>8, <2>0, StateFacts DEF GracefulClose
  <2>6. State(x)' = "closed"
    BY <1>4, <1>8
  <2>7. Promise!Close(x)
    BY <1>2, <1>3, <1>5, <2>0, <2>4, <2>5, <2>6, PromiseEnds
    DEF Promise!Close, Promise!Becomes
  <2> QED
    BY <2>7, PromiseEnds DEF Promise!Next
<1> QED
  BY <1>1, <1>6, <1>7, <1>8

(* What is written is the next frame of what was read at the other end.    *)
LEMMA WriteIsGive ==
  ASSUME TypeOK, Base, Whole, ~ SlowSpawn, NEW x \in Ends, WriteFrame(x)
  PROVE  Promise!Next
<1> USE DEF taskVars, readerVars
<1> DEFINE w == writeq[x]
           n == Head(writeq[x]).n
<1>0. Life /\ Order /\ Exact /\ Unbroken /\ Peer(x) \in Ends
      /\ Sent(Peer(x)) \in Nat /\ nread[Peer(x)] \in Nat /\ Sent(Peer(x)) <= nread[Peer(x)]
  BY EndsFacts, SentType DEF Base, Whole
<1>1. /\ task[x] = "running" /\ x \notin broken
      /\ w \in Seq(WriterMessage) /\ w # <<>> /\ Head(w) \in WriterMessage
      /\ Head(w).close = FALSE
      /\ delivered' = [delivered EXCEPT ![x] = Append(@, n)]
      /\ UNCHANGED <<task, endedBy, nread, broken>>
  BY DEF WriteFrame, WriterAt, TypeOK
<1>2. Head(w) \in Frames /\ Ascending(w, Frames) /\ \A m \in Frames : m.n \in Int
  <2>1. Head(w) \in Frames
    BY <1>1, WordFacts
  <2>2. Ascending(w, Frames)
    BY <1>0 DEF Order
  <2>3. \A m \in Frames : m.n \in Int
    BY DEF Frames
  <2> QED
    BY <2>1, <2>2, <2>3
<1>3. n \in Waiting(x) /\ \A k \in Waiting(x) \ {n} : n < k
  BY <1>1, <1>2, NumbersTail DEF Waiting
<1>4. n = Len(delivered[x]) + 1
  BY <1>1, <1>3, <1>0, NextWritten
<1>5. n \in 1 .. Sent(Peer(x))
  BY <1>0, <1>3 DEF Order
<1>6. delivered[x] \in Seq(Nat) /\ Len(delivered[x]) \in Nat
  BY LenFacts DEF TypeOK
<1>7. Len(delivered[x]) < nread[Peer(x)]
  BY <1>0, <1>4, <1>5, <1>6
<1>8. State(x) = "open" /\ [z \in Ends |-> State(z)]' = [z \in Ends |-> State(z)]
  BY <1>1, StateFacts DEF State
<1>9. Promise!Give(x)
  BY <1>1, <1>4, <1>7, <1>8, PromiseEnds DEF Promise!Give
<1> QED
  BY <1>9, PromiseEnds DEF Promise!Next

LEMMA StreamStep ==
  ASSUME TypeOK, TypeOK', Base, Whole, ~ SlowSpawn, GracefulClose', [Next]_vars
  PROVE  Promise!Next \/ UNCHANGED Promise!vars
<1> DEFINE Good == Promise!Next \/ UNCHANGED Promise!vars
<1> SUFFICES Good
  OBVIOUS
<1> USE DEF taskVars, readerVars, writerVars
<1>1. ASSUME NEW s \in Sessions, Accept(s) \/ OutletSessionStart(s) PROVE Good
  BY <1>1, StartIsOpen
<1>2. ASSUME NEW x \in Ends, ReadEof(x) \/ WriteError(x) \/ WriterClose(x)
      PROVE  Good
  BY <1>2, EndIsOver
<1>3. ASSUME NEW x \in Ends, WriteFrame(x) PROVE Good
  BY <1>3, WriteIsGive
<1>4. ASSUME NEW x \in Ends, NEW len \in ChunkLens, ReadFrame(x, len) PROVE Good
  <2>1. /\ task[x] = "running" /\ nread' = [nread EXCEPT ![x] = @ + 1]
        /\ UNCHANGED <<task, endedBy, delivered, broken>>
    BY <1>4 DEF ReadFrame
  <2>2. State(x) = "open" /\ [z \in Ends |-> State(z)]' = [z \in Ends |-> State(z)]
    BY <2>1, StateFacts DEF State
  <2>3. Promise!Take(x)
    BY <2>1, <2>2, PromiseEnds DEF Promise!Take
  <2> QED
    BY <2>3, PromiseEnds DEF Promise!Next
<1>5. ASSUME NEW x \in Ends, FlushError(x) PROVE Good
  <2>1. /\ task[x] = "running" /\ broken' = broken \cup {x}
        /\ UNCHANGED <<task, endedBy, delivered, nread>>
    BY <1>5 DEF FlushError, WriterAt
  <2>2. State(x) = "open" /\ [z \in Ends |-> State(z)]' = [z \in Ends |-> State(z)]
    BY <2>1, StateFacts DEF State
  <2>3. Promise!Fail(x)
    BY <2>1, <2>2, PromiseEnds DEF Promise!Fail
  <2> QED
    BY <2>3, PromiseEnds DEF Promise!Next
<1>6. ASSUME NEW ok \in BOOLEAN, OnI2oConnect(ok) PROVE Good
  <2>1. /\ \A z \in Ends : task'[z] = task[z] \/ (task'[z] = "spawned" /\ Goes(z))
        /\ UNCHANGED <<nread, delivered, broken, endedBy>>
    <3>1. \A z \in Ends : Goes(z)
      BY BaseStep
    <3>2. task' = task \/ task' = [task EXCEPT ![IncomingEnd("outlet")] = "spawned"]
      BY <1>6 DEF OnI2oConnect
    <3>3. UNCHANGED <<nread, delivered, broken, endedBy>>
      BY <1>6 DEF OnI2oConnect
    <3> QED
      BY <3>1, <3>2, <3>3 DEF TypeOK
  <2>2. \A z \in Ends : task'[z] = task[z]
                        \/ (task[z] \in {"none", "spawned"} /\ task'[z] = "spawned")
    BY <2>1 DEF Goes
  <2>3. \A z \in Ends : State(z)' = State(z)
    BY <2>1, <2>2 DEF State
  <2> QED
    BY <2>1, <2>3, SameStates
<1>7. ASSUME NEW x \in Ends, OnSessionClose(x) PROVE Good
  <2>1. /\ \A z \in Ends : task'[z] = task[z] \/ (task[z] = "ending" /\ task'[z] = "closed")
        /\ UNCHANGED <<nread, delivered, broken, endedBy>>
    BY <1>7 DEF OnSessionClose, TypeOK
  <2>2. \A z \in Ends : State(z)' = State(z)
    BY <2>1 DEF State
  <2> QED
    BY <2>1, <2>2, SameStates
<1> DEFINE Still == /\ task' = task /\ endedBy' = endedBy
                    /\ nread' = nread /\ delivered' = delivered /\ broken' = broken
<1>8. ASSUME Still PROVE Good
  <2>1. \A z \in Ends : State(z)' = State(z)
    BY <1>8 DEF State
  <2> QED
    BY <1>8, <2>1, SameStates
<1>9. ASSUME NEW x \in Ends, EncodeDataAndLimiting(x) \/ SendFrame(x) \/ Callback(x)
      PROVE  Still
  BY <1>9 DEF EncodeDataAndLimiting, SendFrame, Callback
<1>10. ASSUME NEW e \in Side, RecvData(e) \/ RecvAck(e) PROVE Still
  BY <1>10 DEF RecvData, RecvAck
<1>11. ASSUME RecvConnected \/ InletRecvClose \/ ConnectDone \/ ConnectTimeout
              \/ OnI2oDisconnect \/ UNCHANGED vars
       PROVE  Still
  BY <1>11 DEF RecvConnected, InletRecvClose, ConnectDone, ConnectTimeout,
               OnI2oDisconnect, vars
<1> HIDE DEF Good, Still
<1>12. CASE InletInput \/ OutletInput \/ UNCHANGED vars
  BY <1>6, <1>8, <1>10, <1>11, <1>12
  DEF InletInput, OutletInput, InputLoop, Side
<1>13. CASE \E x \in Ends :
              \/ \E len \in ChunkLens : ReadFrame(x, len)
              \/ EncodeDataAndLimiting(x) \/ SendFrame(x) \/ Writer(x)
              \/ Callback(x) \/ ReadEof(x) \/ OnSessionClose(x)
  BY <1>2, <1>3, <1>4, <1>5, <1>7, <1>8, <1>9, <1>13 DEF Writer
<1> QED
  BY <1>1, <1>12, <1>13 DEF Next

(* The tunnel implements Stream, for any number of sessions, frames and    *)
(* lengths: whatever inlet, outlet and pipes do is opening, taking,        *)
(* giving, failing or closing an end as Stream allows, or nothing that     *)
(* Stream sees.  It rests on the runtime starting a spawned session        *)
(* within the 2 s for which on_i2o_connect waits for it.                   *)
THEOREM TunnelImplementsStream ==
  ASSUME ~ SlowSpawn PROVE Spec => ImplementsStream
<1>1. Init => Promise!Init
  <2> SUFFICES ASSUME Init PROVE Promise!Init
    OBVIOUS
  <2>1. \A x \in Ends : State(x) = "new"
    BY DEF Init, State
  <2> QED
    BY <2>1, PromiseEnds DEF Init, Promise!Init
<1>2. /\ TypeOK /\ Base /\ Whole /\ GracefulClose
      /\ TypeOK' /\ GracefulClose' /\ [Next]_vars
      => [Promise!Next]_(Promise!vars)
  BY StreamStep
<1> QED
  BY <1>1, <1>2, WholeHolds, PTL DEF Spec, ImplementsStream, Promise!Spec
=============================================================================
