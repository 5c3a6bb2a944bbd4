-------------------------------- MODULE Tunnel --------------------------------
(***************************************************************************)
(* One TCP tunnel of npipe: an inlet, which accepts client connections, an *)
(* outlet, which connects to the endpoint, and the two ordered pipes of    *)
(* ProxyMessages between them.  A client connection is a session; it has   *)
(* an inlet end and an outlet end, each run by tcp_session::run as two     *)
(* concurrent loops, poll_read and poll_write.                             *)
(*                                                                         *)
(* The model covers one lifetime of the inlet: the listener numbers its    *)
(* sessions from a seed that only grows, so a session id is used once.     *)
(* A pipe stands for the sender's bounded output channel, the callback     *)
(* that drains it, the connection through the server and the receiver's    *)
(* unbounded input channel: each stage keeps the order, and a full bounded *)
(* channel only delays its sender.  Payload is a chunk with a number and a *)
(* length, the length on the wire, after compression and encryption, which *)
(* is the one both the sender and the receiver count.                      *)
(***************************************************************************)
EXTENDS Integers, Sequences, Totals

CONSTANTS
  Sessions,          \* session ids the listener may give out
  NoSession,         \* "no session"
  ChunkLens,         \* lengths a frame can have on the wire
  READ_BUF_MAX_LEN,  \* common.rs: above it a reader waits
  MaxReads,          \* bound: frames read at an end of each side
  SlowSpawn          \* may the runtime keep a spawned task waiting for 2 s?

ASSUME ConstantsAssumption ==
  /\ NoSession \notin Sessions
  /\ ChunkLens \subseteq Nat \ {0}
  /\ READ_BUF_MAX_LEN \in Nat
  /\ MaxReads \in [{"inlet", "outlet"} -> Nat]
  /\ SlowSpawn \in BOOLEAN

VARIABLES
  task,        \* life cycle of the tcp_session::run of each end
  registered,  \* the ends present in their side's session_info_map
  pipe,        \* ProxyMessages on their way to each side, oldest first
  connecting,  \* session whose I2oConnect the outlet's input loop is handling
  reader,      \* where poll_read stands at each end
  hand,        \* length of the frame poll_read holds, 0 if none
  read_buf_len,\* bytes read and not yet acknowledged, as the code counts them
  writeq,      \* WriterMessages queued for poll_write
  acking,      \* bytes written out whose callback has yet to run
  broken,      \* ends whose socket accepts no more data
  nread,       \* history: number of frames poll_read took from the socket
  delivered,   \* history: numbers of the frames written to the socket
  endedBy      \* history: what ended the select! of each end

taskVars   == <<task, registered, connecting>>
readerVars == <<reader, hand, read_buf_len, nread>>
writerVars == <<writeq, acking, broken, delivered>>
vars == <<taskVars, pipe, readerVars, writerVars, endedBy>>

Side == {"inlet", "outlet"}
Other(e) == IF e = "inlet" THEN "outlet" ELSE "inlet"

Ends == Side \X Sessions
Inlet(s)  == <<"inlet", s>>
Outlet(s) == <<"outlet", s>>
Peer(x) == <<Other(x[1]), x[2]>>

(***************************************************************************)
(* ProxyMessages.  "ack" is O2iSendDataResult on its way to the inlet and  *)
(* I2oRecvDataResult on its way to the outlet; "data" is O2iRecvData and   *)
(* I2oSendData; "connected" and "refused" are O2iConnect with its flag.    *)
(***************************************************************************)
MessageType ==
  {"connect", "connected", "refused", "data", "ack", "disconnect"}
Message == [type : MessageType, sid : Sessions, n : Nat, len : Nat]
Msg(type, s) == [type |-> type, sid |-> s, n |-> 0, len |-> 0]

(* WriterMessages: SendAndThen with its callback, and Close.               *)
WriterMessage == [close : BOOLEAN, n : Nat, len : Nat]
SendAndThen(m) == [close |-> FALSE, n |-> m.n, len |-> m.len]
CloseWriter == [close |-> TRUE, n |-> 0, len |-> 0]

-----------------------------------------------------------------------------
Init ==
  /\ task = [x \in Ends |-> "none"]
  /\ registered = {}
  /\ pipe = [e \in Side |-> <<>>]
  /\ connecting = NoSession
  /\ reader = [x \in Ends |-> "idle"]
  /\ hand = [x \in Ends |-> 0]
  /\ read_buf_len = [x \in Ends |-> 0]
  /\ writeq = [x \in Ends |-> <<>>]
  /\ acking = [x \in Ends |-> 0]
  /\ broken = {}
  /\ nread = [x \in Ends |-> 0]
  /\ delivered = [x \in Ends |-> <<>>]
  /\ endedBy = [x \in Ends |-> "none"]

Send(e, m) == pipe' = [pipe EXCEPT ![e] = Append(@, m)]
Receive(e) == pipe' = [pipe EXCEPT ![e] = Tail(@)]
Reply(e, m) == pipe' = [pipe EXCEPT ![e] = Tail(@), ![Other(e)] = Append(@, m)]

(* Mutant: the outlet's loop spawns on_i2o_connect instead of awaiting it. *)
IncomingNotWaiting(e, type) ==
  /\ pipe[e] # <<>>
  /\ Head(pipe[e]).type = type

(* The message at the head of the queue into side e is of this type and    *)
(* side e's input loop is ready for it: the outlet's loop handles a        *)
(* connect to its end before it takes the next message.                    *)
Incoming(e, type) ==
  /\ pipe[e] # <<>>
  /\ Head(pipe[e]).type = type
  /\ e = "outlet" => connecting = NoSession
IncomingEnd(e) == <<e, Head(pipe[e]).sid>>

(* write_msg_tx.send: fails, dropping the message, once poll_write's       *)
(* receiver is gone.                                                       *)
ToWriter(x, w) ==
  writeq' = IF task[x] = "running"
              THEN [writeq EXCEPT ![x] = Append(@, w)]
              ELSE writeq

-----------------------------------------------------------------------------
(* Starting a session.                                                     *)

(* Inlet: the listener accepts; on_session_start registers the session and *)
(* sends I2oConnect.                                                       *)
Accept(s) ==
  /\ task[Inlet(s)] = "none"
  /\ task' = [task EXCEPT ![Inlet(s)] = "running"]
  /\ registered' = registered \cup {Inlet(s)}
  /\ Send("outlet", Msg("connect", s))
  /\ UNCHANGED <<connecting, readerVars, writerVars, endedBy>>

(* Outlet: on_i2o_connect up to its wait.  A known id or a failed connect  *)
(* is answered with O2iConnect(false); otherwise the session is spawned.   *)
OnI2oConnect(ok) ==
  /\ Incoming("outlet", "connect")
  /\ LET x == IncomingEnd("outlet")
     IN  IF ok /\ x \notin registered
           THEN /\ task' = [task EXCEPT ![x] = "spawned"]
                /\ connecting' = x[2]
                /\ Receive("outlet")
           ELSE /\ Reply("outlet", Msg("refused", x[2]))
                /\ UNCHANGED <<task, connecting>>
  /\ UNCHANGED <<registered, readerVars, writerVars, endedBy>>

(* Outlet: the spawned task runs on_session_start.                         *)
OutletSessionStart(s) ==
  /\ task[Outlet(s)] = "spawned"
  /\ task' = [task EXCEPT ![Outlet(s)] = "running"]
  /\ registered' = registered \cup {Outlet(s)}
  /\ Send("inlet", Msg("connected", s))
  /\ UNCHANGED <<connecting, readerVars, writerVars, endedBy>>

(* Outlet: the wait of on_i2o_connect sees the session; O2iConnect(true)   *)
(* is sent a second time.                                                  *)
ConnectDone ==
  /\ connecting # NoSession
  /\ Outlet(connecting) \in registered
  /\ Send("inlet", Msg("connected", connecting))
  /\ connecting' = NoSession
  /\ UNCHANGED <<task, registered, readerVars, writerVars, endedBy>>

(* Mutant: the wait gives up without looking for the session.              *)
ConnectTimeoutBlind ==
  /\ connecting # NoSession
  /\ task[Outlet(connecting)] = "spawned" => SlowSpawn
  /\ Send("inlet", Msg("refused", connecting))
  /\ connecting' = NoSession
  /\ UNCHANGED <<task, registered, readerVars, writerVars, endedBy>>

(* Outlet: the wait ends after 2 s without having seen the session: it has *)
(* ended already, or, on a stalled runtime, has yet to start.              *)
ConnectTimeout ==
  /\ connecting # NoSession
  /\ Outlet(connecting) \notin registered
  /\ task[Outlet(connecting)] = "spawned" => SlowSpawn
  /\ Send("inlet", Msg("refused", connecting))
  /\ connecting' = NoSession
  /\ UNCHANGED <<task, registered, readerVars, writerVars, endedBy>>

-----------------------------------------------------------------------------
(* Input loops: what a side does with the message it receives.             *)

(* O2iConnect(true) at the inlet of a plain TCP tunnel: nothing.           *)
RecvConnected ==
  /\ Incoming("inlet", "connected")
  /\ Receive("inlet")
  /\ UNCHANGED <<taskVars, readerVars, writerVars, endedBy>>

(* O2iConnect(false) and O2iDisconnect at the inlet: Close is queued       *)
(* behind the data that waits to be written.                               *)
InletRecvClose ==
  /\ Incoming("inlet", "refused") \/ Incoming("inlet", "disconnect")
  /\ LET x == IncomingEnd("inlet")
     IN  IF x \in registered THEN ToWriter(x, CloseWriter)
                             ELSE UNCHANGED writeq
  /\ Receive("inlet")
  /\ UNCHANGED <<taskVars, readerVars, acking, broken, delivered, endedBy>>

(* Mutant: the close overtakes the data that waits to be written.          *)
OnI2oDisconnectAtOnce ==
  /\ Incoming("outlet", "disconnect")
  /\ LET x == IncomingEnd("outlet")
     IN  /\ writeq' = IF x \in registered /\ task[x] = "running"
                        THEN [writeq EXCEPT ![x] = <<CloseWriter>> \o @]
                        ELSE writeq
         /\ registered' = registered \ {x}
  /\ Receive("outlet")
  /\ UNCHANGED <<task, connecting, readerVars, acking, broken, delivered,
                 endedBy>>

(* I2oDisconnect at the outlet: the session also leaves the map at once.   *)
OnI2oDisconnect ==
  /\ Incoming("outlet", "disconnect")
  /\ LET x == IncomingEnd("outlet")
     IN  /\ IF x \in registered THEN ToWriter(x, CloseWriter)
                                ELSE UNCHANGED writeq
         /\ registered' = registered \ {x}
  /\ Receive("outlet")
  /\ UNCHANGED <<task, connecting, readerVars, acking, broken, delivered,
                 endedBy>>

(* O2iRecvData, I2oSendData: decoded and queued for the socket with the    *)
(* callback that acknowledges it; dropped if the session is unknown.       *)
RecvData(e) ==
  /\ Incoming(e, "data")
  /\ LET x == IncomingEnd(e)
     IN  IF x \in registered THEN ToWriter(x, SendAndThen(Head(pipe[e])))
                             ELSE UNCHANGED writeq
  /\ Receive(e)
  /\ UNCHANGED <<taskVars, readerVars, acking, broken, delivered, endedBy>>

(* Mutant: the operands of the subtraction are swapped.                    *)
SubtractSwapped(len, ack) == IF len <= ack THEN 0 ELSE ack - len

(* O2iSendDataResult, I2oRecvDataResult: subtract, but not below zero.     *)
Subtract(len, ack) == IF len <= ack THEN 0 ELSE len - ack

RecvAck(e) ==
  /\ Incoming(e, "ack")
  /\ LET x == IncomingEnd(e)
     IN  read_buf_len' =
           IF x \in registered
             THEN [read_buf_len EXCEPT ![x] = Subtract(@, Head(pipe[e]).len)]
             ELSE read_buf_len
  /\ Receive(e)
  /\ UNCHANGED <<taskVars, reader, hand, nread, writerVars, endedBy>>

-----------------------------------------------------------------------------
(* poll_read: read a frame, wait in encode_data_and_limiting, send it.     *)

ReadFrame(x, len) ==
  /\ task[x] = "running"
  /\ reader[x] = "idle"
  /\ nread[x] < MaxReads[x[1]]
  /\ reader' = [reader EXCEPT ![x] = "limiting"]
  /\ hand' = [hand EXCEPT ![x] = len]
  /\ nread' = [nread EXCEPT ![x] = @ + 1]
  /\ UNCHANGED <<taskVars, pipe, read_buf_len, writerVars, endedBy>>

(* Mutant: the reader does not wait for its credit.                        *)
EncodeDataUnlimited(x) ==
  /\ reader[x] = "limiting"
  /\ reader' = [reader EXCEPT ![x] = "sending"]
  /\ read_buf_len' = [read_buf_len EXCEPT ![x] = @ + hand[x]]
  /\ UNCHANGED <<taskVars, pipe, hand, nread, writerVars, endedBy>>

(* Mutant: the frame is not counted.                                       *)
EncodeDataUncounted(x) ==
  /\ reader[x] = "limiting"
  /\ read_buf_len[x] <= READ_BUF_MAX_LEN
  /\ reader' = [reader EXCEPT ![x] = "sending"]
  /\ UNCHANGED <<taskVars, pipe, hand, read_buf_len, nread, writerVars, endedBy>>

EncodeDataAndLimiting(x) ==
  /\ reader[x] = "limiting"
  /\ read_buf_len[x] <= READ_BUF_MAX_LEN
  /\ reader' = [reader EXCEPT ![x] = "sending"]
  /\ read_buf_len' = [read_buf_len EXCEPT ![x] = @ + hand[x]]
  /\ UNCHANGED <<taskVars, pipe, hand, nread, writerVars, endedBy>>

SendFrame(x) ==
  /\ reader[x] = "sending"
  /\ Send(Other(x[1]), [type |-> "data", sid |-> x[2],
                        n |-> nread[x], len |-> hand[x]])
  /\ reader' = [reader EXCEPT ![x] = "idle"]
  /\ hand' = [hand EXCEPT ![x] = 0]
  /\ UNCHANGED <<taskVars, read_buf_len, nread, writerVars, endedBy>>

-----------------------------------------------------------------------------
(* poll_write: take a WriterMessage, write and flush it, run its callback. *)

WriterAt(x, close) ==
  /\ task[x] = "running"
  /\ acking[x] = 0
  /\ writeq[x] # <<>>
  /\ Head(writeq[x]).close = close

(* Mutant: the message stays in the queue after it was written.            *)
WriteFrameAgain(x) ==
  /\ WriterAt(x, FALSE)
  /\ x \notin broken
  /\ acking' = [acking EXCEPT ![x] = Head(writeq[x]).len]
  /\ delivered' = [delivered EXCEPT ![x] = Append(@, Head(writeq[x]).n)]
  /\ UNCHANGED <<taskVars, pipe, readerVars, writeq, broken, endedBy>>

WriteFrame(x) ==
  /\ WriterAt(x, FALSE)
  /\ x \notin broken
  /\ writeq' = [writeq EXCEPT ![x] = Tail(@)]
  /\ acking' = [acking EXCEPT ![x] = Head(writeq[x]).len]
  /\ delivered' = [delivered EXCEPT ![x] = Append(@, Head(writeq[x]).n)]
  /\ UNCHANGED <<taskVars, pipe, readerVars, broken, endedBy>>

(* The flush fails: the error is logged and the callback still runs.       *)
FlushError(x) ==
  /\ WriterAt(x, FALSE)
  /\ writeq' = [writeq EXCEPT ![x] = Tail(@)]
  /\ acking' = [acking EXCEPT ![x] = Head(writeq[x]).len]
  /\ broken' = broken \cup {x}
  /\ UNCHANGED <<taskVars, pipe, readerVars, delivered, endedBy>>

(* Mutant: the callback acknowledges nothing.                              *)
CallbackSilent(x) ==
  /\ acking[x] > 0
  /\ acking' = [acking EXCEPT ![x] = 0]
  /\ UNCHANGED <<taskVars, pipe, readerVars, writeq, broken, delivered, endedBy>>

Callback(x) ==
  /\ acking[x] > 0
  /\ Send(Other(x[1]), [type |-> "ack", sid |-> x[2], n |-> 0,
                        len |-> acking[x]])
  /\ acking' = [acking EXCEPT ![x] = 0]
  /\ UNCHANGED <<taskVars, readerVars, writeq, broken, delivered, endedBy>>

-----------------------------------------------------------------------------
(* The end of a session: one loop of the select! returns, the other is     *)
(* dropped where it stands, and on_session_close follows.                  *)

(* Mutant: the callback of the frame being written outlives the select!.   *)
SelectReturnsDetached(x, why) ==
  /\ task' = [task EXCEPT ![x] = "ending"]
  /\ reader' = [reader EXCEPT ![x] = "idle"]
  /\ hand' = [hand EXCEPT ![x] = 0]
  /\ writeq' = [writeq EXCEPT ![x] = <<>>]
  /\ endedBy' = [endedBy EXCEPT ![x] = why]
  /\ UNCHANGED <<registered, connecting, pipe, read_buf_len, nread, acking,
                 broken, delivered>>

SelectReturns(x, why) ==
  /\ task' = [task EXCEPT ![x] = "ending"]
  /\ reader' = [reader EXCEPT ![x] = "idle"]
  /\ hand' = [hand EXCEPT ![x] = 0]
  /\ writeq' = [writeq EXCEPT ![x] = <<>>]
  /\ acking' = [acking EXCEPT ![x] = 0]
  /\ endedBy' = [endedBy EXCEPT ![x] = why]
  /\ UNCHANGED <<registered, connecting, pipe, read_buf_len, nread, broken,
                 delivered>>

(* The socket is closed, or fails, while poll_read waits for data.         *)
ReadEof(x) ==
  /\ task[x] = "running"
  /\ reader[x] = "idle"
  /\ SelectReturns(x, "eof")

WriteError(x) ==
  /\ WriterAt(x, FALSE)
  /\ SelectReturns(x, "write_error")

WriterClose(x) ==
  /\ WriterAt(x, TRUE)
  /\ SelectReturns(x, "close")

(* Mutant: the other side is not told.                                     *)
OnSessionCloseSilent(x) ==
  /\ task[x] = "ending"
  /\ task' = [task EXCEPT ![x] = "closed"]
  /\ registered' = registered \ {x}
  /\ UNCHANGED <<connecting, pipe, readerVars, writerVars, endedBy>>

OnSessionClose(x) ==
  /\ task[x] = "ending"
  /\ task' = [task EXCEPT ![x] = "closed"]
  /\ registered' = registered \ {x}
  /\ Send(Other(x[1]), Msg("disconnect", x[2]))
  /\ UNCHANGED <<connecting, readerVars, writerVars, endedBy>>

-----------------------------------------------------------------------------
InputLoop(e) ==
  \/ RecvData(e)
  \/ RecvAck(e)

InletInput == RecvConnected \/ InletRecvClose \/ InputLoop("inlet")

OutletInput ==
  \/ \E ok \in BOOLEAN : OnI2oConnect(ok)
  \/ ConnectDone
  \/ ConnectTimeout
  \/ OnI2oDisconnect
  \/ InputLoop("outlet")

Writer(x) == WriteFrame(x) \/ FlushError(x) \/ WriteError(x) \/ WriterClose(x)

Next ==
  \/ InletInput
  \/ OutletInput
  \/ \E s \in Sessions : Accept(s) \/ OutletSessionStart(s)
  \/ \E x \in Ends :
       \/ \E len \in ChunkLens : ReadFrame(x, len)
       \/ EncodeDataAndLimiting(x)
       \/ SendFrame(x)
       \/ Writer(x)
       \/ Callback(x)
       \/ ReadEof(x)
       \/ OnSessionClose(x)

Spec == Init /\ [][Next]_vars

(* Every spawned task that can go on eventually does.  Clients and         *)
(* endpoints owe nothing on the reading side (Accept, ReadFrame, ReadEof); *)
(* on the writing side a socket either takes the data or reports an error. *)
Fairness ==
  /\ WF_vars(InletInput)
  /\ WF_vars(OutletInput)
  /\ \A s \in Sessions : WF_vars(OutletSessionStart(s))
  /\ \A x \in Ends :
       /\ WF_vars(EncodeDataAndLimiting(x))
       /\ WF_vars(SendFrame(x))
       /\ WF_vars(Writer(x))
       /\ WF_vars(Callback(x))
       /\ WF_vars(OnSessionClose(x))

FairSpec == Spec /\ Fairness

-----------------------------------------------------------------------------
(* What the tunnel promises.                                               *)

TypeOK ==
  /\ task \in [Ends -> {"none", "spawned", "running", "ending", "closed"}]
  /\ registered \subseteq Ends
  /\ pipe \in [Side -> Seq(Message)]
  /\ connecting \in Sessions \cup {NoSession}
  /\ reader \in [Ends -> {"idle", "limiting", "sending"}]
  /\ hand \in [Ends -> Nat]
  /\ read_buf_len \in [Ends -> Nat]
  /\ writeq \in [Ends -> Seq(WriterMessage)]
  /\ acking \in [Ends -> Nat]
  /\ broken \subseteq Ends
  /\ nread \in [Ends -> Nat]
  /\ delivered \in [Ends -> Seq(Nat)]
  /\ endedBy \in [Ends -> {"none", "eof", "write_error", "close"}]

(* Lengths of the messages of a type and a session, 0 for the others.      *)
Carried(q, type, s) ==
  [i \in 1 .. Len(q) |->
     IF q[i].type = type /\ q[i].sid = s THEN q[i].len ELSE 0]
Queued(q) == [i \in 1 .. Len(q) |-> q[i].len]

(* The bytes end x has counted in read_buf_len and that are still under    *)
(* way: about to be sent, in the pipe, waiting at the other end's writer,  *)
(* written there but not acknowledged, or coming back as acknowledgements. *)
InHand(x) == IF reader[x] = "sending" THEN hand[x] ELSE 0
InPipe(x) == Total(Carried(pipe[Other(x[1])], "data", x[2]))
AtWriter(x) == Total(Queued(writeq[x]))
Returning(x) == Total(Carried(pipe[x[1]], "ack", x[2]))

Outstanding(x) ==
  InHand(x) + InPipe(x) + AtWriter(Peer(x)) + acking[Peer(x)] + Returning(x)

(* No acknowledgement is ever larger than what it is subtracted from: the  *)
(* "not below zero" branch of O2iSendDataResult and I2oRecvDataResult is   *)
(* never needed, whatever is dropped on the way.                           *)
CreditCovers == \A x \in Ends : Outstanding(x) <= read_buf_len[x]

(* As long as both ends of a session run, no byte of credit is lost: what  *)
(* encode_data_and_limiting counts is exactly what is under way.           *)
CreditExact ==
  \A x \in Ends :
    /\ {x, Peer(x)} \subseteq registered
    /\ task[x] = "running" /\ task[Peer(x)] = "running"
    /\ ~ SlowSpawn
    => read_buf_len[x] = Outstanding(x)

(* A session keeps at most READ_BUF_MAX_LEN bytes and one frame per        *)
(* direction in all the queues of the tunnel together.                     *)
BoundedInFlight ==
  \A x \in Ends : \E len \in ChunkLens \cup {0} :
    Outstanding(x) <= READ_BUF_MAX_LEN + len

(* Even if a spawned session starts after on_i2o_connect gave up on it,    *)
(* the frames that reach the endpoint are in order and not doubled.        *)
InOrder ==
  \A x \in Ends : \A i, j \in 1 .. Len(delivered[x]) :
    i < j => delivered[x][i] < delivered[x][j]

(* When a peer closes its socket after its last byte, and the other end is *)
(* closed because of it, everything that was read has been written: Close  *)
(* travels behind the data.                                                *)
GracefulClose ==
  ~ SlowSpawn =>
    \A x \in Ends :
      endedBy[x] = "close" /\ endedBy[Peer(x)] = "eof" /\ x \notin broken
        => Len(delivered[x]) = nread[Peer(x)]

(* The disconnect is the last word of an end: no data and no               *)
(* acknowledgement of the session follows it in the pipe.                  *)
DisconnectLast ==
  \A e \in Side : \A i, j \in 1 .. Len(pipe[e]) :
    /\ pipe[e][i].type = "disconnect"
    /\ i < j
    /\ pipe[e][j].sid = pipe[e][i].sid
    => pipe[e][j].type \notin {"data", "ack"}

(* An end is closed from the other side only for a reason of its own       *)
(* session: its peer has ended or was never there.  A failure or a slow    *)
(* connect of another session in the same loops does not close it.         *)
ClosedByPeer ==
  ~ SlowSpawn =>
    \A x \in Ends :
      endedBy[x] = "close" => task[Peer(x)] \in {"none", "ending", "closed"}

(* A session that is over at one side does not linger at the other.        *)
Teardown ==
  \A s \in Sessions :
    /\ task[Inlet(s)] = "closed" ~> [](task[Outlet(s)] \in {"none", "closed"})
    /\ task[Outlet(s)] = "closed" ~> task[Inlet(s)] = "closed"

(* Every frame read, throttled or not, is written at the other end unless  *)
(* the session ends or that end's socket fails first.                      *)
FramesArrive ==
  \A x \in Ends : \A k \in 1 .. MaxReads[x[1]] :
    nread[x] >= k ~>
      \/ Len(delivered[Peer(x)]) >= k
      \/ task[x] = "closed"
      \/ Peer(x) \in broken

=============================================================================
