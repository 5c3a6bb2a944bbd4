----------------------------- MODULE Socks5Udp -----------------------------
(***************************************************************************)
(* A SOCKS5 session in RunWithUdp: datagrams of the client go through the  *)
(* udp task of the context and the outlet's udp_session to their target,   *)
(* datagrams of a target come back through the outlet, which counts them   *)
(* in its read_buf_len until the inlet has handed them over.  Module Codec *)
(* says what each side does to the bytes.                                  *)
(***************************************************************************)
EXTENDS Integers, Codec

CONSTANTS
  Conf,       \* configurations the tunnel may have, among Configs
  MayFail,    \* udp_socket.send to the client may fail
  MaxUp,      \* bound: datagrams the client sends
  MaxDown     \* bound: datagrams that come back

ConstantsOK ==
  /\ Conf \subseteq Configs
  /\ MayFail \in BOOLEAN
  /\ MaxUp \in Nat
  /\ MaxDown \in Nat

VARIABLES
  conf,       \* the tunnel's compression and encryption
  udpTask,    \* the task of udp_bind
  inlet,      \* the session task of the inlet
  outlet,     \* the udp_session task of the outlet
  held,       \* a datagram waits in encode_data_and_limiting of the outlet
  i2o,        \* datagrams and acknowledgements to the outlet
  o2i,        \* messages to the inlet
  credit,     \* read_buf_len of the outlet, in datagrams
  atTarget,   \* what the targets received
  atClient,   \* what the client received
  sent        \* [up, down]

reached == <<atTarget, atClient>>
vars == <<conf, udpTask, inlet, outlet, held, i2o, o2i, credit, reached, sent>>

Init ==
  /\ conf \in Conf
  /\ udpTask = "running"
  /\ inlet = "open"
  /\ outlet = "open"
  /\ held = FALSE
  /\ i2o = <<>>
  /\ o2i = <<>>
  /\ credit = 0
  /\ atTarget = {}
  /\ atClient = {}
  /\ sent = [up |-> 0, down |-> 0]

Datagram(d) == [kind |-> "data", data |-> d]
Note(k) == [kind |-> k, data |-> Plain]

-----------------------------------------------------------------------------
(* The inlet.  A datagram of the client is decoded here, where the outlet  *)
(* decodes as well.                                                        *)
Outgoing == decode_data(conf, Plain)

(* The task ends after an Err and closes the session; it dies of a panic,  *)
(* which is what decompression of plain bytes comes to.                    *)
RecvUdpData ==
  /\ udpTask = "running" /\ inlet = "open"
  /\ sent.up < MaxUp
  /\ sent' = [sent EXCEPT !.up = @ + 1]
  /\ i2o' = IF Outgoing = Failed THEN i2o ELSE Append(i2o, Datagram(Outgoing))
  /\ udpTask' = IF Outgoing = Failed THEN "ended" ELSE udpTask
  /\ inlet' = IF Outgoing = Failed /\ conf.method = "Aes128" THEN "closing" ELSE inlet
  /\ UNCHANGED <<conf, outlet, held, o2i, credit, atTarget, atClient>>

(* Shorter than its header, or an address that cannot be read.             *)
IllegalDatagram ==
  /\ udpTask = "running" /\ inlet = "open"
  /\ sent.up < MaxUp
  /\ sent' = [sent EXCEPT !.up = @ + 1]
  /\ udpTask' = "ended"
  /\ inlet' = "closing"
  /\ UNCHANGED <<conf, outlet, held, i2o, o2i, credit, reached>>

(* I2oRecvDataResult follows a datagram that was handed over.              *)
Result(ok) == IF ok THEN <<Note("ack")>> ELSE <<>>

(* on_recv_o2i_recv_data_from; ok: decoded, and the socket took it.        *)
RecvDataFrom(ok) ==
  /\ inlet = "open"
  /\ o2i # <<>> /\ Head(o2i).kind = "data"
  /\ ok \/ MayFail \/ decode_data(conf, Head(o2i).data) = Failed
  /\ ok => decode_data(conf, Head(o2i).data) # Failed
  /\ o2i' = Tail(o2i)
  /\ atClient' = IF ok THEN atClient \cup {decode_data(conf, Head(o2i).data)} ELSE atClient
  /\ i2o' = i2o \o Result(ok)
  /\ UNCHANGED <<conf, udpTask, inlet, outlet, held, credit, atTarget, sent>>

(* O2iDisconnect: the session is told to close.  O2iSendDataResult finds   *)
(* a read_buf_len of 0, which nothing on this path ever adds to.           *)
InputInternal ==
  /\ o2i # <<>> /\ Head(o2i).kind # "data"
  /\ o2i' = Tail(o2i)
  /\ inlet' = IF Head(o2i).kind = "closed" /\ inlet = "open" THEN "closing" ELSE inlet
  /\ UNCHANGED <<conf, udpTask, outlet, held, i2o, credit, reached, sent>>

UnknownSession ==
  /\ o2i # <<>> /\ Head(o2i).kind = "data"
  /\ inlet # "open"
  /\ o2i' = Tail(o2i)
  /\ UNCHANGED <<conf, udpTask, inlet, outlet, held, i2o, credit, reached, sent>>

(* The control connection ends.                                            *)
ClientLeaves ==
  /\ inlet = "open"
  /\ inlet' = "closing"
  /\ UNCHANGED <<conf, udpTask, outlet, held, i2o, o2i, credit, reached, sent>>

Farewell == <<Note("disconnect")>>

(* on_session_close: I2oDisconnect, then on_destroy cancels the udp task.  *)
OnSessionClose ==
  /\ inlet = "closing"
  /\ inlet' = "ended"
  /\ udpTask' = "ended"
  /\ i2o' = i2o \o Farewell
  /\ UNCHANGED <<conf, outlet, held, o2i, credit, reached, sent>>

-----------------------------------------------------------------------------
(* The outlet.                                                             *)
Decoded == decode_data(conf, Head(i2o).data)

(* on_i2o_send_to_data; an Err is logged.                                  *)
SendToData ==
  /\ i2o # <<>> /\ Head(i2o).kind = "data"
  /\ i2o' = Tail(i2o)
  /\ IF outlet = "open" /\ Decoded # Failed
       THEN /\ atTarget' = atTarget \cup {Decoded}
            /\ o2i' = Append(o2i, Note("result"))
       ELSE UNCHANGED <<atTarget, o2i>>
  /\ UNCHANGED <<conf, udpTask, inlet, outlet, held, credit, atClient, sent>>

RecvDataResult ==
  /\ i2o # <<>> /\ Head(i2o).kind = "ack"
  /\ i2o' = Tail(i2o)
  /\ credit' = IF outlet = "open" /\ credit > 0 THEN credit - 1 ELSE credit
  /\ UNCHANGED <<conf, udpTask, inlet, outlet, held, o2i, reached, sent>>

Disconnect ==
  /\ i2o # <<>> /\ Head(i2o).kind = "disconnect"
  /\ i2o' = Tail(i2o)
  /\ outlet' = IF outlet = "open" THEN "closing" ELSE outlet
  /\ UNCHANGED <<conf, udpTask, inlet, held, o2i, credit, reached, sent>>

(* A datagram of a target: poll_read gives it to on_recv_frame_from.       *)
TargetSends ==
  /\ outlet = "open" /\ ~ held
  /\ sent.down < MaxDown
  /\ sent' = [sent EXCEPT !.down = @ + 1]
  /\ held' = TRUE
  /\ UNCHANGED <<conf, udpTask, inlet, outlet, i2o, o2i, credit, reached>>

(* READ_BUF_MAX_LEN, in datagrams: one is enough to exceed it.             *)
READ_BUF_MAX_LEN == 0

RecvFrameFrom ==
  /\ held /\ outlet = "open"
  /\ credit <= READ_BUF_MAX_LEN
  /\ held' = FALSE
  /\ credit' = credit + 1
  /\ o2i' = Append(o2i, Datagram(encode_data(conf, Plain)))
  /\ UNCHANGED <<conf, udpTask, inlet, outlet, i2o, reached, sent>>

(* poll_timeout (module UdpServer), or the socket fails.                   *)
OutletEnds ==
  /\ outlet = "open"
  /\ outlet' = "closing"
  /\ UNCHANGED <<conf, udpTask, inlet, held, i2o, o2i, credit, reached, sent>>

OutletCloses ==
  /\ outlet = "closing"
  /\ outlet' = "ended"
  /\ held' = FALSE
  /\ o2i' = Append(o2i, Note("closed"))
  /\ UNCHANGED <<conf, udpTask, inlet, i2o, credit, reached, sent>>

-----------------------------------------------------------------------------
InletStep == RecvUdpData \/ IllegalDatagram \/ (\E ok \in BOOLEAN : RecvDataFrom(ok))
             \/ InputInternal \/ UnknownSession \/ ClientLeaves \/ OnSessionClose
OutletStep == SendToData \/ RecvDataResult \/ Disconnect \/ TargetSends
              \/ RecvFrameFrom \/ OutletEnds \/ OutletCloses

Next == InletStep \/ OutletStep

Spec == Init /\ [][Next]_vars

-----------------------------------------------------------------------------
(* What is delivered is what was sent, for every configuration: what the   *)
(* outlet encodes the inlet can decode, and what of the client's datagrams *)
(* gets through two decodings is as it was.                                *)
DeliveredIntact ==
  /\ atClient \cup atTarget \subseteq {Plain}
  /\ \A i \in DOMAIN o2i :
       o2i[i].kind = "data" => decode_data(conf, o2i[i].data) = Plain

(* A datagram held back by the outlet goes on or its session ends, as long *)
(* as the client's socket takes what it is given.                          *)
HeldResumes == held ~> ~ held

(* The two ends of an association end together: neither outlives the other *)
(* by more than the messages between them.                                 *)
EndTogether ==
  (inlet # "open" \/ outlet # "open") ~> (inlet = "ended" /\ outlet = "ended")

InFlight == Len(SelectSeq(o2i, LAMBDA m : m.kind = "data"))
            + Len(SelectSeq(i2o, LAMBDA m : m.kind = "ack"))

(* "读缓存大小" (common.rs): read_buf_len is what the outlet has read and  *)
(* the client has not been given yet.                                      *)
CreditInFlight == inlet = "open" /\ outlet = "open" => credit = InFlight
=============================================================================
