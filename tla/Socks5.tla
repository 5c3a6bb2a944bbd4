------------------------------- MODULE Socks5 -------------------------------
(***************************************************************************)
(* One session of a SOCKS5 inlet: proxy/socks5/mod.rs with the parts of    *)
(* inlet.rs and tcp_session.rs that drive it.  Three tasks share the       *)
(* context under one lock: poll_read hands over what the client sent,      *)
(* the read_input task what came from the outlet, and on_session_close     *)
(* destroys the context.  A frame of a running session waits for credit    *)
(* with the lock held.                                                     *)
(*                                                                         *)
(* The client sends each message of the handshake after the reply to the   *)
(* one before, but in pieces of any size; of a message only its length     *)
(* and what the code tests are kept.  The outlet is what module Tunnel     *)
(* shows it to be, seen from here.                                         *)
(***************************************************************************)
EXTENDS Integers, FiniteSets, Sequences

CONSTANTS
  HasUsername,  \* the tunnel has a username
  HasPassword,  \* the tunnel has a password
  Plans,        \* what clients may want: records of PlanSet
  AuthLen,      \* bytes of a password message
  RequestLen,   \* bytes of a request
  MaxUp,        \* bound: frames a client sends through
  MaxDown,      \* bound: frames that come from the endpoint
  Slow          \* on_session_start of the outlet may take over 2 s

PlanSet == [version : BOOLEAN, methods : (SUBSET {"none", "password"}) \ {{}},
            username : BOOLEAN, password : BOOLEAN,
            cmd : {"connect", "udp", "bind"}, address : BOOLEAN]

ConstantsOK ==
  /\ {HasUsername, HasPassword, Slow} \subseteq BOOLEAN
  /\ Plans \subseteq PlanSet
  /\ AuthLen \in Nat /\ AuthLen >= 3
  /\ RequestLen \in Nat /\ RequestLen >= 8
  /\ MaxUp \in Nat
  /\ MaxDown \in Nat

VARIABLES
  plan,      \* what this client wants
  stage,     \* message the client is at
  left,      \* bytes of it not sent yet
  frame,     \* bytes (1 for data) poll_read has handed to on_recv_frame, or 0
  lock,      \* the lock on the context: "free", or "frame" while throttled
  status,    \* Status
  buffer,    \* bytes in the context's buffer
  writeq,    \* WriterMessages on their way to the client
  inq,       \* proxy_message_tx, read by the read_input task
  life,      \* of the session task
  credit,    \* read_buf_len, in frames
  up,        \* frames at the outlet that are not written yet
  o2i,       \* messages from the outlet
  outlet,    \* the outlet's side of this session
  sent,      \* [up, down]: frames sent so far
  answers,   \* history: replies to the request
  lost       \* history: a frame was dropped though the session was running

client == <<plan, stage, left, sent>>
context == <<status, buffer, credit>>
vars == <<client, frame, lock, context, writeq, inq, life, up, o2i, outlet,
          answers, lost>>

NeedsPassword == HasUsername \/ HasPassword
Length(st) ==
  CASE st = "greet"   -> 2 + Cardinality(plan.methods)
    [] st = "auth"    -> AuthLen
    [] st = "request" -> RequestLen
    [] OTHER          -> 0

Init ==
  /\ plan \in Plans
  /\ stage = "greet"
  /\ left = Length("greet")
  /\ frame = 0
  /\ lock = "free"
  /\ status = "Init"
  /\ buffer = 0
  /\ writeq = <<>>
  /\ inq = <<>>
  /\ life = "open"
  /\ credit = 0
  /\ up = 0
  /\ o2i = <<>>
  /\ outlet = "idle"
  /\ sent = [up |-> 0, down |-> 0]
  /\ answers = 0
  /\ lost = FALSE

-----------------------------------------------------------------------------
(* The client: a piece of the message it is at, data, or its end.  What    *)
(* it does while a frame is being handled is not read until that is done.  *)
ClientSends ==
  /\ life = "open" /\ frame = 0
  /\ \E n \in 1 .. left : frame' = n /\ left' = left - n
  /\ UNCHANGED <<plan, stage, sent, lock, context, writeq, inq, life, up, o2i,
                 outlet, answers, lost>>

ClientData ==
  /\ life = "open" /\ frame = 0
  /\ stage = "run"
  /\ sent.up < MaxUp
  /\ frame' = 1
  /\ sent' = [sent EXCEPT !.up = @ + 1]
  /\ UNCHANGED <<plan, stage, left, lock, context, writeq, inq, life, up, o2i,
                 outlet, answers, lost>>

ClientLeaves ==
  /\ life = "open" /\ frame = 0
  /\ life' = "closing"
  /\ UNCHANGED <<client, frame, lock, context, writeq, inq, up, o2i, outlet,
                 answers, lost>>

-----------------------------------------------------------------------------
(* The handshake: what each handler makes of b bytes in the buffer.        *)
Step(st, b, out, asks, fate) ==
  [status |-> st, buffer |-> b, out |-> out, asks |-> asks, fate |-> fate]

Wait(b) == Step(status, b, <<>>, FALSE, "open")
Refuse(b, reply) == Step(status, b, <<reply, "close">>, FALSE, "open")

Method ==
  CASE ~ NeedsPassword /\ "none" \in plan.methods   -> "none"
    [] NeedsPassword /\ "password" \in plan.methods -> "password"
    [] OTHER -> "not acceptable"

on_socks5_init(b) ==
  CASE b < 3 \/ (plan.version /\ b < Length("greet")) -> Wait(b)
    [] b >= 3 /\ plan.version /\ b >= Length("greet") /\ Method = "none" ->
         Step("Connect", b - Length("greet"), <<"none">>, FALSE, "open")
    [] b >= 3 /\ plan.version /\ b >= Length("greet") /\ Method = "password" ->
         Step("Verification", b - Length("greet"), <<"password">>, FALSE, "open")
    [] OTHER -> Refuse(b, "refused")

(* A message of four bytes or more is taken for whole: the index of PWL,   *)
(* or the slice of the password, is out of bounds when it is not.          *)
on_socks5_verification(b) ==
  CASE b < 4 -> Wait(b)
    [] b >= 4 /\ b < AuthLen -> Step(status, b, <<>>, FALSE, "panicked")
    [] b >= 4 /\ b >= AuthLen /\ plan.username /\ plan.password ->
         Step("Connect", b - AuthLen, <<"verified">>, FALSE, "open")
    [] OTHER -> Refuse(b, "refused")

(* read_address finds the whole address.                                   *)
Complete(b) == b >= RequestLen

(* The head is drained first, and put back when the address is not whole.  *)
on_socks5_connect(b) ==
  CASE b < 8 -> Wait(b)
    [] b >= 8 /\ plan.cmd = "bind" -> Refuse(b - 4, "unsupported")
    [] b >= 8 /\ plan.cmd # "bind" /\ ~ plan.address ->
         Step(status, b - 4, <<>>, FALSE, "closing")
    [] b >= 8 /\ plan.cmd # "bind" /\ plan.address /\ ~ Complete(b) -> Wait(b)
    [] OTHER -> Step("Connecting", 0, <<>>, TRUE, "open")

Handshake ==
  LET b == buffer + frame
  IN  CASE status = "Init"         -> on_socks5_init(b)
        [] status = "Verification" -> on_socks5_verification(b)
        [] status = "Connect"      -> on_socks5_connect(b)

(* Replies to the request among these messages.                            *)
Replies(out) ==
  Cardinality({i \in DOMAIN out : out[i] \in {"granted", "failed", "unsupported"}})

RecvHandshake ==
  /\ frame # 0 /\ lock = "free" /\ life = "open"
  /\ status \in {"Init", "Verification", "Connect"}
  /\ status' = Handshake.status
  /\ buffer' = Handshake.buffer
  /\ writeq' = writeq \o Handshake.out
  /\ outlet' = IF Handshake.asks THEN "asked" ELSE outlet
  /\ life' = Handshake.fate
  /\ answers' = answers + Replies(Handshake.out)
  /\ frame' = 0
  /\ UNCHANGED <<client, lock, credit, inq, up, o2i, lost>>

(* "should not receive other data": logged and dropped.                    *)
RecvIgnored ==
  /\ frame # 0 /\ lock = "free" /\ life = "open"
  /\ status \in {"Connecting", "RunWithUdp"}
  /\ frame' = 0
  /\ lost' = (lost \/ (stage = "run" /\ plan.cmd = "connect"))
  /\ UNCHANGED <<client, lock, context, writeq, inq, life, up, o2i, outlet, answers>>

(* READ_BUF_MAX_LEN, in frames: one frame is enough to exceed it.          *)
READ_BUF_MAX_LEN == 0

(* encode_data_and_limiting waits with the context locked.                 *)
RecvData ==
  /\ frame # 0 /\ lock = "free" /\ life = "open"
  /\ status = "RunWithTcp"
  /\ lock' = "frame"
  /\ UNCHANGED <<client, frame, context, writeq, inq, life, up, o2i, outlet,
                 answers, lost>>

SendData ==
  /\ lock = "frame"
  /\ credit <= READ_BUF_MAX_LEN
  /\ credit' = credit + 1
  /\ up' = up + 1
  /\ frame' = 0
  /\ lock' = "free"
  /\ UNCHANGED <<client, status, buffer, writeq, inq, life, o2i, outlet, answers, lost>>

-----------------------------------------------------------------------------
(* The inlet's input loop.  Mutant: acknowledgements queue for the context *)
(* as the rest does.                                                       *)
DirectClosed == {"closed"}

(* Handled without the context.                                            *)
Direct == {"ack", "closed"}

InputInternal ==
  /\ o2i # <<>>
  /\ life = "open"
  /\ o2i' = Tail(o2i)
  /\ inq' = IF Head(o2i) \in Direct THEN inq ELSE Append(inq, Head(o2i))
  /\ writeq' = IF Head(o2i) = "closed" THEN Append(writeq, "close") ELSE writeq
  /\ credit' = IF Head(o2i) = "ack" /\ "ack" \in Direct /\ credit > 0
                 THEN credit - 1 ELSE credit
  /\ UNCHANGED <<client, frame, lock, status, buffer, life, up, outlet, answers, lost>>

(* No entry for the session any more.                                      *)
UnknownSession ==
  /\ o2i # <<>>
  /\ life \in {"closing", "ended"}
  /\ o2i' = Tail(o2i)
  /\ UNCHANGED <<client, frame, lock, context, writeq, inq, life, up, outlet,
                 answers, lost>>

(* The read_input task.  Mutant: the first O2iConnect is answered, the     *)
(* status follows at the second.                                           *)
GrantedLate == IF answers = 0 THEN "Connecting" ELSE "RunWithTcp"

Granted == IF plan.cmd = "connect" THEN "RunWithTcp" ELSE "RunWithUdp"

(* Mutant: answers whatever the status is.                                 *)
AwaitsAlways == TRUE

Awaits == status = "Connecting"

(* bound: udp_bind succeeds, where it is called.                           *)
OnO2iConnect(success, bound) ==
  LET reply == IF success /\ bound THEN "granted" ELSE "failed"
  IN  /\ (success /\ plan.cmd = "udp") \/ bound
      /\ IF Awaits
           THEN /\ status' = IF reply = "granted" THEN Granted ELSE status
                /\ writeq' = Append(writeq, reply)
                /\ answers' = answers + 1
           ELSE UNCHANGED <<status, writeq, answers>>
      /\ lost' = lost

OnO2iRecvData ==
  /\ writeq' = IF status = "RunWithTcp" THEN Append(writeq, "data") ELSE writeq
  /\ lost' = (lost \/ (status # "RunWithTcp" /\ plan.cmd = "connect"))
  /\ UNCHANGED <<status, answers>>

OnRecvProxyMessage ==
  /\ inq # <<>> /\ lock = "free"
  /\ life \in {"open", "closing", "panicked"}
  /\ inq' = Tail(inq)
  /\ CASE Head(inq) = "connected" -> \E bound \in BOOLEAN : OnO2iConnect(TRUE, bound)
       [] Head(inq) = "refused"   -> OnO2iConnect(FALSE, TRUE)
       [] Head(inq) = "data"      -> OnO2iRecvData
       [] OTHER                   -> UNCHANGED <<status, writeq, answers, lost>>
  /\ UNCHANGED <<client, frame, lock, buffer, credit, life, up, o2i, outlet>>

-----------------------------------------------------------------------------
(* poll_write, and what the client makes of what it reads.                 *)
Proceed(reply) ==
  CASE reply = "none"     -> "request"
    [] reply = "password" -> "auth"
    [] reply = "verified" -> "request"
    [] reply = "granted"  -> "run"
    [] reply = "data"     -> stage
    [] OTHER              -> "stop"

PollWrite ==
  /\ writeq # <<>> /\ life = "open"
  /\ writeq' = Tail(writeq)
  /\ IF Head(writeq) = "close"
       THEN /\ life' = "closing"
            /\ frame' = 0
            /\ lock' = "free"
            /\ UNCHANGED <<stage, left>>
       ELSE /\ stage' = Proceed(Head(writeq))
            /\ left' = IF stage' = stage THEN left ELSE Length(stage')
            /\ UNCHANGED <<life, frame, lock>>
  /\ UNCHANGED <<plan, sent, context, inq, up, o2i, outlet, answers, lost>>

(* Mutant: on_destroy waits for the queue to be empty.                     *)
MayDestroyEmpty == inq = <<>> /\ o2i = <<>> /\ outlet = "gone"

(* The lock is all on_destroy needs: the read_input task stops at its      *)
(* shutdown_rx wherever it waits.                                          *)
MayDestroy == lock = "free"

(* on_session_close: the entry is gone, I2oDisconnect sent, the context    *)
(* destroyed and with it the read_input task.                              *)
OnSessionClose ==
  /\ life = "closing"
  /\ MayDestroy
  /\ life' = "ended"
  /\ inq' = <<>>
  /\ writeq' = <<>>
  /\ UNCHANGED <<client, frame, lock, context, up, o2i, outlet, answers, lost>>

-----------------------------------------------------------------------------
(* The outlet, or the server when the other player is offline.             *)
Says(m) == o2i' = Append(o2i, m)

Opens ==
  /\ outlet = "asked"
  /\ outlet' = "opening"
  /\ Says("connected")
  /\ UNCHANGED <<client, frame, lock, context, writeq, inq, life, up, answers, lost>>

(* input_internal says so a second time.                                   *)
Confirms ==
  /\ outlet = "opening"
  /\ outlet' = "open"
  /\ Says("connected")
  /\ UNCHANGED <<client, frame, lock, context, writeq, inq, life, up, answers, lost>>

Refuses ==
  /\ outlet = "asked"
  /\ outlet' \in {"gone"} \cup (IF Slow THEN {"late"} ELSE {})
  /\ Says("refused")
  /\ UNCHANGED <<client, frame, lock, context, writeq, inq, life, up, answers, lost>>

OpensLate ==
  /\ outlet = "late"
  /\ outlet' = "open"
  /\ Says("connected")
  /\ UNCHANGED <<client, frame, lock, context, writeq, inq, life, up, answers, lost>>

EndpointData ==
  /\ outlet \in {"opening", "open"}
  /\ plan.cmd = "connect"
  /\ sent.down < MaxDown
  /\ sent' = [sent EXCEPT !.down = @ + 1]
  /\ Says("data")
  /\ UNCHANGED <<plan, stage, left, frame, lock, context, writeq, inq, life, up,
                 outlet, answers, lost>>

Writes ==
  /\ outlet \in {"opening", "open"}
  /\ up > 0
  /\ up' = up - 1
  /\ Says("ack")
  /\ UNCHANGED <<client, frame, lock, context, writeq, inq, life, outlet, answers, lost>>

(* The endpoint ends, or I2oDisconnect arrives; what waits is dropped.     *)
Closes ==
  /\ outlet \in {"opening", "open"}
  /\ outlet' = "gone"
  /\ up' = 0
  /\ Says("closed")
  /\ UNCHANGED <<client, frame, lock, context, writeq, inq, life, answers, lost>>

Outlet == Opens \/ Confirms \/ Refuses \/ OpensLate \/ EndpointData \/ Writes \/ Closes

-----------------------------------------------------------------------------
Next ==
  \/ ClientSends
  \/ ClientData
  \/ ClientLeaves
  \/ RecvHandshake
  \/ RecvIgnored
  \/ RecvData
  \/ SendData
  \/ InputInternal
  \/ UnknownSession
  \/ OnRecvProxyMessage
  \/ PollWrite
  \/ OnSessionClose
  \/ Outlet

Spec == Init /\ [][Next]_vars

-----------------------------------------------------------------------------
Statuses == {"Init", "Verification", "Connect", "Connecting", "RunWithTcp", "RunWithUdp"}
Lives == {"open", "closing", "ended", "panicked"}

WriterMessages == {"none", "password", "verified", "refused", "unsupported",
                   "granted", "failed", "data", "close"}
Reported == {"connected", "refused", "data"}

(* The longest message of a handshake.                                     *)
Longest == IF AuthLen > RequestLen THEN AuthLen ELSE RequestLen

(* Types; what a handshake leaves in the buffer is less than the message   *)
(* the context waits for, unless the client has been refused.              *)
TypeOK ==
  /\ plan \in Plans
  /\ stage \in {"greet", "auth", "request", "run", "stop"}
  /\ left \in 0 .. Longest
  /\ frame \in 0 .. Longest
  /\ lock \in {"free", "frame"}
  /\ status \in Statuses
  /\ buffer \in 0 .. Longest
  /\ writeq \in Seq(WriterMessages)
  /\ inq \in Seq(Reported)
  /\ life \in Lives
  /\ credit \in 0 .. 1
  /\ up \in 0 .. MaxUp
  /\ outlet \in {"idle", "asked", "opening", "open", "late", "gone"}
  /\ answers \in 0 .. RequestLen

(* The outlet is asked to connect only for a client that has shown the     *)
(* username and the password of the tunnel, where it has either, however   *)
(* the messages were cut and whatever methods the client offered.          *)
AuthenticatedFirst ==
  outlet # "idle" /\ NeedsPassword => plan.username /\ plan.password

(* The request is cut anywhere, and the outlet is only asked once the      *)
(* whole of it has arrived ("还原数据" puts an incomplete one back).       *)
WholeRequest ==
  outlet = "asked" => stage = "request" /\ left = 0 /\ frame = 0

(* A connect request gets at most one reply, though the outlet reports     *)
(* success twice and the two reports race with data and with the end.  A   *)
(* UDP request may get two: a bind that fails is tried again at the        *)
(* second report.  A request that is not supported is refused again for    *)
(* each piece that makes eight bytes of the rest before the close that was *)
(* delayed; every refusal has drained four bytes.                          *)
AnsweredOnce ==
  /\ plan.cmd = "connect" => answers <= 1
  /\ plan.cmd = "udp" => answers <= 2
  /\ plan.cmd = "bind" /\ answers # 0 => 4 * answers + 4 <= RequestLen

(* A client that was told "granted" loses no frame, and no frame of the    *)
(* endpoint reaches the context before the status that lets it through.    *)
NothingLost == ~ lost

(* A frame throttled with the context locked goes on: what frees credit    *)
(* does not need the lock.                                                 *)
Resumes == lock = "frame" ~> lock = "free"

(* A message sent in full is answered, or the session ends.                *)
Replied ==
  \A st \in {"greet", "auth", "request"} :
    (stage = st /\ left = 0) ~> (stage # st \/ life \in {"ended", "panicked"})

(* on_session_close finishes though the read_input task competes for the   *)
(* lock and its queue may never empty.                                     *)
Destroyed == life = "closing" ~> life = "ended"
=============================================================================
