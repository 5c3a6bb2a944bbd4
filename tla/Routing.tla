------------------------------ MODULE Routing ------------------------------
(***************************************************************************)
(* How a ProxyMessage of one tunnel finds the other end: the closures the  *)
(* inlets and outlets are started with, client.rs send_proxy_message and   *)
(* handle_push, the server's handle_push.rs and                            *)
(* ProxyManager::send_proxy_message, and message_bridge.rs between them.   *)
(* Host 0 is the server.  An update may move the ends meanwhile: it tells  *)
(* the clients first, then changes the server's list, then its proxies.    *)
(***************************************************************************)
EXTENDS Proxies, Sequences

CONSTANTS
  Players,      \* positive numbers
  Tunnels,      \* the records the tunnel may have, see Proxies
  Kinds,        \* the kinds of message the ends emit
  MaxMessages,  \* bound: messages the ends emit
  MaxUpdates,   \* bound: updates of the tunnel
  MaxLeaves     \* bound: connections lost

I2o == {"I2oConnect", "I2oSendData", "I2oSendToData", "I2oRecvDataResult", "I2oDisconnect"}
O2i == {"O2iConnect", "O2iSendDataResult", "O2iRecvData", "O2iRecvDataFrom", "O2iDisconnect"}
Hosts == Players \cup {0}

ConstantsOK ==
  /\ Players \subseteq Nat \ {0}
  /\ \A t \in Tunnels : {t.sender, t.receiver} \subseteq Hosts
  /\ Kinds \subseteq I2o \cup O2i
  /\ {MaxMessages, MaxUpdates, MaxLeaves} \subseteq Nat

VARIABLES
  tunnel,    \* the record in the server's list
  copy,      \* the records each client has: none or one
  proxies,   \* the outlets and inlets of each host
  update,    \* the update under way: [pc, new, tell]
  online,    \* players with a session
  down,      \* frames on their way to each client
  up,        \* frames from each client
  hand,      \* what the server sends on, by the host it came from
  emitted,   \* messages emitted so far
  updates,
  leaves,
  landed,    \* history: <<id, kind, host>> of the messages an end was given
  lost       \* history: <<id, kind, why>> of those dropped on the way

links == <<down, up>>
counters == <<emitted, updates, leaves>>
history == <<landed, lost>>
vars == <<tunnel, copy, proxies, update, online, links, hand, counters, history>>

Idle == [pc |-> "idle", msg |-> [id |-> 0, kind |-> "none"], from |-> 0, to |-> 0]
AtRest(t) == [pc |-> "rest", new |-> t, tell |-> <<>>]
Lists(p, t) == IF Concerns(t, p) THEN {t} ELSE {}
Synced(h, list, old) == CHOOSE new \in sync_tunnels(h, list, old) : TRUE

Init ==
  /\ tunnel \in Tunnels
  /\ copy = [p \in Players |-> Lists(p, tunnel)]
  /\ proxies = [h \in Hosts |-> Synced(h, {tunnel}, NoProxies)]
  /\ update = AtRest(tunnel)
  /\ online = Players
  /\ down = [p \in Players |-> <<>>]
  /\ up = [p \in Players |-> <<>>]
  /\ hand = [h \in Hosts |-> Idle]
  /\ emitted = 0
  /\ updates = 0
  /\ leaves = 0
  /\ landed = {}
  /\ lost = {}

-----------------------------------------------------------------------------
(* message_bridge: a message as the protobuf message of its own type, with *)
(* the tunnel id, and back; other protobuf messages are none of its.       *)
Msg(id, kind) == [id |-> id, kind |-> kind]
proxy_message_2_pb(m, tunnel_id) ==
  [type |-> <<"Generic", m.kind>>, tunnel_id |-> tunnel_id, body |-> m.id]
is_proxy_pb(pb) == pb.type[1] = "Generic"
pb_2_proxy_message(pb) == Msg(pb.body, pb.type[2])

ModifyTunnelNtf(t, is_delete) ==
  [type |-> <<"ServerClient", "ModifyTunnelNtf">>, tunnel_id |-> t.id,
   body |-> IF is_delete THEN {} ELSE {t}]

is_i2o_message(m) == m.kind \in I2o

(* The host of the end a message is for, in a record, and of the other.    *)
To(t, m) == IF is_i2o_message(m) THEN t.sender ELSE t.receiver
From(t, m) == IF is_i2o_message(m) THEN t.receiver ELSE t.sender

-----------------------------------------------------------------------------
(* send_input_to_outlet and send_input_to_inlet.                           *)
Input(h, m) ==
  IF (IF is_i2o_message(m) THEN proxies[h].outlets ELSE proxies[h].inlets) # {}
    THEN landed' = landed \cup {<<m.id, m.kind, h>>} /\ UNCHANGED lost
    ELSE lost' = lost \cup {<<m.id, m.kind, "no end">>} /\ UNCHANGED landed

Drop(m, why) == lost' = lost \cup {<<m.id, m.kind, why>>} /\ UNCHANGED landed

(* Client::send_proxy_message.                                             *)
ClientSends(p, to, m) ==
  IF to = p
    THEN Input(p, m) /\ UNCHANGED up
    ELSE /\ up' = [up EXCEPT ![p] = Append(@, proxy_message_2_pb(m, tunnel.id))]
         /\ UNCHANGED history

IsServer(to) == to = 0

(* ProxyManager::send_proxy_message, up to the look at the player.         *)
ServerSends(h, from, to, m) ==
  IF IsServer(to)
    THEN Input(0, m) /\ UNCHANGED hand
    ELSE /\ hand' = [hand EXCEPT ![h] =
                       [pc |-> "check", msg |-> m, from |-> from, to |-> to]]
         /\ UNCHANGED history

(* An end emits a message.  Its closure knows the other host as it was     *)
(* when the end was started.                                               *)
Emitters(h, m) == IF is_i2o_message(m) THEN proxies[h].inlets ELSE proxies[h].outlets

EmitAtClient(p, kind) ==
  LET m == Msg(emitted + 1, kind)
  IN  /\ p \in online
      /\ emitted < MaxMessages
      /\ \E end \in Emitters(p, m) : ClientSends(p, end.to, m)
      /\ emitted' = emitted + 1
      /\ UNCHANGED <<tunnel, copy, proxies, update, online, down, hand, updates, leaves>>

EmitAtServer(kind) ==
  LET m == Msg(emitted + 1, kind)
  IN  /\ hand[0] = Idle
      /\ emitted < MaxMessages
      /\ \E end \in Emitters(0, m) : ServerSends(0, 0, end.to, m)
      /\ emitted' = emitted + 1
      /\ UNCHANGED <<tunnel, copy, proxies, update, online, links, updates, leaves>>

(* Peer::handle_push routes by the server's record, which stays locked     *)
(* until the message has been sent on; a waiting writer goes first.        *)
ServerReceives(p) ==
  LET m == pb_2_proxy_message(Head(up[p]))
  IN  /\ up[p] # <<>>
      /\ hand[p] = Idle
      /\ update.pc # "store"
      /\ up' = [up EXCEPT ![p] = Tail(@)]
      /\ ServerSends(p, From(tunnel, m), To(tunnel, m), m)
      /\ UNCHANGED <<tunnel, copy, proxies, update, online, down, counters>>

(* is_online.  The guard on the player is dropped before the push.         *)
CheckOnline(h) ==
  /\ hand[h].pc = "check"
  /\ hand' = [hand EXCEPT ![h].pc = IF hand[h].to \in online THEN "push" ELSE "answer"]
  /\ UNCHANGED <<tunnel, copy, proxies, update, online, links, counters, history>>

(* send_push: for a player without a session it does nothing.              *)
Pushed(p, pb) == IF p \in online THEN [down EXCEPT ![p] = Append(@, pb)] ELSE down

Push(h) ==
  LET m == hand[h].msg
      to == hand[h].to
  IN  /\ hand[h].pc = "push"
      /\ hand' = [hand EXCEPT ![h] = Idle]
      /\ down' = Pushed(to, proxy_message_2_pb(m, tunnel.id))
      /\ IF to \in online THEN UNCHANGED history ELSE Drop(m, "raced")
      /\ UNCHANGED <<tunnel, copy, proxies, update, online, up, counters>>

(* Mutant: a message about data is not answered.                           *)
OfflineAnswerConnect(kind) == IF kind = "I2oConnect" THEN "O2iConnect" ELSE "none"

(* What the sender of a message is told in the name of an offline player.  *)
OfflineAnswer(kind) ==
  CASE kind = "I2oConnect" -> "O2iConnect"
    [] kind \in {"I2oSendData", "I2oRecvDataResult"} -> "O2iDisconnect"
    [] kind \in {"O2iConnect", "O2iRecvData", "O2iSendDataResult"} -> "I2oDisconnect"
    [] OTHER -> "none"

Answer(h) ==
  LET m == hand[h].msg
      a == Msg(m.id, OfflineAnswer(m.kind))
      from == hand[h].from
  IN  /\ hand[h].pc = "answer"
      /\ hand' = [hand EXCEPT ![h] = Idle]
      /\ lost' = lost \cup {<<m.id, m.kind, "offline">>}
      /\ landed' = landed \cup
           {<<a.id, a.kind, 0>> : x \in {y \in Emitters(0, m) : a.kind # "none" /\ from = 0}}
      /\ down' = IF a.kind = "none" \/ from = 0 THEN down
                 ELSE Pushed(from, proxy_message_2_pb(a, tunnel.id))
      /\ UNCHANGED <<tunnel, copy, proxies, update, online, up, counters>>

(* Client::handle_push.  A deleted tunnel is only taken off the list, the  *)
(* proxies stay.  A message for an end that the client's record puts       *)
(* elsewhere goes back to the server.                                      *)
Takes(p, body) ==
  /\ copy' = [copy EXCEPT ![p] = body]
  /\ proxies' = IF body = {} THEN proxies
                ELSE [proxies EXCEPT ![p] = Synced(p, body, @)]
  /\ UNCHANGED <<up, history>>

ClientReceives(p) ==
  LET pb == Head(down[p])
      m == pb_2_proxy_message(pb)
  IN  /\ down[p] # <<>>
      /\ down' = [down EXCEPT ![p] = Tail(@)]
      /\ \/ ~ is_proxy_pb(pb) /\ Takes(p, pb.body)
         \/ /\ is_proxy_pb(pb)
            /\ copy[p] = {}
            /\ Drop(m, "unknown")
            /\ UNCHANGED <<copy, proxies, up>>
         \/ /\ is_proxy_pb(pb)
            /\ \E t \in copy[p] : ClientSends(p, To(t, m), m)
            /\ UNCHANGED <<copy, proxies>>
      /\ UNCHANGED <<tunnel, update, online, hand, counters>>

-----------------------------------------------------------------------------
(* update_tunnel.  Whom it tells, in order; broadcast_tunnel_info passes   *)
(* over player 0.                                                          *)
Notices(old, new) ==
  LET Tell(cond, p, is_delete) == IF cond /\ p # 0
                                    THEN <<[to |-> p, ntf |-> ModifyTunnelNtf(new, is_delete)]>>
                                    ELSE <<>>
  IN  Tell(old.sender # new.sender, old.sender, TRUE)
        \o Tell(old.receiver # new.sender, old.receiver, TRUE)
        \o Tell(TRUE, new.sender, FALSE)
        \o Tell(new.sender # new.receiver, new.receiver, FALSE)

Update(new) ==
  /\ update.pc = "rest"
  /\ updates < MaxUpdates
  /\ new # tunnel
  /\ updates' = updates + 1
  /\ update' = [pc |-> "tell", new |-> new, tell |-> Notices(tunnel, new)]
  /\ UNCHANGED <<tunnel, copy, proxies, online, links, hand, emitted, leaves, history>>

Tell ==
  /\ update.pc = "tell"
  /\ IF update.tell = <<>>
       THEN update' = [update EXCEPT !.pc = "store"] /\ UNCHANGED down
       ELSE /\ down' = Pushed(Head(update.tell).to, Head(update.tell).ntf)
            /\ update' = [update EXCEPT !.tell = Tail(@)]
  /\ UNCHANGED <<tunnel, copy, proxies, online, up, hand, counters, history>>

(* Mutant: the list keeps the old record.                                  *)
StoredOld(new) == tunnel

Stored(new) == new

Store ==
  /\ update.pc = "store"
  /\ \A p \in Players : hand[p] = Idle
  /\ tunnel' = Stored(update.new)
  /\ update' = [update EXCEPT !.pc = "sync"]
  /\ UNCHANGED <<copy, proxies, online, links, hand, counters, history>>

Sync ==
  /\ update.pc = "sync"
  /\ proxies' = [proxies EXCEPT ![0] = Synced(0, {tunnel}, @)]
  /\ update' = AtRest(tunnel)
  /\ UNCHANGED <<tunnel, copy, online, links, hand, counters, history>>

-----------------------------------------------------------------------------
(* A client loses its connection, and logs in again.                       *)
Leave(p) ==
  /\ p \in online
  /\ leaves < MaxLeaves
  /\ leaves' = leaves + 1
  /\ online' = online \ {p}
  /\ copy' = [copy EXCEPT ![p] = {}]
  /\ proxies' = [proxies EXCEPT ![p] = NoProxies]
  /\ down' = [down EXCEPT ![p] = <<>>]
  /\ up' = [up EXCEPT ![p] = <<>>]
  /\ UNCHANGED <<tunnel, update, hand, emitted, updates, history>>

Login(p) ==
  /\ p \notin online
  /\ online' = online \cup {p}
  /\ copy' = [copy EXCEPT ![p] = Lists(p, tunnel)]
  /\ proxies' = [proxies EXCEPT ![p] = Synced(p, Lists(p, tunnel), NoProxies)]
  /\ UNCHANGED <<tunnel, update, links, hand, counters, history>>

Next ==
  \/ \E kind \in Kinds : EmitAtServer(kind) \/ \E p \in Players : EmitAtClient(p, kind)
  \/ \E p \in Players : ServerReceives(p) \/ ClientReceives(p) \/ Leave(p) \/ Login(p)
  \/ \E h \in Hosts : CheckOnline(h) \/ Push(h) \/ Answer(h)
  \/ \E new \in Tunnels : Update(new)
  \/ Tell \/ Store \/ Sync

Spec == Init /\ [][Next]_vars

-----------------------------------------------------------------------------
(* Types.  The server never holds a message for itself.                    *)
TypeOK ==
  /\ {tunnel, update.new} \subseteq Tunnels
  /\ \A p \in Players : copy[p] \subseteq Tunnels
  /\ online \subseteq Players
  /\ \A h \in Hosts : /\ hand[h].pc \in {"idle", "check", "push", "answer"}
                      /\ hand[h] # Idle => hand[h].to \in Players
  /\ emitted \in 0 .. MaxMessages

(* While nothing is updated, a message lands at the end it is for and at   *)
(* no other, however the ends are spread over the server and the clients:  *)
(* what comes from an inlet at the outlet of the sender, what comes from   *)
(* an outlet at the inlet of the receiver, and so do the answers given for *)
(* offline players.                                                        *)
RightEnd ==
  /\ \A l \in landed : l[3] = IF l[2] \in I2o THEN tunnel.sender ELSE tunnel.receiver
  /\ \A l \in lost : l[3] \notin {"unknown", "no end"}

Waiting == {"I2oConnect", "I2oSendData", "I2oRecvDataResult",
            "O2iConnect", "O2iRecvData", "O2iSendDataResult"}

(* Whether the answer to a lost message is given or on its way.            *)
Answered(l) ==
  LET back == IF l[2] \in I2o THEN O2i ELSE I2o
  IN  \/ \E k \in landed : k[1] = l[1] /\ k[2] \in back
      \/ \E p \in Players : \E i \in DOMAIN down[p] :
           is_proxy_pb(down[p][i]) /\ down[p][i].body = l[1] /\ down[p][i].type[2] \in back

(* A message that finds its player offline is answered in the player's     *)
(* name, so that the session at the end it came from does not wait for     *)
(* ever.  Datagrams and disconnects need no answer.                        *)
OfflineAnswered ==
  \A l \in lost : l[2] \in Waiting /\ l[3] = "offline" => Answered(l)

(* Every message comes to an end, although during an update a client and   *)
(* the server disagree on the host of an end and send the message back and *)
(* forth between them.                                                     *)
Settles ==
  \A id \in 1 .. MaxMessages :
    emitted >= id ~> \E l \in landed \cup lost : l[1] = id
=============================================================================
