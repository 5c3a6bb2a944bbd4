----------------------------- MODULE TunnelAdmin -----------------------------
(***************************************************************************)
(* The tunnels of the server and their copies: the table in the database,  *)
(* TunnelManager.tunnels, the proxies of the server, and at each client    *)
(* its map of tunnels and its proxies.  The web administration adds,       *)
(* deletes and updates tunnels; its requests are tasks that interleave at  *)
(* every await.  Clients log in, lose their connection and come back; the  *)
(* server may stop at any moment and start again from the database.        *)
(***************************************************************************)
EXTENDS FiniteSets, Sequences, SequencesExt, Proxies

CONSTANTS
  Players,      \* accounts; 0 stands for the server itself
  Tasks,        \* requests of the administration in progress at a time
  Configs,      \* what a request can ask of a tunnel
  Initial,      \* configurations of the tunnels 1, 2, ... at the start
  Ops,          \* operations requested: a subset of {"add","delete","update"}
  MaxRequests,  \* bound: requests in all
  MaxLogins,    \* bound: logins in all
  MaxRestarts   \* bound: restarts of the server

ConstantsOK ==
  /\ Players \subseteq Nat \ {0}
  /\ Ops \subseteq {"add", "delete", "update"}
  /\ Initial \in Seq(Configs)
  /\ \A c \in Configs : {c.sender, c.receiver} \subseteq Players \cup {0}
  /\ {MaxRequests, MaxLogins, MaxRestarts} \subseteq Nat

VARIABLES
  db,        \* rows of the tunnel table
  nextId,    \* its auto-increment
  tunnels,   \* TunnelManager.tunnels
  task,      \* the request each task is handling
  proxies,   \* inlets and outlets of the server and of each client
  client,    \* each client: its connection and Client.tunnels
  ack,       \* the tunnels a LoginAck that has yet to be sent will carry
  channel,   \* messages on their way to each client
  missed,    \* history: a login read the list a request had yet to change
  requests, logins, restarts

serverVars == <<db, nextId, tunnels>>
clientVars == <<client, ack, channel, missed>>
counters   == <<requests, logins, restarts>>
vars == <<serverVars, task, proxies, clientVars, counters>>

Server == 0
Hosts == Players \cup {Server}
Ids == 1..(Len(Initial) + MaxRequests)
Rows == {Tunnel(id, c) : id \in Ids, c \in Configs}
Idle == [pc |-> "idle"]

Listed == {tunnels[k] : k \in DOMAIN tunnels}
Own(p, list) == {t \in list : Concerns(t, p)}
Login(list) == [is_login |-> TRUE, tunnels |-> list]
Notice(t, is_delete) ==
  [is_login |-> FALSE, tunnel |-> t, is_delete |-> is_delete]

(* init_global: the tunnels are loaded and their proxies started.          *)
Started(rows) == sync_tunnels(Server, rows, NoProxies)

Gone == [state |-> "off", tunnels |-> {}]

Init ==
  /\ tunnels = [id \in DOMAIN Initial |-> Tunnel(id, Initial[id])]
  /\ db = Listed
  /\ nextId = Len(Initial) + 1
  /\ task = [k \in Tasks |-> Idle]
  /\ \E h \in Started(db) :
       proxies = [[x \in Hosts |-> NoProxies] EXCEPT ![Server] = h]
  /\ client = [p \in Players |-> Gone]
  /\ ack = [p \in Players |-> {}]
  /\ channel = [p \in Players |-> <<>>]
  /\ missed = {}
  /\ requests = 0 /\ logins = 0 /\ restarts = 0

-----------------------------------------------------------------------------
(* Checks and notices.                                                     *)

port_conflict_detection(receiver, port, id) ==
  \E t \in Listed : t.receiver = receiver /\ t.id # id /\ t.port = port

(* Addresses are well formed here, and accounts exist (see Accounts).      *)
tunnel_detection(t) == ~ port_conflict_detection(t.receiver, t.port, t.id)

(* The players a change is told to, in order; the server is skipped.       *)
ToPlayers(notices) == SelectSeq(notices, LAMBDA n : n[1] # Server)

Parties(t) == IF t.sender = t.receiver THEN <<t.sender>>
                                       ELSE <<t.sender, t.receiver>>
Announce(t, is_delete) ==
  [k \in DOMAIN Parties(t) |-> <<Parties(t)[k], Notice(t, is_delete)>>]

(* Mutant: the old receiver is not told.                                   *)
FormerSender(t, oldSender, oldReceiver) ==
  SelectSeq(<<oldSender>>, LAMBDA p : p # t.sender)

(* update_tunnel: the old parties are told of a deletion, both compared    *)
(* with the new sender, then the new ones of the tunnel.                   *)
Former(t, oldSender, oldReceiver) ==
  SelectSeq(<<oldSender, oldReceiver>>, LAMBDA p : p # t.sender)
AnnounceUpdate(t, oldSender, oldReceiver) ==
  LET told == Former(t, oldSender, oldReceiver)
  IN  [k \in DOMAIN told |-> <<told[k], Notice(t, TRUE)>>] \o Announce(t, FALSE)

-----------------------------------------------------------------------------
(* A request goes from step to step; each step ends at an await.           *)

At(k, pc) == task[k].pc = pc
Goto(k, pc) == task' = [task EXCEPT ![k].pc = pc]
Done(k) == task' = [task EXCEPT ![k] = Idle]

Begin(k, op, pc, t) ==
  /\ At(k, "idle")
  /\ op \in Ops
  /\ requests < MaxRequests
  /\ requests' = requests + 1
  /\ task' = [task EXCEPT ![k] = [pc |-> pc, op |-> op, tunnel |-> t,
                                  index |-> 0, oldSender |-> 0, todo |-> <<>>]]
  /\ UNCHANGED <<serverVars, proxies, clientVars, logins, restarts>>

(* add_tunnel and update_tunnel begin with the detection, delete_tunnel    *)
(* with the database.  A request that is refused changes nothing.          *)
AddTunnel(k, c) ==
  /\ tunnel_detection(Tunnel(0, c))
  /\ Begin(k, "add", "insert", Tunnel(0, c))
UpdateTunnel(k, id, c) ==
  /\ tunnel_detection(Tunnel(id, c))
  /\ Begin(k, "update", "position", Tunnel(id, c))
DeleteTunnel(k, id) ==
  \E t \in db : t.id = id /\ Begin(k, "delete", "dbdelete", t)

(* Mutant: the new id is not taken over.                                   *)
NumberedZero(t) == t

(* tunnel.id = new_tunnel.id                                               *)
Numbered(t) == [t EXCEPT !.id = nextId]

DbInsert(k) ==
  LET t == Numbered(task[k].tunnel)
  IN  /\ At(k, "insert")
      /\ db' = db \cup {[task[k].tunnel EXCEPT !.id = nextId]}
      /\ nextId' = nextId + 1
      /\ task' = [task EXCEPT ![k].pc = "notify", ![k].tunnel = t,
                              ![k].todo = ToPlayers(Announce(t, FALSE))]
      /\ UNCHANGED <<tunnels, proxies, clientVars, counters>>

(* ensure!(rows_affected == 1).                                            *)
DbDelete(k) ==
  /\ At(k, "dbdelete")
  /\ db' = {t \in db : t.id # task[k].tunnel.id}
  /\ IF db' = db THEN Done(k) ELSE Goto(k, "position")
  /\ UNCHANGED <<nextId, tunnels, proxies, clientVars, counters>>

(* The index of the tunnel, found under a read guard that is then dropped. *)
Position(k) ==
  LET at == {j \in DOMAIN tunnels : tunnels[j].id = task[k].tunnel.id}
  IN  /\ At(k, "position")
      /\ IF at = {}
           THEN Done(k)
           ELSE task' = [task EXCEPT
                  ![k].index = CHOOSE j \in at : \A i \in at : j <= i,
                  ![k].pc = IF task[k].op = "delete" THEN "remove"
                                                     ELSE "dbupdate"]
      /\ UNCHANGED <<serverVars, proxies, clientVars, counters>>

(* Vec::remove and the index operator panic beyond the end: the task ends. *)
InRange(k) == task[k].index \in DOMAIN tunnels

RemoveTunnel(k) ==
  /\ At(k, "remove")
  /\ IF ~ InRange(k)
       THEN Done(k) /\ UNCHANGED tunnels
       ELSE LET t == tunnels[task[k].index]
            IN  /\ tunnels' = RemoveAt(tunnels, task[k].index)
                /\ task' = [task EXCEPT ![k].pc = "notify",
                              ![k].todo = ToPlayers(Announce(t, TRUE))]
  /\ UNCHANGED <<db, nextId, proxies, clientVars, counters>>

(* find_by_id and update; either fails if the row is gone.                 *)
DbUpdate(k) ==
  LET t == task[k].tunnel
      old == {u \in db : u.id = t.id}
  IN  /\ At(k, "dbupdate")
      /\ IF old = {}
           THEN Done(k) /\ UNCHANGED db
           ELSE db' = (db \ old) \cup {t} /\ Goto(k, "old_sender")
      /\ UNCHANGED <<nextId, tunnels, proxies, clientVars, counters>>

OldSender(k) ==
  /\ At(k, "old_sender")
  /\ IF ~ InRange(k)
       THEN Done(k)
       ELSE task' = [task EXCEPT ![k].pc = "old_receiver",
                       ![k].oldSender = tunnels[task[k].index].sender]
  /\ UNCHANGED <<serverVars, proxies, clientVars, counters>>

OldReceiver(k) ==
  LET t == task[k]
  IN  /\ At(k, "old_receiver")
      /\ IF ~ InRange(k)
           THEN Done(k)
           ELSE task' = [task EXCEPT ![k].pc = "notify",
                  ![k].todo = ToPlayers(AnnounceUpdate(t.tunnel, t.oldSender,
                                          tunnels[t.index].receiver))]
      /\ UNCHANGED <<serverVars, proxies, clientVars, counters>>

(* broadcast_tunnel_info: send_push to a Player, lost if it is offline.    *)
Connected(p) == client[p].state # "off"
Notify(k) ==
  LET n == Head(task[k].todo)
  IN  /\ At(k, "notify")
      /\ task[k].todo # <<>>
      /\ task' = [task EXCEPT ![k].todo = Tail(@)]
      /\ channel' = IF Connected(n[1])
                      THEN [channel EXCEPT ![n[1]] = Append(@, n[2])]
                      ELSE channel
      /\ UNCHANGED <<serverVars, proxies, client, ack, missed, counters>>

(* Mutant: an updated tunnel is added to the list once more.               *)
StoredAgain(t) == Append(tunnels, t.tunnel)

(* push, or assignment at the index found before.                          *)
Stored(t) ==
  IF t.op = "add" THEN Append(tunnels, t.tunnel)
                  ELSE [tunnels EXCEPT ![t.index] = t.tunnel]

(* The list is changed after the players were told; delete_tunnel has      *)
(* changed it already.                                                     *)
Store(k) ==
  /\ At(k, "notify")
  /\ task[k].todo = <<>>
  /\ task[k].op # "delete"
  /\ IF task[k].op = "add" \/ InRange(k)
       THEN tunnels' = Stored(task[k]) /\ Goto(k, "sync")
       ELSE Done(k) /\ UNCHANGED tunnels
  /\ UNCHANGED <<db, nextId, proxies, clientVars, counters>>

Sync(k) ==
  /\ \/ At(k, "sync")
     \/ At(k, "notify") /\ task[k].todo = <<>> /\ task[k].op = "delete"
  /\ \E h \in sync_tunnels(Server, Listed, proxies[Server]) :
       proxies' = [proxies EXCEPT ![Server] = h]
  /\ Done(k)
  /\ UNCHANGED <<serverVars, clientVars, counters>>

-----------------------------------------------------------------------------
(* Clients.                                                                *)

(* A request has told player p of a change and has yet to make it.         *)
ToldAlready(p) ==
  \E k \in Tasks :
    /\ At(k, "notify")
    /\ task[k].op \in {"add", "update"}
    /\ \A j \in DOMAIN task[k].todo : task[k].todo[j][1] # p

(* on_login_request: the session is bound and the list read while the      *)
(* Player is locked, so no notice comes between; the answer is sent later. *)
OnLoginRequest(p) ==
  /\ client[p].state = "off"
  /\ logins < MaxLogins
  /\ logins' = logins + 1
  /\ client' = [client EXCEPT ![p].state = "login"]
  /\ ack' = [ack EXCEPT ![p] = Own(p, Listed)]
  /\ missed' = IF ToldAlready(p) THEN missed \cup {p} ELSE missed \ {p}
  /\ UNCHANGED <<serverVars, task, proxies, channel, requests, restarts>>

LoginAnswer(p) ==
  /\ client[p].state = "login"
  /\ client' = [client EXCEPT ![p].state = "answered"]
  /\ channel' = [channel EXCEPT ![p] = Append(@, Login(ack[p]))]
  /\ UNCHANGED <<serverVars, task, proxies, ack, missed, counters>>

(* run_client ends: every proxy is stopped.  The reconnect loop of main    *)
(* starts a new Client, which knows nothing.                               *)
Leave(p) ==
  /\ client' = [client EXCEPT ![p] = Gone]
  /\ channel' = [channel EXCEPT ![p] = <<>>]
  /\ \E h \in sync_tunnels(p, {}, proxies[p]) :
       proxies' = [proxies EXCEPT ![p] = h]
  /\ UNCHANGED <<serverVars, task, ack, missed, counters>>

Disconnect(p) == Connected(p) /\ Leave(p)

Arriving(p) == channel[p] # <<>> /\ Connected(p)

(* handle_message before the login is acknowledged: anything else is an    *)
(* error.                                                                  *)
EarlyPush(p) ==
  /\ Arriving(p)
  /\ client[p].state # "ready"
  /\ ~ Head(channel[p]).is_login
  /\ Leave(p)

(* Mutant: proxies are brought up to date only for a new tunnel.           *)
BecomeLazy(p, list) ==
  /\ client' = [client EXCEPT ![p] = [state |-> "ready", tunnels |-> list]]
  /\ \E h \in sync_tunnels(p, list, proxies[p]) :
       proxies' = IF {t.id : t \in list} = {t.id : t \in client[p].tunnels}
                    THEN proxies ELSE [proxies EXCEPT ![p] = h]

Become(p, list) ==
  /\ client' = [client EXCEPT ![p] = [state |-> "ready", tunnels |-> list]]
  /\ \E h \in sync_tunnels(p, list, proxies[p]) :
       proxies' = [proxies EXCEPT ![p] = h]

RecvLoginAck(p) ==
  /\ Arriving(p)
  /\ client[p].state # "ready"
  /\ Head(channel[p]).is_login
  /\ Become(p, Head(channel[p]).tunnels)
  /\ channel' = [channel EXCEPT ![p] = Tail(@)]
  /\ UNCHANGED <<serverVars, task, ack, missed, counters>>

Modified(list, n) ==
  LET others == {t \in list : t.id # n.tunnel.id}
  IN  IF n.is_delete THEN others ELSE others \cup {n.tunnel}

(* on_server_client_modify_tunnel_ntf: a deletion returns before the sync. *)
OnModifyTunnelNtf(p) ==
  LET n == Head(channel[p])
      list == Modified(client[p].tunnels, n)
  IN  /\ Arriving(p)
      /\ client[p].state = "ready"
      /\ IF n.is_delete
           THEN /\ client' = [client EXCEPT ![p].tunnels = list]
                /\ UNCHANGED proxies
           ELSE Become(p, list)
      /\ channel' = [channel EXCEPT ![p] = Tail(@)]
      /\ UNCHANGED <<serverVars, task, ack, missed, counters>>

-----------------------------------------------------------------------------
(* The server stops where it stands, its clients lose their connection,    *)
(* and init_global loads the tunnels and starts their proxies.             *)
Restart ==
  /\ restarts < MaxRestarts
  /\ restarts' = restarts + 1
  /\ tunnels' = SetToSortSeq(db, LAMBDA s, t : s.id < t.id)
  /\ task' = [k \in Tasks |-> Idle]
  /\ \E h \in Started(db) :
       proxies' = [[x \in Hosts |-> NoProxies] EXCEPT ![Server] = h]
  /\ client' = [p \in Players |-> Gone]
  /\ channel' = [p \in Players |-> <<>>]
  /\ UNCHANGED <<db, nextId, ack, missed, requests, logins>>

-----------------------------------------------------------------------------
Request(k) ==
  \/ \E c \in Configs : AddTunnel(k, c)
  \/ \E id \in Ids : DeleteTunnel(k, id)
  \/ \E id \in Ids, c \in Configs : UpdateTunnel(k, id, c)

Progress(k) ==
  \/ DbInsert(k) \/ DbDelete(k) \/ Position(k) \/ RemoveTunnel(k)
  \/ DbUpdate(k) \/ OldSender(k) \/ OldReceiver(k)
  \/ Notify(k) \/ Store(k) \/ Sync(k)

Receive(p) == EarlyPush(p) \/ RecvLoginAck(p) \/ OnModifyTunnelNtf(p)

Next ==
  \/ \E k \in Tasks : Request(k) \/ Progress(k)
  \/ \E p \in Players : OnLoginRequest(p) \/ LoginAnswer(p) \/ Receive(p)
                        \/ Disconnect(p)
  \/ Restart

Spec == Init /\ [][Next]_vars

-----------------------------------------------------------------------------
(* Types and shapes of the lists, copies and messages.                     *)
TypeOK ==
  /\ db \subseteq Rows
  /\ nextId \in Nat
  /\ Listed \subseteq Rows
  /\ \A p \in Players : /\ client[p].tunnels \subseteq Rows
                        /\ client[p].state \in {"off","login","answered","ready"}
  /\ missed \subseteq Players

AtRest == \A k \in Tasks : At(k, "idle")
Settled(p) == client[p].state = "ready" /\ channel[p] = <<>>

(* The index delete_tunnel and update_tunnel looked up still leads to      *)
(* their tunnel when they use it (tunnel.rs:88, 132, 133, 146).            *)
IndexFresh ==
  \A k \in Tasks :
    \/ At(k, "idle")
    \/ task[k].index = 0
    \/ task[k].op = "delete" /\ ~ At(k, "remove")
    \/ At(k, "sync")
    \/ InRange(k) /\ tunnels[task[k].index].id = task[k].tunnel.id

(* When no request is being handled the list holds exactly the rows of the *)
(* table, with their contents: what the server does now is what it will do *)
(* after a restart.                                                        *)
ListMatchesDb == AtRest => Listed = db /\ Len(tunnels) = Cardinality(db)

(* When no request is being handled the list and the table have the same   *)
(* tunnels, each once, though perhaps not with the same contents: "更新通道" *)
(* and "删除通道" (tunnel.rs:99, 67) are about one tunnel.                 *)
SameIds ==
  AtRest => /\ {t.id : t \in Listed} = {t.id : t \in db}
            /\ \A i, j \in DOMAIN tunnels : tunnels[i].id = tunnels[j].id => i = j

(* Two tunnels of one receiver never listen on the same port               *)
(* ("检测端口是否冲突", tunnel.rs:208), also across updates, moves and a   *)
(* restart.                                                                *)
PortsDistinct ==
  \A s, t \in Listed : s.receiver = t.receiver /\ s.port = t.port => s.id = t.id

(* A client that has caught up knows exactly its own tunnels, as the       *)
(* server's list has them, whatever order its login, the notices and the   *)
(* restart came in; the one exception is a login that read the list after  *)
(* the notice of a change and before the change (tunnel.rs:56 before :60,  *)
(* :135 before :146).                                                      *)
CopiesAgree ==
  AtRest => \A p \in Players \ missed :
              Settled(p) => client[p].tunnels = Own(p, Listed)

(* Every enabled tunnel has its outlet and its inlet running, with the     *)
(* current description, at the server and at each client that has caught   *)
(* up: the syncs left nothing out.                                         *)
Runs(me, h) ==
  \A t \in Listed :
    /\ WantsOutlet(me, t) =>
         \E o \in h.outlets : o.description = outlet_description(t)
    /\ WantsInlet(me, t) /\ KnownKind(t) =>
         \E i \in h.inlets : i.description = inlet_description(t)
NeededRuns ==
  AtRest => /\ Runs(Server, proxies[Server])
            /\ \A p \in Players \ missed : Settled(p) => Runs(p, proxies[p])

(* The server's proxies are those of its tunnels and no others: a sync     *)
(* after every change, and the one at the start, leave nothing behind.     *)
ServerStops ==
  AtRest => /\ \A o \in proxies[Server].outlets : \E t \in Listed :
                 WantsOutlet(Server, t) /\ o.description = outlet_description(t)
            /\ \A i \in proxies[Server].inlets : \E t \in Listed :
                 WantsInlet(Server, t) /\ i.description = inlet_description(t)
=============================================================================
