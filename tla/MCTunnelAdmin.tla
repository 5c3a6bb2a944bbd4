---------------------------- MODULE MCTunnelAdmin ----------------------------
(***************************************************************************)
(* Instances of TunnelAdmin, ProxySync and Detection for TLC.  A behaviour *)
(* takes the steps of one instance, the one its "part" names; the others   *)
(* share no variable with it and stay as they began.                       *)
(***************************************************************************)
EXTENDS Integers, Sequences

VARIABLES
  part,
  db, nextId, tunnels, task, proxies, client, ack, channel, missed, requests,
  logins, restarts,
  list, outlets, inlets, bound, sync, changes,
  checked

admin == <<db, nextId, tunnels, task, proxies, client, ack, channel, missed,
           requests, logins, restarts>>
proxy == <<list, outlets, inlets, bound, sync, changes>>
vars == <<part, admin, proxy, checked>>

Config(sender, receiver, port) ==
  [enabled |-> TRUE, sender |-> sender, receiver |-> receiver, port |-> port,
   kind |-> 0]
Disabled(c) == [c EXCEPT !.enabled = FALSE]
OfKind(c, kind) == [c EXCEPT !.kind = kind]

(* One request at a time: client 7 and the server exchange the ends of a   *)
(* tunnel, change its port and switch it off, and the server restarts.     *)
SomeConfigs == {Config(7, 0, 1), Config(0, 7, 1), Config(0, 7, 2),
                Disabled(Config(7, 7, 1)), OfKind(Config(0, 0, 1), 3)}
One == INSTANCE TunnelAdmin WITH
  Players <- {7}, Tasks <- {"t1"}, Configs <- SomeConfigs, Initial <- <<>>,
  Ops <- {"add", "delete", "update"}, MaxRequests <- 3, MaxLogins <- 2,
  MaxRestarts <- 1

(* One request at a time: a tunnel moves between two clients.              *)
Moves == INSTANCE TunnelAdmin WITH
  Players <- {7, 8}, Tasks <- {"t1"},
  Configs <- {Config(0, 7, 1), Config(7, 8, 1), Config(8, 7, 1)},
  Initial <- <<Config(0, 7, 1)>>, Ops <- {"add", "delete", "update"},
  MaxRequests <- 2, MaxLogins <- 3, MaxRestarts <- 0

(* Requests that overlap, but none deletes.                                *)
TwoTunnels == <<Config(0, 7, 1), Config(7, 0, 2)>>
Grow == INSTANCE TunnelAdmin WITH
  Players <- {7}, Tasks <- {"t1", "t2"},
  Configs <- {TwoTunnels[1], TwoTunnels[2], Config(0, 7, 3), Config(7, 0, 1)},
  Initial <- TwoTunnels, Ops <- {"add", "update"}, MaxRequests <- 3,
  MaxLogins <- 0, MaxRestarts <- 0

(* Syncs that overlap, while tunnels of the server with itself, which need *)
(* an outlet and an inlet, exchange their ports.                           *)
Local(id, port) ==
  [id |-> id, enabled |-> TRUE, sender |-> 0, receiver |-> 0, port |-> port,
   kind |-> 0]
Remote(id, port) == [Local(id, port) EXCEPT !.sender = 7]
Proxy == INSTANCE ProxySync WITH
  Tasks <- {"k1", "k2", "k3"},
  Lists <- {{}, {Local(1, 1)}, {Local(1, 2), Remote(2, 1)},
            {Remote(1, 1), OfKind(Local(2, 2), 3)}},
  MaxChanges <- 4, task <- sync

Detect == INSTANCE Detection WITH
  Receivers <- {0, 1}, Ports <- {1, 2}, MaxTunnels <- 3, tunnels <- checked

ASSUME One!ConstantsOK /\ Moves!ConstantsOK /\ Grow!ConstantsOK
       /\ Proxy!ConstantsOK /\ Detect!ConstantsOK

-----------------------------------------------------------------------------
Init ==
  /\ \/ part \in {"one", "proxy", "detect"} /\ One!Init
     \/ part = "moves" /\ Moves!Init
     \/ part = "grow" /\ Grow!Init
  /\ Proxy!Init
  /\ Detect!Init

Next ==
  \/ /\ \/ part = "one" /\ One!Next
        \/ part = "moves" /\ Moves!Next
        \/ part = "grow" /\ Grow!Next
     /\ UNCHANGED <<part, proxy, checked>>
  \/ part = "proxy" /\ Proxy!Next /\ UNCHANGED <<part, admin, checked>>
  \/ part = "detect" /\ Detect!Next /\ UNCHANGED <<part, admin, proxy>>

Spec == Init /\ [][Next]_vars

-----------------------------------------------------------------------------
(* Types of the lists, copies and messages (TunnelAdmin).                  *)
TypeOK == part = "one" => One!TypeOK

(* Between requests the list holds exactly the rows of the table, with     *)
(* their contents, whatever was added, updated, deleted or restarted one   *)
(* request at a time; requests that overlap but delete nothing leave both  *)
(* with the same tunnels, each once, and write to the index they looked up *)
(* (add_tunnel, delete_tunnel, update_tunnel).                             *)
ListMatchesDb ==
  /\ part = "one" => One!ListMatchesDb
  /\ part = "grow" => Grow!SameIds /\ Grow!IndexFresh

(* A client that has caught up knows exactly its own tunnels, whatever     *)
(* order its login, the notices and a restart came in.                     *)
CopiesAgree ==
  (part = "one" => One!CopiesAgree) /\ (part = "moves" => Moves!CopiesAgree)

(* Every enabled tunnel has its outlet and its inlet running, with the     *)
(* current description, and the server runs no others (sync_tunnels of     *)
(* server and client).                                                     *)
NeededRuns ==
  /\ part = "one" => One!NeededRuns /\ One!ServerStops
  /\ part = "moves" => Moves!NeededRuns

(* Two tunnels of one receiver never have one IPv4 port, and a receiver    *)
(* has one IPv6 source at most (tunnel_detection); nor do updates, moves   *)
(* and a restart bring two tunnels to one port.                            *)
NoSharedPort == Detect!NoSharedPort /\ (part = "one" => One!PortsDistinct)

(* Syncs that overlap stop and start proxies beside each other, with locks *)
(* held while they wait (ProxyManager::sync_tunnels): a listening port     *)
(* belongs to one inlet, no set of syncs waits for itself, and when the    *)
(* last is done the proxies are those of the list.                         *)
Converged == Proxy!OnePortOneInlet /\ Proxy!NotStuck /\ Proxy!Converged
=============================================================================
