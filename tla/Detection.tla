----------------------------- MODULE Detection -----------------------------
(***************************************************************************)
(* What a tunnel is tested for before it is stored, tunnel.rs              *)
(* tunnel_detection with the helpers of utils/str.rs: the form of its two  *)
(* addresses and that no other tunnel of the receiver listens on its port. *)
(* An address is a record [form, port]; the form stands for the text: a    *)
(* socket address of IPv4 "1.2.3.4:80" or of IPv6 "[::1]:80", a name with  *)
(* a port "a.b:80", or anything else.  Requests come one at a time here;   *)
(* TunnelAdmin has them interleave.                                        *)
(***************************************************************************)
EXTENDS Integers, FiniteSets

CONSTANTS
  Receivers,  \* players, 0 for the server
  Ports,      \* positive numbers
  MaxTunnels  \* bound: tunnels

ConstantsOK ==
  /\ Receivers \subseteq Nat
  /\ Ports \subseteq 1 .. 65535
  /\ MaxTunnels \in Nat

Forms == {"v4", "v6", "name", "other"}
Addresses == [form : Forms, port : Ports]
Requests == [receiver : Receivers, source : Addresses, endpoint : [form : Forms, port : {80}]]
NoPort == 0

VARIABLE
  tunnels   \* the records stored: requests with an id

vars == tunnels

Init == tunnels = {}

-----------------------------------------------------------------------------
is_valid_tunnel_source_address(a) == a.form \in {"v4", "v6"}
is_valid_tunnel_endpoint_address(a) == a.form \in {"v4", "v6", "name"}

(* The text is split at its colons, and has a port if that makes two.      *)
Parts(a) == CASE a.form \in {"v4", "name"} -> 2 [] a.form = "v6" -> 4 [] OTHER -> 1
get_tunnel_address_port(a) == IF Parts(a) = 2 THEN a.port ELSE NoPort

(* Mutant: only the tunnels that came later are looked at.                 *)
port_conflict_detectionLater(receiver, port, id) ==
  \E x \in tunnels : /\ x.req.receiver = receiver
                     /\ x.id > id
                     /\ get_tunnel_address_port(x.req.source) = port

port_conflict_detection(receiver, port, id) ==
  \E x \in tunnels : /\ x.req.receiver = receiver
                     /\ x.id # id
                     /\ get_tunnel_address_port(x.req.source) = port

(* Whether a request for tunnel id is accepted, 0 for one to be added.     *)
tunnel_detection(id, req) ==
  /\ is_valid_tunnel_source_address(req.source)
  /\ is_valid_tunnel_endpoint_address(req.endpoint)
  /\ ~ port_conflict_detection(req.receiver, get_tunnel_address_port(req.source), id)

Ids == 1 .. MaxTunnels

(* add_tunnel, update_tunnel and delete_tunnel; a request that is refused  *)
(* changes nothing.                                                        *)
Add(req) ==
  /\ tunnel_detection(0, req)
  /\ \E i \in Ids : /\ \A x \in tunnels : x.id # i
                    /\ tunnels' = tunnels \cup {[id |-> i, req |-> req]}

Update(old, req) ==
  /\ tunnel_detection(old.id, req)
  /\ tunnels' = (tunnels \ {old}) \cup {[id |-> old.id, req |-> req]}

Delete(old) == tunnels' = tunnels \ {old}

Next ==
  \/ \E req \in Requests : Add(req) \/ \E old \in tunnels : Update(old, req)
  \/ \E old \in tunnels : Delete(old)

Spec == Init /\ [][Next]_vars

-----------------------------------------------------------------------------
(* "检测端口是否冲突" (tunnel.rs:208): whatever is added, changed and      *)
(* deleted, two tunnels of one receiver that listen at IPv4 addresses      *)
(* never have the same port.  Of IPv6 sources, whose text has no port at   *)
(* the second colon, a receiver has one at most.                           *)
NoSharedPort ==
  \A x, y \in tunnels :
    /\ x.id # y.id
    /\ x.req.receiver = y.req.receiver
    /\ x.req.source.form = y.req.source.form
    => x.req.source.form = "v4" /\ x.req.source.port # y.req.source.port
=============================================================================
