------------------------------- MODULE Proxies -------------------------------
(***************************************************************************)
(* The inlets and outlets of one host.  The server and every client run    *)
(* the same sync_tunnels against their list of tunnels: it stops what the  *)
(* list no longer asks for and starts what is missing.  Here it is one     *)
(* operator, which is how a client runs it: nothing else touches its       *)
(* proxies meanwhile.  ProxySync has the server's, whose steps interleave. *)
(*                                                                         *)
(* A tunnel is a record [id, enabled, sender, receiver, port, kind]: the   *)
(* outlet is on the host of the sender, the inlet listens on port at the   *)
(* host of the receiver.  The server is player 0.  Every other field that  *)
(* inlet_description prints behaves as the port does here.                 *)
(***************************************************************************)
EXTENDS Integers

Tunnel(id, c) ==
  [id |-> id, enabled |-> c.enabled, sender |-> c.sender,
   receiver |-> c.receiver, port |-> c.port, kind |-> c.kind]

Concerns(t, p) == t.sender = p \/ t.receiver = p

(* InletProxyType::from_u32.                                               *)
KnownKind(t) == t.kind \in 0..2

outlet_description(t) == <<t.id, t.sender, t.enabled>>
inlet_description(t) ==
  <<t.id, t.port, t.sender, t.receiver, t.kind, t.enabled>>

(* What Outlet::new and Inlet::start are given.  The closures they call    *)
(* with a message to send know the other player as it was at that moment.  *)
NewOutlet(t) ==
  [id |-> t.id, description |-> outlet_description(t), to |-> t.receiver]
NewInlet(t) ==
  [id |-> t.id, description |-> inlet_description(t), to |-> t.sender,
   port |-> t.port]

NoProxies == [outlets |-> {}, inlets |-> {}]

WantsOutlet(me, t) == t.enabled /\ t.sender = me
WantsInlet(me, t) == t.enabled /\ t.receiver = me

RetainOutlet(me, list, o) ==
  \E t \in list : /\ t.id = o.id
                  /\ WantsOutlet(me, t)
                  /\ outlet_description(t) = o.description
RetainInlet(me, list, i) ==
  \E t \in list : /\ t.id = i.id
                  /\ WantsInlet(me, t)
                  /\ inlet_description(t) = i.description

Lacks(proxies, t) == \A x \in proxies : x.id # t.id

RemoveOutlets(me, list, h) ==
  [h EXCEPT !.outlets = {o \in @ : RetainOutlet(me, list, o)}]

RemoveInlets(me, list, h) ==
  [h EXCEPT !.inlets = {i \in @ : RetainInlet(me, list, i)}]

AddOutlets(me, list, h) ==
  [h EXCEPT !.outlets = @ \cup
     {NewOutlet(t) : t \in {u \in list : WantsOutlet(me, u) /\ Lacks(@, u)}}]

(* Inlets are started one after the other, in the order of a hash map; one *)
(* whose port is taken fails and is left out.  The result is any set that  *)
(* can come of it.                                                         *)
AddInlets(me, list, h) ==
  LET missing == {t \in list : /\ WantsInlet(me, t)
                               /\ Lacks(h.inlets, t)
                               /\ KnownKind(t)}
      Taken(p) == \E i \in h.inlets : i.port = p
      free == {t \in missing : ~ Taken(t.port)}
      Started(S) == \A t \in free : \E u \in S :
                      u.port = t.port /\ \A v \in S : v.port = t.port => v = u
  IN  {[h EXCEPT !.inlets = @ \cup {NewInlet(t) : t \in S}] :
         S \in {R \in SUBSET free : Started(R)}}

sync_tunnels(me, list, h) ==
  LET trimmed == RemoveInlets(me, list, RemoveOutlets(me, list, h))
  IN  AddInlets(me, list, AddOutlets(me, list, trimmed))
=============================================================================
